SPECIFICATION FairSpec
CONSTANTS
  NumRanks = 2
  IntHalf = 16
  MaxTokens = 2
  TileM = 2
  CapacitySlack = 1
  Plans <- SmallPlans
  Inputs <- SmallInputs
INVARIANTS
  TypeOK
  EveryRouteHasARow
  UniformAgrees
  LaunchStateIntact
PROPERTIES
  ImplementsPhase
  FreshUnlessDropped
  CallsReturn
