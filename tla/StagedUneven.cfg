SPECIFICATION Spec
CONSTANTS
  NumRanks = 2
  IntHalf = 16
  MaxTokens = 4
  TileM = 2
  CapacitySlack = 1
  Plans <- UnevenPlans
  Inputs <- UnevenInputs
INVARIANTS
  EveryRouteHasARow
