SPECIFICATION Spec
CONSTANTS
  NumRanks = 2
  IntHalf = 16
  MaxTokens = 9
  TileM = 9
  CapacitySlack = 1
  Plans <- SwitchPlans
  Inputs <- SwitchInputs
INVARIANTS
  LaunchStateIntact
