SPECIFICATION FairSpec
CONSTANTS
  NumRanks = 2
  NumBlocks = 2
  MaxTokens = 2
  MaxLaunches = 2
  Inputs <- SomeInputs
INVARIANT TypeOK
INVARIANT ReadsSeeThisLaunch
INVARIANT RowsAreRoutes
INVARIANT StaleOnlyInFlight
PROPERTY LaunchesComplete
