SPECIFICATION MCSpec
CONSTANTS
  NumRanks = 2
  NumSMs = 2
  FinishTag = 8
  Launches = 2
  NumExperts = 1
  ExpertsPerWave = 1
  BlockM = 2
  L1BlockNs = 2
  L2BlockNs = 2
  MaxReceived = 2
  Inputs <- TwoLaunches
INVARIANTS MegaScheduled ReadsSeeThisLaunch
PROPERTIES ImplementsPhase LaunchesComplete
\* A role that the cleaning overtakes stops its launch (Overtaken).
CHECK_DEADLOCK FALSE
