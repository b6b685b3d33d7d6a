SPECIFICATION FairSpec
CONSTANTS
  NumBlocks = 2
  NumExperts = 2
  ExpertCounts <- Counts
  TasksPerExpert = 4
  RouteTasks = 4
  RouteTileM = 2
  MtileM = 1
  NumInterChunks = 2
  NumHiddenChunks = 2
  L1Schedule = "ExpertChunkMajor"
  WindowMtiles = 1
  L2Schedule = "ExpertHiddenMajor"
  GroupSubtiles = 2
INVARIANT TypeOK
INVARIANT WaitsForClaimedTile
INVARIANT StoredOnExit
PROPERTY ImplementsDataflow
PROPERTY Terminates
