SPECIFICATION Spec
CONSTANTS
  MaxRows = 5
  MaxChunks = 3
  MaxGroup = 3
INVARIANT L1Bijective
INVARIANT PullCoversL1
INVARIANT TilesCoverRows
INVARIANT GroupsPartition
