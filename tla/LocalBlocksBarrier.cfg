SPECIFICATION FairSpec
CONSTANTS
  Blocks = {b1, b2, b3, b4}
  SenseValues = 2
  MaxPhases = 3
INVARIANT TypeOK
PROPERTY ImplementsPhase
PROPERTY AbortsBlamePeer
PROPERTY NoHang
