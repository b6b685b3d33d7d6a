SPECIFICATION FairSpec
CONSTANTS
  Ranks = {r1, r2, r3}
  MayQuit = {r3}
  MaxPhases = 2
INVARIANT TypeOK
PROPERTY ImplementsPhase
PROPERTY AbortsBlamePeer
PROPERTY NoHang
