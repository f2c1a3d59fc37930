SPECIFICATION FairSpec
CONSTANTS
  Kind <- SmallKind
  Above <- SmallAbove
  Parent <- SmallParent
  Root = "root"
  MkdirMode = "lax"
  Chunk <- TwoChunks
  Attempts = 2
  MaxFaults = 1
  RsyncStanding = {"absent", "open", "stale"}
INVARIANTS
  IInv
  NilMeansBuilt
  ListReleased
PROPERTIES
  Undamaged
  CancelReturns
  Converges
