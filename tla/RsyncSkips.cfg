SPECIFICATION Spec
CONSTANTS
  Kind <- SmallKind
  Above <- SmallAbove
  Parent <- SmallParent
  Root = "root"
  MkdirMode = "lax"
  Chunk <- TwoChunks
  Attempts = 2
  MaxFaults = 0
  RsyncStanding = {"absent"}
INVARIANT ToleratesConcurrency
