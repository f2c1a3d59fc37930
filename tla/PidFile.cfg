SPECIFICATION FairSpec
CONSTANTS
  Pids = {a, b}
  Inodes = {i, j, k}
  None = None
  Pidfd = TRUE
INVARIANTS
  IInv
  FileNamesDaemon
  OnlyDaemonsSignalled
PROPERTIES
  RemovesOwnFile
  StopEnds
