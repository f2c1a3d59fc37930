SPECIFICATION Spec
CONSTANTS
  Pids = {a, b}
  Inodes = {i, j, k}
  None = None
  Pidfd = TRUE
INVARIANTS
  OneDaemon
