SPECIFICATION FairSpec
CONSTANTS
  NumRows = 5
  PipeRows = 2
  Walkers = {v, w}
  Paths = {a, b, c}
  NoPath = NoPath
  ChanRows = 1
INVARIANTS
  IInv
  FetchedIsSent
  BadScanReported
PROPERTIES
  ScanReturns
