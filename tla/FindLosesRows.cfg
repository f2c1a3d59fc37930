SPECIFICATION Spec
CONSTANTS
  NumRows = 3
  PipeRows = 2
  ChanRows = 1
INVARIANTS
  NilMeansAllStreamed
