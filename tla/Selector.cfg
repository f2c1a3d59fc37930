SPECIFICATION FairSpec
CONSTANTS
  NumRows = 4
  WorkerSizes <- NoneOrTwo
  NodeSelector = 1
  Nodes <- TwoNodes
  Malformed = Malformed
  Unreadable = Unreadable
INVARIANTS
  IInv
  RowsHandledInOrder
  FailuresCollected
PROPERTIES
  ImplementsFanOut
  CancelStops
  EventuallyReturns
