SPECIFICATION FairSpec
CONSTANTS
  NumEntries = 3
  TaskSize = 2
  ChunkSize = 2
  Attempts = 2
INVARIANTS
  IInv
  ChunksPartition
  NilErrorMeansCopied
  ResultsAddUp
PROPERTIES
  ImplementsFanOut
  EventuallyReturns
