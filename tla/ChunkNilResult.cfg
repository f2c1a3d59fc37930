SPECIFICATION Spec
CONSTANTS
  NumEntries = 2
  TaskSize = 1
  ChunkSize = 1
  Attempts = 1
INVARIANTS
  ResultPresent
