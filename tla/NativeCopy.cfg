SPECIFICATION FairSpec
CONSTANTS
  MaxWrites = 2
  MaxEdits = 1
  MaxFaults = 2
  MaxCrashes = 1
  DstAtStart <- AnyDst
  Absent = Absent
INVARIANTS
  IInv
  UptodateIsSame
  RenamedIsWhole
PROPERTIES
  Converges
