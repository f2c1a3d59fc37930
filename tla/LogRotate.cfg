SPECIFICATION Spec
CONSTANTS
  Midnights <- AtOne
  MaxAsk = 3
  MaxClock = 4
  MaxFaults = 2
  Files <- FileIds
  Nobody = Nobody
  Unlinked = Unlinked
  Unused = Unused
INVARIANTS
  IInv
  HupKeepsLogs
  LogAtItsName
