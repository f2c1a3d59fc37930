SPECIFICATION Spec
CONSTANTS
  Default <- SmallDefault
  Values <- SmallValues
  Unset = "unset"
  MaxFaults = 3
INVARIANTS
  IInv
  CopiesOnPins
  SettingsArrive
  OnlyStuckLeft
  SandboxLeavesNothing
  HostUntouched
