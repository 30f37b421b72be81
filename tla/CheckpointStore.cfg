CONSTANTS
  None = None
  Unreadable = Unreadable
  NotLive = NotLive
  MaxExecs = 2
  MaxFaults = 2
  MaxCrashes = 2
  MaxHarms = 2
SPECIFICATION Spec
INVARIANTS ToldIsKept
PROPERTIES BackWhole
CHECK_DEADLOCK FALSE
