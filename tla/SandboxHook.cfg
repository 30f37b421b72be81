CONSTANTS
  Expiry = 2
  MaxSaves = 3
  MaxRequests = 4
  MaxSigterms = 2
  MaxHolding = 1
SPECIFICATION Spec
INVARIANTS NoFileOpenWhileSaved
PROPERTIES SavedRunsOn HeldStopEnds
CHECK_DEADLOCK FALSE
