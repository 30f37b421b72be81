CONSTANTS
    MaxTime = 2
    MaxExecs = 2
    MaxStarts = 1
    MaxMessages = 1
    MaxHarms = 1
SPECIFICATION Spec
CHECK_DEADLOCK FALSE
INVARIANTS StoresTakeAll
PROPERTIES EndedIsFinal
