SPECIFICATION Spec
CONSTANTS
    Uris = {"sessions"}
    MaxAsks = 4
    MaxChanges = 2
    MaxSaves = 1
INVARIANTS AnswerInTimeKeeps LastChangeIsTold
PROPERTIES IdleIsIdle ClientsEnd
CHECK_DEADLOCK FALSE
