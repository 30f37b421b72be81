SPECIFICATION Spec
CONSTANTS
    Callers = {1, 2}
    Kinds = {"bun", "python", "go"}
    Snapshots = TRUE
    MaxLaunches = 2
    MaxPrompts = 2
    MaxCells = 1
    MaxOps = 3
    MaxDrain = 2
    InboxCap = 1
INVARIANTS NoSilentEnd SoftMeansOver ToldAfterOutput RestIsOver
PROPERTIES SlotSpec
CHECK_DEADLOCK FALSE
