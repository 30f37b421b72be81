SPECIFICATION InstallSpec
CONSTANTS
    Procs = {p1, p2}
    Versions = {"old", "new"}
    Current = "new"
    None = None
    MaxCommands = 1
    MaxTroubles = 2
    SaveBound = 1
INVARIANTS TargetIsWhole
PROPERTIES InstallEnds
CHECK_DEADLOCK FALSE
