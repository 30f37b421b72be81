SPECIFICATION Spec
CONSTANTS
    Sessions = {s1, s2}
    PidMax = 12
    LOWEST_WRAPPED_PID = 2
    SESSION_PID_FLOOR = 3
    PID_ADVANCE_BUDGET = 4
    Own = 2
    Jumps = {1, 7}
    TreeSize = 2
    MaxServers = 3
    MaxMoves = 1
    MaxWork = 1
    MaxTroubles = 1
INVARIANTS RestoresFindTheirs WorkComesBack
SYMMETRY SessionSymmetry
CHECK_DEADLOCK FALSE
