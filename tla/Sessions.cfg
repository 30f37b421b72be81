CONSTANTS
    Asks = {"submit", "reset", "interrupt", "close"}
    LineDelays = {TRUE, FALSE}
    Budgeted = TRUE
    MaxExecs = 2
    MaxRuntimes = 2
    MaxAsks = 3
    Troubles = {"exit", "fault", "restart"}
    MaxTroubles = 1
    MaxSaves = 1
SPECIFICATION Spec
INVARIANTS SingleFlightFifo ClosedStaysClosed ToldIsOnDisk HostsAreOwned
PROPERTIES QuarantineIsFinal ExecsEnd
CHECK_DEADLOCK FALSE
