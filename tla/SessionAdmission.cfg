CONSTANTS
    Actors = {a, b}
    Flaky = {a}
    Nobody = nobody
    Asks = {"create", "submit", "recover", "reset", "attach", "detach", "release", "interrupt", "close"}
    MaxSessions = 1
    Old = 2
    LateKills = FALSE
    MaxIds = 2
    MaxAsks = 2
    MaxRestarts = 1
    MaxFaults = 1
SPECIFICATION Spec
INVARIANTS NeverOverbooked 
PROPERTIES LeasesAreKept ShutdownEnds
CHECK_DEADLOCK FALSE
