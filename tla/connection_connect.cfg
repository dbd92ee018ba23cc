\* $connect against one more event, with every kind of failure once; one
\* invocation per container, as on Lambda. The system may stop: a connection's life ends.
SPECIFICATION Spec
CONSTANTS
    Instances = {i1, i2}
    Tasks = {k1, k2}
    None = none
    PerInstance = 1
    HookModes = {TRUE, FALSE}
    ForeignModes = {TRUE, FALSE}
    AppRooms = {"chat"}
    Faults = {"row", "staleQuery", "get", "close", "lostBye", "slowConnect", "crash"}
    MaxFaults = 1
    MaxStarts = 2
    MaxMemberships = 2
SYMMETRY TaskSymmetry
INVARIANTS TypeOK GhostsExplained NothingBeforeVerdict
PROPERTIES AcceptedWhole
CHECK_DEADLOCK FALSE
