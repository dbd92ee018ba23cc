\* Frames, kicks, 410s and the $disconnect of an accepted connection, on two
\* containers that each serve two invocations at a time. No symmetry: liveness.
\* The system may stop: a connection's life ends.
SPECIFICATION FairSpec
CONSTANTS
    Instances = {i1, i2}
    Tasks = {k1, k2}
    None = none
    PerInstance = 2
    HookModes = {TRUE, FALSE}
    ForeignModes = {TRUE}
    AppRooms = {"chat"}
    Faults = {"get", "lostBye", "close"}
    MaxFaults = 1
    MaxStarts = 3
    MaxMemberships = 0
INVARIANTS GhostsExplained FarewellSaid NoOrphanStreams AnnouncedOnce
PROPERTIES Answered
CHECK_DEADLOCK FALSE
