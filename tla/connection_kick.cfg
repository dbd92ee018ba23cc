\* A kick on one container, and the $disconnect on another that has the client
\* in its cache.
SPECIFICATION Spec
CONSTANTS
    Instances = {i1, i2}
    Tasks = {k1, k2}
    None = none
    PerInstance = 1
    HookModes = {TRUE}
    ForeignModes = {TRUE}
    AppRooms = {}
    Faults = {}
    MaxFaults = 0
    MaxStarts = 3
    MaxMemberships = 0
PROPERTIES KickIsFinal
CHECK_DEADLOCK FALSE
