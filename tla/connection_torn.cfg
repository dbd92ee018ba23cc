\* A join() and a leave() of one room by two frames, then $disconnect.
SPECIFICATION Spec
CONSTANTS
    Instances = {i1, i2}
    Tasks = {k1, k2}
    None = none
    PerInstance = 1
    HookModes = {TRUE}
    ForeignModes = {TRUE}
    AppRooms = {"chat"}
    Faults = {}
    MaxFaults = 0
    MaxStarts = 4
    MaxMemberships = 0
SYMMETRY TaskSymmetry
INVARIANTS RemoveClears
CHECK_DEADLOCK FALSE
