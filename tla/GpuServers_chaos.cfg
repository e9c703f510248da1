SPECIFICATION Spec
CONSTANTS
    Servers = {v1, v2}
    PoolSize = 2
    Plans = {1, 2}
    Sessions = {s1, s2}
    None = None
    Ops <- AllOps
    Serial = FALSE
    Faults = {"lookup", "delete", "spawn", "cleanup"}
    CrashPossible = TRUE
    MaxOps = 3
SYMMETRY Interchangeable
INVARIANTS ReservedOnce
CHECK_DEADLOCK FALSE
