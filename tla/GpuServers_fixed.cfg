SPECIFICATION Spec
CONSTANTS
    Servers = {v1, v2}
    PoolSize = 2
    Plans = {0, 1, 2}
    Sessions = {s1, s2}
    None = None
    Ops <- FixedPlanOps
    Serial = TRUE
    Faults = {"lookup", "delete"}
    CrashPossible = FALSE
    MaxOps = 5
SYMMETRY Interchangeable
INVARIANTS Exclusive
PROPERTIES ImplementsPool StopIsReal
CHECK_DEADLOCK FALSE
