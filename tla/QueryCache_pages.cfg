SPECIFICATION CacheFairSpec
CONSTANTS
    Keys = {k1}
    Calls = {c1, c2}
    None = None
INVARIANTS OwnWritesShown
PROPERTIES NoStepBack OwnWritesArrive OthersArrive
CHECK_DEADLOCK FALSE
