SPECIFICATION FairSpec
CONSTANTS
    w1 = w1
    w2 = w2
    Names = {a, b}
    Plans <- TwoPlans
    Workers = {w1, w2}
    Requests = {r1}
    Modes <- AllModes
    MaxEntries = 2
    MaxServers = 3
INVARIANTS FateIsTrue StartedIsCharged
PROPERTIES EntriesSettle
CHECK_DEADLOCK FALSE
