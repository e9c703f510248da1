SPECIFICATION FairSpec
CONSTANTS
    Users = {u1, u2}
    Sessions = {s1, s2}
    None = None
    Callers <- FreshCallers
    Amounts = {2}
    SetValues = {1}
    Caps = {2, 3}
    DailyAllowance = 1
    InitialBalance = 1
    MaxOps = 2
    MaxDay = 1
INVARIANTS BalanceIsLedger DailyOnce CapRespected
PROPERTIES ImplementsAtomicLedger SessionsEnd
CHECK_DEADLOCK FALSE
