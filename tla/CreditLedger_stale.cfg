SPECIFICATION Spec
CONSTANTS
    Users = {u1}
    Sessions = {s1, s2}
    None = None
    Callers <- AllCallers
    Amounts = {2}
    SetValues = {1}
    Caps = {2, 3}
    DailyAllowance = 1
    InitialBalance = 1
    MaxOps = 2
    MaxDay = 1

INVARIANTS BalanceIsLedger
CHECK_DEADLOCK FALSE
