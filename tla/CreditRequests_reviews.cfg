SPECIFICATION FairSpec
CONSTANTS
    r1 = r1
    r2 = r2
    r3 = r3
    u1 = u1
    u2 = u2
    Requests = {r1, r2, r3}
    Users = {u1, u2}
    Owner <- OwnerOf
    AutoSized = {r1}
    Allowances = {r3}
    Sessions = {s1, s2}
    None = None
    Cooldown = 1
    Modes <- AllModes
INVARIANTS OneOpenPerUser ApprovedWasPaid PaidOnce RejectedPaysNothing
PROPERTIES NeverReopened ReviewsEnd
CHECK_DEADLOCK FALSE
