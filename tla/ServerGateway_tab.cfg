SPECIFICATION GatewayFairSpec
CONSTANTS
    MaxChanges = 3
    MaxVisits = 3
INVARIANTS AutoOnce RedirectingIsWorking AskedWithReason
PROPERTIES PendingIsFollowed
CHECK_DEADLOCK FALSE
