SPECIFICATION FairSpec
CONSTANTS
    t1 = t1
    t2 = t2
    Tabs = {t1, t2}
    Socketed = {t1}
    Uses <- OneOfEach
    MaxPairs = 2
    MaxAttempts = 1
    MaxFaults = 1
    MaxTimers = 1
PROPERTIES SignedOutForCause RequestsSettle SocketReturns
