SPECIFICATION FairSpec
CONSTANTS
    Sessions = {s1, s2}
    Modes <- AllModes
INVARIANTS FairPrice RecordedIsPaid
PROPERTIES DepletedStops
