SPECIFICATION FairSpec
CONSTANTS
    Rows <- TwoRows
    PageSize = 1
    MaxCalls = 2
    MaxOpens = 2
INVARIANTS SubmittedOnce FailuresTold DraftSurvivesFailure
PROPERTIES ControlsReleased BulkHitsShown
CHECK_DEADLOCK FALSE
