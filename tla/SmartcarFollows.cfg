SPECIFICATION FairSpec

CONSTANTS
    REASSERT = 2
    Lives = {0, 3}

INVARIANTS
    ReportIsWrongOnlyIfLost
    ReassertsInTime
    RejectedTokenNotReused

PROPERTIES
    CarFollows
