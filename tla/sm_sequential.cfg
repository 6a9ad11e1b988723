SPECIFICATION FairSpec
CONSTANTS
    SessionIds = {a, b}
    NoId = none
    MaxConns = 4
    MaxDrift = 4
    ResumeEnabled = TRUE
    Overlap = FALSE
    LateMedia = FALSE
    GraceErrors = {2}
    Sigterm = FALSE
INVARIANTS
    SessionsReachable
PROPERTIES
    LifecycleHolds
    AbandonedEnds
CHECK_DEADLOCK FALSE
