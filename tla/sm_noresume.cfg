SPECIFICATION Spec
CONSTANTS
    SessionIds = {a}
    NoId = none
    MaxConns = 3
    MaxDrift = 4
    ResumeEnabled = FALSE
    Overlap = TRUE
    LateMedia = TRUE
    GraceErrors = {1, 2, 3}
    Sigterm = FALSE
INVARIANTS
    EndedIsEmpty
    TrackedAlive
CHECK_DEADLOCK FALSE
