SPECIFICATION Spec
CONSTANTS
    SessionIds = {a}
    NoId = none
    MaxConns = 3
    MaxDrift = 4
    ResumeEnabled = TRUE
    Overlap = TRUE
    LateMedia = TRUE
    GraceErrors = {1, 2, 3}
    Sigterm = TRUE
INVARIANTS
    GaugesExact
    TrackedOnce
CHECK_DEADLOCK FALSE
