SPECIFICATION Spec
CONSTANTS
    SessionIds = {a}
    NoId = none
    MaxConns = 2
    MaxDrift = 3
    ResumeEnabled = TRUE
    Overlap = FALSE
    LateMedia = FALSE
    GraceErrors = {1, 2}
    Sigterm = FALSE
INVARIANTS
    ParticipantsCounted
CHECK_DEADLOCK FALSE
