SPECIFICATION Spec
CONSTANTS
    SessionIds = {a}
    NoId = none
    MaxConns = 2
    MaxDrift = 2
    ResumeEnabled = TRUE
    Overlap = FALSE
    LateMedia = FALSE
    GraceErrors = {1, 2}
    Sigterm = FALSE
PROPERTIES
    NoneComesBack
CHECK_DEADLOCK FALSE
