SPECIFICATION Spec
CONSTANTS
    SessionIds = {a}
    NoId = none
    MaxConns = 3
    MaxDrift = 2
    ResumeEnabled = TRUE
    Overlap = TRUE
    LateMedia = FALSE
    GraceErrors = {1, 2, 3}
    Sigterm = FALSE
INVARIANTS
    \* with NoOrphan in its place: a stale close detaches a session its client still uses
    NewestServed
CHECK_DEADLOCK FALSE
