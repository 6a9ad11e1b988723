SPECIFICATION Spec
CONSTANTS
    Formats = {"opus", "l16"}
    InputFormats = {"opus"}
    Profiles <- XAI
    MaxRecoveries = 1
    MaxBackends = 2
    MaxStarts = 0
    MaxReattaches = 0
    MaxFrames = 3
INVARIANTS
    NothingRefused
CHECK_DEADLOCK FALSE
