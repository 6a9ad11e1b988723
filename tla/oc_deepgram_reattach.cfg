SPECIFICATION Spec
CONSTANTS
    Formats = {"opus", "l16"}
    InputFormats = {"opus", "l16"}
    Profiles <- DeepgramOpus
    MaxRecoveries = 2
    MaxBackends = 4
    MaxStarts = 2
    MaxReattaches = 1
    MaxFrames = 3
INVARIANTS
    NothingRefused
CHECK_DEADLOCK FALSE
