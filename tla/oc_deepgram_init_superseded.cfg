SPECIFICATION Spec
CONSTANTS
    Formats = {"opus", "l16"}
    InputFormats = {"opus", "l16"}
    Profiles <- DeepgramOpus
    MaxRecoveries = 2
    MaxBackends = 4
    MaxStarts = 2
    MaxReattaches = 0
    MaxFrames = 1
INVARIANTS
    NeverClosedForNothing
CHECK_DEADLOCK FALSE
