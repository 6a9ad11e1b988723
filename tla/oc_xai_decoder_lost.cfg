SPECIFICATION Spec
CONSTANTS
    Formats = {"opus", "l16"}
    InputFormats = {"opus", "l16"}
    Profiles <- XAI
    MaxRecoveries = 2
    MaxBackends = 4
    MaxStarts = 1
    MaxReattaches = 0
    MaxFrames = 1
INVARIANTS
    DecoderArrives
CHECK_DEADLOCK FALSE
