SPECIFICATION Spec
CONSTANTS
    Formats = {"opus", "l16"}
    InputFormats = {"opus", "l16"}
    Profiles <- AWS
    MaxRecoveries = 2
    MaxBackends = 2
    MaxStarts = 1
    MaxReattaches = 0
    MaxFrames = 1
INVARIANTS
    EarlyAudioKept
CHECK_DEADLOCK FALSE
