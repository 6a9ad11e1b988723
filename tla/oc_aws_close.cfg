SPECIFICATION Spec
CONSTANTS
    Formats = {"opus", "l16"}
    InputFormats = {"opus"}
    Profiles <- AWS
    MaxRecoveries = 2
    MaxBackends = 3
    MaxStarts = 0
    MaxReattaches = 0
    MaxFrames = 2
INVARIANTS
    \* with GaugeExact in its place: the gauge counts the connects still in progress
    NoLeak
CHECK_DEADLOCK FALSE
