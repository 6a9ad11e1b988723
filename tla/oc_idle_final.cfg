SPECIFICATION FairSpec
CONSTANTS
    Formats = {"opus", "l16"}
    InputFormats = {"opus"}
    Profiles <- SocketProviders
    MaxRecoveries = 1
    MaxBackends = 5
    MaxStarts = 0
    MaxReattaches = 0
    MaxFrames = 3
INVARIANTS
    PendingIsTimed
CHECK_DEADLOCK FALSE
