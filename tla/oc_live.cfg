SPECIFICATION FairSpec
CONSTANTS
    Formats = {"opus", "l16"}
    InputFormats = {"opus"}
    Profiles <- SocketProviders
    MaxRecoveries = 1
    MaxBackends = 5
    MaxStarts = 0
    MaxReattaches = 1
    MaxFrames = 3
PROPERTIES
    AudioProceeds
CHECK_DEADLOCK FALSE
