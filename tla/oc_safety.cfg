SPECIFICATION Spec
CONSTANTS
    Formats = {"opus", "l16"}
    InputFormats = {"opus", "l16"}
    Profiles <- AllProviders
    MaxRecoveries = 2
    MaxBackends = 4
    MaxStarts = 2
    MaxReattaches = 0
    MaxFrames = 4
INVARIANTS
    FreshDecoder
    FormatsAgree
    AudioInOrder
    RecoverySafe
    BackendsAccounted
    NothingStuck
PROPERTIES
    ClosedIsFinal
CHECK_DEADLOCK FALSE
