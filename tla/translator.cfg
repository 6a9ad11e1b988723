SPECIFICATION FairSpec
CONSTANTS
    MaxPendingFrames = 2
    MaxPendingAudio = 3
    MaxConcealment = 2
    Undecodable = {2}
    MaxChunk = 6
    MaxEvents = 5
INVARIANTS
    AudioAccounted
PROPERTIES
    RelayHolds
    ClosedIsQuiet
    QueuesDrain
CHECK_DEADLOCK FALSE
