SPECIFICATION FairSpec
CONSTANTS
    FrameDuration = 1
    GapThreshold = 2
    TicksPerMs = 2
    SeqModulus = 2
    Configs <- SomeConfigs
    FrameSizes = {2}
    MaxTime = 7
    MaxLate = 1
    MaxFrames = 3
    MaxFragments = 2
INVARIANTS
    StreamSound
    TimerCoversPlayout
    TranscriptKept
PROPERTIES
    NotBehind
    TalkEnds
CHECK_DEADLOCK FALSE
