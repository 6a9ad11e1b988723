SPECIFICATION Spec
CONSTANTS
    Providers = {"openai", "gemini", "deepgram", "xai", "xai_granular", "aws", "dummy"}
    Words = {"yes", "no."}
    SentenceEnds = {"no."}
    GuardWords = 1
    MinWords = 2
    Repeats = FALSE
    MaxWords = 4
    MaxChunks = 3
INVARIANTS
    ClosedAfterOpen
CHECK_DEADLOCK FALSE
