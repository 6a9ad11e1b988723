SPECIFICATION FairSpec
CONSTANTS
    Proxies = {p, q}
    Transcribers = {t}
    Sources = {a}
    Languages = {en, es}
    DevLanguages = {en}
    Spellings = {iso}
    FlushMaxEvents = 2
    MaxUnits = 2
INVARIANTS
    Registered
    Accounted
    DrainedAtExit
PROPERTIES
    ShutdownEnds
CHECK_DEADLOCK FALSE
