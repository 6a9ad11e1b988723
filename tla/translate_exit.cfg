SPECIFICATION Spec
CONSTANTS
    Proxies = {p, q}
    Transcribers = {}
    Sources = {a}
    Languages = {en, es}
    DevLanguages = {en}
    Spellings = {iso}
    FlushMaxEvents = 2
    MaxUnits = 2
INVARIANTS
    NothingBehind
CHECK_DEADLOCK FALSE
