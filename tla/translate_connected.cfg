SPECIFICATION FairSpec
CONSTANTS
    Proxies = {p, q}
    Transcribers = {t}
    Sources = {a}
    Languages = {en, es}
    DevLanguages = {en}
    Spellings = {iso}
    FlushMaxEvents = 2
    MaxUnits = 2
PROPERTIES
    TranscribersTornDown
CHECK_DEADLOCK FALSE
