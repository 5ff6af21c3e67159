SPECIFICATION MCRunSpec
CONSTANTS
    Clients = {c1, c2}
    Settings = {music, news}
    FrequencyOf <- MCFrequencyOf
    MaxChunks = 2
    NoSettings = NoSettings
    NoFrequency = 0
    Nobody = Nobody
    MaxSessions = 2
    MaxTime = 2
    music = music
    news = news
CHECK_DEADLOCK FALSE
INVARIANTS
    InUseIsHeld
    ExitReleasesAll
PROPERTIES
    SignalStops
