SPECIFICATION MCSpec
CONSTANTS
    Clients = {c1, c2, c3}
    Settings = {music, musicMono, news}
    FrequencyOf <- MCFrequencyOf
    MaxChunks = 2
    NoSettings = NoSettings
    NoFrequency = 0
    MaxSessions = 2
    MaxTime = 3
    LivePeers = {}
    music = music
    musicMono = musicMono
    news = news
SYMMETRY ClientSymmetry
CHECK_DEADLOCK FALSE
INVARIANTS
    NoDanglingCursor
    GapFreeCursor
    HeadIsNeeded
    ActiveWhilePlayed
    HeardAsAskedFor
PROPERTIES
    DropOnlyLaggards
