SPECIFICATION MCFairSpec
CONSTANTS
    Clients = {c1, c2}
    Settings = {music, musicMono, news}
    FrequencyOf <- MCFrequencyOf
    MaxChunks = 2
    NoSettings = NoSettings
    NoFrequency = 0
    MaxSessions = 2
    MaxTime = 3
    LivePeers = {c1}
    music = music
    musicMono = musicMono
    news = news
CHECK_DEADLOCK FALSE
PROPERTIES
    ImplementsBroadcast
    LiveRemovedStreamsEnd
    LiveDueIsDelivered
