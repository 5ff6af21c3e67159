SPECIFICATION MCSpec
CONSTANTS
    IqTaps = 4
    IqFactor = 2
    MpxTaps = 4
    AudioFactor = 2
    BlockSamples = 6
    SettlingSamples = 8
    ReportInterval = 5
    MaxBlocks = 8
INVARIANTS
    WindowsAreNewest
    AudioIsWhole
    ResultIsOfThisReception
    ReportIsCurrent
CHECK_DEADLOCK FALSE
