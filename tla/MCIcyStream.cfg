SPECIFICATION Spec
CONSTANTS
    ICY_METAINT = 16384
    Capacity = 32768
    Formats <- MCFormats
    Radiotexts <- MCRadiotexts
INVARIANTS
    PlayerInSync
PROPERTIES
    TitleArrives
