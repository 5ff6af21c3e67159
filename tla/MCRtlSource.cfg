SPECIFICATION MCFairSpec
CONSTANTS
    N = 6
    BlockSizes = {2, 4, 8}
    ReadSizes = {2, 10}
    MaxDelivered = 20
CHECK_DEADLOCK FALSE
INVARIANTS
    HoldsNewestBytes
    PairsStayTogether
    ReleasedAfterCapture
PROPERTIES
    ImplementsQueue
    WaitEnds
    StopReturns
