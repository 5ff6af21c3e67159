SPECIFICATION BitsSpec
CONSTANTS
    Datas <- MCDatas
    Errors <- MCErrors
    WeakBits <- MCWeakBits
    HistoryLength = 6
    MaxFaults = 3
INVARIANTS
    ErrorsAreNoticed
    BurstIsRepaired
    BitsAreAsSent
PROPERTY ClockComesRight
CHECK_DEADLOCK FALSE
