SPECIFICATION Spec
CONSTANTS
    Datas <- MCDatas
    Errors <- MCErrors
    WeakBits <- MCWeakBits
CHECK_DEADLOCK FALSE
INVARIANTS
    CorrectedIsABlock
