CONSTANTS
    A = A
    B = B
    Scenarios <- MCRepeated
    MssLevels <- MCMss
    SeqSpace = 64
    XmitLimit = 2
    XmitLimitOther = 2
    MaxSegments = 4
SPECIFICATION Spec
INVARIANT FinInSequence
CHECK_DEADLOCK FALSE
