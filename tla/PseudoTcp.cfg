CONSTANTS
    A = A
    B = B
    Scenarios <- MCScenarios
    MssLevels <- MCMss
    SeqSpace = 64
    XmitLimit = 2
    XmitLimitOther = 2
    MaxSegments = 4
SPECIFICATION FairSpec
INVARIANTS AssertionsHold StreamIntegrity CloseMeansDelivered BooksAgree
PROPERTY NeverStalls
CHECK_DEADLOCK FALSE
