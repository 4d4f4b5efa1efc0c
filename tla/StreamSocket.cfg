CONSTANTS
    Scenarios <- MCSettings
    SendBuf = 2
    RingMin = 3
    StunUnits = 3
    MaxRaw = 2
SPECIFICATION FairSpec
INVARIANTS OctetsKept SocketsAgree
PROPERTIES DataMoves
CHECK_DEADLOCK FALSE
