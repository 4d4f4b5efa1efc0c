SPECIFICATION Spec
CONSTANTS
    RcvBuf = 6
    MaxPos = 9
    MaxLen = 4
    Stream <- MCStream
    Starts <- MCStarts
    Lengths <- MCLengths
    ReadSizes = {1, 3}
    Mss = 4
INVARIANTS BufferHoldsStream WindowFits
PROPERTIES NeverForgets ImplementsByteStream
