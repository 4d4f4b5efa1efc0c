SPECIFICATION FairSpec
CONSTANTS
  Settings <- MCSettings
  RfcSize = 7
  RcvBuf = 4
  RecvSize = 4
INVARIANTS
  Accounted
PROPERTIES
  NobodyWaitsInVain
CHECK_DEADLOCK FALSE
