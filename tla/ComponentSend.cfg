SPECIFICATION Spec
CONSTANTS
  None = None
  MaxSavedIds = 2
  Components <- MCComponents
  ConsentDelays <- MCConsentDelays
  Ta = 1
  MinConsent = 2
  Tr = 5
  ConsentTimeout = 9
  KeepaliveTimeout = 10
  MaxInFlight = 1
  Count = 4
  SendBuf = 3
  RefillSize = 2
  MaxFrame = 2
  Pairs <- MCPairs
  Settings <- MCSettings
INVARIANTS
  ConsentIsMaintained
  KeepalivePaced
  WakeIsDue
  WriteInOrder
PROPERTIES
  LostStaysLost
  RevocationTakesEffect
  WritesEnd
CHECK_DEADLOCK FALSE
