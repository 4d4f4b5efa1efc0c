SPECIFICATION FairSpec
CONSTANTS
    Streams = {1, 2}
    Transmissions = 2
    MaxTurnServers = 1
    None = None
    Scenarios <- MCScenarios
INVARIANTS DiscoveryDriven RelaysAreRefreshed
PROPERTIES EndsAreReached
CHECK_DEADLOCK FALSE
