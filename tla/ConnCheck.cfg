CONSTANTS
    Transmissions = 2
    IdleTicks = 2
    Scenarios <- MCScenarios
SPECIFICATION FairSpec
INVARIANTS AssertionsHold WorkIsScheduled Agreement
PROPERTIES TieBreakerDecides ComponentsTogether LiveReady
CHECK_DEADLOCK FALSE
