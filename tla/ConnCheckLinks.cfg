CONSTANTS
    Transmissions = 2
    IdleTicks = 2
    Scenarios <- MCLate
SPECIFICATION Spec
INVARIANTS LinksResolve
CHECK_DEADLOCK FALSE
