SPECIFICATION FairSpec
CONSTANTS
    InitialTimeouts <- MCInitialTimeouts
    MaxRetransmissions <- MCMaxRetransmissions
    TickSteps <- MCTickSteps
    StartTimes <- MCStartTimes
INVARIANTS
    NeverTimesOutEarly
    RetransmissionsPaced
    WaitsFollowSchedule
PROPERTY
    EventuallyTimesOut
CHECK_DEADLOCK TRUE
