CONSTANTS
    Frames <- MCTwoThrottles
    Pids <- MCOnePid
    Configs <- MCNoConfigs
    FrameBudget = 1
    RcLost = 2
    EscDelay = 1
    ProbePeriod = 2
    ReportPeriod = 20
    CalTarget = 1
    RxJitter = 1
    MaxPoll = 1
    PollPeriod = 2
    MaxTick = 10
    MaxStarts = 0
    MaxEmergencies <- MCNoEmergencies
    MaxConfigs = 0
SPECIFICATION Spec
INVARIANT RearmNeedsLow
