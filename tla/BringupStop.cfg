CONSTANTS
    Frames <- MCOneThrottle
    Pids <- MCOnePid
    Configs <- MCNoConfigs
    FrameBudget = 1
    RcLost = 1
    EscDelay = 1
    ProbePeriod = 1
    ReportPeriod = 20
    CalTarget = 1
    RxJitter = 0
    MaxPoll = 1
    PollPeriod = 1
    MaxTick = 3
    MaxStarts = 2
    MaxEmergencies <- MCEmergencies
    MaxConfigs = 0
SPECIFICATION FairSpec
INVARIANTS
    EmergencyStopsInTime
    StopOutlastsSlot
    RearmNeedsLow
PROPERTIES
    EmergencyObeyed
    LossObeyed
