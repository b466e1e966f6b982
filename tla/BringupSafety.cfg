CONSTANTS
    Frames <- MCFrames
    Pids <- MCPids
    Configs <- MCHotConfigs
    FrameBudget = 1
    RcLost = 2
    EscDelay = 2
    ProbePeriod = 2
    ReportPeriod = 20
    CalTarget = 1
    RxJitter = 1
    MaxPoll = 1
    PollPeriod = 2
    MaxTick = 8
    MaxStarts = 1
    MaxEmergencies <- MCNoEmergencies
    MaxConfigs = 1
SPECIFICATION Spec
INVARIANTS
    TypeOK
    StopsInTime
    SpinGuard
    GainsInRange
    NoTopSaturation
