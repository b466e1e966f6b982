CONSTANTS
    ArmRequests <- MCArmRequests
    Samples <- MCArmingSample
    RingCap = 1
    RxLink = 1
    ReceiverTimeout = 2
    SetpointTimeout = 3
    HeartbeatTimeout = 3
    ControlStep = 2
    LoopPeriod = 1
    MaxCycle = 1
    MaxTick = 4
    MaxPublish <- MCCommandPublish
    MaxRestarts = 0
    MaxPwmFaults = 0
SPECIFICATION FairSpec
INVARIANTS
    EmergencyStopsInTime
    ConsumedConfigApplied
PROPERTY ConfigTakesEffect
