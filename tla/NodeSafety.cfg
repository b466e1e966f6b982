CONSTANTS
    ArmRequests <- MCArmRequests
    Samples <- MCSamples
    RingCap = 1
    RxLink = 1
    ReceiverTimeout = 2
    SetpointTimeout = 3
    HeartbeatTimeout = 3
    ControlStep = 2
    LoopPeriod = 1
    MaxCycle = 1
    MaxTick = 8
    MaxPublish <- MCSafetyPublish
    MaxRestarts = 1
    MaxPwmFaults = 1
SPECIFICATION Spec
INVARIANTS
    TypeOK
    DriveStopsInTime
    StopRetried
    RcOwnsSetpoint
    AliveNeedsLink
PROPERTY
    ArmChangesByPilot
