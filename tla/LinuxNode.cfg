SPECIFICATION Spec
CONSTANTS
    MailboxSlots = 1
    QueueLength = 1
    Values <- MCValues
    MaxValue = 2
    DefaultValue = 1
    Environments <- MCEnvironments
    Inputs = {3}
    AckTimeout <- MCAckTimeout
    Period = 1
    RcTimeout = 0
    MaxInputs = 2
    MaxLosses = 1
INVARIANTS
    TypeOK
    StopNeverReadAsClear
    AckMeansApplied
    StopPublishedInTime
