SPECIFICATION FairSpec
CONSTANTS
    MailboxSlots = 1
    QueueLength = 1
    Values <- MCValues
    MaxValue = 2
    DefaultValue = 1
    Environments <- MCDevMem
    Inputs = {3}
    AckTimeout <- MCAckTimeout
    Period = 1
    RcTimeout = 0
    MaxInputs = 1
    MaxLosses = 0
PROPERTIES
    ConfigReaches
