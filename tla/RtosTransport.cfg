CONSTANTS
    Cmds = {"emergency", "config"}
    kQueueDepth = 3
    MaxDrops = 4
    MaxVersion <- MCMaxVersion
    MaxCrashes = 1
SPECIFICATION TransportSpec
INVARIANTS
    TransportTypeOK
    NoStaleIndex
    Settled
    TornOnlyByOverlap
    StopEndsPoll
PROPERTIES
    RingIsFifo
