CONSTANTS
    r1 = r1
    r2 = r2
    r3 = r3
    w1 = w1
    o1 = o1
    A = A
    B = B
    C = C
    NoReq = NoReq
    Req <- MixReq
    SubOf <- MixSubOf
    BlockOf <- MixBlockOf
    Block <- MCBlock
    CompressibleR <- MixReads
    WriteBackR = {w1}
    Atomic = {}
    EarlyWriteBack = FALSE
    NSub = 2
    SharedLimit = 1
    L2QueueSize = 1
    QueueSize = 3
    DramQueueSize = 1
    ReturnQueueSize = 1
    Units = 1
    Ways = 1
    MshrEntries = 1
    MaxMerged = 2
    MissQueueSize = 2
    PortCycles = 1
SPECIFICATION Spec
INVARIANTS
    TypeOK
    OnePlace
    RestoredOnReturn
    DramSeesData
    QueuesHaveRoom
    StatisticsHaveInterval
PROPERTIES
    CreditsRefined
