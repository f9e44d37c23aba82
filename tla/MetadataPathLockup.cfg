CONSTANTS
    a1 = a1
    a2 = a2
    a3 = a3
    a4 = a4
    b1 = b1
    b2 = b2
    c1 = c1
    A = A
    B = B
    C = C
    Req <- MergeReq
    Block <- MCBlock
    BlockOf <- MergeBlockOf
    Atomic = {}
    Ways = 1
    MshrEntries = 2
    MaxMerged = 3
    MissQueueSize = 3
    PortCycles = 1
    DramLatency = 0
SPECIFICATION FairSpec
PROPERTIES
    EveryReadAnswered
