CONSTANTS
    a1 = a1
    a2 = a2
    a3 = a3
    a4 = a4
    b1 = b1
    b2 = b2
    c1 = c1
    A = A
    B = B
    C = C
    Req <- MCReq
    Block <- MCBlock
    BlockOf <- MCBlockOf
    Atomic = {a2}
    Ways = 2
    MshrEntries = 2
    MaxMerged = 2
    MissQueueSize = 3
    PortCycles = 2
    DramLatency = 2
SPECIFICATION Spec
INVARIANTS
    FillsAreAwaited
    OnePlace
    CapacitiesHold
