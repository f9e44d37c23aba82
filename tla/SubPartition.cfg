CONSTANTS
    r1 = r1
    r2 = r2
    a1 = a1
    t1 = t1
    w1 = w1
    w2 = w2
    c1 = c1
    A = A
    B = B
    NoBlock = NoBlock
    Packet <- MCPacket
    Block <- MCBlock
    BlockOf <- MCBlockOf
    First <- MCFirst
    Size <- MCSize
    After <- MCAfter
    Writes = {w1, w2}
    Whole = {w2}
    Atomic = {a1}
    Copies = {c1}
    Texture = {t1}
    Ways = 1
    MshrEntries = 2
    MaxMerged = 2
    MissQueueSize = 2
    IcntL2Size = 4
    L2DramSize = 2
    DramL2Size = 1
    L2IcntSize = 1
SPECIFICATION FairSpec
INVARIANTS
    BusyIsExact
    HitIsComplete
    DirtyDataIsKept
    FillFindsReservation
    CopyFindsLine
    PushesHaveRoom
PROPERTY EveryRequestAnswered
