CONSTANTS
    r1 = r1
    r2 = r2
    a1 = a1
    t1 = t1
    w1 = w1
    w2 = w2
    c1 = c1
    A = A
    B = B
    NoBlock = NoBlock
    Packet <- RacePacket
    Block <- MCBlock
    BlockOf <- RaceBlockOf
    First <- RaceFirst
    Size <- RaceSize
    After <- RaceAfter
    Writes = {w1}
    Whole = {}
    Atomic = {}
    Copies = {}
    Texture = {t1}
    Ways = 1
    MshrEntries = 2
    MaxMerged = 2
    MissQueueSize = 2
    IcntL2Size = 4
    L2DramSize = 1
    DramL2Size = 1
    L2IcntSize = 1
SPECIFICATION Spec
INVARIANT FillFindsReservation
