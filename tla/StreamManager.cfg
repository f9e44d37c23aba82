CONSTANTS
    e1 = e1
    NoEvent = NoEvent
    MaxStreams = 2
    Event = {e1}
    Uses <- MCUses
    MaxOps = 3
    MaxConcurrentKernel = 2
    LaunchLatency = 1
    CanHitMax = TRUE
SPECIFICATION FairSpec
INVARIANTS
    TypeOK
    KernelsAreMapped
    EventIsDone
PROPERTIES
    OrderRefined
    SynchronizeMeansIdle
    InitOnIdle
    ComesToRest
