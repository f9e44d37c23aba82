CONSTANTS
    s1 = s1
    s2 = s2
    s3 = s3
    s4 = s4
    Symbol <- MCSymbol
    CheckingSize = 4
    FinalSize = 2
    MaxCount = 2
    CorePeriod = 3
    DramPeriod = 4
    SamplingDuration = 2
    UpdateInterval = 3
    RebuildDelay = 2
    FifoCapacity = 2
    UpdatesPerCycle = 1
    SymbolsPerRequest = 2
    SnapshotSize = 1
SYMMETRY Symmetry
SPECIFICATION Spec
INVARIANT EveryBoundaryRebuilds
