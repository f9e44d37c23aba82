CONSTANTS
    s1 = s1
    s2 = s2
    s3 = s3
    s4 = s4
    Symbol <- MCSymbol
    CheckingSize = 4
    FinalSize = 2
    MaxCount = 2
    CorePeriod = 3
    DramPeriod = 2
    SamplingDuration = 4
    UpdateInterval = 4
    RebuildDelay = 2
    FifoCapacity = 2
    UpdatesPerCycle = 1
    SymbolsPerRequest = 2
    SnapshotSize = 1
SPECIFICATION FairSpec
INVARIANTS
    TypeOK
    FifoBounded
    EnabledHasInterval
    SnapshotShowsCodebook
    EveryBoundaryRebuilds
    CodesFromPositiveCounts
    TableBelowThreshold
    ZeroIsOutranked
PROPERTIES
    TableFrozenDuringRebuild
    RebuildCompletes
