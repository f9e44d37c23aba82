SPECIFICATION Spec
CONSTANTS
    Symbol <- MCSymbol
    MaxCount = 3
    BlockSymbols = 4
    SymbolLength = 16
    Mag = 2
INVARIANTS
    PrefixFree
    CodebookMatchesTable
    HuffmanOptimal
    ClosestSplit
    BurstHoldsBlock
