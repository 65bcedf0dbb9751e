SPECIFICATION FairSpec
CONSTANTS
    Nil = Nil
    Genesis <- GenesisBlock
    Block <- Blocks
    MaxCrashes = 1
INVARIANTS
    DifficultyChain
    NoNilHeader
    NoEmptySlice
    HeaviestHead
    ForksCoverTips
    DiesLoadable
    ReceiptsComplete
PROPERTIES
    WriteEnds
    ImplementsChainStore
