SPECIFICATION FairSpec
CONSTANTS
    Divisor = 4
    BlockGasTarget = 21
    GenesisLimits <- MCGenesisLimits
INVARIANT Accepted
PROPERTY ReachesTarget
