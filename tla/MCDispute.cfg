CONSTANTS
    evil = evil
    honest = honest
    wt = wt
    other = other
    Nil = Nil
    Sequencer = {evil, honest}
    Tower = {wt}
    WindowLen = 3
    Leader <- MCLeader
    Primable = {evil}
    Mistaken = {}
    WithTxs = TRUE
    FineEvicts = TRUE
    Synchronous = TRUE
    MaxAvail = 10
    MaxLag = 1
    LastTick = 5
    MaxBuilt = 2
    MaxPrimes = 1
    MaxFailures = 1
SPECIFICATION FairSpec
INVARIANTS FraudProofUnwritten FairFine SingleFine SlashFollowsBegin
PROPERTIES Resumes Recovers
