SPECIFICATION FairSpec
CONSTANTS
    Nil = Nil
    MaxNumber = 2
    MaxOthers = 1
    MaxFaults = 1
INVARIANTS  SnapshotComplete
 
