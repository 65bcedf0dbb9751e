SPECIFICATION FairSpec
CONSTANTS
    boot = boot
    seq = seq
    Nil = Nil
    Node = {boot, seq}
    Bootstrap = {boot}
    Leader <- MCLeader
    WindowLen = 3
    MaxAvail = 9
    Synchronous = TRUE
    Crashing = {}
    MaxStarts = 1
    MaxFailures = 0
INVARIANTS
    Agreement
    NoLostBlock
    CoherentLeader
PROPERTY
    Converges
