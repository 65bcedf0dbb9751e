SPECIFICATION Spec
CONSTANTS
    boot = boot
    seq = seq
    Nil = Nil
    Node = {boot, seq}
    Bootstrap = {boot}
    Leader <- MCLeader
    WindowLen = 3
    MaxAvail = 8
    Synchronous = TRUE
    Crashing = {seq}
    MaxStarts = 2
    MaxFailures = 0
INVARIANT
    NoLostBlock
