SPECIFICATION Spec
CONSTANTS
    boot = boot
    seq = seq
    Nil = Nil
    Node = {boot, seq}
    Bootstrap = {boot}
    Leader <- MCLeader
    WindowLen = 2
    MaxAvail = 4
    Synchronous = FALSE
    Crashing = {boot, seq}
    MaxStarts = 2
    MaxFailures = 1
INVARIANTS
    TurnIsCurrent
    Published
