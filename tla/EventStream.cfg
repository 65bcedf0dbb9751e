SPECIFICATION FairSpec
CONSTANTS
    Writer = {w1, w2}
    Client = {c1, c2}
    Nil = Nil
    Cap = 2
    MaxWrites = 6
    MaxLeave = 1
INVARIANT NoEventLost
PROPERTY WriteReturnsUnlessLeft
CHECK_DEADLOCK FALSE
