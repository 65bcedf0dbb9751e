SPECIFICATION FairSpec
CONSTANTS
    Thread = {writer, slasher, closer}
    Waits = {writer, slasher}
    MaxSends = 2
    MaxFaults = 2
INVARIANTS NoGap GapsBounded
PROPERTIES Returns
