SPECIFICATION FairSpec
CONSTANTS
    Contents <- MCContents
    InitHeight = 2
    MaxHeight = 4
    MaxFaults = 2
    MaxDrops = 2
INVARIANTS InOrder OnlyCatchUpSkips
PROPERTIES EventuallyDelivered SyncEndsUnlessFault
