SPECIFICATION FairSpec
CONSTANTS
    p1 = p1
    p2 = p2
    Sorted <- Two
    Late = {p2}
    Limit = 2
    FullTierEvery = 2
    MaxDepth = 1
    MaxFaults = 1
INVARIANTS
    TypeOK
    OneTaskPerProvider
    BoundedWaiting
    FullTierNotStarved
PROPERTIES
    ProviderServed
    ShutdownDrains
CHECK_DEADLOCK FALSE
