SPECIFICATION FairSpec
CONSTANTS
    r = r
    a = a
    b = b
    Task = {r}
    Root = r
    Batches <- EmptyBatches
    Worker = {w1}
    Copy = {c1}
    NoCopy = NoCopy
    MaxDeliveries = 2
    Pauses = FALSE
    MaxFaults = 1
PROPERTY
    EveryRunSettles
CHECK_DEADLOCK FALSE
