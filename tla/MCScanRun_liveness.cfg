SPECIFICATION FairSpec
CONSTANTS
    r = r
    a = a
    b = b
    Task = {r, a}
    Root = r
    Batches <- FeedBatches
    Worker = {w1}
    Copy = {c1}
    NoCopy = NoCopy
    MaxDeliveries = 2
    Pauses = FALSE
    MaxFaults = 2
PROPERTIES
    RunSettles
    MessagesDrain
CHECK_DEADLOCK FALSE
