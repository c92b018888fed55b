SPECIFICATION Spec
CONSTANTS
    r = r
    a = a
    b = b
    Task = {r, a, b}
    Root = r
    Batches <- PageBatches
    Worker = {w1, w2}
    Copy = {c1, c2}
    NoCopy = NoCopy
    MaxDeliveries = 2
    Pauses = FALSE
    MaxFaults = 0
PROPERTY
    NeverFinishesEarly
CHECK_DEADLOCK FALSE
