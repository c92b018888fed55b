SPECIFICATION Spec
CONSTANTS
    r = r
    a = a
    b = b
    Task = {r, a}
    Root = r
    Batches <- FeedBatches
    Worker = {w1, w2}
    Copy = {c1, c2}
    NoCopy = NoCopy
    MaxDeliveries = 2
    Pauses = FALSE
    MaxFaults = 2
SYMMETRY Symmetry
INVARIANTS
    TypeOK
    CountersMatchRows
    TotalMatchesRows
    OneTerminalEvent
PROPERTIES
    SettledIsFinal
    CompletesSettled
    CancelStopsCounting
    ImplementsLedger
CHECK_DEADLOCK FALSE
