SPECIFICATION Spec
CONSTANTS
    p1 = p1
    p2 = p2
    Reader = {u1, u2}
    Provider = {p1, p2}
    Chapter <- TwoNumbers
    Event <- Overlapping
    Consumer = {k1, k2}
    MaxDeliveries = 2
    MaxActs = 1
    MaxFaults = 1
    None = None
SYMMETRY Symmetry
INVARIANTS
    TypeOK
    ToldOnce
    RowSumsUp
    LossNeedsFault
    RescansNeverRealert
    SettledMeansClaimed
CHECK_DEADLOCK FALSE
