SPECIFICATION Spec
CONSTANTS
    p1 = p1
    p2 = p2
    Reader = {u1}
    Provider = {p1}
    Chapter <- TwoNumbers
    Event <- Single
    Consumer = {k1}
    MaxDeliveries = 4
    MaxActs = 0
    MaxFaults = 1
    None = None
INVARIANT
    NothingLost
CHECK_DEADLOCK FALSE
