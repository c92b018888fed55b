SPECIFICATION FairSpec
CONSTANTS
    p1 = p1
    p2 = p2
    Planner = {p1, p2}
    Interval = 1
    MaxCooldown = 1
    Window = 2
    StaleAfter = 2
    MaxRuns = 2
    MaxFaults = 1
    None = None
INVARIANTS
    TypeOK
    InFlightBounded
PROPERTIES
    ProviderRescanned
CHECK_DEADLOCK FALSE
