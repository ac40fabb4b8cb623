CONSTANTS
    p1 = p1
    p2 = p2
    Proc = {p1, p2}
    Nobody = Nobody
    Rounding = 0
    MaxCreates = 2
    MaxCrashes = 2
SPECIFICATION FairSpec
INVARIANTS
    MutualExclusion
    TrimVisible
PROPERTY StaleReleased
CHECK_DEADLOCK FALSE
