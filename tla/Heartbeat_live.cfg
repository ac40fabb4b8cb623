SPECIFICATION Spec
CONSTANTS
    h1 = h1
    h2 = h2
    Host = {h1, h2}
    BeatEvery = 1
    StaleAfter = 4
    BatchTicks = 2
    HbMaxFaults = 0
INVARIANT NeverBothClaim
CHECK_DEADLOCK FALSE
