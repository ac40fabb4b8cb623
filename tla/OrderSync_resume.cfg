CONSTANTS
    o1 = o1
    i1 = i1
    i2 = i2
    c1 = c1
    live1 = live1
    back1 = back1
    Order = {o1}
    Item = {i1, i2}
    Whole = Whole
    Comps <- Products
    Live = {}
    Backfill = {back1}
    ZidHeld = {}
    Faults = {"crash"}
    MaxFaults = 1
    MaxAttempts = 2
SPECIFICATION Spec
INVARIANT PastAccounted
CHECK_DEADLOCK FALSE
