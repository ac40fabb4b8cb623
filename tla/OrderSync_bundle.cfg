CONSTANTS
    o1 = o1
    i1 = i1
    i2 = i2
    c1 = c1
    live1 = live1
    back1 = back1
    Order = {o1}
    Item = {i1, i2}
    Whole = Whole
    Comps <- OneBundle
    Live = {live1}
    Backfill = {back1}
    ZidHeld = {}
    Faults = {"crash", "read", "relay", "refuse", "link"}
    MaxFaults = 2
    MaxAttempts = 2
SPECIFICATION FairSpec
PROPERTY EveryRowEnds
CHECK_DEADLOCK FALSE
