CONSTANTS
    o1 = o1
    i1 = i1
    i2 = i2
    c1 = c1
    live1 = live1
    back1 = back1
    Order = {o1}
    Item = {i1, i2}
    Whole = Whole
    Comps <- Products
    Live = {live1}
    Backfill = {back1}
    ZidHeld = {o1}
    Faults = {"crash", "lost", "cap", "read", "post", "refuse", "status", "rekey", "catalog"}
    MaxFaults = 2
    MaxAttempts = 2
SPECIFICATION FairSpec
INVARIANTS
    Accounted
    OnlyOurOrder
PROPERTY CrashesHeal
CHECK_DEADLOCK FALSE
