CONSTANTS
    o1 = o1
    received = received
    shipped = shipped
    NoStage = NoStage
    Order = {o1}
    Stage <- MCStage
    Ladder = 1
    MaxAttempts = 4
    StaleStage = TRUE
    MaxRows = 2
    MaxFaults = 0
    MaxRequeues = 0
SPECIFICATION FairSpec
INVARIANTS
    StageKept
CHECK_DEADLOCK FALSE
