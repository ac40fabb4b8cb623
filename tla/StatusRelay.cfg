CONSTANTS
    o1 = o1
    received = received
    shipped = shipped
    NoStage = NoStage
    Order = {o1}
    Stage <- MCStage
    Ladder = 1
    MaxAttempts = 4
    StaleStage = FALSE
    MaxRows = 2
    MaxFaults = 1
    MaxRequeues = 1
SPECIFICATION FairSpec
INVARIANTS
    NothingBehind
    StageKept
PROPERTIES
    LedgerForward
    Catches
    EveryRowEnds
CHECK_DEADLOCK FALSE
