CONSTANTS
    o1 = o1
    Order = {o1}
    MaxAttempts = 2
    MaxRows = 3
    MaxFaults = 1
    MaxDays = 1
SPECIFICATION FairSpec
INVARIANTS NothingBehind
PROPERTIES NoSecondEnqueue RowsLive
    EveryRowEnds
    HeldSettles
CHECK_DEADLOCK FALSE
