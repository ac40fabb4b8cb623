SPECIFICATION Spec
CONSTANTS
    o1 = o1
    o2 = o2
    p1 = p1
    p2 = p2
    Orders = {o1, o2}
    Products = {p1, p2}
    Items <- MCItems
    OrderOf <- MCOrderOf
    ZidHeld = {o2}
    Cap = 2
    MaxOrders = 1
    WaveSize = 1
    Changes = 2
    Faults = 1
 
PROPERTY ReadyDrains
CHECK_DEADLOCK FALSE
