SPECIFICATION Spec
CONSTANTS
    ops = ops
    client = client
    Channel = {ops, client}
    Episodes = 2
    IrMaxFaults = 0
PROPERTY ThreadAnswered
CHECK_DEADLOCK FALSE
