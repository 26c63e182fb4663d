SPECIFICATION GateSpec
CONSTANTS
    q1 = q1
    Handlers = {q1}
    LiveOrders = {}
    Ops <- AllOps
    MaxOps = 2
    MaxRestarts = 0
INVARIANT PanicCanFlatten
CHECK_DEADLOCK FALSE
