SPECIFICATION Spec
CONSTANTS
    api = api
    api2 = api2
    sched = sched
    i1 = i1
    i2 = i2
    s1 = s1
    s2 = s2
    s3 = s3
    NoItem = NoItem
    Threads = {api}
    Loopers = {}
    Items = {i1}
    Manual = {}
    Symbols = {s1, s2, s3}
    KeyOf <- SpreadKey
    LegsOf <- SpreadLegs
    Ops <- SpreadOps
    FillLag = FALSE
    Failures = FALSE
    Overlap = FALSE
    MaxOrders = 4
    MaxOps = 4
    MaxCrashes = 0
PROPERTY ClosedRowsAreFlat
CHECK_DEADLOCK FALSE
