SPECIFICATION Spec
CONSTANTS
    api = api
    api2 = api2
    sched = sched
    i1 = i1
    i2 = i2
    s1 = s1
    s2 = s2
    s3 = s3
    NoItem = NoItem
    Threads = {api, api2}
    Loopers = {}
    Items = {i1, i2}
    Manual = {i1}
    Symbols = {s1, s2}
    KeyOf <- OwnKey
    LegsOf <- OwnLeg
    Ops <- TwoHandlers
    FillLag = FALSE
    Failures = FALSE
    Overlap = FALSE
    MaxOrders = 1
    MaxOps = 3
    MaxCrashes = 0
INVARIANT RowsSurvive
CHECK_DEADLOCK FALSE
