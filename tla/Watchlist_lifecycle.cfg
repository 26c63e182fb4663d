SPECIFICATION Spec
CONSTANTS
    api = api
    api2 = api2
    sched = sched
    i1 = i1
    i2 = i2
    s1 = s1
    s2 = s2
    s3 = s3
    NoItem = NoItem
    Threads = {api}
    Loopers = {}
    Items = {i1, i2}
    Manual = {i1}
    Symbols = {s1, s2}
    KeyOf <- OwnKey
    LegsOf <- OwnLeg
    Ops <- AnyOp
    FillLag = FALSE
    Failures = TRUE
    Overlap = FALSE
    MaxOrders = 8
    MaxOps = 8
    MaxCrashes = 1
INVARIANT TypeOK
INVARIANT OneEntryPerRow
PROPERTY ClosedRowsAreFlat
PROPERTY StoreIsAtomic
CHECK_DEADLOCK FALSE
