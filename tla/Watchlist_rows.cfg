SPECIFICATION FairSpec
CONSTANTS
    api = api
    api2 = api2
    sched = sched
    i1 = i1
    i2 = i2
    s1 = s1
    s2 = s2
    s3 = s3
    NoItem = NoItem
    Threads = {api, sched}
    Loopers = {sched}
    Items = {i1}
    Manual = {i1}
    Symbols = {s1}
    KeyOf <- OneKey
    LegsOf <- OneLeg
    Ops <- DeskOps
    FillLag = TRUE
    Failures = TRUE
    Overlap = TRUE
    MaxOrders = 2
    MaxOps = 3
    MaxCrashes = 0
PROPERTY StaleRowsAreClosed
CHECK_DEADLOCK FALSE
