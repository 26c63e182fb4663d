SPECIFICATION ExecSpec
CONSTANTS
    t1 = t1
    t2 = t2
    r1 = r1
    s1 = s1
    s2 = s2
    NoThread = NoThread
    Empty = Empty
    Threads = {t1}
    Readers = {}
    Symbols = {s1}
    Targets <- ShortFlat
    Fixed = {}
    MaxOpen = 1
    MaxQty = 2
    FillLag = FALSE
    Fallback = TRUE
    ReadsFail = FALSE
    MaxSends = 3
PROPERTY ReachesTarget
CHECK_DEADLOCK FALSE
