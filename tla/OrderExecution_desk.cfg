SPECIFICATION ExecFairSpec
CONSTANTS
    t1 = t1
    t2 = t2
    r1 = r1
    s1 = s1
    s2 = s2
    NoThread = NoThread
    Empty = Empty
    Threads = {t1, t2}
    Readers = {r1}
    Symbols = {s1}
    Targets <- ShortFlat
    Fixed <- MCFixed
    MaxOpen = 1
    MaxQty = 2
    FillLag = TRUE
    Fallback = TRUE
    ReadsFail = TRUE
    MaxSends = 2
INVARIANT SymbolMutex
CHECK_DEADLOCK FALSE
