SPECIFICATION ExecFairSpec
CONSTANTS
    t1 = t1
    t2 = t2
    r1 = r1
    s1 = s1
    s2 = s2
    NoThread = NoThread
    Empty = Empty
    Threads = {t1, t2}
    Readers = {}
    Symbols = {s1}
    Targets <- MCTargets
    Fixed = {}
    MaxOpen = 1
    MaxQty = 2
    FillLag = FALSE
    Fallback = FALSE
    ReadsFail = TRUE
    MaxSends = 4
PROPERTY CallsAreAtomic
PROPERTY ReachesTarget
PROPERTY NeverFiresAtTarget
PROPERTY LocksAreReleased
CHECK_DEADLOCK FALSE
