SPECIFICATION Spec
CONSTANTS
    s1 = s1
    s2 = s2
    tick = tick
    hand = hand
    c1 = c1
    c2 = c2
    u1 = u1
    q1 = q1
    o1 = o1
    r1 = r1
    v1 = v1
    t1 = t1
    x1 = x1
    x2 = x2
    p1 = p1
    p2 = p2
    p3 = p3
    Threads = {t1}
    Readers = {}
    Symbols = {x1, x2}
    Targets <- LongShortFlat
    Fixed = {}
    MaxOpen = 1
    MaxQty = 2
    FillLag = FALSE
    Fallback = TRUE
    ReadsFail = FALSE
    MaxSends = 4
    NoThread = NoThread
    Empty = Empty
    Strategies = {s1, s2}
    LegIds <- TwoLegs
    RouterCases <- Routings
    Ticker = tick
    Handler = hand
    Atms = {3, 4}
    BookCases <- Books
    Lowest = 3
    Highest = 6
    EntryPrice = 4
    ExitCases <- Exits
    Callers = {c1, c2}
    Updaters = {u1}
    Minute = 2
    Rates = {1, 2}
    DefaultRate = 2
    RiskCases <- Limits
    Handlers = {q1}
    LiveOrders = {o1}
    Ops <- AllOps
    MaxOps = 6
    MaxRestarts = 2
    Tickers = {k1, k2}
    Requests = {r1}
    MaxPasses = 2
    ReportCases <- Newsrooms
    Sampler = sampler
    Viewers = {v1}
    Ranks = 2
    Readings <- Read
    SkewCases <- Archives
    Snapshots = {p1, p2, p3}
    Recorder = {p3}
    GammaCases <- Sessions
    Moves = {1, 2}
    Interval = 2
    Bar = 2
    ConfirmBars = 1
    Lock = 3
    MaxPoints = 2
    LastMinute = 3
INVARIANT TypesOK
 
INVARIANT HeldIsKnown
 
INVARIANT RateLimited
INVARIANT RefusedForCause
INVARIANT LimitSurvives
INVARIANT DisarmIsDurable
INVARIANT CapIsKept
 
 
INVARIANT RowIsLastReading
INVARIANT PointsApart
PROPERTY BookSettles
 
PROPERTY ForceFlattens
PROPERTY StopOnlyTightens
PROPERTY ClosesAtABrokerPrice
PROPERTY StoppedTradeCloses
 
 
PROPERTY JobsEnd
PROPERTY SessionsAreRolled
PROPERTY ReversalsStay
CHECK_DEADLOCK FALSE
