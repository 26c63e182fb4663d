SPECIFICATION FairSpec
CONSTANTS
    sched = sched
    api = api
    Scheduler = sched
    Api = api
    Strikes = {1, 2}
    Signals <- ShortBars
    Cases <- AllCases
INVARIANT TypeOK
 
 
PROPERTY Cooldown
 
PROPERTY PhantomIsDropped
CHECK_DEADLOCK FALSE
