CONSTANTS
    i1 = i1
    e1 = e1
    h1 = h1
    sched = sched
    None = None
    Integration <- OneIntegration
    Event <- OneEvent
    Of <- AllOfI1
    Login <- NoLogin
    Key <- OwnKeys
    Scheduler = sched
    Handler <- OneHandler
    Interval = 1
    Ttl = 1
    PageSize = 2
    QueueSize = 1
    MaxTime = 2
    MaxActs = 2
SPECIFICATION FairSpec
PROPERTIES OverdueIsRun
CHECK_DEADLOCK FALSE
