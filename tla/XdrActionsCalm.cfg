CONSTANTS
    e1 = e1
    e2 = e2
    d1 = d1
    d2 = d2
    k1 = k1
    k2 = k2
    k3 = k3
    NoAction = NoAction
    MaxAttempts = 2
    Endpoint <- TwoEndpoints
    Daemon <- TwoDaemons
    At <- OneEach
    Action = {1, 2, 3}
    Target <- InTurn
    CallId <- TwoCalls
    Faults = FALSE
SPECIFICATION FairSpec
INVARIANTS ClaimIsHeld
PROPERTIES LifecycleSpec QueuedIsFinished
