CONSTANTS
    e1 = e1
    e2 = e2
    d1 = d1
    d2 = d2
    k1 = k1
    k2 = k2
    k3 = k3
    NoAction = NoAction
    MaxAttempts = 2
    Endpoint <- OneEndpoint
    Daemon <- OneDaemon
    At <- AllAtE1
    Action = {1, 2}
    Target <- AllForE1
    CallId <- ThreeCalls
    Faults = TRUE
SPECIFICATION Spec
SYMMETRY Symmetry
INVARIANTS TypeOK NeverTwice RunningIsClaimed ResultIsReal
