CONSTANTS
    f1 = f1
    f2 = f2
    http = http
    https = https
    ssh = ssh
    t1 = t1
    t2 = t2
    Flow <- TwoFlows
    Port <- ThreePorts
    HttpPort <- WebPorts
    Traffic <- Mixed
    MinPorts = 2
    MinEvents = 2
    Window = 1
    Suppression = 1
    EventLimit = 1
    MarkerLimit = 1
    Thread <- TwoThreads
    MaxTime = 2
    MaxEvents = 4
    InOrder = TRUE
SYMMETRY Symmetric
SPECIFICATION Spec
INVARIANTS TypeOK ScanIsNoticed ScansAreApart AttackIsTicketed OneOpenFlood
CHECK_DEADLOCK FALSE
