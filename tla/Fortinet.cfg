SPECIFICATION Spec
CONSTANTS
    None = None
    Handler = {h1, h2}
    Block = {x1, x2}
    Source = {s1, s2}
    Waf = {w}
    Profile = {"old", "new"}
    Dos = {"dos"}
    Wanted <- WantedBy
    ReadOnly = {}
    MaxId = 2
    Mode <- FaultsOrRaces
    MaxFaults = 1
    Slots = 2
    Collector = {x1, x2}
    Foreign = foreign
    MaxFailures = 2
    Attacker = {a}
    User = {x1, x2}
    Window = 1
    Threshold = 2
    RateLimit = 1
    SiemWindow = 1
    SiemThreshold = 2
    SiemLimit = 3
    MaxTries = 2
    MaxBatch = 2
    MaxAttempts = 4
    MaxRecords = 3
    MaxLoad = 3
    MaxTime = 2
    Ticket = {1, 2}
    QueueSize = 2
SYMMETRY Symmetry
INVARIANTS
    BlocksAreEnforced
    LogsAreForwarded
    BurstsAreReported
    PageIsTold
PROPERTIES
    ChangesAreWhole
CHECK_DEADLOCK FALSE
