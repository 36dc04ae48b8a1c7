SPECIFICATION Spec
CONSTANTS
    None = None
    Integration = {i1}
    Event = {"traffic", "login"}
    Of <- AllOfOne
    Login = {"login"}
    Key <- OwnKeys
    Scheduler = scheduler
    Worker = {h1}
    Interval = 1
    Ttl = 1
    PageSize = 2
    QueueSize = 1
    MaxTime = 2
    MaxActs = 1
    Type = {"network.scan", "network.deny", "auth.failed_login", "endpoint.suspicious_connection", "waf.dos"}
    Severity = {"low", "medium", "high"}
    Attribute = {"sourceIp", "destinationIp", "integrationId", "username"}
    Entity = {"sourceIp", "username"}
    ScanPorts = 2
    BruteForce = 2
    DeniedBurst = 2
    Number = {1, 2}
    Request = {r1, r2}
    Attempts = 2
    CacheTtl = 2
    MaxFailures = 2
    Graph <- SavedGraphs
    AiStep <- AiSteps
    MaxSteps = 2
    Edited <- NoteOnly
    MaxFaults = 1
    Endpoint = {e1}
    HostOf <- OneHost
    Own = {"own"}
    Gateway = "gateway"
    Remote = {"remote"}
    Malicious = {"remote"}
    User <- OneUser
    MaxEvents = 2
    MaxLapses = 1
SYMMETRY Symmetry
INVARIANTS
    CursorLosesNothingRead
    TriageIsConsistent
    TicketsAreTrue
    EffectsAreApproved
    EndpointEventsAgree
PROPERTIES
    RepetitionsAreHarmless
CHECK_DEADLOCK FALSE
