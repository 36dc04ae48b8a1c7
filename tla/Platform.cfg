SPECIFICATION Spec
CONSTANTS
    None = None
    Handler = {h1, h2}
    User = {u1, u2}
    Session = {u1, u2}
    Request = {h1, h2}
    Id = {i}
    MaxSessions = 1
    MaxSteps = 2
    Budget = 2
    MaxCalls = 2
    Account = {a}
    MaxAttempts = 1
    Window = 2
    MaxTries = 3
    MaxTime = 3
    Clerk = {c}
    Role = {r}
    Permission = {m, p}
    Manage = m
    MaxChanges = 1
    Thread = {h1, h2}
    Limit = 2
    MaxRecord = 4
    FailedLogon = {2, 4}
    MaxFaults = 1
    Kind = {"fgt_widget", "other"}
    Prefix <- PrefixOf
    Provider = {"fgt"}
    First = "fgt"
    Generic = "generic"
    Layout <- OneBound
    MaxTemplate = 2
    MaxRequests = 4
    Version = {"v1", "v2", "v3"}
    Broken = {"v3"}
    Device = {"d1", "d2"}
    Up = {"d1"}
SYMMETRY Symmetry
INVARIANTS
    ApprovalsAreHonoured
    LoginIsAccounted
    RolesAreEarned
    TelemetryIsAccounted
    WorkspacesAreOwn
    AddOnsAreServed
PROPERTIES
    StepsHaveCause
CHECK_DEADLOCK FALSE
