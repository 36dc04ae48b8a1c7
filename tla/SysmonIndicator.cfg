SPECIFICATION Spec
CONSTANTS
    Endpoint = {e1}
    HostOf <- OneHost
    Own = {"own"}
    Gateway = "gateway"
    Remote = {"good", "bad"}
    Malicious = {"bad"}
    User <- OneUser
    Handler = {h1}
    Attempts = 2
    MaxEvents = 2
    MaxFaults = 1
    None = None
INVARIANTS
    DestinationIsChecked
CHECK_DEADLOCK FALSE
