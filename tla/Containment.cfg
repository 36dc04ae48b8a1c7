CONSTANTS
    i1 = i1
    r1 = r1
    r2 = r2
    q1 = q1
    h1 = h1
    h2 = h2
    Incident <- OneIncident
    Run <- TwoRuns
    Request <- OneRequest
    Handler <- TwoHandlers
    Playbook <- Playbooks
    Manual = {"new"}
    Attempts = 2
    None = None
SPECIFICATION Spec
INVARIANTS TypeOK ContainedIsBacked AppliedIsRecordedIfUndisturbed
SYMMETRY Sym
CHECK_DEADLOCK FALSE
