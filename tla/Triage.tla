------------------------------- MODULE Triage -------------------------------
(***************************************************************************)
(* From an event to the advice an analyst gets: siem_kowalski makes an     *)
(* incident of it with some of its attributes (siem_kowalski main.py), the *)
(* triage engine (soc/triage/engine.py) reads the incident and says what   *)
(* it is and what could be done, the BFF builds a recommended playbook     *)
(* from the incident as it is by then (routers/soc.py), and an analysis    *)
(* suggests a tier (ai/provider.py).                                       *)
(*                                                                         *)
(* A value of an event is a key it has or has not; the ports and the count *)
(* are numbers or None.                                                    *)
(***************************************************************************)
EXTENDS Naturals, Sequences, Functions

CONSTANTS Type,         \* types of events
          Severity,     \* severities of events
          Attribute,    \* keys an event may have among its attributes
          Entity,       \* keys it may have among its entities
          ScanPorts,    \* SCAN_PORT_THRESHOLD
          BruteForce,   \* BRUTE_FORCE_THRESHOLD
          DeniedBurst,  \* threshold of the rule on denied traffic
          Number,       \* counts of ports and of repetitions
          None

VARIABLES event,
          incident,   \* None when no rule matches
          shown,      \* the context the analyst looks at
          playbook,   \* the recommended playbook: [template, types], or None
          suggested   \* the tier the analysis suggests

vars == <<event, incident, shown, playbook, suggested>>

-----------------------------------------------------------------------------
(* siem_kowalski: one rule for a type of event.  *)

Reaches(n, threshold) == n # None /\ n >= threshold
Rule(e) ==
    CASE e.type = "network.scan" -> "network_scan"
      [] e.type = "network.deny" /\ Reaches(e.count, DeniedBurst) -> "denied_traffic_burst"
      [] e.type = "auth.failed_login" /\ Reaches(e.count, BruteForce) -> "repeated_failed_login"
      [] e.type = "endpoint.suspicious_connection" -> "suspicious_endpoint_connection"
      [] e.type = "waf.dos" -> "fortiweb_dos_activity"
      [] OTHER -> None

RuleSeverity(e) ==
    CASE Rule(e) \in {"denied_traffic_burst", "repeated_failed_login"} -> e.severity
      [] Rule(e) = "fortiweb_dos_activity" -> "critical"
      [] OTHER -> "high"

\* Mutant: severe incidents go to the lowest tier.
TierInverted(s) == IF s \in {"critical", "high"} THEN "T1" ELSE IF s = "medium" THEN "T2" ELSE "T3"
Tier(s) == IF s \in {"critical", "high"} THEN "T3" ELSE IF s = "medium" THEN "T2" ELSE "T1"

(* The attributes an incident keeps of its event: no user, no process. *)
Kept == {"integrationId", "sourceIp", "destinationIp"}
NewIncident(e) ==
    [rule |-> Rule(e), severity |-> RuleSeverity(e), attributes |-> e.attributes \cap Kept,
     entities |-> e.entities, ports |-> e.ports, count |-> e.count,
     level |-> Tier(RuleSeverity(e)), status |-> "new"]

-----------------------------------------------------------------------------
(* The engine.  *)

Family(i) ==
    CASE i.rule = "network_scan" -> "network.scan"
      [] i.rule = "denied_traffic_burst" -> "network.denied_burst"
      [] i.rule = "repeated_failed_login" -> "auth.bruteforce"
      [] i.rule = "suspicious_endpoint_connection" -> "endpoint.suspicious_connection"
      [] OTHER -> "manual.investigation"
Network(i) == Family(i) \in {"network.scan", "network.denied_burst"}

Known(i) == i.attributes \cup i.entities
HasSource(i) == "sourceIp" \in Known(i)
HasTarget(i) == "destinationIp" \in Known(i)
HasFortiGate(i) == "integrationId" \in Known(i)

PortCount(i) == IF i.ports = None THEN 0 ELSE i.ports
Confidence(i) ==
    CASE Network(i) -> IF PortCount(i) >= ScanPorts THEN "high" ELSE "medium"
      [] Family(i) = "auth.bruteforce" -> IF Reaches(i.count, BruteForce) THEN "high" ELSE "medium"
      [] Family(i) = "endpoint.suspicious_connection" ->
            IF "processName" \in i.attributes THEN "medium" ELSE "low"
      [] OTHER -> "medium"

Evidence(i) ==
    {"rule"}
    \cup (CASE Network(i) /\ PortCount(i) > 0 -> {"ports"}
            [] Network(i) /\ PortCount(i) = 0 /\ i.count # None -> {"denied"}
            [] Family(i) = "auth.bruteforce" -> {"logins"}
            [] OTHER -> {})
    \cup (Known(i) \ {"integrationId"})

(* The technique of ATT&CK and the evidence it cites. *)
MitreUnchecked(i) ==
    IF Network(i) THEN {[technique |-> "T1046", cites |-> "ports"]} ELSE {}
Mitre(i) ==
    CASE Family(i) = "network.scan" ->
            {[technique |-> "T1046", cites |-> IF "ports" \in Evidence(i) THEN "ports" ELSE "rule"]}
      [] Family(i) = "network.denied_burst" /\ PortCount(i) >= ScanPorts ->
            {[technique |-> "T1046", cites |-> "ports"]}
      [] Family(i) = "network.denied_burst" /\ PortCount(i) < ScanPorts ->
            {[technique |-> "T1595", cites |-> IF "denied" \in Evidence(i) THEN "denied" ELSE "rule"]}
      [] Family(i) = "auth.bruteforce" -> {[technique |-> "T1110", cites |-> "logins"]}
      [] Family(i) = "endpoint.suspicious_connection" -> {[technique |-> "T1071", cites |-> "rule"]}
      [] OTHER -> {}

-----------------------------------------------------------------------------
(* What could be done: candidates, and templates of playbooks that ask for  *)
(* some of them.                                                           *)

Candidate(id, approval, available) == [id |-> id, approval |-> approval, available |-> available]

FortiGateCandidates(i) ==
    {Candidate("block_source", TRUE, HasFortiGate(i) /\ HasSource(i)),
     Candidate("policy_review_only", FALSE, TRUE)}
    \cup (IF Network(i)
          THEN {Candidate("block_source_destination", TRUE,
                          HasFortiGate(i) /\ HasSource(i) /\ HasTarget(i))}
          ELSE {})
\* Mutant: identity candidates only when the user is known.
IdentityCandidatesNamed(i) ==
    IF "username" \in Known(i) THEN {Candidate("review_account", FALSE, TRUE)} ELSE {}
IdentityCandidates(i) ==
    {Candidate("review_account", FALSE, "username" \in Known(i)),
     Candidate("lock_user", TRUE, FALSE), Candidate("force_password_reset", TRUE, FALSE)}

Candidates(i) ==
    {Candidate("add_note", FALSE, TRUE), Candidate("escalate_tier", FALSE, TRUE)}
    \cup (IF Known(i) \cap {"sourceIp", "destinationIp", "username"} # {}
          THEN {Candidate("add_watchlist", FALSE, TRUE)} ELSE {})
    \cup (IF Network(i) \/ Family(i) = "auth.bruteforce" THEN FortiGateCandidates(i) ELSE {})
    \cup (IF Family(i) = "auth.bruteforce" THEN IdentityCandidates(i) ELSE {})

Ids(cs) == {c.id : c \in cs}
Available(i) == {c \in Candidates(i) : c.available}
Recommended(id, requires, approval) == [id |-> id, requires |-> requires, approval |-> approval]

Required(i) ==
    IF "block_source_destination" \in Ids(Available(i)) THEN "block_source_destination" ELSE "add_note"

Templates(i) ==
    CASE Network(i) ->
            {Recommended("pb_network_scan_triage", Required(i), Required(i) # "add_note"),
             Recommended("pb_fortigate_temp_block", Required(i), TRUE)}
      [] Family(i) = "auth.bruteforce" ->
            {Recommended("pb_auth_bruteforce_triage", "review_account", FALSE)}
      [] Family(i) = "endpoint.suspicious_connection" ->
            {Recommended("pb_endpoint_connection_triage", "add_note", FALSE)}
      [] OTHER -> {}

Context(i) ==
    [confidence |-> Confidence(i), level |-> i.level, evidence |-> Evidence(i), mitre |-> Mitre(i),
     candidates |-> Candidates(i), templates |-> Templates(i),
     status |-> IF i.status \in {"contained", "closed"} THEN i.status ELSE "investigating"]

-----------------------------------------------------------------------------
(* The recommended playbook of the BFF, a chain of nodes.  *)

Blocking == {"pb_network_scan_triage", "pb_fortigate_temp_block", "pb_auth_bruteforce_triage"}
\* Mutant: a block is built for any source.
BlocksWithSource(i, id) == id \in Blocking /\ HasSource(i)
Blocks(i, id) == id \in Blocking /\ HasSource(i) /\ HasFortiGate(i)

Built(i, id) ==
    <<"trigger", "note">>
    \o (IF HasSource(i) THEN <<"enrich">> ELSE <<>>)
    \o (IF Blocks(i, id) THEN <<"gate", "block">> ELSE <<>>)
    \o (IF id = "pb_auth_bruteforce_triage" THEN <<"note">> ELSE <<>>)
    \o <<"note">>

-----------------------------------------------------------------------------
Ingest ==
    /\ incident = None /\ Rule(event) # None
    /\ incident' = NewIncident(event)
    /\ UNCHANGED <<event, shown, playbook, suggested>>

Show ==
    /\ incident # None /\ shown # Context(incident)
    /\ shown' = Context(incident)
    /\ UNCHANGED <<event, incident, playbook, suggested>>

(* Only a template that is recommended of the incident as it is now. *)
Instantiate(id) ==
    /\ incident # None /\ playbook = None
    /\ \E t \in Templates(incident) : t.id = id
    /\ playbook' = [template |-> id, types |-> Built(incident, id)]
    /\ UNCHANGED <<event, incident, shown, suggested>>

(* The scripted provider of the lab, which needs no model. *)
ScriptedTier(s) == IF s \in {"critical", "high"} THEN "T1" ELSE IF s = "medium" THEN "T2" ELSE "T3"
Analyze ==
    /\ incident # None /\ suggested = None
    /\ suggested' = ScriptedTier(incident.severity)
    /\ UNCHANGED <<event, incident, shown, playbook>>

(* The analyst applies the suggestion, or moves the ticket. *)
Patch(level, status) ==
    /\ incident # None
    /\ incident' = [incident EXCEPT !.level = level, !.status = status]
    /\ UNCHANGED <<event, shown, playbook, suggested>>

Events ==
    [type : Type, severity : Severity, attributes : SUBSET Attribute, entities : SUBSET Entity,
     ports : Number \cup {None}, count : Number \cup {None}]

Incident ==
    [rule : {"network_scan", "denied_traffic_burst", "repeated_failed_login",
             "suspicious_endpoint_connection", "fortiweb_dos_activity"},
     severity : Severity \cup {"high", "critical"}, attributes : SUBSET Attribute,
     entities : SUBSET Entity, ports : Number \cup {None}, count : Number \cup {None},
     level : {"T1", "T2", "T3"}, status : {"new", "investigating", "contained"}]

Init ==
    /\ event \in Events
    /\ incident = None /\ shown = None /\ playbook = None /\ suggested = None

Next ==
    \/ Ingest \/ Show \/ Analyze
    \/ \E id \in Blocking \cup {"pb_endpoint_connection_triage"} : Instantiate(id)
    \/ suggested # None /\ Patch(suggested, "investigating")
    \/ incident # None /\ Patch(incident.level, "contained")

Spec == Init /\ [][Next]_vars

-----------------------------------------------------------------------------
TypeOK ==
    /\ incident = None \/ incident \in Incident
    /\ shown = None \/ shown.confidence \in {"low", "medium", "high"}
    /\ playbook = None \/ Len(playbook.types) \in 3 .. 7

(* What a mapping to ATT&CK cites is among the evidence that is shown. *)
CitedIsShown == shown # None => \A m \in shown.mitre : m.cites \in shown.evidence

(* Every template asks for a candidate the context has, and says that it needs
   an approval if that candidate does. *)
TemplatesAskForCandidates ==
    shown # None =>
        \A t \in shown.templates : \E c \in shown.candidates :
            c.id = t.requires /\ (c.approval => t.approval)

(* A recommended playbook blocks only what the engine offers to block now: a
   block node stands behind a gate, for an incident whose blocking candidate is
   available. *)
BlockIsOffered ==
    playbook # None /\ "block" \in Range(playbook.types) =>
        \E c \in Available(incident) : c.id = "block_source" /\ c.approval

(* Until an analyst changes it, the tier the engine recommends is that of the
   severity: what is critical is never shown as work for a lower tier. *)
TierIsOfSeverity ==
    shown # None /\ incident.status = "new" =>
        (shown.level = "T3" <=> incident.severity \in {"critical", "high"})

=============================================================================
