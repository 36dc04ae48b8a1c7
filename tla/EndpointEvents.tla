--------------------------- MODULE EndpointEvents ---------------------------
(***************************************************************************)
(* How an event of the endpoint agent becomes an endpoint row and a        *)
(* timeline item of xdr_rico and, when it is suspicious, an incident of    *)
(* siem_kowalski; and how the incidents are matched with the endpoints     *)
(* again, by each of the two services in its own way.                      *)
(*                                                                         *)
(* A request of the BFF (POST /weapons/endpoint-events) asks the threat    *)
(* intelligence provider about a Sysmon event, posts the event to xdr_rico *)
(* (twice, if the first answer is lost or an error), posts to              *)
(* siem_kowalski, and audits.  A call that the BFF has given up may still  *)
(* be served, at any time.  Which token may post for which endpoint is the *)
(* business of EnrollmentBinding.                                          *)
(***************************************************************************)
EXTENDS Naturals, Sequences, FiniteSets

CONSTANTS
    Endpoint,   \* ids of endpoints
    HostOf,     \* HostOf[e]: the name of the host, also of one enrolled again
    Own,        \* addresses that an endpoint can have
    Gateway,    \* the address that the BFF sees when one is between
    Remote,     \* addresses and names that endpoints talk to
    Malicious,  \* those of Remote of which the provider says so
    User,       \* user names, each <<domain, name>>
    Handler,    \* request threads of the BFF
    Attempts,   \* how often a call to a service is tried
    MaxEvents,  \* bound on the events
    MaxFaults,  \* bound on outages, expiries, deletions and other incidents
    None

VARIABLES
    events,     \* the events received, in this order; a request is named by its place
    work,       \* work[h]: the request a thread serves and how far it is
    late,       \* the calls that were given up and are still served
    cache,      \* cache[i]: the verdict kept of indicator i
    checked,    \* history: which indicator was looked up for which request
    row,        \* row[e]: the endpoint of xdr_rico
    timeline,   \* the timeline items: [of, verdict], `of' an event
    incidents,  \* what siem_kowalski was sent: entities, and the event if there is one
    audit,      \* the outcomes audited, by request
    overtaken,  \* history: endpoints of which two requests were served at once, or deleted
    faults      \* faults so far

vars == <<events, work, late, cache, checked, row, timeline, incidents, audit, overtaken,
          faults>>

Verdict   == {"malicious", "clean", "unknown"}
Indicator == Own \cup Remote
Auth      == {"auth.failed_login", "auth.privileged_logon", "file.change"}
Stage     == {"new", "judged", "read", "written", "noted", "forwarded"}
Idle      == [stage |-> "idle"]

\* What is read of an endpoint of xdr_rico.
Row == [ip : Own, seen : Own \cup {Gateway}, user : User \cup {None},
        verdict : Verdict \cup {None}]

\* Something goes wrong that may go wrong only so often.
Fail == faults < MaxFaults /\ faults' = faults + 1

\* The rows, items, requests and incidents are well formed.
TypeOK ==
    /\ Len(events) <= MaxEvents
    /\ \A h \in Handler : work[h] # Idle =>
         /\ work[h].stage \in Stage /\ work[h].n \in DOMAIN events
         /\ work[h].tries \in 1..Attempts /\ work[h].verdict \in Verdict \cup {None}
    /\ \A c \in late : c.stage \in {"judged", "read", "written", "noted"} /\ c.n \in DOMAIN events
    /\ row \in [Endpoint -> Row \cup {None}]
    /\ \A i \in Indicator : cache[i] \in Verdict \cup {None}
    /\ \A x \in timeline : x.of \in DOMAIN events
    /\ \A i \in incidents : i.of \in DOMAIN events \cup {None}
    /\ \A k \in DOMAIN audit : audit[k].n \in DOMAIN events

Init ==
    /\ events = <<>> /\ checked = {} /\ timeline = {} /\ incidents = {}
    /\ audit = <<>> /\ overtaken = {} /\ faults = 0 /\ late = {}
    /\ work = [h \in Handler |-> Idle]
    /\ cache = [i \in Indicator |-> None]
    /\ row = [e \in Endpoint |-> None]

-----------------------------------------------------------------------------
(* The agent. *)

\* _suspicious_connection_reason: established, to a port of ill repute.
Suspicious(c) == c.established /\ c.risky

\* normalize_connection, and what collect_connections finds.
Connection == [dst : Remote, established : BOOLEAN, risky : BOOLEAN]

\* build_payloads_for_kind: what differs between the events of endpoint e at
\* address ip with user u, which the BFF sees come from address seen, the agent's
\* or a gateway's.  A snapshot stands for its first connection that is suspicious,
\* if there is one; so do network connections and DNS queries of Sysmon for their
\* destination.
Payloads(e, ip, u, seen) ==
    LET Made(type, dst, user, risky) ==
            [endpoint |-> e, ip |-> ip, seen |-> seen, type |-> type, dst |-> dst,
             user |-> user, suspicious |-> risky] IN
    {Made("heartbeat", None, u, FALSE)}
      \cup {Made("connection.snapshot", c.dst, None, Suspicious(c)) : c \in Connection}
      \cup {Made(t, d, u, FALSE) : t \in {"sysmon.network_connection", "sysmon.dns_query"},
                                 d \in Remote}
      \cup {Made("auth.privileged_logon", None, u, FALSE)}

\* build_sysmon_event_payloads: the addresses and names among the attributes,
\* in the order in which they are written.
SysmonAttributes(ev) ==
    CASE ev.type = "sysmon.network_connection" ->
           <<<<"sourceIp", ev.ip>>, <<"destinationIp", ev.dst>>, <<"ioc", ev.dst>>>>
      [] ev.type = "sysmon.dns_query" -> <<<<"queryName", ev.dst>>, <<"ioc", ev.dst>>>>
      [] OTHER -> <<>>

-----------------------------------------------------------------------------
(* The BFF. *)

\* extract_indicators_from_incident walks them as they come, nested ones last.
Indicators(ev) ==
    LET as == SysmonAttributes(ev) IN
    [k \in DOMAIN as |-> as[k][2]]

\* A request comes in.
Receive(h, ev) ==
    /\ work[h] = Idle /\ Len(events) < MaxEvents
    /\ events' = Append(events, ev)
    /\ work' = [work EXCEPT ![h] = [stage |-> "new", n |-> Len(events) + 1, tries |-> 1,
                                    verdict |-> None, row |-> None, outcome |-> None]]
    /\ overtaken' = IF \/ \E g \in Handler :
                             work[g] # Idle /\ events[work[g].n].endpoint = ev.endpoint
                       \/ \E c \in late : events[c.n].endpoint = ev.endpoint
                    THEN overtaken \cup {ev.endpoint} ELSE overtaken
    /\ UNCHANGED <<late, cache, checked, row, timeline, incidents, audit, faults>>

Ev(h) == events[work[h].n]

\* VirusTotalProvider.enrich, when it answers.
Reputation(i) == IF i \in Malicious THEN "malicious" ELSE "clean"

\* _enrich_sysmon_endpoint_payload: the first indicator is looked up, in the
\* cache if it is there.  Over the quota the answer is "unknown", and cached; a
\* call that fails leaves no verdict.
Enrich(h) ==
    /\ work[h] # Idle /\ work[h].stage = "new"
    /\ LET Judge(v) == work' = [work EXCEPT ![h].stage = "judged", ![h].verdict = v]
           i == Head(Indicators(Ev(h))) IN
       IF Indicators(Ev(h)) = <<>>
       THEN Judge(None) /\ UNCHANGED <<cache, checked, faults>>
       ELSE /\ checked' = checked \cup {[n |-> work[h].n, indicator |-> i]}
            /\ \/ cache[i] # None /\ Judge(cache[i]) /\ UNCHANGED <<cache, faults>>
               \/ /\ cache[i] = None /\ Judge(Reputation(i))
                  /\ cache' = [cache EXCEPT ![i] = Reputation(i)] /\ UNCHANGED faults
               \/ /\ cache[i] = None /\ Judge("unknown") /\ Fail
                  /\ cache' = [cache EXCEPT ![i] = "unknown"]
               \/ cache[i] = None /\ Judge(None) /\ Fail /\ UNCHANGED cache
    /\ UNCHANGED <<events, late, row, timeline, incidents, audit, overtaken>>

\* The time to live of a cached verdict is over.
Expire(i) ==
    /\ cache[i] # None /\ Fail
    /\ cache' = [cache EXCEPT ![i] = None]
    /\ UNCHANGED <<events, work, late, checked, row, timeline, incidents, audit, overtaken>>

-----------------------------------------------------------------------------
(* xdr_rico: ingest_endpoint_event. *)

Goes(h, stage) == work' = [work EXCEPT ![h].stage = stage]

\* The endpoint is read ...
ReadRow(h) ==
    /\ work[h] # Idle /\ work[h].stage = "judged"
    /\ work' = [work EXCEPT ![h].stage = "read", ![h].row = row[Ev(h).endpoint]]
    /\ UNCHANGED <<events, late, cache, checked, row, timeline, incidents, audit, overtaken, faults>>

\* Mutant: the attributes of the event replace those of the endpoint.
MergedFresh(old, ev, verdict) ==
    [ip |-> ev.ip, seen |-> ev.seen, verdict |-> verdict,
     user |-> IF ev.user = None /\ old # None THEN old.user ELSE ev.user]

\* The address is that of the event; the user and the attributes stay when the
\* event has no others, so a verdict stays until there is a new one.
Merged(old, ev, verdict) ==
    LET kept == IF old = None THEN [user |-> None, verdict |-> None] ELSE old IN
    [ip |-> ev.ip, seen |-> ev.seen,
     user |-> IF ev.user = None THEN kept.user ELSE ev.user,
     verdict |-> IF verdict = None THEN kept.verdict ELSE verdict]

\* ... and written, whatever was written in between.
WriteRow(h) ==
    /\ work[h] # Idle /\ work[h].stage = "read"
    /\ row' = [row EXCEPT ![Ev(h).endpoint] = Merged(work[h].row, Ev(h), work[h].verdict)]
    /\ Goes(h, "written")
    /\ UNCHANGED <<events, late, cache, checked, timeline, incidents, audit, overtaken, faults>>

AddItem(h) ==
    /\ work[h] # Idle /\ work[h].stage = "written"
    /\ timeline' = timeline \cup {[of |-> work[h].n, verdict |-> work[h].verdict]}
    /\ Goes(h, "noted")
    /\ UNCHANGED <<events, late, cache, checked, row, incidents, audit, overtaken, faults>>

\* SocClient.request: the answer is late, lost or an error, for instance because
\* two requests insert one endpoint; the call is made again, or the request
\* fails and the agent drops the event.  What was called may go on.
CallFails(h) ==
    /\ work[h] # Idle /\ work[h].stage \in {"judged", "read", "written", "noted"}
    /\ IF work[h].tries = 1 THEN Fail ELSE UNCHANGED faults \* one outage
    /\ work' = [work EXCEPT ![h] =
                   IF work[h].tries < Attempts
                   THEN [work[h] EXCEPT !.stage = "judged", !.tries = @ + 1, !.row = None]
                   ELSE Idle]
    /\ late' \in IF work[h].stage = "noted" THEN {late} ELSE {late, late \cup {work[h]}}
    /\ UNCHANGED <<events, cache, checked, row, timeline, incidents, audit, overtaken>>

\* delete_endpoint.
DeleteEndpoint(e) ==
    /\ row[e] # None /\ Fail
    /\ row' = [row EXCEPT ![e] = None]
    /\ timeline' = {x \in timeline : events[x.of].endpoint # e}
    /\ overtaken' = overtaken \cup {e}
    /\ UNCHANGED <<events, work, late, cache, checked, incidents, audit>>

-----------------------------------------------------------------------------
(* siem_kowalski, and the end of the request. *)

\* Mutant: the verdict is taken from the endpoint that xdr_rico answers with.
AlarmingSticky(h) ==
    LET ev == Ev(h) IN
    \/ ev.type = "connection.snapshot" /\ ev.suspicious
    \/ /\ ev.type \in {"sysmon.network_connection", "sysmon.dns_query"}
       /\ row[ev.endpoint] # None /\ row[ev.endpoint].verdict = "malicious"

\* _suspicious_endpoint_event_to_siem_event makes an event of the request.
Alarming(h) ==
    LET ev == Ev(h) IN
    \/ ev.type = "connection.snapshot" /\ ev.suspicious
    \/ /\ ev.type \in {"sysmon.network_connection", "sysmon.dns_query"}
       /\ work[h].verdict = "malicious"

\* _endpoint_event_to_siem_events: the entities, by field.  The address is the
\* one the BFF sees, and an event of the Security log has none.
Entities(ev) ==
    {p \in {<<"endpointId", ev.endpoint>>, <<"hostname", HostOf[ev.endpoint]>>,
            <<"username", ev.user>>,
            <<"sourceIp", IF ev.type \in Auth THEN None ELSE ev.seen>>,
            IF ev.type = "sysmon.dns_query" THEN <<"domain", ev.dst>>
            ELSE <<"destinationIp", ev.dst>>} : p[2] # None}

\* What siem_kowalski makes of event n.
Incident(n) == [of |-> n, entities |-> Entities(events[n])]

\* _forward_endpoint_event_to_siem: a call that fails may be served all the same,
\* and does not fail the request.
Forward(h) ==
    LET Ends(outcome) == work' = [work EXCEPT ![h].stage = "forwarded", ![h].outcome = outcome] IN
    /\ work[h] # Idle /\ work[h].stage = "noted"
    /\ IF ~(Alarming(h) \/ Ev(h).type \in Auth)
       THEN Ends("skipped") /\ UNCHANGED <<incidents, late, faults>>
       ELSE \/ /\ Ends("created") /\ UNCHANGED <<late, faults>>
               /\ incidents' = incidents \cup {Incident(work[h].n)}
            \/ /\ Ends("failed") /\ Fail /\ UNCHANGED incidents
               /\ late' \in {late, late \cup {work[h]}}
    /\ UNCHANGED <<events, cache, checked, row, timeline, audit, overtaken>>

\* Mutant: an event that was not forwarded is no reason to call it partial.
OutcomeSuccess(forwarding) == "success"

Outcome(forwarding) == IF forwarding = "failed" THEN "partial" ELSE "success"

\* create_endpoint_event audits and answers, or fails to.
AuditAndAnswer(h) ==
    /\ work[h] # Idle /\ work[h].stage = "forwarded"
    /\ \/ /\ audit' = Append(audit, [n |-> work[h].n, outcome |-> Outcome(work[h].outcome)])
          /\ UNCHANGED faults
       \/ Fail /\ UNCHANGED audit
    /\ work' = [work EXCEPT ![h] = Idle]
    /\ UNCHANGED <<events, late, cache, checked, row, timeline, incidents, overtaken>>

\* A call that was given up goes on where it was: the endpoint is read, written
\* with what was read of it, and the item added; or the incident is opened.
ServeLate(c) ==
    LET e == events[c.n].endpoint
        GoesOn(to, read) == late' = (late \ {c}) \cup {[c EXCEPT !.stage = to, !.row = read]} IN
    /\ \/ /\ c.stage = "judged" /\ GoesOn("read", row[e])
          /\ UNCHANGED <<row, timeline, incidents>>
       \/ /\ c.stage = "read" /\ GoesOn("written", c.row)
          /\ row' = [row EXCEPT ![e] = Merged(c.row, events[c.n], c.verdict)]
          /\ UNCHANGED <<timeline, incidents>>
       \/ /\ c.stage = "written" /\ late' = late \ {c}
          /\ timeline' = timeline \cup {[of |-> c.n, verdict |-> c.verdict]}
          /\ UNCHANGED <<row, incidents>>
       \/ /\ c.stage = "noted" /\ late' = late \ {c}
          /\ incidents' = incidents \cup {Incident(c.n)}
          /\ UNCHANGED <<row, timeline>>
    /\ UNCHANGED <<events, work, cache, checked, audit, overtaken, faults>>

\* An incident that comes from elsewhere, with an address and a name of a user.
OtherIncident(ip, field, u) ==
    /\ Fail
    /\ incidents' = incidents \cup {[of |-> None, entities |-> {<<"sourceIp", ip>>, <<field, u>>}]}
    /\ UNCHANGED <<events, work, late, cache, checked, row, timeline, audit, overtaken>>

Next ==
    \/ \E h \in Handler :
         \/ \E e \in Endpoint, ip \in Own, u \in User : \E seen \in {ip, Gateway} :
              \E ev \in Payloads(e, ip, u, seen) : Receive(h, ev)
         \/ Enrich(h) \/ ReadRow(h) \/ WriteRow(h) \/ AddItem(h) \/ CallFails(h)
         \/ Forward(h) \/ AuditAndAnswer(h)
    \/ \E c \in late : ServeLate(c)
    \/ \E i \in Indicator : Expire(i)
    \/ \E e \in Endpoint : DeleteEndpoint(e)
    \/ \E ip \in Own \cup {Gateway}, f \in {"username", "principal"}, u \in User :
         OtherIncident(ip, f, u)

Spec == Init /\ [][Next]_vars

-----------------------------------------------------------------------------
(* Which incidents and endpoints belong together. *)

\* _same_user: the domain makes no difference.
SameUser(u, v) == v # None /\ u[2] = v[2]

\* Mutant: the address that was observed is not looked at.
RelatedNotObserved(x, e) ==
    \E p \in x.entities :
        \/ p = <<"endpointId", e>> \/ p = <<"hostname", HostOf[e]>>
        \/ p[1] \in {"sourceIp", "destinationIp"} /\ p[2] = row[e].ip
        \/ p[1] \in {"username", "principal"} /\ SameUser(p[2], row[e].user)

\* _incident_endpoint_matched_fields of the BFF: incident x is related to
\* endpoint e.
Related(x, e) ==
    \E p \in x.entities :
        \/ p = <<"endpointId", e>> \/ p = <<"hostname", HostOf[e]>>
        \/ p[1] \in {"sourceIp", "destinationIp"} /\ p[2] \in {row[e].ip, row[e].seen}
        \/ p[1] \in {"username", "principal"} /\ SameUser(p[2], row[e].user)

\* get_endpoint_related_incidents, of an endpoint that xdr_rico knows.
RelatedIncidents(e) == {x \in incidents : Related(x, e)}

\* _endpoint_context_item of xdr_rico: endpoint e matches incident x.
InContext(x, e) ==
    \E p \in x.entities :
        \/ p = <<"endpointId", e>> \/ p = <<"hostname", HostOf[e]>>
        \/ p[1] \in {"sourceIp", "destinationIp"} /\ p[2] = row[e].ip
        \/ p[1] = "username" /\ SameUser(p[2], row[e].user)

\* correlate_endpoint_context: the endpoints in the context of an incident, as
\* far as the limit leaves room.
EndpointContext(x) == {e \in Endpoint : row[e] # None /\ InContext(x, e)}

-----------------------------------------------------------------------------
(* What the code promises. *)

\* Each way of matching finds what the other finds; only the BFF goes by the
\* address it has observed itself and by principals, too.
MatchesAgree ==
    \A x \in incidents, e \in {f \in Endpoint : row[f] # None} :
        x \in RelatedIncidents(e) <=>
            \/ e \in EndpointContext(x)
            \/ \E p \in x.entities :
                 \/ p[1] \in {"sourceIp", "destinationIp"} /\ p[2] = row[e].seen
                 \/ p[1] = "principal" /\ SameUser(p[2], row[e].user)

\* The verdict given to a request, from its timeline item.
Judged(n) == \E x \in timeline : x.of = n /\ x.verdict = "malicious"

\* No event is an alarm for what the endpoint did before: a Sysmon event in
\* siem_kowalski has an indicator of its own that is malicious.
AlarmIsOwn ==
    \A x \in incidents :
        x.of # None /\ events[x.of].type \in {"sysmon.network_connection", "sysmon.dns_query"} =>
            \E c \in checked : c.n = x.of /\ c.indicator \in Malicious

\* An event that was judged malicious, or told of a suspicious connection, and
\* is audited as a success is in siem_kowalski.
SuccessIsForwarded ==
    \A k \in DOMAIN audit :
        /\ audit[k].outcome = "success"
        /\ Judged(audit[k].n) \/ events[audit[k].n].suspicious
            \/ events[audit[k].n].type \in Auth
        => \E x \in incidents : x.of = audit[k].n

\* What is known of an endpoint is not forgotten, however often a call is
\* repeated: it has a verdict once an item has one, unless a request for it came
\* while another one or a call given up was still served, or it was deleted.
VerdictStays ==
    \A x \in timeline :
        LET e == events[x.of].endpoint IN
        x.verdict # None /\ e \notin overtaken => row[e] # None /\ row[e].verdict # None

\* The reputation of a network connection is that of its destination
\* (WINDOWS_SERVER_EDR_SYSMON.md names it as the indicator of Sysmon event 3).
DestinationIsChecked ==
    \A c \in checked :
        events[c.n].type = "sysmon.network_connection" => c.indicator = events[c.n].dst
=============================================================================
