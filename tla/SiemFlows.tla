------------------------------ MODULE SiemFlows ------------------------------
(***************************************************************************)
(* How siem_kowalski turns traffic records into scan and flood events and  *)
(* those into incidents.  A request thread enriches its event by reading   *)
(* what is stored, stores it, and opens an incident if a rule matches;     *)
(* every read and every write is a transaction of its own.                 *)
(*                                                                         *)
(* A flow is one (integration, source, destination).  A traffic record     *)
(* stands for one connection: its count attribute is absent.               *)
(*                                                                         *)
(* Several threads ingest at once, and a read sees the last rows of a type *)
(* only.  For the properties an event keeps how many rows there were to    *)
(* read when its scan enrichment got its answer (read: no earlier report,  *)
(* for a scan; too few ports, for another), an incident how many there     *)
(* were when its thread looked for a duplicate (known) and whether it was  *)
(* ever reopened: history that no step reads.                              *)
(***************************************************************************)
EXTENDS Integers, Sequences, FiniteSets

CONSTANTS
    Flow,        \* (integrationId, sourceIp, destinationIp)
    Port,        \* destination ports
    HttpPort,    \* those that carry HTTP
    Traffic,     \* the records that arrive, without their time
    MinPorts,    \* ALLOWED_SCAN_MIN_UNIQUE_PORTS
    MinEvents,   \* HTTP_FLOOD_MIN_EVENTS
    Window,      \* ALLOWED_SCAN_WINDOW_SECONDS and HTTP_FLOOD_WINDOW_SECONDS
    Suppression, \* HTTP_FLOOD_SUPPRESSION_SECONDS
    EventLimit,  \* ALLOWED_SCAN_EVENT_LIMIT and HTTP_FLOOD_EVENT_LIMIT
    MarkerLimit, \* how many scan or flood events a suppression check reads
    Thread,      \* request threads of siem_kowalski
    MaxTime,     \* bound on occurredAt
    MaxEvents,   \* bound on the records that are ingested
    InOrder      \* do records arrive in the order of their times?

\* The kinds of record: accepted traffic, accepted with an action that the
\* enrichment passes over, and denied traffic.
Kind == {"forwarded", "other", "denied"}

ASSUME FlowAssumption ==
    /\ Flow # {} /\ Port # {} /\ IsFiniteSet(Thread)
    /\ Traffic \subseteq [flow : Flow, port : Port, kind : Kind]
    /\ HttpPort \subseteq Port
    /\ {MinPorts, MinEvents, EventLimit, MarkerLimit} \subseteq Nat \ {0}
    /\ {Window, Suppression, MaxTime, MaxEvents} \subseteq Nat
    /\ InOrder \in BOOLEAN

VARIABLES
    events,    \* the events table, in the order of its rows
    incidents, \* the incidents table
    clock,     \* the latest time a record has carried
    thread     \* thread[t]: the request thread t serves

vars == <<events, incidents, clock, thread>>

-----------------------------------------------------------------------------
(* Reading the events table. *)

\* attackType of an enriched event: what the record was taken for.
Attack == {"none", "allowed scan", "denied scan", "flood"}

\* The event type an event is stored under.
Type(e) == CASE e.attack \in {"allowed scan", "denied scan"} -> "network.scan"
             [] e.attack = "flood" -> "waf.dos"
             [] e.attack = "none" /\ e.kind = "denied" -> "network.deny"
             [] OTHER -> "network.event"

\* list_recent_events: the rows of the last n events of this type.
Latest(type, n) ==
    LET I == {i \in DOMAIN events : Type(events[i]) = type}
    IN  {i \in I : Cardinality({j \in I : j > i}) < n}

Within(x, e, w) == x.time + w >= e.time /\ x.time <= e.time

\* Mutant: the suppression looks one unit too far back.
ScanSeenLonger(e, attack) ==
    \E i \in Latest("network.scan", MarkerLimit) :
        /\ events[i].attack = attack
        /\ events[i].flow = e.flow
        /\ Within(events[i], e, Window + 1)

\* Mutant: the suppression is not looked for.
ScanSeenNever(e, attack) == FALSE

\* _has_recent_allowed_scan_event, _has_recent_denied_scan_event
ScanSeen(e, attack) ==
    \E i \in Latest("network.scan", MarkerLimit) :
        /\ events[i].attack = attack
        /\ events[i].flow = e.flow
        /\ Within(events[i], e, Window)

\* _has_recent_http_flood_event
FloodSeen(e) ==
    \E i \in Latest("waf.dos", MarkerLimit) :
        /\ events[i].attack = "flood"
        /\ events[i].flow = e.flow
        /\ events[i].port = e.port
        /\ Within(events[i], e, Suppression)

\* The type of a record that was taken for nothing.
PlainType(e) == IF e.kind = "denied" THEN "network.deny" ELSE "network.event"

\* The earlier records of e's flow that an enrichment counts.
Earlier(e) ==
    {i \in Latest(PlainType(e), EventLimit) :
        /\ events[i].flow = e.flow
        /\ events[i].kind = e.kind
        /\ Within(events[i], e, Window)}

Ports(e) == {e.port} \cup {events[i].port : i \in Earlier(e)}

Connections(e) == 1 + Cardinality({i \in Earlier(e) : events[i].port = e.port})

\* Mutant: the incident's port is not compared, so one flood hides another.
OpenDuplicateAnyPort(e) ==
    /\ e.attack = "flood"
    /\ \E k \in DOMAIN incidents :
          incidents[k].open /\ incidents[k].attack = "flood" /\ incidents[k].flow = e.flow

\* Mutant: open incidents are not looked at.
OpenDuplicateNone(e) == FALSE

\* _has_open_duplicate_incident
OpenDuplicate(e) ==
    /\ e.attack = "flood"
    /\ \E k \in DOMAIN incidents :
          /\ incidents[k].open
          /\ incidents[k].attack = "flood"
          /\ incidents[k].flow = e.flow
          /\ incidents[k].port = e.port

-----------------------------------------------------------------------------
Event == [flow : Flow, port : Port, kind : Kind, time : 0..MaxTime, attack : Attack,
          read : 0..MaxEvents]

Incident == [flow : Flow, port : Port, attack : Attack, row : 1..MaxEvents,
             open : BOOLEAN, known : Nat, reopened : BOOLEAN]

Pc == {"idle", "scan", "ports", "flood", "connections", "store", "rules", "incident"}

\* Events are stored only as what their kind can become, incidents only for
\* attacks, and the threads do not exceed the bound between them.
TypeOK ==
    /\ events \in Seq(Event)
    /\ \A i \in DOMAIN events :
          /\ events[i].kind = "other" => events[i].attack = "none"
          /\ events[i].kind = "denied" => events[i].attack \in {"none", "denied scan"}
          /\ events[i].attack = "flood" => events[i].port \in HttpPort
    /\ incidents \in Seq(Incident)
    /\ \A k \in DOMAIN incidents : incidents[k].attack # "none"
    /\ clock \in 0..MaxTime
    /\ thread \in [Thread -> [pc : Pc, event : Event, row : 0..MaxEvents, known : Nat]]

Idle == [pc |-> "idle", row |-> 0, known |-> 0,
         event |-> [flow |-> CHOOSE f \in Flow : TRUE, port |-> CHOOSE p \in Port : TRUE,
                    kind |-> "other", time |-> 0, attack |-> "none", read |-> 0]]

Init ==
    /\ events = <<>>
    /\ incidents = <<>>
    /\ clock = 0
    /\ thread = [t \in Thread |-> Idle]

-----------------------------------------------------------------------------
At(t, pc) == thread[t].pc = pc
Mine(t)   == thread[t].event
Goto(t, pc) == thread' = [thread EXCEPT ![t].pc = pc]
Stop(t)     == thread' = [thread EXCEPT ![t] = Idle]
Becomes(t, e, pc) == thread' = [thread EXCEPT ![t].event = e, ![t].pc = pc]

Busy == {t \in Thread : thread[t].pc \in Pc \ {"idle", "rules", "incident"}}

\* Where the enrichments start for this event.
FirstStep(e) == IF e.kind = "other" THEN "store" ELSE "scan"

\* What follows once an attack is stored.
AfterStore(e) == IF e.attack = "flood" THEN "rules" ELSE "incident"

\* ingest_event; records that are being served are part of the bound.
Receive(t) ==
    /\ At(t, "idle")
    /\ Len(events) + Cardinality(Busy) < MaxEvents
    /\ \E r \in Traffic, now \in (IF InOrder THEN clock ELSE 0)..MaxTime :
         LET e == [flow |-> r.flow, port |-> r.port, kind |-> r.kind,
                   time |-> now, attack |-> "none", read |-> 0]
         IN  /\ Becomes(t, e, FirstStep(e))
             /\ clock' = IF now > clock THEN now ELSE clock
    /\ UNCHANGED <<events, incidents>>

\* Mutant: denied traffic is labelled like accepted traffic.
ScanAttackAllowed(e) == "allowed scan"

\* The attackType of the two port scan enrichments.
ScanAttack(e) == IF e.kind = "denied" THEN "denied scan" ELSE "allowed scan"

\* What follows an event that is no scan: accepted HTTP may be a flood.
AfterScan(e) == IF e.kind = "forwarded" /\ e.port \in HttpPort THEN "flood" ELSE "store"

\* _enrich_allowed_port_scan or _enrich_denied_port_scan, the suppression
CheckScan(t) ==
    /\ At(t, "scan")
    /\ Becomes(t, [Mine(t) EXCEPT !.read = Len(events)],
               IF ScanSeen(Mine(t), ScanAttack(Mine(t))) THEN AfterScan(Mine(t)) ELSE "ports")
    /\ UNCHANGED <<events, incidents, clock>>

\* the same, counting distinct ports
CountPorts(t) ==
    /\ At(t, "ports")
    /\ IF Cardinality(Ports(Mine(t))) >= MinPorts
       THEN Becomes(t, [Mine(t) EXCEPT !.attack = ScanAttack(Mine(t))], "store")
       ELSE Becomes(t, [Mine(t) EXCEPT !.read = Len(events)], AfterScan(Mine(t)))
    /\ UNCHANGED <<events, incidents, clock>>

\* _enrich_http_flood, the suppression
CheckFlood(t) ==
    /\ At(t, "flood")
    /\ Goto(t, IF FloodSeen(Mine(t)) THEN "store" ELSE "connections")
    /\ UNCHANGED <<events, incidents, clock>>

\* _enrich_http_flood, counting connections
CountConnections(t) ==
    /\ At(t, "connections")
    /\ IF Connections(Mine(t)) >= MinEvents
       THEN Becomes(t, [Mine(t) EXCEPT !.attack = "flood"], "store")
       ELSE Goto(t, "store")
    /\ UNCHANGED <<events, incidents, clock>>

\* add_event; only scans and floods match a rule, and only for a flood are the
\* incidents looked at.
StoreEvent(t) ==
    /\ At(t, "store")
    /\ events' = Append(events, Mine(t))
    /\ IF Mine(t).attack = "none"
       THEN Stop(t)
       ELSE thread' = [thread EXCEPT ![t].pc = AfterStore(Mine(t)), ![t].row = Len(events) + 1]
    /\ UNCHANGED <<incidents, clock>>

\* _detect_incident
MatchRules(t) ==
    /\ At(t, "rules")
    /\ IF OpenDuplicate(Mine(t))
       THEN Stop(t)
       ELSE thread' = [thread EXCEPT ![t].pc = "incident", ![t].known = Len(incidents)]
    /\ UNCHANGED <<events, incidents, clock>>

\* add_incident
OpenIncident(t) ==
    /\ At(t, "incident")
    /\ incidents' = Append(incidents,
                       [flow |-> Mine(t).flow, port |-> Mine(t).port,
                        attack |-> Mine(t).attack, row |-> thread[t].row, open |-> TRUE,
                        known |-> thread[t].known, reopened |-> FALSE])
    /\ Stop(t)
    /\ UNCHANGED <<events, clock>>

\* update_incident_status, from or to "open"; only of a flood is it ever read
SetStatus(k) ==
    /\ incidents[k].attack = "flood"
    /\ incidents' = [incidents EXCEPT ![k].open = ~@, ![k].reopened = @ \/ ~incidents[k].open]
    /\ UNCHANGED <<events, clock, thread>>

Ingest(t) ==
    \/ Receive(t) \/ CheckScan(t) \/ CountPorts(t) \/ CheckFlood(t)
    \/ CountConnections(t) \/ StoreEvent(t) \/ MatchRules(t) \/ OpenIncident(t)

Next ==
    \/ \E t \in Thread : Ingest(t)
    \/ \E k \in DOMAIN incidents : SetStatus(k)

Spec == Init /\ [][Next]_vars

-----------------------------------------------------------------------------
(* Properties. *)

\* The ports that e tried with the records its enrichment could see: those
\* stored before its read, and among the last EventLimit of their type.
\* A record that was taken for a scan still tried its port.
Tried(e) ==
    {e.port} \cup
    {events[k].port : k \in {k \in 1..e.read :
        /\ events[k].flow = e.flow
        /\ events[k].kind = e.kind
        /\ events[k].attack # "flood"
        /\ Within(events[k], e, Window)
        /\ Cardinality({j \in (k + 1)..e.read : Type(events[j]) = PlainType(e)}) < EventLimit}}

\* Whoever tries MinPorts ports of one destination within the window, by the
\* records that were there to be read, is noticed by then: a scan event of
\* the flow lies in that window, whatever the other threads do meanwhile.
ScanIsNoticed ==
    \A i \in DOMAIN events :
        events[i].kind # "other" /\ Cardinality(Tried(events[i])) >= MinPorts =>
            \E j \in 1..i : /\ events[j].attack = ScanAttack(events[i])
                            /\ events[j].flow = events[i].flow
                            /\ Within(events[j], events[i], Window)

\* A scan that goes on is reported once per window, not once per connection.
\* A second report has an excuse: its record is older than the first, the
\* first was stored after it was looked for, or MarkerLimit later scans hid it.
ScansAreApart ==
    \A i, j \in DOMAIN events :
        /\ i < j
        /\ events[i].attack \in {"allowed scan", "denied scan"}
        /\ events[j].attack = events[i].attack
        /\ events[j].flow = events[i].flow
        => \/ events[j].time > events[i].time + Window
           \/ events[j].time < events[i].time
           \/ events[j].read < i
           \/ MarkerLimit <= Cardinality({k \in (i + 1)..events[j].read :
                                             Type(events[k]) = "network.scan"})

\* An event that was taken for an attack is ticketed: once its thread is done
\* there is an incident about the same flow, attack and (for a flood) port.
AttackIsTicketed ==
    \A i \in DOMAIN events :
        events[i].attack # "none" /\ (\A t \in Thread : thread[t].row # i) =>
            \E k \in DOMAIN incidents :
                /\ incidents[k].attack = events[i].attack
                /\ incidents[k].flow = events[i].flow
                /\ events[i].attack = "flood" => incidents[k].port = events[i].port
                /\ events[i].attack # "flood" => incidents[k].row = i

\* While an HTTP flood incident is open, no second one is opened for the same
\* flow and port by a thread that could know of it.  Two are open only when the
\* second one's thread looked for a duplicate before the first was stored, or
\* when an analyst reopened the first.
OneOpenFlood ==
    \A k, l \in DOMAIN incidents :
        /\ k < l
        /\ incidents[k].attack = "flood" /\ incidents[l].attack = "flood"
        /\ incidents[k].open /\ incidents[l].open
        /\ incidents[k].flow = incidents[l].flow
        /\ incidents[k].port = incidents[l].port
        => incidents[l].known < k \/ incidents[k].reopened
=============================================================================
