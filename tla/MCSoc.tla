-------------------------------- MODULE MCSoc --------------------------------
(***************************************************************************)
(* Instances for TLC of five machines of the SOC: how the events of        *)
(* FortiGates and of endpoints come in, how an incident is triaged, how    *)
(* its ticket is worked on, and how playbooks run.  They share no state:   *)
(* `part' says which of them runs, the variables that it does not have are *)
(* None, and one of the same name serves each of them in turn.             *)
(***************************************************************************)
EXTENDS TLC, Sequences, FiniteSets, Functions, Integers

CONSTANTS
    None, Integration, Event, Of, Login, Key, Scheduler, Worker, Interval, Ttl,
    PageSize, QueueSize, MaxTime, MaxActs, Type, Severity, Attribute, Entity,
    ScanPorts, BruteForce, DeniedBurst, Number, Request, Attempts, CacheTtl,
    MaxFailures, Graph, AiStep, MaxSteps, Edited, MaxFaults, Endpoint, HostOf, Own,
    Gateway, Remote, Malicious, User, MaxEvents, MaxLapses

VARIABLES
    part, \* the machine that runs
    acts, now, born, forwards, integration, row, cache, thread, agenda, queue,
    worker, posted, wiped, passed, disturbed, event, incident, shown, playbook,
    suggested, ticket, pc, audit, expires, faults, undone, unanswered, stored, runs,
    matches, drafted, edited, fetched, path, done, stop, events, work, checked,
    timeline, incidents, overtaken, late

\* All events happen on the one device, and no two are grouped together.
AllOfOne == [e \in Event |-> CHOOSE i \in Integration : TRUE]
OwnKeys  == [e \in Event |-> e]

\* Playbooks of a trigger and two nodes, with up to three edges.
Pairs == {p \in (1..3) \X (1..3) : p[1] # p[2]}
Edges(conds) == {[from |-> p[1], to |-> p[2], cond |-> c] : p \in Pairs, c \in conds}
SavedGraphs ==
    {[types |-> <<"trigger">> \o t, edges |-> e] :
        t \in [1..2 -> {"condition", "note", "gate", "block"}],
        e \in UNION {[1..n -> Edges({"success", "false"})] : n \in 0..2} \cup
             {f \in [1..3 -> Edges({"success"})] : IsInjective(f)}}
AiSteps == [kind : {"block", "note", "enrich", "gate"}, approval : BOOLEAN]
NoteOnly == [types |-> <<"trigger", "note">>, edges |-> <<[from |-> 1, to |-> 2, cond |-> "success"]>>]

OneHost == [e \in Endpoint |-> "host"]
OneUser == {<<"corp", "ann">>}

FD == INSTANCE FortiGateFeed WITH Handler <- Worker
TR == INSTANCE Triage
TD == INSTANCE TicketDesk WITH Ttl <- CacheTtl, MaxFaults <- MaxFailures
PG == INSTANCE PlaybookGraph
EE == INSTANCE EndpointEvents WITH Handler <- Request, MaxFaults <- MaxLapses

OutOfFD ==
    <<part, event, incident, shown, playbook, suggested, ticket, pc, audit, expires,
      faults, undone, unanswered, stored, runs, matches, drafted, edited, fetched,
      path, done, stop, events, work, checked, timeline, incidents, overtaken, late>>
OutOfTR ==
    <<part, acts, now, born, forwards, integration, row, cache, thread, agenda,
      queue, worker, posted, wiped, passed, disturbed, ticket, pc, audit, expires,
      faults, undone, unanswered, stored, runs, matches, drafted, edited, fetched,
      path, done, stop, events, work, checked, timeline, incidents, overtaken, late>>
OutOfTD ==
    <<part, acts, born, forwards, integration, row, thread, agenda, queue, worker,
      posted, wiped, passed, disturbed, event, incident, shown, playbook, suggested,
      stored, runs, matches, drafted, edited, fetched, path, done, stop, events,
      work, checked, timeline, incidents, overtaken>>
OutOfPG ==
    <<part, acts, now, born, forwards, integration, row, cache, thread, agenda,
      queue, worker, posted, wiped, passed, disturbed, event, incident, shown,
      playbook, suggested, ticket, audit, expires, undone, unanswered, events, work,
      checked, timeline, incidents, overtaken, late>>
OutOfEE ==
    <<part, acts, now, born, forwards, integration, thread, agenda, queue, worker,
      posted, wiped, passed, disturbed, event, incident, shown, playbook, suggested,
      ticket, pc, expires, undone, unanswered, stored, runs, matches, drafted,
      edited, fetched, path, done, stop>>
all ==
    <<part, acts, now, born, forwards, integration, row, cache, thread, agenda,
      queue, worker, posted, wiped, passed, disturbed, event, incident, shown,
      playbook, suggested, ticket, pc, audit, expires, faults, undone, unanswered,
      stored, runs, matches, drafted, edited, fetched, path, done, stop, events,
      work, checked, timeline, incidents, overtaken, late>>

-----------------------------------------------------------------------------
\* An event happens on one device; bounds are numbers, and None is neither an
\* integration, an event, a time nor a row.
ASSUME FeedAssumption ==
    /\ Of \in [Event -> Integration]
    /\ {QueueSize, MaxTime, MaxActs} \subseteq Nat
    /\ None \notin Integration \cup Event \cup Nat
    /\ None \notin FD!Row

\* The thresholds of the triage engine are positive, counts are numbers, and
\* None is no incident.
ASSUME TriageAssumption ==
    /\ {ScanPorts, BruteForce, DeniedBurst} \subseteq Nat \ {0}
    /\ Number \subseteq Nat
    /\ None \notin TR!Incident

\* None is neither a time nor an outcome or an operation.
ASSUME TicketAssumption ==
    /\ {Attempts, CacheTtl, MaxFailures, MaxTime} \subseteq Nat
    /\ None \notin Nat \cup {"success", "status", "board", "analyze", "enrich"}

\* A call is tried at least once, and None is no verdict and no endpoint.
ASSUME EndpointAssumption ==
    /\ Attempts \in Nat \ {0} /\ MaxEvents \in Nat
    /\ None \notin EE!Verdict /\ None \notin EE!Row

\* What is stored is well formed, and the AI names steps that there are.
ASSUME PlaybookAssumption ==
    /\ Graph \cup {Edited} \subseteq PG!Playbook
    /\ AiStep \subseteq [kind : {"block", "note", "enrich", "gate"}, approval : BOOLEAN]
    /\ {MaxSteps, MaxFaults} \subseteq Nat
    /\ None \notin Nat /\ None \notin PG!Playbook

-----------------------------------------------------------------------------
InitFD ==
    /\ part = "feed" /\ FD!Init
    /\ event = None /\ incident = None /\ shown = None /\ playbook = None
    /\ suggested = None /\ ticket = None /\ pc = None /\ audit = None
    /\ expires = None /\ faults = None /\ undone = None /\ unanswered = None
    /\ stored = None /\ runs = None /\ matches = None /\ drafted = None
    /\ edited = None /\ fetched = None /\ path = None /\ done = None /\ stop = None
    /\ events = None /\ work = None /\ checked = None /\ timeline = None
    /\ incidents = None /\ overtaken = None /\ late = None
InitTR ==
    /\ part = "triage" /\ TR!Init
    /\ acts = None /\ now = None /\ born = None /\ forwards = None
    /\ integration = None /\ row = None /\ cache = None /\ thread = None
    /\ agenda = None /\ queue = None /\ worker = None /\ posted = None
    /\ wiped = None /\ passed = None /\ disturbed = None /\ ticket = None
    /\ pc = None /\ audit = None /\ expires = None /\ faults = None /\ undone = None
    /\ unanswered = None /\ stored = None /\ runs = None /\ matches = None
    /\ drafted = None /\ edited = None /\ fetched = None /\ path = None
    /\ done = None /\ stop = None /\ events = None /\ work = None /\ checked = None
    /\ timeline = None /\ incidents = None /\ overtaken = None /\ late = None
InitTD ==
    /\ part = "tickets" /\ TD!Init
    /\ acts = None /\ born = None /\ forwards = None /\ integration = None
    /\ row = None /\ thread = None /\ agenda = None /\ queue = None /\ worker = None
    /\ posted = None /\ wiped = None /\ passed = None /\ disturbed = None
    /\ event = None /\ incident = None /\ shown = None /\ playbook = None
    /\ suggested = None /\ stored = None /\ runs = None /\ matches = None
    /\ drafted = None /\ edited = None /\ fetched = None /\ path = None
    /\ done = None /\ stop = None /\ events = None /\ work = None /\ checked = None
    /\ timeline = None /\ incidents = None /\ overtaken = None
InitPG ==
    /\ part = "playbooks" /\ PG!Init
    /\ acts = None /\ now = None /\ born = None /\ forwards = None
    /\ integration = None /\ row = None /\ cache = None /\ thread = None
    /\ agenda = None /\ queue = None /\ worker = None /\ posted = None
    /\ wiped = None /\ passed = None /\ disturbed = None /\ event = None
    /\ incident = None /\ shown = None /\ playbook = None /\ suggested = None
    /\ ticket = None /\ audit = None /\ expires = None /\ undone = None
    /\ unanswered = None /\ events = None /\ work = None /\ checked = None
    /\ timeline = None /\ incidents = None /\ overtaken = None /\ late = None
InitEE ==
    /\ part = "endpoints" /\ EE!Init
    /\ acts = None /\ now = None /\ born = None /\ forwards = None
    /\ integration = None /\ thread = None /\ agenda = None /\ queue = None
    /\ worker = None /\ posted = None /\ wiped = None /\ passed = None
    /\ disturbed = None /\ event = None /\ incident = None /\ shown = None
    /\ playbook = None /\ suggested = None /\ ticket = None /\ pc = None
    /\ expires = None /\ undone = None /\ unanswered = None /\ stored = None
    /\ runs = None /\ matches = None /\ drafted = None /\ edited = None
    /\ fetched = None /\ path = None /\ done = None /\ stop = None

Init == InitFD \/ InitTR \/ InitTD \/ InitPG \/ InitEE

Next ==
    \/ part = "feed" /\ FD!Next /\ UNCHANGED OutOfFD
    \/ part = "triage" /\ TR!Next /\ UNCHANGED OutOfTR
    \/ part = "tickets" /\ TD!Next /\ UNCHANGED OutOfTD
    \/ part = "playbooks" /\ PG!Next /\ UNCHANGED OutOfPG
    \/ part = "endpoints" /\ EE!Next /\ UNCHANGED OutOfEE

Spec == Init /\ [][Next]_all

\* Threads and names are interchangeable.
Symmetry == Permutations(Request)

-----------------------------------------------------------------------------
\* The cursor of a polled integration leaves an event behind only when it was
\* posted, or was not in the page that a successful run had read, whatever
\* syslog, manual runs and restarts do meanwhile (run_fortigate_ingestion).
CursorLosesNothingRead ==
    part = "feed" =>
        /\ FD!TypeOK
        /\ FD!PassedIfUnread

\* What triage shows and what is recommended later agree: mappings to ATT&CK
\* cite evidence that is shown; a template asks for a candidate the context
\* has, with its approval; a recommended playbook blocks only where the
\* candidate to block is available and asks for approval; and the tier is
\* that of the severity until an analyst changes it.
TriageIsConsistent ==
    part = "triage" =>
        /\ TR!TypeOK
        /\ TR!CitedIsShown
        /\ TR!TemplatesAskForCandidates
        /\ TR!BlockIsOffered
        /\ TR!TierIsOfSeverity

\* Also after writes that were overtaken or came late every incident is counted:
\* open for the SLA, closed on the board, or resolved with its time.  Success is
\* audited of a change that is in the ticket, or was until an overtaking
\* patch was written, and a change that stays is audited as done unless the
\* answer was lost; a verdict noted is no older than its time to live
\* (ThreatIntelService).
TicketsAreTrue ==
    part = "tickets" =>
        /\ TD!TypeOK
        /\ TD!ResolvedIsTimed
        /\ TD!SuccessIsInTicket
        /\ TD!ChangeIsAudited
        /\ TD!VerdictIsRecent

\* The steps of a run are its playbook's nodes in the order of the edges
\* (_ordered_nodes); whatever the graph, a node has an effect only if the
\* trigger leads to it past no gate and along edges the severity allows;
\* effects that stop at a gate leave the run waiting or approved, if nobody
\* edited the playbook; and drafts never come to a sensitive node before an
\* approval, whatever the AI marks.
EffectsAreApproved ==
    part = "playbooks" =>
        /\ PG!TypeOK
        /\ PG!StepsFollowEdges
        /\ PG!GatesHold
        /\ PG!StoppedRunWaits
        /\ PG!DraftAsksFirst

\* The BFF and xdr_rico match incidents with endpoints alike, but for
\* observed addresses and principals; no event is an alarm for a verdict on
\* an earlier one; a suspicious event audited as a success is in
\* siem_kowalski, though calls are repeated, fail and are served late; and a
\* verdict is not forgotten, unless a request came while another or a call that
\* was given up was still served, or the endpoint was deleted
\* (ingest_endpoint_event).
EndpointEventsAgree ==
    part = "endpoints" =>
        /\ EE!TypeOK
        /\ EE!MatchesAgree
        /\ EE!AlarmIsOwn
        /\ EE!SuccessIsForwarded
        /\ EE!VerdictStays

\* A run of the polling that is alone in moving the cursor posts an event
\* again only when the cursor lies in the very second of the event; and no
\* repeated PATCH or reopening of a ticket moves its time to resolve, unless
\* the document was written over.
RepetitionsAreHarmless ==
    [][/\ part = "feed" => FD!RepeatInItsSecond
       /\ part = "tickets" => TD!ResolutionKept]_all

=============================================================================
