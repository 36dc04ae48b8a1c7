---------------------------- MODULE FortiGateFeed ----------------------------
(***************************************************************************)
(* How the events of a FortiGate reach siem_kowalski.  Either the BFF polls *)
(* the device (a scheduler thread, and analysts who ask for it), or the     *)
(* device sends syslog datagrams to the collector of the BFF, which queues  *)
(* them for one worker.  Both ways share one row per integration: its       *)
(* cursor, lastSuccessAt, is the time at which the last run or datagram was *)
(* finished, and a run drops the events of its page that are older.         *)
(*                                                                         *)
(* Store calls are transactions of their own, so every step of a thread     *)
(* below ends with one.  Times are half seconds: the device stamps events   *)
(* with whole seconds, the BFF its cursor with milliseconds.                *)
(***************************************************************************)
EXTENDS Naturals, Sequences, FiniteSets

CONSTANTS
    Integration, \* FortiGate integrations
    Event,       \* what may happen on the devices
    Of,          \* Of[e]: the integration on whose device e happens
    Login,       \* the events that are failed logins of an administrator
    Key,         \* Key[e]: event type and source address, what a run groups by
    Scheduler,   \* the thread of the ingestion scheduler
    Handler,     \* request threads
    Interval,    \* interval_seconds of every integration
    Ttl,         \* how long the widget service keeps the events it has read
    PageSize,    \* how many events a read of the device returns
    QueueSize,   \* datagrams the collector keeps
    MaxTime,     \* bound on the clock
    MaxActs,     \* bound on what analysts do and on what goes wrong, together
    None

Thread == Handler \cup {Scheduler}
Time   == 0..MaxTime

ASSUME FeedAssumption ==
    /\ Of \in [Event -> Integration]
    /\ Login \subseteq Event
    /\ Scheduler \notin Handler
    /\ {Interval, PageSize, QueueSize} \subseteq Nat \ {0}
    /\ {Ttl, MaxTime, MaxActs} \subseteq Nat
    /\ None \notin Integration \cup Event \cup Nat

VARIABLES
    acts,        \* how many acts of analysts and faults there were
    now,         \* the clock
    born,        \* born[e]: when e happened, if it did
    forwards,    \* the integrations whose device sends syslog to the collector
    integration, \* integration[i]: "none" yet, "connected", "deleted"
    row,         \* row[i]: the ingestion status of i
    cache,       \* cache[i]: the recent-events widget of i, as last read
    thread,      \* thread[t]: the run that thread t makes
    agenda,      \* what the scheduler found due and has not run yet
    queue,       \* the datagrams of the collector
    worker,      \* the event of the worker, and whether it is in the SIEM yet
    posted,      \* posted[e]: how often siem_kowalski has e (2: or more)
    wiped,       \* POST /admin/reset is served, the cursors are not reset yet
    passed,      \* history: events that a run left behind unread
    disturbed    \* history: integrations where something went wrong or at once

devices == <<now, born, forwards>>
polling == <<cache, thread, agenda>>
syslog  == <<queue, worker>>
history == <<passed, disturbed>>
vars == <<acts, devices, integration, row, polling, syslog, posted, wiped, history>>

-----------------------------------------------------------------------------
\* What is read of a row: is it enabled, is its status "running", when was it
\* finished last, or started if it never was, what is the cursor, and was the
\* last trigger "syslog"?
Row == [enabled : BOOLEAN, running : BOOLEAN, finished : Time \cup {None},
        started : Time \cup {None}, success : Time \cup {None}, syslog : BOOLEAN]

NewRow == [enabled |-> FALSE, running |-> FALSE, finished |-> None,
           started |-> None, success |-> None, syslog |-> FALSE]

\* pc of a run: "cursor" to read the cursor, "start", "fetch", "post", "fail".
Idle == [pc |-> "idle", i |-> None, cursor |-> None, page |-> {}, todo |-> {}]

Connected == {i \in Integration : integration[i] = "connected"}

Running(i) == {t \in Thread : thread[t].i = i}

\* Every variable holds what the code can store in it; only integrations that
\* are connected have a row, a run has an integration, and only a run that
\* was started has a page.
TypeOK ==
    /\ acts \in 0..MaxActs
    /\ now \in Time
    /\ born \in [Event -> Time \cup {None}]
    /\ forwards \subseteq Integration
    /\ integration \in [Integration -> {"none", "connected", "deleted"}]
    /\ row \in [Integration -> Row \cup {None}]
    /\ \A i \in Integration : row[i] # None => i \in Connected
    /\ cache \in [Integration -> {None} \cup [at : Time, ok : BOOLEAN, page : SUBSET Event]]
    /\ thread \in [Thread -> [pc : {"idle", "cursor", "start", "fetch", "post", "fail"},
                              i : Integration \cup {None}, cursor : Time \cup {None},
                              page : SUBSET Event, todo : SUBSET Event]]
    /\ \A t \in Thread : (thread[t].pc = "idle") <=> (thread[t] = Idle)
    /\ \A t \in Thread : thread[t].page # {} => thread[t].pc \in {"post", "fail"}
    /\ agenda \subseteq Integration
    /\ queue \in Seq(Event) /\ Len(queue) <= QueueSize
    /\ worker \in {None} \cup (Event \X {"taken", "forwarded"})
    /\ posted \in [Event -> 0..2]
    /\ wiped \in BOOLEAN
    /\ passed \subseteq Event
    /\ disturbed \subseteq Integration

\* An integration is yet to be made, or polling was just enabled for it.
Init ==
    /\ acts = 0
    /\ now = 0
    /\ born = [e \in Event |-> None]
    /\ forwards = {}
    /\ integration \in [Integration -> {"none", "connected"}]
    /\ row = [i \in Integration |-> IF integration[i] = "none" THEN None
                                     ELSE [NewRow EXCEPT !.enabled = TRUE]]
    /\ cache = [i \in Integration |-> None]
    /\ thread = [t \in Thread |-> Idle]
    /\ agenda = {}
    /\ queue = <<>>
    /\ worker = None
    /\ posted = [e \in Event |-> 0]
    /\ wiped = FALSE
    /\ passed = {}
    /\ disturbed = {}

-----------------------------------------------------------------------------
(* Time and the devices. *)

\* n more acts or faults.
Spend(n) == acts + n <= MaxActs /\ acts' = acts + n

\* The second an instant lies in.
Second(t) == t \div 2

\* Time goes on.
Tick ==
    /\ now < MaxTime
    /\ now' = now + 1
    /\ UNCHANGED <<acts, born, forwards, integration, row, polling, syslog, posted, wiped, history>>

\* Mutant: a full queue takes one more.
EnqueuedAnyway(e) == Append(queue, e)

\* datagram_received: a full queue drops the datagram.
Enqueued(e) == IF Len(queue) < QueueSize THEN Append(queue, e) ELSE queue

\* Event e happens; a device that forwards its log sends a datagram, which may
\* get lost on the way.
Happen(e) ==
    /\ born[e] = None
    /\ born' = [born EXCEPT ![e] = now]
    /\ IF Of[e] \in forwards
       THEN \/ queue' = Enqueued(e) /\ Spend(0)
            \/ UNCHANGED queue /\ Spend(1)
       ELSE UNCHANGED queue /\ Spend(0)
    /\ UNCHANGED <<now, forwards, integration, row, polling, worker, posted, wiped, history>>

\* The events in the memory log of i, and its latest PageSize ones.
Log(i)    == {e \in Event : Of[e] = i /\ born[e] # None}
Latest(i) == {e \in Log(i) : Cardinality({f \in Log(i) : born[f] > born[e]}) < PageSize}

-----------------------------------------------------------------------------
(* The row of an integration. *)

\* _get_or_create_ingestion_status
Stored(i) == IF row[i] = None THEN NewRow ELSE row[i]

\* upsert_ingestion_status: a row that is running becomes idle.
Configured(r, b) == [r EXCEPT !.enabled = b, !.running = FALSE]

\* record_ingestion_started
Started(r) ==
    [r EXCEPT !.running = TRUE, !.syslog = FALSE,
              !.started = IF r.finished = None THEN now ELSE None]

\* Mutant: a run that failed moves the cursor too.
FinishedAlways(r, ok) ==
    [r EXCEPT !.running = FALSE, !.started = None, !.finished = now, !.success = now]

\* Mutant: the cursor is not moved.
FinishedOnly(r, ok) ==
    [r EXCEPT !.running = FALSE, !.started = None, !.finished = now]

\* record_ingestion_result
Finished(r, ok) ==
    [r EXCEPT !.running = FALSE, !.started = None, !.finished = now,
              !.success = IF ok THEN now ELSE @]

\* mark_syslog_forwarding_configured
AwaitingSyslog(r) == [r EXCEPT !.enabled = FALSE, !.running = FALSE, !.syslog = TRUE]

\* record_syslog_event
Streaming(r) ==
    [enabled |-> FALSE, running |-> FALSE, finished |-> now, started |-> None,
     success |-> now, syslog |-> TRUE]

\* reset_ingestion_cursors
Rewound(r) ==
    IF r = None THEN None ELSE [NewRow EXCEPT !.enabled = r.enabled]

\* When a row counts as done: at its last end, or its last start.
LastDone(r) == IF r.finished # None THEN r.finished ELSE r.started

\* The interval of an enabled row is over.
Overdue(r) == r.enabled /\ (LastDone(r) = None \/ LastDone(r) + Interval <= now)

\* Mutant: the first run never comes.
DueAfterRun ==
    {i \in Integration : row[i] # None /\ Overdue(row[i]) /\ ~row[i].running /\ LastDone(row[i]) # None}

\* list_due_ingestion_statuses; its limit of 25 rows is not reached.
Due == {i \in Integration : row[i] # None /\ Overdue(row[i]) /\ ~row[i].running}

-----------------------------------------------------------------------------
(* Integrations and their settings. *)

\* create_fortigate_integration: when the device could be told to forward its
\* log to the collector, the row says so.
Create(i) ==
    /\ integration[i] = "none"
    /\ integration' = [integration EXCEPT ![i] = "connected"]
    /\ \/ /\ forwards' = forwards \cup {i}
          /\ row' = [row EXCEPT ![i] = AwaitingSyslog(Stored(i))]
       \/ UNCHANGED <<forwards, row>>
    /\ UNCHANGED <<acts, now, born, polling, syslog, posted, wiped, history>>

\* delete_integration: the id is never given out again.
Delete(i) ==
    /\ Spend(1)
    /\ i \in Connected
    /\ integration' = [integration EXCEPT ![i] = "deleted"]
    /\ row' = [row EXCEPT ![i] = None]
    /\ UNCHANGED <<devices, polling, syslog, posted, wiped, history>>

\* apply_fortigate_log_forwarding: changes the device and not the row.
ApplyForwarding(i) ==
    /\ Spend(1)
    /\ i \in Connected
    /\ forwards' = forwards \cup {i}
    /\ UNCHANGED <<now, born, integration, row, polling, syslog, posted, wiped, history>>

\* get_fortigate_ingestion_status: a look at the status of an integration whose
\* device forwards its log turns polling off.
ReadStatus(i) ==
    /\ Spend(1)
    /\ i \in Connected
    /\ row' = [row EXCEPT ![i] =
                 IF i \in forwards /\ ~Stored(i).syslog
                 THEN AwaitingSyslog(Stored(i)) ELSE Stored(i)]
    /\ row' # row
    /\ UNCHANGED <<devices, integration, polling, syslog, posted, wiped, history>>

\* configure_fortigate_ingestion_status
Configure(i, b) ==
    /\ Spend(1)
    /\ i \in Connected
    /\ row' = [row EXCEPT ![i] = Configured(Stored(i), b)]
    /\ row' # row
    /\ UNCHANGED <<devices, integration, polling, syslog, posted, wiped, history>>

\* reset_incidents_store, first the SIEM.  A run that is under way will not
\* post again what is wiped here.
Wipe ==
    /\ Spend(1)
    /\ ~wiped
    /\ \E e \in Event : posted[e] > 0
    /\ wiped' = TRUE
    /\ posted' = [e \in Event |-> 0]
    /\ disturbed' = disturbed \cup
         {i \in Integration : Running(i) # {} \/ i \in forwards}
    /\ UNCHANGED <<devices, integration, row, polling, syslog, passed>>

\* ... then the cursors.
ResetCursors ==
    /\ wiped
    /\ wiped' = FALSE
    /\ row' = [i \in Integration |-> Rewound(row[i])]
    /\ passed' = {}
    /\ UNCHANGED <<acts, devices, integration, polling, syslog, posted, disturbed>>

-----------------------------------------------------------------------------
(* A run of _run_fortigate_event_ingestion. *)

Become(t, x) == thread' = [thread EXCEPT ![t] = x]

\* Thread t begins a run for i.
Begin(t, i) == Become(t, [Idle EXCEPT !.pc = "cursor", !.i = i])

\* ingest_fortigate_events_into_siem
RunByHand(t, i) ==
    /\ Spend(1)
    /\ t \in Handler
    /\ thread[t] = Idle
    /\ i \in Connected
    /\ Begin(t, i)
    /\ UNCHANGED <<devices, integration, row, cache, agenda, syslog, posted, wiped, history>>

\* _fortigate_ingestion_scheduler_loop: a tick lists what is due.
ListDue ==
    /\ thread[Scheduler] = Idle
    /\ agenda = {} /\ Due # {}
    /\ agenda' = Due
    /\ UNCHANGED <<acts, devices, integration, row, cache, thread, syslog, posted, wiped, history>>

\* run_due_fortigate_ingestions_once takes the next one of its list.
RunNextDue(i) ==
    /\ thread[Scheduler] = Idle
    /\ i \in agenda
    /\ agenda' = agenda \ {i}
    /\ Begin(Scheduler, i)
    /\ UNCHANGED <<acts, devices, integration, row, cache, syslog, posted, wiped, history>>

\* The integration is gone: the store raises KeyError, and the run ends.
Vanished(t) ==
    /\ thread[t].i \notin Connected
    /\ Become(t, Idle)
    /\ UNCHANGED <<row, disturbed, passed>>

\* get_ingestion_status.  Two runs of one integration at once are a disturbance.
ReadCursor(t) ==
    LET i == thread[t].i IN
    /\ thread[t].pc = "cursor"
    /\ \/ Vanished(t)
       \/ /\ i \in Connected
          /\ Become(t, [thread[t] EXCEPT !.pc = "start", !.cursor = Stored(i).success])
          /\ row' = [row EXCEPT ![i] = Stored(i)]
          /\ disturbed' = IF Running(i) # {t} \/ wiped
                          THEN disturbed \cup {i} ELSE disturbed
          /\ UNCHANGED passed
    /\ UNCHANGED <<acts, devices, integration, cache, agenda, syslog, posted, wiped>>

\* record_ingestion_started
StartRun(t) ==
    LET i == thread[t].i IN
    /\ thread[t].pc = "start"
    /\ \/ Vanished(t)
       \/ /\ i \in Connected
          /\ Become(t, [thread[t] EXCEPT !.pc = "fetch"])
          /\ row' = [row EXCEPT ![i] = Started(Stored(i))]
          /\ UNCHANGED <<passed, disturbed>>
    /\ UNCHANGED <<acts, devices, integration, cache, agenda, syslog, posted, wiped>>

\* _filter_events_after_cursor: the strings are compared, and a stamp without
\* a fraction, "...05Z", is greater than a cursor of that second, "...05.123Z".
Behind(e, cursor) == cursor # None /\ Second(born[e]) < Second(cursor)

\* What of the page is to be posted.
Fresh(page, cursor) == {e \in page : ~Behind(e, cursor)}

\* What get_widget_data answers: the page it keeps, or what the device says now.
Reading(i) ==
    IF cache[i] # None /\ now < cache[i].at + Ttl THEN cache[i]
    ELSE [at |-> now, ok |-> TRUE, page |-> Latest(i)]

\* With a fault: the page lacks the failed logins, or the device does not answer.
FaultyReadings(i) ==
    {[at |-> now, ok |-> TRUE, page |-> Latest(i) \ Login],
     [at |-> now, ok |-> FALSE, page |-> {}]}

Fetch(t) ==
    LET i == thread[t].i IN
    /\ thread[t].pc = "fetch"
    /\ i \in Connected
    /\ \E c \in {Reading(i)} \cup FaultyReadings(i) :
         /\ Spend(IF c = Reading(i) THEN 0 ELSE 1)
         /\ c # Reading(i) => Reading(i).at = now
         /\ cache' = [cache EXCEPT ![i] = c]
         /\ Become(t, IF c.ok
              THEN [thread[t] EXCEPT !.pc = "post", !.page = c.page,
                                     !.todo = Fresh(c.page, thread[t].cursor)]
              ELSE [thread[t] EXCEPT !.pc = "fail"])
    /\ UNCHANGED <<devices, integration, row, agenda, syslog, posted, wiped, history>>

\* get_connection finds nothing: an error like any other.
FetchGone(t) ==
    /\ thread[t].pc = "fetch"
    /\ thread[t].i \notin Connected
    /\ Become(t, [thread[t] EXCEPT !.pc = "fail"])
    /\ UNCHANGED <<acts, devices, integration, row, cache, agenda, syslog, posted, wiped, history>>

Plus(n, k) == IF n + k > 2 THEN 2 ELSE n + k

\* What becomes of a POST to siem_kowalski: how often it is served, and does the
\* BFF learn it?  SocServiceClient may make it twice, or give up on what was done.
Smooth == [served |-> 1, ok |-> TRUE]
PostOutcomes ==
    {Smooth, [served |-> 2, ok |-> TRUE], [served |-> 0, ok |-> FALSE], [served |-> 1, ok |-> FALSE]}

Cost(o) == IF o = Smooth THEN 0 ELSE 1

\* One SIEM event is posted per group, group after group.
PostGroup(t, e) ==
    LET S == {f \in thread[t].todo : Key[f] = Key[e]} IN
    /\ thread[t].pc = "post"
    /\ e \in thread[t].todo
    /\ \E o \in PostOutcomes :
         /\ Spend(Cost(o))
         /\ posted' = [f \in Event |-> IF f \in S THEN Plus(posted[f], o.served) ELSE posted[f]]
         /\ Become(t, IF o.ok THEN [thread[t] EXCEPT !.todo = @ \ S]
                      ELSE [thread[t] EXCEPT !.pc = "fail"])
         /\ disturbed' = IF o = Smooth THEN disturbed ELSE disturbed \cup {thread[t].i}
    /\ UNCHANGED <<devices, integration, row, cache, agenda, syslog, wiped, passed>>

\* record_ingestion_result(ok=True): the cursor is now, not the time of the page.
FinishRun(t) ==
    LET i == thread[t].i IN
    /\ thread[t].pc = "post" /\ thread[t].todo = {}
    /\ \/ Vanished(t)
       \/ /\ i \in Connected
          /\ Become(t, Idle)
          /\ row' = [row EXCEPT ![i] = Finished(Stored(i), TRUE)]
          /\ passed' = passed \cup (Log(i) \ thread[t].page)
          /\ UNCHANGED disturbed
    /\ UNCHANGED <<acts, devices, integration, cache, agenda, syslog, posted, wiped>>

\* record_ingestion_result(ok=False)
FailRun(t) ==
    LET i == thread[t].i IN
    /\ thread[t].pc = "fail"
    /\ \/ Vanished(t)
       \/ /\ i \in Connected
          /\ Become(t, Idle)
          /\ row' = [row EXCEPT ![i] = Finished(Stored(i), FALSE)]
          /\ UNCHANGED <<passed, disturbed>>
    /\ UNCHANGED <<acts, devices, integration, cache, agenda, syslog, posted, wiped>>

-----------------------------------------------------------------------------
(* The syslog collector. *)

\* _forward_loop takes a datagram.
TakeDatagram ==
    /\ worker = None
    /\ queue # <<>>
    /\ worker' = <<Head(queue), "taken">>
    /\ queue' = Tail(queue)
    /\ UNCHANGED <<acts, devices, integration, row, polling, posted, wiped, history>>

\* handle_datagram up to the POST; an exception is logged, and the event is lost.
ForwardDatagram ==
    /\ worker # None /\ worker[2] = "taken"
    /\ \E o \in PostOutcomes :
         /\ Spend(Cost(o))
         /\ posted' = [posted EXCEPT ![worker[1]] = Plus(@, o.served)]
         /\ worker' = IF o.ok /\ Of[worker[1]] \in Connected
                      THEN <<worker[1], "forwarded">> ELSE None
    /\ disturbed' = disturbed \cup {Of[worker[1]]}
    /\ UNCHANGED <<devices, integration, row, polling, queue, wiped, passed>>

\* record_status: the cursor of polling moves with the datagram.
RecordDatagram ==
    LET i == Of[worker[1]] IN
    /\ worker # None /\ worker[2] = "forwarded"
    /\ worker' = None
    /\ row' = IF i \in Connected
              THEN [row EXCEPT ![i] = Streaming(Stored(i))] ELSE row
    /\ UNCHANGED <<acts, devices, integration, polling, queue, posted, wiped, history>>

\* The BFF dies and is started again: rows survive, nothing else does.
Restart ==
    /\ Spend(1)
    /\ thread' = [t \in Thread |-> Idle]
    /\ disturbed' = disturbed \cup {i \in Integration : wiped \/ Running(i) # {}}
    /\ cache' = [i \in Integration |-> None]
    /\ agenda' = {}
    /\ queue' = <<>>
    /\ worker' = None
    /\ wiped' = FALSE
    /\ UNCHANGED <<devices, integration, row, posted, passed>>

-----------------------------------------------------------------------------
Setting(i) ==
    \/ Create(i) \/ Delete(i) \/ ApplyForwarding(i) \/ ReadStatus(i)
    \/ \E b \in BOOLEAN : Configure(i, b)

Poll(t) ==
    \/ ReadCursor(t) \/ StartRun(t) \/ Fetch(t) \/ FetchGone(t)
    \/ \E e \in Event : PostGroup(t, e)
    \/ FinishRun(t) \/ FailRun(t)

Collector == TakeDatagram \/ ForwardDatagram \/ RecordDatagram

SchedulerLoop == ListDue \/ \E i \in Integration : RunNextDue(i)

Next ==
    \/ Tick \/ Restart \/ SchedulerLoop \/ Collector \/ Wipe \/ ResetCursors
    \/ \E e \in Event : Happen(e)
    \/ \E i \in Integration : Setting(i)
    \/ \E t \in Handler, i \in Integration : RunByHand(t, i)
    \/ \E t \in Thread : Poll(t)

Spec == Init /\ [][Next]_vars

\* The scheduler's loop goes on, threads finish, and the collector's worker
\* takes what is queued.
Fairness ==
    /\ WF_vars(SchedulerLoop)
    /\ \A t \in Thread : WF_vars(Poll(t))
    /\ WF_vars(Collector)

FairSpec == Spec /\ Fairness

-----------------------------------------------------------------------------
(* Properties. *)

\* The cursor of a polled integration leaves an event behind only when the event
\* was posted, or was not in the page that a successful run had read: it came
\* after the page was read (or kept), did not fit in, or its call had failed.
\* Overlapping runs, syslog beside polling and a reset in the middle are apart.
PassedIfUnread ==
    \A i \in Connected \ disturbed : \A e \in Log(i) :
        row[i] # None /\ ~wiped /\ Behind(e, row[i].success) =>
            posted[e] > 0 \/ e \in passed

\* A run that is alone in moving the cursor posts no event that the SIEM has,
\* unless its cursor lies in the very second of that event: what is posted once
\* is behind the cursor of every later run.
RepeatInItsSecond ==
    \A t \in Thread : \A e \in thread[t].todo \ thread'[t].todo :
        posted[e] > 0 /\ thread[t].i \in Connected \ disturbed' =>
            thread[t].cursor # None /\ Second(thread[t].cursor) = Second(born[e])

\* The row says that a run is under way, and there is none: the BFF died in it.
Abandoned(i) == row[i] # None /\ row[i].running /\ Running(i) = {}

\* An integration that is polled and whose interval is over is run, turned off
\* or deleted, unless its row was abandoned, which no code notices.
OverdueIsRun ==
    \A i \in Integration :
        (row[i] # None /\ Overdue(row[i])) ~>
            (row[i] = None \/ ~Overdue(row[i]) \/ Abandoned(i))
=============================================================================
