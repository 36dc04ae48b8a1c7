---------------------------- MODULE FailedLogins -----------------------------
(***************************************************************************)
(* How failed logins become an incident.  A FortiGate pushes them in batches *)
(* to the webhook of the BFF, where an aggregator in memory counts them by   *)
(* source and lets only some through, each with the count so far.  Other     *)
(* ways (polling, syslog) post every attempt on its own.  siem_kowalski adds *)
(* up the counts of the latest records of one subject and flags the record   *)
(* that reaches its threshold; every flagged record opens an incident.  A    *)
(* post may be served more often, or later, than its sender knows.           *)
(*                                                                         *)
(* An ingest of siem_kowalski is one step here; SiemFlows has its steps.     *)
(***************************************************************************)
EXTENDS Naturals, Sequences, FiniteSetsExt

CONSTANTS
    Source,        \* addresses that attempts come from
    User,          \* user names, which an attempt need not carry
    Handler,       \* request threads
    Window,        \* the aggregator's window_seconds
    Threshold,     \* its threshold
    RateLimit,     \* its rate_limit_seconds
    SiemWindow,    \* how far back siem_kowalski looks (5 minutes)
    SiemThreshold, \* the count that makes a burst there
    SiemLimit,     \* how many records it reads
    MaxTries,      \* how often the BFF sends a post (SocClient.max_attempts)
    MaxBatch,      \* bound on the attempts of a batch
    MaxAttempts,   \* bound on the attempts at the webhook
    MaxRecords,    \* bound on the records of siem_kowalski, and on late posts
    MaxLoad,       \* bound on all three when a request comes to a siem_kowalski
                   \* that has something, and when a single record comes
    MaxTime,       \* bound on the clock
    None

VARIABLES
    now,       \* the clock
    burst,     \* burst[s]: the _BurstState of source s
    batch,     \* the batch that each handler thread works on
    records,   \* the auth.failed_login events of siem_kowalski, oldest first
    tried,     \* history: the attempts that were registered, and when
    reported,  \* history: the emissions of the aggregator, and when
    late       \* posts that were given up and that siem_kowalski may serve yet

vars == <<now, burst, batch, records, tried, reported, late>>

Time    == 0..MaxTime
Subject == [src : Source, user : User \cup {None}]
NoBurst == [count |-> 0, first |-> None, emit |-> None]
Idle    == [todo |-> <<>>, at |-> None, ready |-> FALSE]

\* A failed login that is posted, and which of its tries it is.
Post    == [subject : Subject, at : Time, sent : Nat \ {0}, try : 1..MaxTries]

\* What the aggregator, the requests and siem_kowalski hold.
TypeOK ==
    /\ now \in Time
    /\ \A s \in Source :
         /\ burst[s].count \in 0..MaxAttempts
         /\ burst[s].first \in Time \cup {None} /\ burst[s].emit \in Time \cup {None}
         /\ burst[s].emit # None => burst[s].count >= Threshold
    /\ \A h \in Handler :
         /\ Len(batch[h].todo) <= MaxBatch /\ \A x \in Range(batch[h].todo) : x \in Source
         /\ (batch[h].todo = <<>>) <=> (batch[h] = Idle)
    /\ \A r \in Range(records) :
         r.subject \in Subject /\ r.at \in Time /\ r.sent \in Nat \ {0} /\ r.count >= r.sent
    /\ late \subseteq Post

Init ==
    /\ now = 0
    /\ burst = [s \in Source |-> NoBurst]
    /\ batch = [h \in Handler |-> Idle]
    /\ records = <<>>
    /\ tried = <<>>
    /\ reported = {}
    /\ late = {}

Tick ==
    /\ now < MaxTime
    /\ now' = now + 1
    /\ UNCHANGED <<burst, batch, records, tried, reported, late>>

-----------------------------------------------------------------------------
(* The aggregator. *)

\* Mutant: the count goes on when the window is over.
FreshCounting(b, t) ==
    IF b.first = None THEN [NoBurst EXCEPT !.first = t]
    ELSE IF t > b.first + Window THEN [b EXCEPT !.first = t, !.emit = None] ELSE b

\* register: a window starts with an attempt, and does not slide.
Fresh(b, t) ==
    IF b.first = None \/ t > b.first + Window THEN [NoBurst EXCEPT !.first = t] ELSE b

\* Mutant: the threshold must be passed, not reached.
EmitsPast(b, t) == b.count > Threshold /\ (b.emit = None \/ t >= b.emit + RateLimit)

Emits(b, t) == b.count >= Threshold /\ (b.emit = None \/ t >= b.emit + RateLimit)

\* ingest_fortigate_webhook begins: all attempts of a batch get one time.
Receive(h, xs) ==
    /\ batch[h] = Idle
    /\ xs # <<>> /\ Len(tried) + Len(xs) <= MaxAttempts
    /\ \/ records = <<>> /\ late = {}
       \/ Len(tried) + Len(xs) + Len(records) + Cardinality(late) <= MaxLoad
    /\ batch' = [batch EXCEPT ![h] = [todo |-> xs, at |-> now, ready |-> FALSE]]
    /\ UNCHANGED <<now, burst, records, tried, reported, late>>

\* Mutant: a batch is not over after its last attempt.
RestOpen(b) == [b EXCEPT !.todo = Tail(@), !.ready = FALSE]

\* What is left of a batch after its first attempt.
Rest(b) == IF Len(b.todo) = 1 THEN Idle ELSE [b EXCEPT !.todo = Tail(@), !.ready = FALSE]

\* register, under the lock: the attempt is skipped, or to be forwarded.
Register(h) ==
    LET t == batch[h].at
        s == Head(batch[h].todo)
        b == [Fresh(burst[s], t) EXCEPT !.count = @ + 1] IN
    /\ batch[h].todo # <<>> /\ ~batch[h].ready
    /\ Len(tried) < MaxAttempts
    /\ tried' = Append(tried, [src |-> s, at |-> t])
    /\ IF Emits(b, t)
       THEN /\ burst' = [burst EXCEPT ![s] = [b EXCEPT !.emit = t]]
            /\ batch' = [batch EXCEPT ![h].ready = TRUE]
            /\ reported' = reported \cup {[src |-> s, at |-> t]}
       ELSE /\ burst' = [burst EXCEPT ![s] = b]
            /\ batch' = [batch EXCEPT ![h] = Rest(batch[h])]
            /\ UNCHANGED reported
    /\ UNCHANGED <<now, records, late>>

-----------------------------------------------------------------------------
(* siem_kowalski. *)

\* _same_auth_subject: what is missing on one side is no difference.
SameSubject(x, y) ==
    x.src = y.src /\ (x.user = y.user \/ None \in {x.user, y.user})

\* Mutant: a record is compared with every record that was read.
RelatedEver(x, t) ==
    {k \in DOMAIN records : k + SiemLimit > Len(records) /\ SameSubject(x, records[k].subject)}

\* The records that _enrich_failed_login_burst adds up for subject x at t.
Related(x, t) ==
    {k \in DOMAIN records : /\ k + SiemLimit > Len(records)
                            /\ records[k].at + SiemWindow >= t /\ records[k].at <= t
                            /\ SameSubject(x, records[k].subject)}

\* Their counts, the latest first, until the threshold is reached.
Sum(K, n) ==
    MapThenFoldSet(LAMBDA c, acc : IF acc >= SiemThreshold THEN acc ELSE acc + c,
                   n, LAMBDA k : records[k].count, Min, K)

\* Mutant: the count that was sent is not looked at.
EnrichedBlind(x, t, n) ==
    LET sum == Sum(Related(x, t), 1) IN IF sum >= SiemThreshold THEN sum ELSE 1

\* _enrich_failed_login_burst: the count that is stored.
Enriched(x, t, n) ==
    LET sum == Sum(Related(x, t), n) IN
    IF n >= SiemThreshold THEN n ELSE IF sum >= SiemThreshold THEN sum ELSE n

Record(x, t, n) ==
    [subject |-> x, at |-> t, sent |-> n, count |-> Enriched(x, t, n)]

\* _matches_rule(repeated_failed_login): an incident is opened for the record.
Flagged(r) == r.count >= SiemThreshold

Stored(p) == records' = Append(records, Record(p.subject, p.at, p.sent))

\* _ingest_to_siem.  The user is sent under another key than siem_kowalski
\* reads, so the record has none; the time is the one that the device wrote
\* into the log; the count is the one it is now, what other threads counted on.
\* A try that times out is repeated, and may be served later; when all have
\* failed the rest of the batch is not looked at.
Forward(h) ==
    /\ batch[h].ready
    /\ \E t \in 0..now, n \in 0..MaxTries :
         LET s    == Head(batch[h].todo)
             p(k) == [subject |-> [src |-> s, user |-> None], at |-> t,
                      sent |-> burst[s].count, try |-> k] IN
         /\ late' = late \cup {p(k) : k \in 1..n}
         /\ Len(records) + Cardinality(late') < MaxRecords
         /\ \/ /\ n < MaxTries /\ Stored(p(MaxTries))
               /\ batch' = [batch EXCEPT ![h] = Rest(batch[h])]
            \/ /\ batch' = [batch EXCEPT ![h] = Idle]
               /\ UNCHANGED records
    /\ UNCHANGED <<now, burst, tried, reported>>

\* A post that its sender gave up is served after all.
ServeLate(p) ==
    /\ p \in late /\ late' = late \ {p}
    /\ Len(records) < MaxRecords /\ Stored(p)
    /\ UNCHANGED <<now, burst, batch, tried, reported>>

\* An attempt that is polled, or came by syslog, is posted on its own, with its
\* time (a repeated post is the same attempt once more).
PostSingle(x, t) ==
    /\ Len(records) < MaxRecords /\ Len(tried) + Len(records) + Cardinality(late) < MaxLoad
    /\ records' = Append(records, Record(x, t, 1))
    /\ UNCHANGED <<now, burst, batch, tried, reported, late>>

\* The BFF is started again: the aggregator and its requests are gone.  While
\* siem_kowalski has nothing it is as if the BFF was only started now.
Restart ==
    /\ tried # <<>> /\ (records # <<>> \/ late # {})
    /\ burst' = [s \in Source |-> NoBurst]
    /\ batch' = [h \in Handler |-> Idle]
    /\ tried' = <<>> /\ reported' = {}
    /\ UNCHANGED <<now, records, late>>

Next ==
    \/ Tick \/ Restart
    \/ \E h \in Handler :
         \/ \E n \in 1..MaxBatch : \E xs \in [1..n -> Source] : Receive(h, xs)
         \/ Register(h) \/ Forward(h)
    \/ \E p \in late : ServeLate(p)
    \/ \E x \in Subject, t \in 0..now : PostSingle(x, t)

Spec == Init /\ [][Next]_vars

-----------------------------------------------------------------------------
(* What the code promises. *)

\* The webhook times of the attempts of source s that a running BFF has seen,
\* when no thread was overtaken by a later one.
InOrder == \A j, k \in DOMAIN tried : j < k => tried[j].at <= tried[k].at

\* Attempts of s in the Window from t on.
Tries(s, t) == {k \in DOMAIN tried : tried[k].src = s /\ tried[k].at \in t..(t + Window)}

\* The window does not slide, so a burst can fall into two of them; but when it
\* is twice as long as the threshold asks for, one of its attempts was let
\* through, or one in the window before.
DoubleBurstIsReported ==
    InOrder => \A s \in Source, t \in Time :
        Cardinality(Tries(s, t)) >= 2 * Threshold - 1 =>
            \E e \in reported : e.src = s /\ e.at + Window >= t /\ e.at <= t + Window

\* The records that the record at k is compared with.
Before(k) ==
    {j \in 1..(k - 1) : /\ j + SiemLimit > k - 1
                        /\ records[j].at + SiemWindow >= records[k].at
                        /\ records[j].at <= records[k].at
                        /\ SameSubject(records[k].subject, records[j].subject)}

SentSum(K) == MapThenFoldSet(LAMBDA n, acc : acc + n, 0, LAMBDA k : records[k].sent, Min, K)

\* An attack on one account is an incident by its third attempt: attempts that
\* came one by one, close together, and without others in between that push
\* them out of what is read, are flagged when they add up.
BurstIsNoticed ==
    \A k \in DOMAIN records :
        SentSum(Before(k) \cup {k}) >= SiemThreshold => Flagged(records[k])

\* No incident without a burst: a record is flagged for what it says itself,
\* for the attempts that were sent in its window, or because it follows, within
\* the window, a record that is flagged (whose sum counts again).
FlagsHaveCause ==
    \A k \in DOMAIN records : Flagged(records[k]) =>
        \/ SentSum(Before(k) \cup {k}) >= SiemThreshold
        \/ \E j \in Before(k) : Flagged(records[j])

\* Nor does the aggregator report what is no burst: as many attempts of the
\* source as the threshold says came in the Window up to the emission.
ReportedIsBurst ==
    InOrder => \A e \in reported :
        Cardinality({k \in DOMAIN tried :
            tried[k].src = e.src /\ tried[k].at + Window >= e.at /\ tried[k].at <= e.at})
          >= Threshold
=============================================================================
