----------------------------- MODULE XdrActions -----------------------------
(***************************************************************************)
(* The remote actions of an endpoint: the xdr_rico action table, the BFF   *)
(* gateway that forwards to it, and the agent_private daemon that polls    *)
(* for actions, runs them and reports their results.                       *)
(*                                                                         *)
(* An HTTP exchange of a daemon is a call.  The daemon waits for the BFF   *)
(* and the BFF waits for xdr_rico; both have a deadline of their own, the  *)
(* BFF sends a request it got no answer to a second time, and neither can  *)
(* cancel what it no longer waits for.  A call that nobody waits for still *)
(* runs in xdr_rico to its end.                                            *)
(*                                                                         *)
(* xdr_rico runs its handlers in a thread pool over PostgreSQL at the      *)
(* default READ COMMITTED level, with no row lock: a store method that     *)
(* SELECTs a row and then UPDATEs it by id is two steps here.  The token   *)
(* of a daemon is bound to its endpoint (EnrollmentBinding models how).    *)
(***************************************************************************)
EXTENDS Naturals, FiniteSets

CONSTANTS
    Endpoint,     \* endpoint ids
    Daemon,       \* agent_private daemon processes
    At,           \* At[d]: the endpoint that daemon d is configured for
    Action,       \* action ids, numbered in the order of their created_at
    Target,       \* Target[a]: the endpoint that action a is created for
    NoAction,     \* the answer of a claim that finds nothing queued
    CallId,       \* bound: the calls that are under way at the same time
    MaxAttempts,  \* SocServiceClient.max_attempts
    Faults        \* may deadlines expire, answers get lost, daemons restart?

ASSUME XdrAssumption ==
    /\ At \in [Daemon -> Endpoint]
    /\ Action \subseteq Nat
    /\ Target \in [Action -> Endpoint]
    /\ NoAction \notin Action
    /\ MaxAttempts \in Nat \ {0}
    /\ Faults \in BOOLEAN

VARIABLES
    endpoints,  \* the rows of the endpoints table
    deleting,   \* endpoints whose DELETE handler is past its 404 check
    status,     \* status[a]: the status column of the row of action a
    calls,      \* the HTTP exchanges under way
    agent,      \* agent[d]: what the polling loop of daemon d is doing
    ran         \* history: <<d, a, o>> when daemon d ran a with outcome o

vars == <<endpoints, deleting, status, calls, agent, ran>>

Outcome == {"completed", "failed"}
Unborn  == {"new", "drafted"}
Status  == Unborn \cup {"queued", "claimed", "deleted"} \cup Outcome

Exchange == [id      : CallId,
             phase   : {"sent", "selected", "answered"},
             kind    : {"claim", "report"},
             daemon  : Daemon,
             action  : Action \cup {NoAction},
             outcome : Outcome,
             attempt : 1 .. MaxAttempts,
             awaited : BOOLEAN,    \* the BFF still waits for xdr_rico
             heard   : BOOLEAN]    \* the daemon still waits for the BFF

Activity == [pc : {"idle", "claiming", "executing", "reporting"},
             action : Action \cup {NoAction}]

\* Every variable holds what the code can store in it.
TypeOK ==
    /\ endpoints \subseteq Endpoint
    /\ deleting \subseteq Endpoint
    /\ status \in [Action -> Status]
    /\ calls \subseteq Exchange
    /\ agent \in [Daemon -> Activity]
    /\ ran \subseteq Daemon \X Action \X Outcome

-----------------------------------------------------------------------------
Idle == [pc |-> "idle", action |-> NoAction]

Init ==
    /\ endpoints = Endpoint
    /\ deleting = {}
    /\ status = [a \in Action |-> "new"]
    /\ calls = {}
    /\ agent = [d \in Daemon |-> Idle]
    /\ ran = {}

\* Action a has a row, which an UPDATE ... WHERE id = a would change.
HasRow(a) == status[a] \notin Unborn \cup {"deleted"}

\* Mutant: a claim is offered again until its result is stored.
QueuedOrClaimed(e) == {a \in Action : Target[a] = e /\ status[a] \in {"queued", "claimed"}}

Queued(e) == {a \in Action : Target[a] = e /\ status[a] = "queued"}

\* Someone receives the answer of call c.
Live(c) == c.awaited /\ c.heard

FreeIds == CallId \ {c.id : c \in calls}

Request(i, d, kind, a, o) ==
    [id |-> i, phase |-> "sent", kind |-> kind, daemon |-> d, action |-> a,
     outcome |-> o, attempt |-> 1, awaited |-> TRUE, heard |-> TRUE]

\* Call c becomes the calls in S.
Become(c, S) == calls' = (calls \ {c}) \cup S

\* xdr_rico is done with call c: the answer goes to the BFF if it still waits.
Answered(c, a) ==
    Become(c, IF c.awaited THEN {[c EXCEPT !.phase = "answered", !.action = a]} ELSE {})

-----------------------------------------------------------------------------
(* The analyst, through the BFF. *)

\* create_endpoint_action: the endpoint exists, and created_at is taken.
DraftAction(a) ==
    /\ status[a] = "new"
    /\ \A b \in Action : status[b] = "new" => a <= b
    /\ Target[a] \in endpoints
    /\ status' = [status EXCEPT ![a] = "drafted"]
    /\ UNCHANGED <<endpoints, deleting, calls, agent, ran>>

\* add_action: the row is inserted, whatever became of the endpoint meanwhile.
InsertAction(a) ==
    /\ status[a] = "drafted"
    /\ status' = [status EXCEPT ![a] = "queued"]
    /\ UNCHANGED <<endpoints, deleting, calls, agent, ran>>

StartDelete(e) ==
    /\ e \in endpoints
    /\ deleting' = deleting \cup {e}
    /\ UNCHANGED <<endpoints, status, calls, agent, ran>>

\* XdrStore.delete_endpoint: actions, timeline and endpoint in one transaction.
FinishDelete(e) ==
    /\ e \in deleting
    /\ deleting' = deleting \ {e}
    /\ endpoints' = endpoints \ {e}
    /\ status' = [a \in Action |->
                    IF Target[a] = e /\ HasRow(a) THEN "deleted" ELSE status[a]]
    /\ UNCHANGED <<calls, agent, ran>>

\* ingest_endpoint_event: telemetry of the daemon (re)creates its endpoint.
PostTelemetry(d) ==
    /\ endpoints' = endpoints \cup {At[d]}
    /\ UNCHANGED <<deleting, status, calls, agent, ran>>

-----------------------------------------------------------------------------
(* The agent daemon. *)

\* EndpointActionClient.claim_next, from AgentDaemon.process_remote_action.
Poll(d) ==
    /\ agent[d].pc = "idle"
    /\ agent' = [agent EXCEPT ![d].pc = "claiming"]
    /\ \E i \in FreeIds : calls' = calls \cup {Request(i, d, "claim", NoAction, "failed")}
    /\ UNCHANGED <<endpoints, deleting, status, ran>>

\* Mutant: the agent reports every run as completed.
ExecuteHopeful(d) ==
    /\ agent[d].pc = "executing"
    /\ agent' = [agent EXCEPT ![d].pc = "reporting"]
    /\ \E i \in FreeIds, o \in Outcome :
         /\ ran' = ran \cup {<<d, agent[d].action, o>>}
         /\ calls' = calls \cup {Request(i, d, "report", agent[d].action, "completed")}
    /\ UNCHANGED <<endpoints, deleting, status>>

\* Mutant: only a completed run is reported.
ExecuteSilent(d) ==
    /\ agent[d].pc = "executing"
    /\ \E i \in FreeIds, o \in Outcome :
         /\ ran' = ran \cup {<<d, agent[d].action, o>>}
         /\ IF o = "failed"
            THEN agent' = [agent EXCEPT ![d] = Idle] /\ UNCHANGED calls
            ELSE /\ agent' = [agent EXCEPT ![d].pc = "reporting"]
                 /\ calls' = calls \cup {Request(i, d, "report", agent[d].action, o)}
    /\ UNCHANGED <<endpoints, deleting, status>>

\* The action is run; its result is posted in the same turn of the loop.
Execute(d) ==
    /\ agent[d].pc = "executing"
    /\ agent' = [agent EXCEPT ![d].pc = "reporting"]
    /\ \E i \in FreeIds, o \in Outcome :
         /\ ran' = ran \cup {<<d, agent[d].action, o>>}
         /\ calls' = calls \cup {Request(i, d, "report", agent[d].action, o)}
    /\ UNCHANGED <<endpoints, deleting, status>>

\* Daemon d forgets the exchange it is in and goes back to its loop.
Abandon(d) ==
    /\ agent' = [agent EXCEPT ![d] = Idle]
    /\ calls' = {IF c.daemon = d THEN [c EXCEPT !.heard = FALSE] ELSE c : c \in calls}
    /\ UNCHANGED <<endpoints, deleting, status, ran>>

\* The 5 s deadline of the daemon's HTTP client expires.
AgentDeadline(d) ==
    /\ Faults
    /\ agent[d].pc \in {"claiming", "reporting"}
    /\ Abandon(d)

\* The daemon stops, at any point, and is started again.
DaemonRestart(d) ==
    /\ Faults
    /\ agent[d].pc # "idle"
    /\ Abandon(d)

-----------------------------------------------------------------------------
(* xdr_rico. *)

\* claim_next_action, the SELECT: the oldest queued action of the endpoint.
ClaimSelect(c) ==
    /\ c.kind = "claim" /\ c.phase = "sent"
    /\ LET Q == Queued(At[c.daemon]) IN
         \/ /\ Q = {}
            /\ Answered(c, NoAction)
         \/ \E a \in Q :
              /\ \A b \in Q : a <= b
              /\ Become(c, {[c EXCEPT !.phase = "selected", !.action = a]})
    /\ UNCHANGED <<endpoints, deleting, status, agent, ran>>

\* Mutant: the claim is answered but not stored.
ClaimUpdateUnsaved(c) ==
    /\ c.kind = "claim" /\ c.phase = "selected"
    /\ Answered(c, c.action)
    /\ UNCHANGED <<endpoints, deleting, status, agent, ran>>

\* claim_next_action, the UPDATE, which does not look at the status again.
ClaimUpdate(c) ==
    /\ c.kind = "claim" /\ c.phase = "selected"
    /\ status' = IF HasRow(c.action) THEN [status EXCEPT ![c.action] = "claimed"] ELSE status
    /\ Answered(c, c.action)
    /\ UNCHANGED <<endpoints, deleting, agent, ran>>

\* update_action_result, the SELECT; a row that is gone, or of another
\* endpoint, is answered with 404.
ReportSelect(c) ==
    /\ c.kind = "report" /\ c.phase = "sent"
    /\ IF HasRow(c.action) /\ Target[c.action] = At[c.daemon]
       THEN Become(c, {[c EXCEPT !.phase = "selected"]})
       ELSE Answered(c, c.action)
    /\ UNCHANGED <<endpoints, deleting, status, agent, ran>>

\* Mutant: a failed action is queued again.
ReportUpdateRequeues(c) ==
    /\ c.kind = "report" /\ c.phase = "selected"
    /\ status' = IF HasRow(c.action)
                 THEN [status EXCEPT ![c.action] =
                         IF c.outcome = "failed" THEN "queued" ELSE c.outcome]
                 ELSE status
    /\ Answered(c, c.action)
    /\ UNCHANGED <<endpoints, deleting, agent, ran>>

\* update_action_result, the UPDATE: any status becomes the reported one.
ReportUpdate(c) ==
    /\ c.kind = "report" /\ c.phase = "selected"
    /\ status' = IF HasRow(c.action) THEN [status EXCEPT ![c.action] = c.outcome] ELSE status
    /\ Answered(c, c.action)
    /\ UNCHANGED <<endpoints, deleting, agent, ran>>

-----------------------------------------------------------------------------
(* The BFF, SocServiceClient.request. *)

\* Mutant: a claimed action is taken for an empty answer.
DeliverNothing(c) ==
    /\ c.phase = "answered"
    /\ Become(c, {})
    /\ agent' = IF c.heard THEN [agent EXCEPT ![c.daemon] = Idle] ELSE agent
    /\ UNCHANGED <<endpoints, deleting, status, ran>>

\* The answer reaches the BFF, and the daemon if it still waits: an action to
\* execute, or (nothing queued, a stored result, a 404) the end of this turn.
Deliver(c) ==
    /\ c.phase = "answered"
    /\ Become(c, {})
    /\ agent' = IF ~c.heard THEN agent
                ELSE [agent EXCEPT ![c.daemon] =
                        IF c.kind = "claim" /\ c.action # NoAction
                        THEN [pc |-> "executing", action |-> c.action]
                        ELSE Idle]
    /\ UNCHANGED <<endpoints, deleting, status, ran>>

\* What may be left of call c when the BFF stops waiting for it: nothing when
\* it was answered, never arrived or failed, else a call nobody waits for.
Remains(c) ==
    {{}} \cup (IF c.phase = "answered" THEN {} ELSE {{[c EXCEPT !.awaited = FALSE]}})

\* Mutant: the attempts are counted one too late.
GatewayRetryOnceMore(c) ==
    /\ Faults
    /\ c.awaited /\ c.attempt <= MaxAttempts
    /\ \E i \in FreeIds, R \in Remains(c) :
         LET a == IF c.kind = "claim" THEN NoAction ELSE c.action
         IN  Become(c, R \cup {[Request(i, c.daemon, c.kind, a, c.outcome) EXCEPT
                                  !.attempt = c.attempt + 1, !.heard = c.heard]})
    /\ UNCHANGED <<endpoints, deleting, status, agent, ran>>

\* Timeout, connection error, 429 or 5xx before the last attempt: send again.
GatewayRetry(c) ==
    /\ Faults
    /\ c.awaited /\ c.attempt < MaxAttempts
    /\ \E i \in FreeIds, R \in Remains(c) :
         LET a == IF c.kind = "claim" THEN NoAction ELSE c.action
         IN  Become(c, R \cup {[Request(i, c.daemon, c.kind, a, c.outcome) EXCEPT
                                  !.attempt = c.attempt + 1, !.heard = c.heard]})
    /\ UNCHANGED <<endpoints, deleting, status, agent, ran>>

\* The same on the last attempt: a 502, 503 or 504, an exception in the daemon.
GatewayError(c) ==
    /\ Faults
    /\ c.awaited /\ c.attempt = MaxAttempts
    /\ \E R \in Remains(c) : Become(c, R)
    /\ agent' = IF c.heard THEN [agent EXCEPT ![c.daemon] = Idle] ELSE agent
    /\ UNCHANGED <<endpoints, deleting, status, ran>>

-----------------------------------------------------------------------------
Xdr(c)     == ClaimSelect(c) \/ ClaimUpdate(c) \/ ReportSelect(c) \/ ReportUpdate(c)
Gateway(c) == Deliver(c) \/ GatewayRetry(c) \/ GatewayError(c)
Loop(d)    == PostTelemetry(d) \/ Poll(d) \/ Execute(d) \/ AgentDeadline(d) \/ DaemonRestart(d)

Next ==
    \/ \E a \in Action : DraftAction(a) \/ InsertAction(a)
    \/ \E e \in Endpoint : StartDelete(e) \/ FinishDelete(e)
    \/ \E d \in Daemon : Loop(d)
    \/ \E c \in calls : Xdr(c) \/ Gateway(c)

Spec == Init /\ [][Next]_vars

\* Handlers finish, answers arrive and the daemon keeps polling: what the code
\* does when nothing fails.  Nothing makes an analyst act.
Fairness ==
    /\ \A a \in Action : WF_vars(InsertAction(a))
    /\ \A d \in Daemon : WF_vars(Poll(d)) /\ WF_vars(Execute(d))
    /\ \A i \in CallId :
         WF_vars(\E c \in calls : c.id = i /\ (Xdr(c) \/ Deliver(c)))

FairSpec == Spec /\ Fairness

-----------------------------------------------------------------------------
(* Properties. *)

\* A daemon never runs an action it has run before, however the BFF retries,
\* deadlines expire, answers get lost and abandoned claims run on in xdr_rico.
NeverTwice ==
    \A d \in Daemon, o \in Outcome :
        agent[d].pc = "executing" => <<d, agent[d].action, o>> \notin ran

\* An action in the hands of a daemon is one of its own endpoint, and is no
\* longer offered to anyone.
RunningIsClaimed ==
    \A d \in Daemon :
        agent[d].pc \in {"executing", "reporting"} =>
            /\ agent[d].action \in Action
            /\ Target[agent[d].action] = At[d]
            /\ status[agent[d].action] \notin Unborn \cup {"queued"}

\* A finished status is the outcome of a run that really took place.
ResultIsReal ==
    \A a \in Action :
        status[a] \in Outcome => \E d \in Daemon : <<d, a, status[a]>> \in ran

\* Daemon d has action a: in its answer, on the way there, or being worked on.
Holds(d, a) ==
    \/ agent[d].pc \in {"executing", "reporting"} /\ agent[d].action = a
    \/ \E c \in calls : /\ c.daemon = d /\ c.kind = "claim" /\ c.action = a
                        /\ c.phase = "answered" /\ Live(c)

\* When nothing fails, a claimed action always has a daemon that works on it:
\* no claim is lost between xdr_rico, the BFF and the agent.
ClaimIsHeld ==
    \A a \in Action : status[a] = "claimed" => \E d \in Daemon : Holds(d, a)

\* When nothing fails and one daemon serves the endpoint, the status column
\* follows the life cycle an analyst reads in it.
LC == INSTANCE ActionLifecycle WITH Action <- Action, status <- status
LifecycleSpec == LC!Spec

\* When nothing fails, each queued action is finished (or deleted) in the end.
QueuedIsFinished ==
    \A a \in Action : status[a] = "queued" ~> status[a] \in Outcome \cup {"deleted"}
=============================================================================
