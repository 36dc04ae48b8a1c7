------------------------------ MODULE AgentTurn ------------------------------
(***************************************************************************)
(* The assistant of the BFF.  A request with a message runs one turn of a    *)
(* session: the model answers, or asks for tools, which are run one after    *)
(* another and their results added to the history, until it answers.  A tool *)
(* that writes first waits for the approval of the user, which comes in by   *)
(* another request under the id that the model gave to the call.  The        *)
(* request's stream can be cut at every await, and at every event that is    *)
(* sent.  All of it runs on one event loop, so what lies between two awaits  *)
(* is one step; the tools do not await.                                      *)
(***************************************************************************)
EXTENDS Naturals, Sequences, Functions

CONSTANTS
    Session,     \* ids of sessions, used once
    Request,     \* requests that send a message
    Id,          \* ids of tool calls: the model may give one to several calls
    MaxSessions, \* max_sessions_per_user
    MaxSteps,    \* max_steps of the role
    Budget,      \* token_budget of the role, in answers: each uses one
    MaxCalls,    \* bound on the tool calls of all turns
    None

VARIABLES
    stored,     \* the sessions of the store, least recently used first
    made,       \* the sessions created so far
    lock,       \* lock[s]: the request that holds turn_lock of s
    turn,       \* turn[r]: where request r is
    tokens,     \* tokens[s]: tokens_in_total + tokens_out_total, in answers
    unanswered, \* unanswered[s]: calls in the history that have no result there
    pending,    \* pending[s]: pending_approvals, an entry for each id
    calls,      \* the number of calls so far
    granted,    \* history: calls whose approval was answered with granted
    invoked,    \* history: calls whose tool was run
    audited,    \* the audit records of tool calls, each with its outcome
    unrecorded, \* history: calls for which the recorder failed
    cut         \* history: sessions that had a turn cut off

vars == <<stored, made, lock, turn, tokens, unanswered, pending, calls,
          granted, invoked, audited, unrecorded, cut>>
ghosts == <<granted, invoked, audited, unrecorded, cut>>

ToolKind == {"read", "write", "barred"}
Call    == [no : 1..MaxCalls, id : Id, kind : ToolKind]
Pc      == {"idle", "accepted", "model", "calls", "asking", "waiting", "running", "telling"}
Resting == [pc |-> "idle", session |-> None, step |-> 0, todo |-> <<>>, outcome |-> None]

\* What the store, the sessions and the requests hold.
TypeOK ==
    /\ Range(stored) \subseteq made /\ Len(stored) <= MaxSessions
    /\ \A i, j \in DOMAIN stored : stored[i] = stored[j] => i = j
    /\ \A s \in Session :
         /\ lock[s] # None =>
              turn[lock[s]].session = s /\ turn[lock[s]].pc \notin {"idle", "accepted"}
         /\ \A c \in unanswered[s] : c \in Call /\ c.no <= calls
         /\ \A i \in Id : pending[s][i] # None =>
              pending[s][i].call.id = i /\ pending[s][i].state \in {"open", "granted", "denied"}
    /\ \A r \in Request :
         /\ turn[r].pc \in Pc /\ turn[r].step <= MaxSteps
         /\ turn[r].pc \notin {"idle", "accepted"} => lock[turn[r].session] = r
         /\ turn[r].pc \in {"asking", "waiting", "running", "telling"} => turn[r].todo # <<>>
         /\ turn[r].pc = "waiting" => pending[turn[r].session][Head(turn[r].todo).id] # None

Init ==
    /\ stored = <<>> /\ made = {}
    /\ lock = [s \in Session |-> None]
    /\ turn = [r \in Request |-> Resting]
    /\ tokens = [s \in Session |-> 0]
    /\ unanswered = [s \in Session |-> {}]
    /\ pending = [s \in Session |-> [i \in Id |-> None]]
    /\ calls = 0
    /\ granted = {} /\ invoked = {} /\ audited = {} /\ unrecorded = {} /\ cut = {}

\* The store without s.
Others(s) ==
    LET i == CHOOSE k \in DOMAIN stored : stored[k] = s
    IN  SubSeq(stored, 1, i - 1) \o SubSeq(stored, i + 1, Len(stored))

\* Mutant: a session that is used comes back into the store.
TouchedBack(s) == Append(IF s \in Range(stored) THEN Others(s) ELSE stored, s)

Touched(s) == IF s \in Range(stored) THEN Append(Others(s), s) ELSE stored

-----------------------------------------------------------------------------
(* The store of sessions. *)

\* create: the least recently used session goes when the user has too many,
\* whatever runs in it.
CreateSession(s) ==
    /\ s \notin made
    /\ made' = made \cup {s}
    /\ stored' = Append(IF Len(stored) < MaxSessions THEN stored ELSE Tail(stored), s)
    /\ UNCHANGED <<lock, turn, tokens, unanswered, pending, calls, ghosts>>

\* delete, or the session has expired: nothing has touched it for an hour, which
\* is longer than an approval is waited for.
DropSession(s) ==
    /\ s \in Range(stored)
    /\ stored' = Others(s)
    /\ UNCHANGED <<made, lock, turn, tokens, unanswered, pending, calls, ghosts>>

-----------------------------------------------------------------------------
(* A turn. *)

\* send_message: the lock is looked at, and taken when the stream is first read.
Send(r, s) ==
    /\ turn[r].pc = "idle" /\ s \in Range(stored) /\ lock[s] = None
    /\ stored' = Touched(s)
    /\ turn' = [turn EXCEPT ![r] = [Resting EXCEPT !.pc = "accepted", !.session = s]]
    /\ UNCHANGED <<made, lock, tokens, unanswered, pending, calls, ghosts>>

\* run_turn: another request may have taken the lock; then this one ends.
Begin(r) ==
    LET s == turn[r].session IN
    /\ turn[r].pc = "accepted"
    /\ IF lock[s] # None
       THEN turn' = [turn EXCEPT ![r] = Resting] /\ UNCHANGED <<lock, stored>>
       ELSE /\ turn' = [turn EXCEPT ![r].pc = "model"]
            /\ lock' = [lock EXCEPT ![s] = r]
            /\ stored' = Touched(s)
    /\ UNCHANGED <<made, tokens, unanswered, pending, calls, ghosts>>

\* The turn is over.
Leaves(r) ==
    /\ turn' = [turn EXCEPT ![r] = Resting]
    /\ lock' = [lock EXCEPT ![turn[r].session] = None]

\* The turn ends with an error: no provider is configured, the tokens or the
\* steps are used up, the provider fails or asks for no tool.
Fail(r) ==
    /\ turn[r].pc = "model"
    /\ Leaves(r)
    /\ UNCHANGED <<stored, made, tokens, unanswered, pending, calls, ghosts>>

\* The model may be asked once more.
MayAsk(r) ==
    /\ turn[r].pc = "model"
    /\ turn[r].step < MaxSteps
    /\ tokens[turn[r].session] < Budget

\* The model answers.
Reply(r) ==
    LET s == turn[r].session IN
    /\ MayAsk(r)
    /\ tokens' = [tokens EXCEPT ![s] = @ + 1]
    /\ stored' = Touched(s)
    /\ Leaves(r)
    /\ UNCHANGED <<made, unanswered, pending, calls, ghosts>>

\* The model asks for tools, all of them in one message of the history.
AskForTools(r, ids, kinds) ==
    LET s  == turn[r].session
        cs == [k \in DOMAIN ids |-> [no |-> calls + k, id |-> ids[k], kind |-> kinds[k]]] IN
    /\ MayAsk(r)
    /\ calls + Len(ids) <= MaxCalls
    /\ calls' = calls + Len(ids)
    /\ tokens' = [tokens EXCEPT ![s] = @ + 1]
    /\ unanswered' = [unanswered EXCEPT ![s] = @ \cup Range(cs)]
    /\ turn' = [turn EXCEPT ![r].pc = "calls", ![r].step = @ + 1, ![r].todo = cs]
    /\ stored' = Touched(s)
    /\ UNCHANGED <<made, lock, pending, ghosts>>

-----------------------------------------------------------------------------
(* The tools that were asked for. *)

\* Mutant: the record of a tool that needed no approval is left to the caller.
RecordsWrites(c, outcome) ==
    /\ audited' = IF c.kind = "write" THEN audited \cup {[call |-> c, outcome |-> outcome]}
                  ELSE audited
    /\ UNCHANGED unrecorded

\* _record_tool_audit: a recorder that fails is passed over.
Records(c, outcome) ==
    \/ audited' = audited \cup {[call |-> c, outcome |-> outcome]} /\ UNCHANGED unrecorded
    \/ unrecorded' = unrecorded \cup {c} /\ UNCHANGED audited

\* The tool is started.
Invokes(r, c) ==
    /\ turn' = [turn EXCEPT ![r].pc = "running"]
    /\ invoked' = invoked \cup {c}

\* _invoke_tool returns, with a result, an error or after its timeout; what it
\* did is recorded before anybody is told.
ToolEnds(r) ==
    /\ turn[r].pc = "running"
    /\ turn' = [turn EXCEPT ![r].pc = "telling", ![r].outcome = "ran"]
    /\ Records(Head(turn[r].todo), "ran")
    /\ UNCHANGED <<stored, made, lock, tokens, unanswered, pending, calls, granted, invoked, cut>>

\* A tool that the role or the permissions of the user do not allow.
Refuse(r) ==
    /\ turn[r].pc = "calls" /\ Head(turn[r].todo).kind = "barred"
    /\ turn' = [turn EXCEPT ![r].pc = "telling", ![r].outcome = "barred"]
    /\ UNCHANGED <<stored, made, lock, tokens, unanswered, pending, calls, ghosts>>

RunReadTool(r) ==
    /\ turn[r].pc = "calls" /\ Head(turn[r].todo).kind = "read"
    /\ Invokes(r, Head(turn[r].todo))
    /\ UNCHANGED <<stored, made, lock, tokens, unanswered, pending, calls, granted, audited,
                   unrecorded, cut>>

\* Mutant: an approval that is there for the id is used.
FutureOld(old, c) == IF old # None THEN old ELSE [call |-> c, state |-> "open"]

\* _create_approval_future: whatever there was for the id is forgotten.
Future(old, c) == [call |-> c, state |-> "open"]

\* The user is asked.
AskApproval(r) ==
    LET s == turn[r].session
        c == Head(turn[r].todo) IN
    /\ turn[r].pc = "calls" /\ c.kind = "write"
    /\ pending' = [pending EXCEPT ![s][c.id] = Future(@, c)]
    /\ turn' = [turn EXCEPT ![r].pc = "asking"]
    /\ UNCHANGED <<stored, made, lock, tokens, unanswered, calls, ghosts>>

\* The event is sent, and the answer waited for.
Wait(r) ==
    /\ turn[r].pc = "asking"
    /\ turn' = [turn EXCEPT ![r].pc = "waiting"]
    /\ UNCHANGED <<stored, made, lock, tokens, unanswered, pending, calls, ghosts>>

\* approve_tool_call: the session must be in the store still.
Approve(s, i, answer) ==
    /\ s \in Range(stored)
    /\ pending[s][i] # None /\ pending[s][i].state = "open"
    /\ pending' = [pending EXCEPT ![s][i].state = answer]
    /\ granted' = IF answer = "granted" THEN granted \cup {pending[s][i].call} ELSE granted
    /\ stored' = Touched(s)
    /\ UNCHANGED <<made, lock, turn, tokens, unanswered, calls, invoked, audited, unrecorded, cut>>

\* Mutant: the approval is kept when it was answered in time.
PopUnresolved(p, i) == IF p[i].state = "open" THEN [p EXCEPT ![i] = None] ELSE p

\* The finally of _await_approval: the approval is waited for no longer.
Pop(p, i) == [p EXCEPT ![i] = None]

\* _await_approval ends: with the answer, or after the timeout, which also wins
\* over an answer that came just before it.
Resume(r) ==
    LET s == turn[r].session
        c == Head(turn[r].todo) IN
    /\ turn[r].pc = "waiting"
    /\ pending' = [pending EXCEPT ![s] = Pop(@, c.id)]
    /\ \/ pending[s][c.id].state = "granted" /\ Invokes(r, c)
       \/ turn' = [turn EXCEPT ![r].pc = "telling", ![r].outcome = "denied"]
          /\ UNCHANGED invoked
    /\ UNCHANGED <<stored, made, lock, tokens, unanswered, calls, granted, audited, unrecorded, cut>>

\* Mutant: a call that is not allowed gets no result.
AnsweredSome(cs, c, outcome) == IF outcome = "barred" THEN cs ELSE cs \ {c}

Answered(cs, c, outcome) == cs \ {c}

\* The result was sent; it is added to the history.  A call that was denied has
\* its record only now, one that is not allowed has none.
AddResult(r) ==
    LET s == turn[r].session
        c == Head(turn[r].todo)
        t == turn[r] IN
    /\ t.pc = "telling"
    /\ unanswered' = [unanswered EXCEPT ![s] = Answered(@, c, t.outcome)]
    /\ IF t.outcome = "denied" THEN Records(c, "denied") ELSE UNCHANGED <<audited, unrecorded>>
    /\ turn' = [turn EXCEPT ![r].pc = IF Len(t.todo) = 1 THEN "model" ELSE "calls",
                            ![r].todo = Tail(@), ![r].outcome = None]
    /\ stored' = Touched(s)
    /\ UNCHANGED <<made, lock, tokens, pending, calls, granted, invoked, cut>>

\* The client is gone: the turn ends where it is, also in the middle of a tool,
\* of which there is no record then.  Only an approval that is waited for is
\* taken back.
Cut(r) ==
    LET s == turn[r].session IN
    /\ turn[r].pc # "idle"
    /\ IF turn[r].pc = "accepted"
       THEN turn' = [turn EXCEPT ![r] = Resting] /\ UNCHANGED <<lock, cut>>
       ELSE Leaves(r) /\ cut' = cut \cup {s}
    /\ pending' = IF turn[r].pc = "waiting"
                  THEN [pending EXCEPT ![s] = Pop(@, Head(turn[r].todo).id)] ELSE pending
    /\ UNCHANGED <<stored, made, tokens, unanswered, calls, granted, invoked, audited, unrecorded>>

Next ==
    \/ \E s \in Session :
         \/ CreateSession(s) \/ DropSession(s)
         \/ \E i \in Id, answer \in {"granted", "denied"} : Approve(s, i, answer)
         \/ \E r \in Request : Send(r, s)
    \/ \E r \in Request :
         \/ Begin(r) \/ Fail(r)
         \/ Refuse(r) \/ RunReadTool(r) \/ AskApproval(r) \/ Wait(r) \/ Resume(r)
         \/ ToolEnds(r) \/ AddResult(r) \/ Cut(r)
         \/ Reply(r)
         \/ \E k \in 1..2 : \E ids \in [1..k -> Id], kinds \in [1..k -> ToolKind] :
              AskForTools(r, ids, kinds)

Spec == Init /\ [][Next]_vars

-----------------------------------------------------------------------------
(* What the code promises. *)

\* "Write and execute tools must always pause on the approval gate": a tool that
\* writes is run only for a call that was itself granted, also when a turn was
\* cut off while it asked and a later call has the same id.
WriteIsGranted == \A c \in invoked : c.kind = "write" => c \in granted

\* The provider gets a history it accepts: in a session no turn of which was cut
\* off, every call that the model made has its result when the turn is over.
CallsAreAnswered ==
    \A s \in Session \ cut : lock[s] = None => unanswered[s] = {}

\* The audit log can be trusted as far as it goes: it says of no call that it was
\* denied whose tool ran, and of none that it ran which did not.  A tool that ran
\* and has no record is one for which the recorder failed, or one whose turn was
\* cut off in the middle of it: the history of the session lacks its result too.
AuditIsTrue ==
    /\ \A a \in audited :
          IF a.outcome = "ran" THEN a.call \in invoked
          ELSE a.call.kind = "write" /\ a.call \notin invoked
    /\ \A c \in invoked \ (unrecorded \cup {a.call : a \in audited}) :
          \E s \in Session :
             /\ c \in unanswered[s]
             /\ s \in cut \/ (lock[s] # None /\ turn[lock[s]].pc = "running")

\* A future that nobody waits for is left behind only by a turn that was cut off.
PendingIsAwaited ==
    \A s \in Session \ cut, i \in Id : pending[s][i] # None =>
        lock[s] # None /\ turn[lock[s]].pc \in {"asking", "waiting"}

=============================================================================
