---------------------------- MODULE Containment ----------------------------
(***************************************************************************)
(* How a ticket becomes "contained": the SOC router of the BFF runs and    *)
(* approves playbooks in soar_skipper, applies reviewed FortiGate policies *)
(* and then patches the ticket in siem_kowalski.                           *)
(*                                                                         *)
(* A patch is an HTTP call that the BFF gives up on and repeats after a    *)
(* timeout, while siem_kowalski still serves the first one: it reads the   *)
(* incident, and writes all of it back, in two transactions.  Applying a   *)
(* policy is one step here; PolicyReview looks inside.                     *)
(***************************************************************************)
EXTENDS Naturals, FiniteSets

CONSTANTS
    Incident,  \* incidents of siem_kowalski; a ticket is one of them
    Run,       \* playbook runs of soar_skipper
    Request,   \* policy change requests of the BFF
    Handler,   \* threads of the BFF
    Playbook,  \* the playbooks there are
    Manual,    \* the ticket states an analyst sets by hand
    Attempts,  \* max_attempts of SocServiceClient
    None       \* nothing stored, a field that is absent

\* What matters of a playbook: does it wait for an approval, does it hold a
\* fortigate.temporary_block node (sensitive, so it waits), and does it write a
\* case note before anything it waits for?
PlaybookKind == [gated : BOOLEAN, blocks : BOOLEAN, notes : BOOLEAN]

TicketStatus == {"new", "investigating", "contained", "closed"}

\* What soar_skipper stores of a run.
RunRow == [incident : Incident, playbook : Playbook, status : {"waiting_approval", "completed"}]

ASSUME ContainmentAssumption ==
    /\ Playbook \subseteq PlaybookKind
    /\ \A p \in Playbook : p.blocks => p.gated
    /\ Manual \subseteq TicketStatus
    /\ Attempts \in Nat \ {0}
    /\ {None, "pending"} \cap (Run \cup Incident) = {}
    /\ None \notin TicketStatus \cup Request \cup RunRow

VARIABLES
    incident, \* incident[i]: what siem_kowalski stores of incident i
    run,      \* run[r]: the row of run r in soar_skipper
    request,  \* request[q]: pending, or the run that policy q was applied for
    handler,  \* handler[h]: the ticket patch that thread h waits for
    call,     \* call[h][n]: the n-th attempt of that patch in siem_kowalski
    disturbed \* history: the incidents that two calls worked on at the same time,
              \* or of which the BFF gave up a patch

vars == <<incident, run, request, handler, call, disturbed>>

-----------------------------------------------------------------------------
\* The timeline entry of a patch: that a policy request was applied, or another
\* one, of which no trace is kept; "Status changed to ..." is one too.
Note == Request \cup {"other"}

Payload == [ticket : TicketStatus, timeline : SUBSET Request]

\* The fields a patch may set; a field it leaves alone is absent.
Patch == [incident : Incident, ticket : TicketStatus \cup {None}, note : Note \cup {None}]

NoPatch == [incident |-> None, ticket |-> None, note |-> None]

Applied == {q \in Request : request[q] \in Run}

\* Every variable holds what the code can store in it: what a policy was applied
\* for is a run that blocks, and no attempt follows the last.
TypeOK ==
    /\ incident \in [Incident -> Payload]
    /\ run \in [Run -> {None} \cup RunRow]
    /\ request \in [Request -> {None, "pending"} \cup Run]
    /\ handler \in [Handler -> [tries : 0..Attempts, patch : Patch \cup {NoPatch}]]
    /\ call \in [Handler -> [1..Attempts ->
                   [pc : {"none", "sent", "read", "done"}, patch : Patch \cup {NoPatch},
                    copy : Payload \cup {None}]]]
    /\ disturbed \subseteq Incident
    /\ \A q \in Applied : run[request[q]].playbook.blocks

NoCall == [pc |-> "none", patch |-> NoPatch, copy |-> None]
Idle   == [tries |-> 0, patch |-> NoPatch]

Init ==
    /\ incident = [i \in Incident |-> [ticket |-> "new", timeline |-> {}]]
    /\ run = [r \in Run |-> None]
    /\ request = [q \in Request |-> None]
    /\ handler = [h \in Handler |-> Idle]
    /\ call = [h \in Handler |-> [n \in 1..Attempts |-> NoCall]]
    /\ disturbed = {}

-----------------------------------------------------------------------------
(* siem_kowalski: update_incident_status and update_incident_triage. *)

\* Is another call for incident i between its read and its write?
Overlaps(h, n, i) ==
    \E g \in Handler, m \in 1..Attempts :
        <<g, m>> # <<h, n>> /\ call[g][m].pc = "read" /\ call[g][m].patch.incident = i

\* get_incident
ReadIncident(h, n) ==
    LET i == call[h][n].patch.incident IN
    /\ call[h][n].pc = "sent"
    /\ call' = [call EXCEPT ![h][n].pc = "read", ![h][n].copy = incident[i]]
    /\ disturbed' = IF Overlaps(h, n, i) THEN disturbed \cup {i} ELSE disturbed
    /\ UNCHANGED <<incident, run, request, handler>>

\* Mutant: the timeline starts anew with every patch.
PatchedAnew(x, p) ==
    [ticket   |-> IF p.ticket = None THEN x.ticket ELSE p.ticket,
     timeline |-> IF p.note = None THEN x.timeline ELSE {p.note} \cap Request]

\* The payload x with patch p: what is set changes, a note joins the timeline.
Patched(x, p) ==
    [ticket   |-> IF p.ticket = None THEN x.ticket ELSE p.ticket,
     timeline |-> IF p.note = None THEN x.timeline
                ELSE x.timeline \cup ({p.note} \cap Request)]

\* Nothing to write: no note, and the ticket is in that state already.
Same(x, p) == p.note = None /\ p.ticket \in {None, x.ticket}

\* update_incident
WriteIncident(h, n) ==
    /\ call[h][n].pc = "read"
    /\ LET p == call[h][n].patch
           x == call[h][n].copy
       IN  incident' = IF Same(x, p) THEN incident
                       ELSE [incident EXCEPT ![p.incident] = Patched(x, p)]
    /\ call' = [call EXCEPT ![h][n] =
                  IF n = handler[h].tries THEN [NoCall EXCEPT !.pc = "done"] ELSE NoCall]
    /\ UNCHANGED <<run, request, handler, disturbed>>

-----------------------------------------------------------------------------
(* SocServiceClient.request, for a PATCH of a ticket. *)

\* A thread is free for a request when nothing of its last patch is left.
Free(h) == handler[h] = Idle /\ \A n \in 1..Attempts : call[h][n] = NoCall

\* The n-th attempt of h when the thread turns away from it: an answer that has
\* come has no reader any more.
Unread(h, n) == IF call[h][n].pc = "done" THEN NoCall ELSE call[h][n]

\* The first attempt.
Send(h, p) ==
    /\ handler' = [handler EXCEPT ![h] = [tries |-> 1, patch |-> p]]
    /\ call' = [call EXCEPT ![h] = [n \in 1..Attempts |->
                   IF n = 1 THEN [NoCall EXCEPT !.pc = "sent", !.patch = p] ELSE NoCall]]

SendNothing == UNCHANGED <<handler, call>>

\* The attempt the thread waits for is answered.
Answered(h) ==
    /\ handler[h].tries > 0
    /\ call[h][handler[h].tries].pc = "done"
    /\ handler' = [handler EXCEPT ![h] = Idle]
    /\ call' = [call EXCEPT ![h][handler[h].tries] = NoCall]
    /\ UNCHANGED <<incident, run, request, disturbed>>

\* Mutant: the last attempt is not the last.
TimeoutAgain(h) ==
    /\ handler[h].tries > 0
    /\ LET n == handler[h].tries + 1 IN
         /\ handler' = [handler EXCEPT ![h].tries = n]
         /\ call' = [call EXCEPT ![h] = [m \in 1..n |->
                        IF m = n THEN [NoCall EXCEPT !.pc = "sent", !.patch = handler[h].patch]
                        ELSE call[h][m]]]
    /\ UNCHANGED <<incident, run, request, disturbed>>

\* A timeout, a connection error or a retryable status: the next attempt, or
\* an error after the last.  No caller tries again.
Timeout(h) ==
    /\ handler[h].tries > 0
    /\ LET n == handler[h].tries + 1 IN
         IF n <= Attempts
         THEN /\ handler' = [handler EXCEPT ![h].tries = n]
              /\ call' = [call EXCEPT ![h][n - 1] = Unread(h, n - 1), ![h][n] =
                            [NoCall EXCEPT !.pc = "sent", !.patch = handler[h].patch]]
              /\ UNCHANGED disturbed
         ELSE /\ handler' = [handler EXCEPT ![h] = Idle]
              /\ disturbed' = disturbed \cup {handler[h].patch.incident}
              /\ call' = [call EXCEPT ![h][n - 1] = Unread(h, n - 1)]
    /\ UNCHANGED <<incident, run, request>>

\* The call does not reach siem_kowalski.
Lose(h, n) ==
    /\ call[h][n].pc = "sent"
    /\ call' = [call EXCEPT ![h][n] = NoCall]
    /\ UNCHANGED <<incident, run, request, handler, disturbed>>

-----------------------------------------------------------------------------
(* The SOC router. *)

TicketPatch(i, s, n) == [incident |-> i, ticket |-> s, note |-> n]

\* build_playbook_run
NewRun(i, p) ==
    [incident |-> i, playbook |-> p,
     status |-> IF p.gated THEN "waiting_approval" ELSE "completed"]

\* What the router sends once soar_skipper has answered, if it does: when the
\* answers are late the request ends in an error, and soar_skipper has done it.
SendIfAnswered(h, p) == Send(h, p) \/ SendNothing

\* POST run: each attempt that soar_skipper serves stores a run.
CreateRun(r, i, p) ==
    /\ \E rows \in SUBSET {x \in Run : run[x] = None} :
         /\ r \in rows
         /\ Cardinality(rows) <= Attempts
         /\ run' = [x \in Run |-> IF x \in rows THEN NewRun(i, p) ELSE run[x]]

\* run_playbook, with the case note of execute_playbook_effects
RunPlaybook(h, r, i, p) ==
    /\ Free(h)
    /\ CreateRun(r, i, p)
    /\ IF p.notes
       THEN SendIfAnswered(h, TicketPatch(i, None, "other"))
       ELSE SendNothing
    /\ UNCHANGED <<incident, request, disturbed>>

\* Mutant: the gate is not looked at, the ticket is contained by the dry run.
ApplyContainmentUngated(h, r, i, p) ==
    /\ Free(h)
    /\ CreateRun(r, i, p)
    /\ SendIfAnswered(h, TicketPatch(i, "contained", "other"))
    /\ UNCHANGED <<incident, request, disturbed>>

\* apply_containment_playbook
ApplyContainment(h, r, i, p) ==
    /\ Free(h)
    /\ CreateRun(r, i, p)
    /\ SendIfAnswered(h, IF p.gated
           THEN TicketPatch(i, "investigating", "other")
           ELSE TicketPatch(i, "contained", "other"))
    /\ UNCHANGED <<incident, request, disturbed>>

\* approve_playbook_run: a run that is to block on the FortiGate leaves the
\* ticket to policy-apply.  The run may be approved already.
Approve(h, r) ==
    /\ Free(h)
    /\ run[r] # None
    /\ run' = [run EXCEPT ![r].status = "completed"]
    /\ IF run[r].playbook.blocks
       THEN SendNothing
       ELSE SendIfAnswered(h, TicketPatch(run[r].incident, "contained", "other"))
    /\ UNCHANGED <<incident, request, disturbed>>

\* create_playbook_run_policy_review
ReviewPolicy(r, q) ==
    /\ run[r] # None
    /\ run[r].playbook.blocks
    /\ request[q] = None
    /\ request' = [request EXCEPT ![q] = "pending"]
    /\ UNCHANGED <<incident, run, handler, call, disturbed>>

\* apply_playbook_run_policy: any pending request, for any blocking run.  When
\* the FortiGate refuses, nothing happens here.
ApplyPolicy(h, r, q) ==
    /\ Free(h)
    /\ run[r] # None
    /\ run[r].playbook.blocks
    /\ request[q] = "pending"
    /\ request' = [request EXCEPT ![q] = r]
    /\ Send(h, TicketPatch(run[r].incident, "contained", q))
    /\ UNCHANGED <<incident, run, disturbed>>

\* update_ticket and update_incident
EditTicket(h, i) ==
    /\ Free(h)
    /\ \/ \E s \in Manual : Send(h, TicketPatch(i, s, None))
       \/ Send(h, TicketPatch(i, None, "other"))
    /\ UNCHANGED <<incident, run, request, disturbed>>

Router(h) ==
    \/ \E r \in Run, i \in Incident, p \in Playbook :
          RunPlaybook(h, r, i, p) \/ ApplyContainment(h, r, i, p)
    \/ \E r \in Run : Approve(h, r)
    \/ \E r \in Run, q \in Request : ApplyPolicy(h, r, q)
    \/ \E i \in Incident : EditTicket(h, i)

Serve(h, n) == ReadIncident(h, n) \/ WriteIncident(h, n)

Next ==
    \/ \E h \in Handler : Router(h) \/ Answered(h) \/ Timeout(h)
    \/ \E h \in Handler, n \in 1..Attempts : Serve(h, n) \/ Lose(h, n)
    \/ \E r \in Run, q \in Request : ReviewPolicy(r, q)

Spec == Init /\ [][Next]_vars

-----------------------------------------------------------------------------
(* Properties. *)

\* Unless an analyst says so, a ticket is contained only on the ground of a run
\* that has passed its gate, or of a policy that a run had applied: whatever is
\* repeated, late, or written back from an old copy.
ContainedIsBacked ==
    \A i \in Incident : incident[i].ticket = "contained" =>
        \/ "contained" \in Manual
        \/ \E r \in Run : /\ run[r] # None /\ run[r].incident = i
                          /\ run[r].status = "completed" /\ ~run[r].playbook.blocks
        \/ \E q \in Applied : run[request[q]].incident = i

\* Is a call for incident i still under way?
Pending(i) ==
    \/ \E h \in Handler : handler[h].tries > 0 /\ handler[h].patch.incident = i
    \/ \E h \in Handler, n \in 1..Attempts :
          call[h][n].pc \in {"sent", "read"} /\ call[h][n].patch.incident = i

Recorded(q) == q \in incident[run[request[q]].incident].timeline

\* When no patch of a ticket was given up or overlapped another, the policies
\* that were applied for it are in its timeline.
AppliedIsRecordedIfUndisturbed ==
    \A q \in Applied : LET i == run[request[q]].incident IN
        i \notin disturbed /\ ~Pending(i) => Recorded(q)

=============================================================================
