----------------------------- MODULE TicketDesk -----------------------------
(***************************************************************************)
(* What the BFF does to a ticket: change its status or its place on the    *)
(* board, attach an AI analysis, note what threat intelligence says        *)
(* (routers/soc.py, threat_intel/service.py), and the response times       *)
(* siem_kowalski computes from it (siem_kowalski main.py).                 *)
(*                                                                         *)
(* siem_kowalski patches a ticket by reading its whole document, changing  *)
(* it and writing it back.  The client of the BFF (soc/client.py) repeats  *)
(* a PATCH whose answer does not come, which may have been done or may     *)
(* still be done, at any time.  The ticket was created at time 0.          *)
(***************************************************************************)
EXTENDS Naturals, Sequences, FiniteSetsExt

CONSTANTS Request,      \* requests of analysts
          Attempts,     \* max_attempts of the client
          Ttl,          \* how long a threat intelligence result is kept
          MaxFaults,    \* bound: lost answers, refusals, failing providers
          MaxTime,      \* bound on the clock
          None

VARIABLES now,
          ticket,     \* the document: [status, board, analysis, timeline]
          pc,         \* each request: [step, op, to, attempt, seen]
          audit,      \* the outcome audited for each request, or None
          cache,      \* when the cached result was obtained, or None
          expires,    \* and until when it is used
          faults,
          undone,     \* history: requests whose change a stale write dropped
          unanswered, \* history: requests a PATCH of which was done, not answered
          late        \* PATCHes that were given up, [by, attempt, seen], not written yet

vars == <<now, ticket, pc, audit, cache, expires, faults, undone, unanswered, late>>

Idle == [step |-> "new", op |-> None, to |-> None, attempt |-> 0, seen |-> None]
Fault == faults < MaxFaults /\ faults' = faults + 1
Go(r, step) == pc' = [pc EXCEPT ![r].step = step]
Audit(r, outcome) == audit' = [audit EXCEPT ![r] = outcome]

-----------------------------------------------------------------------------
(* Metrics of siem_kowalski: executive_metrics.  *)

Terminal == {"resolved"}
OpenForSla(d) == d.status \notin Terminal /\ d.board # "closed"
ClosingTimes(d) == {d.timeline[i].at : i \in {k \in DOMAIN d.timeline : d.timeline[k].status \in Terminal}}
\* Mutant: the last resolution counts.
MttrLast(d) ==
    IF d.status \notin Terminal \/ ClosingTimes(d) = {} THEN None ELSE Max(ClosingTimes(d))
Mttr(d) ==
    IF d.status \notin Terminal \/ ClosingTimes(d) = {} THEN None ELSE Min(ClosingTimes(d))

-----------------------------------------------------------------------------
(* The handlers of siem_kowalski.  *)

Item(r, status) == [by |-> r, status |-> status, at |-> now]
\* Mutant: a change of status leaves no entry in the timeline.
PatchedSilently(d, r) ==
    IF pc[r].op = "status" THEN [d EXCEPT !.status = pc[r].to]
    ELSE [d EXCEPT !.timeline = Append(@, Item(r, None))]
Patched(d, r) ==
    CASE pc[r].op = "status"  -> [d EXCEPT !.status = pc[r].to,
                                           !.timeline = Append(@, Item(r, pc[r].to))]
      [] pc[r].op = "board"   -> IF d.board = pc[r].to THEN d
                                 ELSE [d EXCEPT !.board = pc[r].to, !.timeline = Append(@, Item(r, None))]
      [] pc[r].op = "analyze" -> [d EXCEPT !.analysis = r, !.timeline = Append(@, Item(r, None))]
      [] pc[r].op = "enrich"  -> [d EXCEPT !.timeline = Append(@, Item(r, None))]

ReadTicket(r) ==
    /\ pc[r].step = "patch"
    /\ pc' = [pc EXCEPT ![r].step = "write", ![r].seen = ticket]
    /\ UNCHANGED <<now, ticket, audit, cache, expires, faults, undone, unanswered, late>>

\* The document d that was read is written back as r changes it.
Writes(r, d) ==
    /\ ticket' = IF Patched(d, r) = d THEN ticket ELSE Patched(d, r)
    /\ undone' = undone \cup
                 {ticket.timeline[i].by : i \in {k \in DOMAIN ticket.timeline :
                      ticket.timeline[k] \notin Range(ticket'.timeline)}}

WriteTicket(r) ==
    /\ pc[r].step = "write"
    /\ Writes(r, pc[r].seen)
    /\ pc' = [pc EXCEPT ![r].step = "answer", ![r].seen = None]
    /\ UNCHANGED <<now, audit, cache, expires, faults, unanswered, late>>

\* A PATCH that was given up is served all the same.
ReadLate(c) ==
    /\ c.seen = None
    /\ late' = (late \ {c}) \cup {[c EXCEPT !.seen = ticket]}
    /\ UNCHANGED <<now, ticket, pc, audit, cache, expires, faults, undone, unanswered>>

WriteLate(c) ==
    /\ c.seen # None
    /\ Writes(c.by, c.seen)
    /\ late' = late \ {c} /\ unanswered' = unanswered \cup {c.by}
    /\ UNCHANGED <<now, pc, audit, cache, expires, faults>>

-----------------------------------------------------------------------------
(* The routes.  *)

Start(r, op, to) ==
    /\ pc[r] = Idle
    /\ pc' = [pc EXCEPT ![r].op = op, ![r].to = to,
                        ![r].step = IF op \in {"analyze", "enrich"} THEN "ask" ELSE "patch"]
    /\ UNCHANGED <<now, ticket, audit, cache, expires, faults, undone, unanswered, late>>

(* The AI or the threat intelligence provider; a failure is audited.  *)
AskAi(r) ==
    /\ pc[r].step = "ask" /\ pc[r].op = "analyze"
    /\ \/ Go(r, "patch") /\ UNCHANGED <<audit, faults>>
       \/ Go(r, "done") /\ Fault /\ Audit(r, "failure")
    /\ UNCHANGED <<now, ticket, cache, expires, undone, unanswered, late>>

Kept == cache # None /\ expires > now
\* Mutant: every use prolongs the life of a verdict.
ExpirySliding == now + Ttl
Expiry == IF Kept THEN expires ELSE now + Ttl

LookUp(r) ==
    /\ pc[r].step = "ask" /\ pc[r].op = "enrich"
    /\ \/ /\ cache' = IF Kept THEN cache ELSE now
          /\ expires' = Expiry
          /\ Go(r, "patch")
          /\ UNCHANGED <<audit, faults>>
       \/ /\ ~Kept
          /\ Go(r, "done") /\ Fault /\ Audit(r, "failure")
          /\ UNCHANGED <<cache, expires>>
    /\ UNCHANGED <<now, ticket, undone, unanswered, late>>

\* Mutant: nothing is audited after the answer.
AnsweredOnly(r) ==
    /\ pc[r].step = "answer"
    /\ Go(r, "done")
    /\ UNCHANGED <<now, ticket, audit, cache, expires, faults, undone, unanswered, late>>
Answered(r) ==
    /\ pc[r].step = "answer"
    /\ Go(r, "audit")
    /\ UNCHANGED <<now, ticket, audit, cache, expires, faults, undone, unanswered, late>>

RecordSuccess(r) ==
    /\ pc[r].step = "audit"
    /\ Go(r, "done") /\ Audit(r, "success")
    /\ UNCHANGED <<now, ticket, cache, expires, faults, undone, unanswered, late>>

(* No answer: the PATCH did not arrive, is still served, or was done. The last
   attempt fails; an analysis or an enrichment is answered all the same, and
   audited as partial.  *)
OutcomeAlways(r) == "success"
Outcome(r) == IF pc[r].op \in {"analyze", "enrich"} THEN "partial" ELSE None

NoAnswer(r) ==
    /\ pc[r].step \in {"patch", "write", "answer"}
    /\ Fault
    /\ IF pc[r].attempt + 1 < Attempts
       THEN /\ pc' = [pc EXCEPT ![r].step = "patch", ![r].attempt = @ + 1, ![r].seen = None]
            /\ UNCHANGED audit
       ELSE /\ pc' = [pc EXCEPT ![r].step = "done", ![r].seen = None]
            /\ Audit(r, Outcome(r))
    /\ late' \in IF pc[r].step = "answer" THEN {late}
                 ELSE {late, late \cup {[by |-> r, attempt |-> pc[r].attempt, seen |-> pc[r].seen]}}
    /\ unanswered' = IF pc[r].step = "answer" THEN unanswered \cup {r} ELSE unanswered
    /\ UNCHANGED <<now, ticket, cache, expires, undone>>

Tick ==
    /\ now < MaxTime
    /\ now' = now + 1
    /\ UNCHANGED <<ticket, pc, audit, cache, expires, faults, undone, unanswered, late>>

-----------------------------------------------------------------------------
Init ==
    /\ now = 0
    /\ ticket = [status |-> "open", board |-> "new", analysis |-> None, timeline |-> <<>>]
    /\ pc = [r \in Request |-> Idle]
    /\ audit = [r \in Request |-> None]
    /\ cache = None /\ expires = 0 /\ faults = 0
    /\ undone = {} /\ unanswered = {} /\ late = {}

Operations == {<<"status", "open">>, <<"status", "resolved">>, <<"board", "closed">>,
               <<"analyze", None>>, <<"enrich", None>>}

Next ==
    \/ Tick
    \/ \E r \in Request : \E o \in Operations : Start(r, o[1], o[2])
    \/ \E r \in Request :
          AskAi(r) \/ LookUp(r) \/ ReadTicket(r) \/ WriteTicket(r)
          \/ Answered(r) \/ RecordSuccess(r) \/ NoAnswer(r)
    \/ \E c \in late : ReadLate(c) \/ WriteLate(c)

Spec == Init /\ [][Next]_vars

-----------------------------------------------------------------------------
Items(r) == {i \in DOMAIN ticket.timeline : ticket.timeline[i].by = r}

(* The timeline is in the order of time, whatever was written over. *)
TypeOK ==
    /\ ticket.status \in {"open", "resolved"}
    /\ ticket.board \in {"new", "closed"}
    /\ \A i, j \in DOMAIN ticket.timeline : i < j => ticket.timeline[i].at <= ticket.timeline[j].at
    /\ cache = None \/ cache <= now
    /\ \A c \in late : c.by \in Request /\ pc[c.by].op # None

(* Every incident is counted: it is open for the SLA, or closed on the board,
   or resolved and then has a time to resolve - also after writes that were
   overtaken (executive metrics). *)
ResolvedIsTimed == OpenForSla(ticket) \/ ticket.board = "closed" \/ Mttr(ticket) # None

\* Timeline t goes on where s ends.
Continues(t, s) == Len(s) <= Len(t) /\ s = SubSeq(t, 1, Len(s))

(* The time to resolve of an incident is that of its first resolution: no
   later one, after a reopening or a repeated PATCH, moves it, unless the
   document that had it was written over. *)
ResolutionKept ==
    Mttr(ticket) # None /\ Mttr(ticket') # None /\ Continues(ticket'.timeline, ticket.timeline)
       => Mttr(ticket') = Mttr(ticket)

(* Success is audited of a change that is in the ticket - or was, until a
   patch that had read the ticket before it was written (_audit). A move on
   the board to where the ticket is already changes nothing. *)
SuccessIsInTicket ==
    \A r \in Request :
        audit[r] = "success" /\ pc[r].op # "board" => Items(r) # {} \/ r \in undone

(* A change that is in the ticket when its request has ended is audited as
   done, unless the answer to it was lost: then not at all, or as partial. *)
ChangeIsAudited ==
    \A r \in Request :
        pc[r].step = "done" /\ Items(r) # {} => audit[r] = "success" \/ r \in unanswered

(* What is noted on the ticket was obtained less than Ttl before it was looked
   up, however often it is asked again (ThreatIntelService). *)
VerdictIsRecent == cache # None => expires <= cache + Ttl
=============================================================================
