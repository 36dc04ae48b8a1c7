-------------------------- MODULE ContainmentProofs --------------------------
(***************************************************************************)
(* Theorems about Containment, for any incidents, runs, requests, threads, *)
(* playbooks and number of attempts: what is stored is well typed, a       *)
(* contained ticket is backed, and an undisturbed ticket records what was  *)
(* applied for it.                                                         *)
(***************************************************************************)
EXTENDS Containment, TLAPS

\* The n-th attempt of thread h: it carries a patch while it is under way, a
\* copy of the incident between its read and its write, and nothing once it
\* is over.  An answer waits only for the attempt the thread looks at.
CallOK(h, n) ==
    LET c == call[h][n] IN
    /\ c.pc = "none" => c = NoCall
    /\ c.pc = "done" => c = [NoCall EXCEPT !.pc = "done"] /\ n = handler[h].tries
    /\ c.pc = "sent" => c.patch \in Patch /\ c.copy = None
    /\ c.pc = "read" => c.patch \in Patch /\ c.copy \in Payload

\* Thread h has a patch while it waits, and all its attempts are for that one.
HandlerOK(h) ==
    /\ handler[h].tries = 0 => handler[h] = Idle
    /\ handler[h].tries > 0 => handler[h].patch \in Patch
    /\ \A n \in 1..Attempts : handler[h].tries > 0 =>
         /\ call[h][n].pc \in {"sent", "read"} => call[h][n].patch = handler[h].patch
         /\ n > handler[h].tries => call[h][n] = NoCall

\* The threads and their attempts.
Waiting == [tries : 0..Attempts, patch : Patch \cup {NoPatch}]
Attempt == [pc : {"none", "sent", "read", "done"}, patch : Patch \cup {NoPatch},
            copy : Payload \cup {None}]

CallsOK ==
    /\ handler \in [Handler -> Waiting]
    /\ call \in [Handler -> [1..Attempts -> Attempt]]
    /\ \A h \in Handler : HandlerOK(h)
    /\ \A h \in Handler, n \in 1..Attempts : CallOK(h, n)

\* The tables.
TablesOK ==
    /\ incident \in [Incident -> Payload]
    /\ run \in [Run -> {None} \cup RunRow]
    /\ request \in [Request -> {None, "pending"} \cup Run]
    /\ disturbed \subseteq Incident
    /\ \A q \in Applied : run[request[q]] # None /\ run[request[q]].playbook.blocks

Typed == CallsOK /\ TablesOK

-----------------------------------------------------------------------------
\* Incident i may be called contained: ContainedIsBacked, for one incident.
Backed(i) ==
    \/ "contained" \in Manual
    \/ \E r \in Run : /\ run[r] # None /\ run[r].incident = i
                      /\ run[r].status = "completed" /\ ~run[r].playbook.blocks
    \/ \E q \in Applied : run[request[q]].incident = i

\* Wherever "contained" stands, in the table, in a patch that a thread or an
\* attempt carries or in a copy that was read, it is backed: a late write
\* brings back only what was backed when it was read.
BackedEverywhere ==
    /\ \A i \in Incident : incident[i].ticket = "contained" => Backed(i)
    /\ \A h \in Handler :
         handler[h].tries > 0 /\ handler[h].patch.ticket = "contained" =>
             Backed(handler[h].patch.incident)
    /\ \A h \in Handler, n \in 1..Attempts :
         /\ call[h][n].pc \in {"sent", "read"} /\ call[h][n].patch.ticket = "contained" =>
              Backed(call[h][n].patch.incident)
         /\ call[h][n].pc = "read" /\ call[h][n].copy.ticket = "contained" =>
              Backed(call[h][n].patch.incident)

-----------------------------------------------------------------------------
\* The attempt is between its read and its write of incident i.
Reading(h, n, i) == call[h][n].pc = "read" /\ call[h][n].patch.incident = i

\* Thread h still waits for the patch that records policy q, unanswered.
Recording(h, q) ==
    /\ handler[h].tries > 0
    /\ handler[h].patch.incident = run[request[q]].incident
    /\ handler[h].patch.note = q
    /\ call[h][handler[h].tries].pc # "done"

\* An undisturbed incident is worked on by one attempt at most, whose copy is
\* what the table holds, and what was applied for it is recorded or about to be.
Undisturbed ==
    /\ \A i \in Incident \ disturbed :
         /\ \A g, h \in Handler, m, n \in 1..Attempts :
              Reading(g, m, i) /\ Reading(h, n, i) => g = h /\ m = n
         /\ \A h \in Handler, n \in 1..Attempts :
              Reading(h, n, i) => call[h][n].copy = incident[i]
    /\ \A q \in Applied : run[request[q]].incident \notin disturbed =>
         Recorded(q) \/ \E h \in Handler : Recording(h, q)

IInv == Typed /\ BackedEverywhere /\ Undisturbed

-----------------------------------------------------------------------------
(* What a step does to the threads and their attempts. *)

\* The numbers of the attempts.
LEMMA FirstAttempt == 1 \in 1..Attempts
BY ContainmentAssumption

LEMMA ConstantTypes ==
    /\ NoPatch \notin Patch
    /\ NoCall \in Attempt
    /\ [NoCall EXCEPT !.pc = "done"] \in Attempt
    /\ Idle \in Waiting
    /\ \A p \in Patch : [NoCall EXCEPT !.pc = "sent", !.patch = p] \in Attempt
<1>1. NoPatch \notin Patch
  BY ContainmentAssumption DEF NoPatch, Patch
<1>2. 0 \in 0..Attempts
  BY ContainmentAssumption
<1> QED
  BY <1>1, <1>2 DEF NoCall, Attempt, Idle, Waiting

LEMMA SendKeepsCalls ==
    ASSUME CallsOK, NEW h \in Handler, NEW p \in Patch, Send(h, p)
    PROVE  CallsOK'
<1> USE ContainmentAssumption
<1>1. 1 \in 0..Attempts /\ 1 \in 1..Attempts
  OBVIOUS
<1> DEFINE w == [tries |-> 1, patch |-> p]
           s == [NoCall EXCEPT !.pc = "sent", !.patch = p]
           a == [n \in 1..Attempts |-> IF n = 1 THEN s ELSE NoCall]
<1>2. w \in Waiting /\ a \in [1..Attempts -> Attempt]
  BY <1>1, ConstantTypes DEF Waiting
<1>3. handler' = [handler EXCEPT ![h] = w] /\ call' = [call EXCEPT ![h] = a]
  BY DEF Send
<1>4. handler' \in [Handler -> Waiting] /\ call' \in [Handler -> [1..Attempts -> Attempt]]
  BY <1>2, <1>3 DEF CallsOK
<1>5. ASSUME NEW g \in Handler PROVE HandlerOK(g)'
  BY <1>1, <1>3 DEF CallsOK, HandlerOK, NoCall
<1>6. ASSUME NEW g \in Handler, NEW n \in 1..Attempts PROVE CallOK(g, n)'
  BY <1>3 DEF CallsOK, CallOK, NoCall
<1> QED
  BY <1>4, <1>5, <1>6 DEF CallsOK

\* What one step of one attempt, or of its thread, does to the others: nothing.
LEMMA CallKeepsCalls ==
    ASSUME CallsOK, NEW h \in Handler, NEW n \in 1..Attempts, NEW c \in Attempt,
           call' = [call EXCEPT ![h][n] = c], handler' = handler,
           c = NoCall \/ handler[h].tries = 0 \/ n <= handler[h].tries,
           c.pc \in {"sent", "read"} /\ handler[h].tries > 0 => c.patch = handler[h].patch,
           CallOK(h, n)'
    PROVE  CallsOK'
<1>1. call' \in [Handler -> [1..Attempts -> Attempt]]
  BY DEF CallsOK
<1>2. call'[h][n] = c
  BY DEF CallsOK
<1>3. \A g \in Handler, m \in 1..Attempts : <<g, m>> # <<h, n>> => call'[g][m] = call[g][m]
  BY DEF CallsOK
<1>4. ASSUME NEW g \in Handler, NEW m \in 1..Attempts PROVE CallOK(g, m)'
  <2>1. CASE <<g, m>> = <<h, n>>
    BY <2>1
  <2>2. CASE <<g, m>> # <<h, n>>
    BY <1>3, <2>2 DEF CallsOK, CallOK
  <2> QED
    BY <2>1, <2>2
<1>5. ASSUME NEW g \in Handler PROVE HandlerOK(g)'
  <2>1. ASSUME NEW m \in 1..Attempts, handler[g].tries > 0
        PROVE  /\ call'[g][m].pc \in {"sent", "read"} => call'[g][m].patch = handler[g].patch
               /\ m > handler[g].tries => call'[g][m] = NoCall
    <3>1. CASE <<g, m>> = <<h, n>>
      BY <1>2, <2>1, <3>1, ContainmentAssumption DEF CallsOK, Waiting
    <3>2. CASE <<g, m>> # <<h, n>>
      BY <1>3, <2>1, <3>2 DEF CallsOK, HandlerOK
    <3> QED
      BY <3>1, <3>2
  <2> QED
    BY <2>1 DEF CallsOK, HandlerOK
<1> QED
  BY <1>1, <1>4, <1>5 DEF CallsOK

LEMMA ReadKeepsCalls ==
    ASSUME Typed, NEW h \in Handler, NEW n \in 1..Attempts, ReadIncident(h, n)
    PROVE  CallsOK' /\ disturbed' \subseteq Incident
<1> DEFINE c == [call[h][n] EXCEPT !.pc = "read",
                                   !.copy = incident[call[h][n].patch.incident]]
<1>1. call[h][n] \in Attempt /\ call[h][n].pc = "sent" /\ call[h][n].patch \in Patch
  <2>1. call[h][n].pc = "sent"
    BY DEF ReadIncident
  <2>2. call[h][n] \in Attempt /\ CallOK(h, n)
    BY DEF Typed, CallsOK
  <2> QED
    BY <2>1, <2>2 DEF CallOK
<1>2. incident[call[h][n].patch.incident] \in Payload
  BY <1>1 DEF Typed, TablesOK, Patch
<1>3. c \in Attempt
  BY <1>1, <1>2 DEF Attempt
<1>4. call' = [call EXCEPT ![h][n] = c] /\ handler' = handler
  BY DEF ReadIncident, Typed, CallsOK
<1>5. CallOK(h, n)'
  BY <1>1, <1>2, <1>4 DEF CallOK, Typed, CallsOK, Attempt
<1>6. handler[h].tries = 0 \/ n <= handler[h].tries
  BY <1>1, ContainmentAssumption DEF Typed, CallsOK, HandlerOK, Waiting, NoCall
<1>7. c.pc \in {"sent", "read"} /\ handler[h].tries > 0 => c.patch = handler[h].patch
  BY <1>1 DEF Typed, CallsOK, HandlerOK, Attempt
<1>8. disturbed' \subseteq Incident
  BY <1>1 DEF ReadIncident, Typed, TablesOK, Patch
<1> HIDE DEF c
<1> QED
  BY <1>3, <1>4, <1>5, <1>6, <1>7, <1>8, CallKeepsCalls DEF Typed

LEMMA WriteKeepsCalls ==
    ASSUME CallsOK, NEW h \in Handler, NEW n \in 1..Attempts, WriteIncident(h, n)
    PROVE  CallsOK'
<1> DEFINE c == IF n = handler[h].tries THEN [NoCall EXCEPT !.pc = "done"] ELSE NoCall
<1>1. c \in Attempt
  BY ConstantTypes
<1>2. call' = [call EXCEPT ![h][n] = c] /\ handler' = handler
  BY DEF WriteIncident
<1>3. c = NoCall \/ n <= handler[h].tries
  BY ContainmentAssumption
<1>4. c.pc \notin {"sent", "read"}
  BY DEF NoCall
<1>5. CallOK(h, n)'
  BY <1>2 DEF CallOK, CallsOK, NoCall
<1> HIDE DEF c
<1> QED
  BY <1>1, <1>2, <1>3, <1>4, <1>5, CallKeepsCalls

LEMMA LoseKeepsCalls ==
    ASSUME CallsOK, NEW h \in Handler, NEW n \in 1..Attempts, Lose(h, n)
    PROVE  CallsOK'
<1>1. call' = [call EXCEPT ![h][n] = NoCall] /\ handler' = handler
  BY DEF Lose
<1>2. CallOK(h, n)'
  BY <1>1 DEF CallOK, CallsOK, NoCall
<1>3. NoCall.pc \notin {"sent", "read"}
  BY DEF NoCall
<1> QED
  BY <1>1, <1>2, <1>3, ConstantTypes, CallKeepsCalls

LEMMA AnsweredKeepsCalls ==
    ASSUME CallsOK, NEW h \in Handler, Answered(h)
    PROVE  CallsOK'
<1> DEFINE n == handler[h].tries
<1>1. /\ n > 0 /\ call[h][n].pc = "done"
      /\ handler' = [handler EXCEPT ![h] = Idle]
      /\ call' = [call EXCEPT ![h][n] = NoCall]
  BY DEF Answered
<1>2. n \in 1..Attempts
  BY <1>1, ContainmentAssumption DEF CallsOK, Waiting
<1>3. /\ call' \in [Handler -> [1..Attempts -> Attempt]]
      /\ handler' \in [Handler -> Waiting]
  BY <1>1, <1>2, ConstantTypes DEF CallsOK
<1>4. ASSUME NEW g \in Handler, NEW m \in 1..Attempts PROVE CallOK(g, m)'
  BY <1>1, <1>2 DEF CallsOK, CallOK, NoCall
<1>5. ASSUME NEW g \in Handler PROVE HandlerOK(g)'
  BY <1>1, <1>2 DEF CallsOK, HandlerOK, Idle
<1> QED
  BY <1>3, <1>4, <1>5 DEF CallsOK

LEMMA TimeoutKeepsCalls ==
    ASSUME CallsOK, NEW h \in Handler, Timeout(h)
    PROVE  CallsOK'
<1> DEFINE n == handler[h].tries
           u == Unread(h, n)
           s == [NoCall EXCEPT !.pc = "sent", !.patch = handler[h].patch]
<1>1. /\ n > 0 /\ n \in 1..Attempts /\ (n + 1) - 1 = n
      /\ handler[h].patch \in Patch /\ handler[h] \in Waiting
  BY ContainmentAssumption DEF Timeout, CallsOK, Waiting, HandlerOK
<1>2. u \in Attempt /\ u.pc # "done" /\ (u = call[h][n] \/ u = NoCall)
  BY <1>1, ConstantTypes DEF CallsOK, Unread, NoCall
<1>3. CASE n + 1 <= Attempts
  <2>1. n + 1 \in 1..Attempts /\ n + 1 \in 0..Attempts /\ s \in Attempt
    <3>1. s \in Attempt
      BY <1>1, ConstantTypes
    <3> QED
      BY <1>1, <1>3, <3>1, ContainmentAssumption
  <2>2. /\ handler' = [handler EXCEPT ![h].tries = n + 1]
        /\ call' = [call EXCEPT ![h][n] = u, ![h][n + 1] = s]
    BY <1>1, <1>3 DEF Timeout
  <2>3. handler' \in [Handler -> Waiting]
    BY <1>1, <2>1, <2>2 DEF CallsOK, Waiting
  <2>4. call' \in [Handler -> [1..Attempts -> Attempt]]
    BY <1>1, <1>2, <2>1, <2>2 DEF CallsOK
  <2>5. ASSUME NEW m \in 1..Attempts
        PROVE  call'[h][m] = IF m = n THEN u ELSE IF m = n + 1 THEN s ELSE call[h][m]
    <3> HIDE DEF s, u
    <3> DEFINE a == [call[h] EXCEPT ![n] = u]
    <3>1. call'[h] = [a EXCEPT ![n + 1] = s]
      BY <2>2 DEF CallsOK
    <3>2. a \in [1..Attempts -> Attempt] /\ a[m] = IF m = n THEN u ELSE call[h][m]
      BY <1>1, <1>2 DEF CallsOK
    <3>3. n # n + 1
      BY <1>1
    <3> HIDE DEF a, n
    <3> QED
      BY <2>1, <3>1, <3>2, <3>3
  <2>6. \A g \in Handler : g # h => call'[g] = call[g] /\ handler'[g] = handler[g]
    BY <2>2 DEF CallsOK
  <2>7. handler'[h].tries = n + 1 /\ handler'[h].patch = handler[h].patch
    BY <1>1, <2>2 DEF CallsOK, Waiting
  <2>8. s.pc = "sent" /\ s.patch = handler[h].patch /\ s.copy = None
    BY DEF NoCall
  <2> HIDE DEF s, u
  <2>9. ASSUME NEW m \in 1..Attempts PROVE CallOK(h, m)'
    <3>1. CASE m = n + 1
      BY <1>1, <2>5, <2>8, <3>1 DEF CallOK
    <3>2. CASE m # n + 1 /\ call'[h][m] = NoCall
      BY <3>2 DEF CallOK, NoCall
    <3>3. CASE m # n + 1 /\ call'[h][m] = call[h][m] /\ call[h][m].pc # "done"
      BY <3>3 DEF CallsOK, CallOK
    <3>4. m # n => call[h][m].pc # "done"
      BY DEF CallsOK, CallOK
    <3> QED
      BY <1>2, <2>5, <3>1, <3>2, <3>3, <3>4
  <2>10. ASSUME NEW m \in 1..Attempts
         PROVE  /\ call'[h][m].pc \in {"sent", "read"} => call'[h][m].patch = handler[h].patch
                /\ m > n + 1 => call'[h][m] = NoCall
    BY <1>1, <1>2, <2>1, <2>5, <2>8 DEF CallsOK, HandlerOK, NoCall
  <2>11. HandlerOK(h)'
    BY <1>1, <2>7, <2>10 DEF HandlerOK
  <2>12. ASSUME NEW g \in Handler, g # h
         PROVE  HandlerOK(g)' /\ \A m \in 1..Attempts : CallOK(g, m)'
    BY <2>6, <2>12 DEF CallsOK, HandlerOK, CallOK
  <2> QED
    BY <2>3, <2>4, <2>9, <2>11, <2>12 DEF CallsOK
<1>4. CASE ~(n + 1 <= Attempts)
  <2>1. /\ handler' = [handler EXCEPT ![h] = Idle]
        /\ call' = [call EXCEPT ![h][n] = u]
    BY <1>1, <1>4 DEF Timeout
  <2>2. /\ handler' \in [Handler -> Waiting]
        /\ call' \in [Handler -> [1..Attempts -> Attempt]]
    BY <1>1, <1>2, <2>1, ConstantTypes DEF CallsOK
  <2>3. \A m \in 1..Attempts : call'[h][m] = IF m = n THEN u ELSE call[h][m]
    BY <1>1, <2>1 DEF CallsOK
  <2>4. \A g \in Handler : g # h => call'[g] = call[g] /\ handler'[g] = handler[g]
    BY <2>1 DEF CallsOK
  <2>5. handler'[h] = Idle
    BY <2>1 DEF CallsOK
  <2> HIDE DEF u
  <2>6. ASSUME NEW m \in 1..Attempts PROVE CallOK(h, m)'
    <3>1. CASE call'[h][m] = NoCall
      BY <3>1 DEF CallOK, NoCall
    <3>2. CASE call'[h][m] = call[h][m] /\ call[h][m].pc # "done"
      BY <3>2 DEF CallsOK, CallOK
    <3>3. m # n => call[h][m].pc # "done"
      BY DEF CallsOK, CallOK
    <3> QED
      BY <1>2, <2>3, <3>1, <3>2, <3>3
  <2>7. HandlerOK(h)'
    BY <2>5 DEF HandlerOK, Idle
  <2>8. ASSUME NEW g \in Handler, g # h
        PROVE  HandlerOK(g)' /\ \A m \in 1..Attempts : CallOK(g, m)'
    BY <2>4, <2>8 DEF CallsOK, HandlerOK, CallOK
  <2> QED
    BY <2>2, <2>6, <2>7, <2>8 DEF CallsOK
<1> QED
  BY <1>3, <1>4

-----------------------------------------------------------------------------
(* What a step does to the tables. *)

\* Runs and applied policies stay what they are; a run may pass its gate.
Grown ==
    /\ \A r \in Run : run[r] # None =>
         /\ run'[r] # None
         /\ run'[r].incident = run[r].incident
         /\ run'[r].playbook = run[r].playbook
         /\ run[r].status = "completed" => run'[r].status = "completed"
    /\ \A q \in Applied : request'[q] = request[q]

\* What backs a ticket is never taken back.
LEMMA BackedStays ==
    ASSUME TablesOK, Grown, NEW i \in Incident, Backed(i)
    PROVE  Backed(i)'
<1>1. CASE "contained" \in Manual
  BY <1>1 DEF Backed
<1>2. ASSUME NEW r \in Run, run[r] # None, run[r].incident = i,
             run[r].status = "completed", ~run[r].playbook.blocks
      PROVE  Backed(i)'
  BY <1>2 DEF Grown, Backed
<1>3. ASSUME NEW q \in Applied, run[request[q]].incident = i
      PROVE  Backed(i)'
  <2>1. request'[q] = request[q] /\ request[q] \in Run /\ q \in Request
    BY DEF Grown, Applied
  <2>2. q \in Applied'
    BY <2>1 DEF Applied
  <2>3. run'[request'[q]].incident = i
    BY <1>3, <2>1 DEF Grown, TablesOK
  <2> QED
    BY <2>2, <2>3 DEF Backed
<1> QED
  BY <1>1, <1>2, <1>3 DEF Backed

\* The runs that soar_skipper stores are well typed, and the others stay.
LEMMA CreateRunGrows ==
    ASSUME TablesOK, NEW r \in Run, NEW i \in Incident, NEW p \in Playbook,
           CreateRun(r, i, p), UNCHANGED <<incident, request, disturbed>>
    PROVE  /\ TablesOK' /\ Grown /\ Applied' = Applied
           /\ run'[r] = NewRun(i, p)
<1>1. PICK rows \in SUBSET {x \in Run : run[x] = None} :
        r \in rows /\ run' = [x \in Run |-> IF x \in rows THEN NewRun(i, p) ELSE run[x]]
  BY DEF CreateRun
<1>2. NewRun(i, p) \in RunRow
  BY DEF NewRun, RunRow
<1>3. run' \in [Run -> {None} \cup RunRow]
  BY <1>1, <1>2 DEF TablesOK
<1>4. \A x \in Run : run[x] # None => run'[x] = run[x]
  BY <1>1
<1>5. Applied' = Applied /\ \A q \in Applied : request[q] \in Run
  BY DEF Applied
<1>6. \A q \in Applied : run'[request[q]] = run[request[q]]
  BY <1>4, <1>5 DEF TablesOK
<1>7. TablesOK'
  BY <1>3, <1>5, <1>6 DEF TablesOK
<1>8. Grown
  BY <1>4 DEF Grown
<1> QED
  BY <1>1, <1>5, <1>7, <1>8

\* A run passes its gate.
LEMMA ApproveGrows ==
    ASSUME TablesOK, NEW r \in Run, run[r] # None,
           run' = [run EXCEPT ![r].status = "completed"],
           UNCHANGED <<incident, request, disturbed>>
    PROVE  /\ TablesOK' /\ Grown /\ Applied' = Applied
           /\ run'[r].status = "completed"
<1>1. run[r] \in RunRow
  BY DEF TablesOK
<1> DEFINE x == [run[r] EXCEPT !.status = "completed"]
<1>2. /\ x \in RunRow /\ x.incident = run[r].incident
      /\ x.playbook = run[r].playbook /\ x.status = "completed"
  BY <1>1 DEF RunRow
<1>3. x # None
  BY <1>2, ContainmentAssumption
<1>4. run' = [run EXCEPT ![r] = x]
  BY DEF TablesOK
<1> HIDE DEF x
<1>5. /\ run' \in [Run -> {None} \cup RunRow] /\ run'[r] = x
      /\ \A q \in Run \ {r} : run'[q] = run[q]
  BY <1>2, <1>4 DEF TablesOK
<1>6. Grown
  BY <1>2, <1>3, <1>5 DEF Grown
<1>7. Applied' = Applied /\ \A q \in Applied : request[q] \in Run
  BY DEF Applied
<1>8. TablesOK'
  BY <1>5, <1>6, <1>7 DEF TablesOK, Grown
<1> QED
  BY <1>2, <1>5, <1>6, <1>7, <1>8

-----------------------------------------------------------------------------
(* Steps of the router, and of an analyst: they leave siem_kowalski alone. *)

\* What is applied stays applied, for the same incident.
LEMMA AppliedStays ==
    ASSUME TablesOK, Grown, NEW q \in Applied
    PROVE  /\ request'[q] = request[q] /\ request[q] \in Run /\ q \in Applied'
           /\ run'[request'[q]].incident = run[request[q]].incident
           /\ run[request[q]].incident \in Incident
<1>1. request'[q] = request[q] /\ request[q] \in Run /\ q \in Request
  BY DEF Grown, Applied
<1>2. run[request[q]] # None /\ run[request[q]] \in RunRow
  BY <1>1 DEF TablesOK
<1> QED
  BY <1>1, <1>2 DEF Grown, Applied, RunRow

\* A patch that is under way is about an incident.
LEMMA PatchTypes ==
    ASSUME CallsOK
    PROVE  /\ \A h \in Handler : handler[h].tries > 0 => handler[h].patch.incident \in Incident
           /\ \A h \in Handler, n \in 1..Attempts :
                call[h][n].pc \in {"sent", "read"} => call[h][n].patch.incident \in Incident
BY DEF CallsOK, HandlerOK, CallOK, Patch

\* A step that sends nothing.
LEMMA QuietStep ==
    ASSUME IInv, TablesOK', Grown, Applied' = Applied,
           UNCHANGED <<incident, handler, call, disturbed>>
    PROVE  IInv'
<1>1. CallsOK /\ TablesOK
  BY DEF IInv, Typed
<1>2. CallsOK'
  BY <1>1 DEF CallsOK, HandlerOK, CallOK
<1>3. BackedEverywhere'
  BY <1>1, BackedStays, PatchTypes DEF IInv, BackedEverywhere
<1>4. \A q \in Applied : run'[request'[q]].incident = run[request[q]].incident
  BY <1>1, AppliedStays
<1>5. Undisturbed'
  <2>1. \A q \in Applied : Recorded(q)' = Recorded(q)
    BY <1>4 DEF Recorded
  <2>2. \A q \in Applied, h \in Handler : Recording(h, q)' = Recording(h, q)
    BY <1>4 DEF Recording
  <2>3. \A h \in Handler, n \in 1..Attempts, i \in Incident : Reading(h, n, i)' = Reading(h, n, i)
    BY DEF Reading
  <2> QED
    BY <1>4, <2>1, <2>2, <2>3 DEF IInv, Undisturbed
<1> QED
  BY <1>2, <1>3, <1>5 DEF IInv, Typed

\* A step of thread h that sends patch p, for which what it says is backed, and
\* which is to record what the step applied.
LEMMA SendStep ==
    ASSUME IInv, TablesOK', Grown, UNCHANGED <<incident, disturbed>>,
           NEW h \in Handler, Free(h), NEW p \in Patch, Send(h, p),
           p.ticket = "contained" => Backed(p.incident)',
           \A q \in Applied' \ Applied :
             p.note = q /\ p.incident = run'[request'[q]].incident
    PROVE  IInv'
<1>1. CallsOK /\ TablesOK
  BY DEF IInv, Typed
<1>2. CallsOK'
  BY <1>1, SendKeepsCalls
<1>3. /\ handler'[h] = [tries |-> 1, patch |-> p]
      /\ \A g \in Handler \ {h} : handler'[g] = handler[g] /\ call'[g] = call[g]
  BY <1>1 DEF Send, CallsOK
<1> DEFINE s == [NoCall EXCEPT !.pc = "sent", !.patch = p]
<1>4. \A n \in 1..Attempts : call'[h][n] = IF n = 1 THEN s ELSE NoCall
  BY <1>1 DEF Send, CallsOK
<1>5. /\ \A n \in 1..Attempts : call'[h][n].pc \in {"sent", "none"}
      /\ \A n \in 1..Attempts : call'[h][n].pc = "sent" => call'[h][n].patch = p
      /\ call'[h][1].pc = "sent"
  <2>1. s.pc = "sent" /\ s.patch = p /\ NoCall.pc = "none"
    BY DEF NoCall
  <2> HIDE DEF s
  <2> QED
    BY <1>4, <2>1, FirstAttempt
<1>6. p.incident \in Incident
  BY DEF Patch
<1>7. BackedEverywhere'
  <2>1. \A i \in Incident : Backed(i) => Backed(i)'
    BY <1>1, BackedStays
  <2>2. \A i \in Incident : incident'[i].ticket = "contained" => Backed(i)'
    BY <2>1 DEF IInv, BackedEverywhere
  <2>3. ASSUME NEW g \in Handler, handler'[g].tries > 0, handler'[g].patch.ticket = "contained"
        PROVE  Backed(handler[g].patch.incident)'
    <3>1. CASE g = h
      BY <1>3, <2>3, <3>1
    <3>2. CASE g # h
      BY <1>1, <1>3, <2>1, <2>3, <3>2, PatchTypes DEF IInv, BackedEverywhere
    <3> QED
      BY <3>1, <3>2
  <2>4. ASSUME NEW g \in Handler, NEW n \in 1..Attempts, call'[g][n].pc \in {"sent", "read"},
               \/ call'[g][n].patch.ticket = "contained"
               \/ call'[g][n].pc = "read" /\ call'[g][n].copy.ticket = "contained"
        PROVE  Backed(call[g][n].patch.incident)'
    <3>1. CASE g = h
      BY <1>5, <2>4, <3>1
    <3>2. CASE g # h
      BY <1>1, <1>3, <2>1, <2>4, <3>2, PatchTypes DEF IInv, BackedEverywhere
    <3> QED
      BY <3>1, <3>2
  <2> QED
    BY <2>2, <2>3, <2>4 DEF BackedEverywhere
<1>8. \A q \in Applied : run'[request'[q]].incident = run[request[q]].incident
  BY <1>1, AppliedStays
<1>9. \A g \in Handler, n \in 1..Attempts, i \in Incident :
        Reading(g, n, i)' => Reading(g, n, i) /\ g # h
  BY <1>3, <1>5 DEF Reading
<1>10. ASSUME NEW q \in Applied', run'[request'[q]].incident \notin disturbed
       PROVE  Recorded(q)' \/ \E g \in Handler : Recording(g, q)'
  <2>1. CASE q \in Applied
    <3>1. CASE Recorded(q)
      BY <1>8, <2>1, <3>1 DEF Recorded
    <3>2. ASSUME NEW g \in Handler, Recording(g, q)
          PROVE  Recording(g, q)'
      <4>1. g # h
        BY <3>2 DEF Recording, Free, Idle
      <4> QED
        BY <1>3, <1>8, <2>1, <3>2, <4>1 DEF Recording
    <3> QED
      BY <1>8, <1>10, <2>1, <3>1, <3>2 DEF IInv, Undisturbed
  <2>2. CASE q \notin Applied
    <3>1. p.note = q /\ p.incident = run'[request'[q]].incident
      BY <1>10, <2>2
    <3>2. Recording(h, q)'
      BY <1>3, <1>5, <3>1 DEF Recording
    <3> QED
      BY <3>2
  <2> QED
    BY <2>1, <2>2
<1>11. Undisturbed'
  BY <1>3, <1>9, <1>10 DEF IInv, Undisturbed
<1> QED
  BY <1>2, <1>7, <1>11 DEF IInv, Typed

LEMMA RunPlaybookKeeps ==
    ASSUME IInv, NEW h \in Handler, NEW r \in Run, NEW i \in Incident, NEW p \in Playbook,
           RunPlaybook(h, r, i, p)
    PROVE  IInv'
<1>1. TablesOK' /\ Grown /\ Applied' = Applied
  BY CreateRunGrows DEF RunPlaybook, IInv, Typed
<1>2. CASE SendNothing
  BY <1>1, <1>2, QuietStep DEF RunPlaybook, SendNothing
<1>3. CASE Send(h, TicketPatch(i, None, "other"))
  <2>1. TicketPatch(i, None, "other") \in Patch /\ TicketPatch(i, None, "other").ticket # "contained"
    BY ContainmentAssumption DEF TicketPatch, Patch, Note, TicketStatus
  <2> QED
    BY <1>1, <1>3, <2>1, SendStep DEF RunPlaybook
<1> QED
  BY <1>2, <1>3 DEF RunPlaybook, SendIfAnswered

LEMMA ApplyContainmentKeeps ==
    ASSUME IInv, NEW h \in Handler, NEW r \in Run, NEW i \in Incident, NEW p \in Playbook,
           ApplyContainment(h, r, i, p)
    PROVE  IInv'
<1> DEFINE tp == IF p.gated THEN TicketPatch(i, "investigating", "other")
                 ELSE TicketPatch(i, "contained", "other")
<1>1. TablesOK' /\ Grown /\ Applied' = Applied /\ run'[r] = NewRun(i, p)
  BY CreateRunGrows DEF ApplyContainment, IInv, Typed
<1>2. CASE SendNothing
  BY <1>1, <1>2, QuietStep DEF ApplyContainment, SendNothing
<1>3. CASE Send(h, tp)
  <2>1. tp \in Patch /\ tp.incident = i
    BY DEF TicketPatch, Patch, Note, TicketStatus
  <2>2. ASSUME tp.ticket = "contained" PROVE Backed(i)'
    <3>1. ~p.gated /\ ~p.blocks
      BY <2>2, ContainmentAssumption DEF TicketPatch
    <3>2. run'[r] # None
      BY <1>1, ContainmentAssumption DEF NewRun, RunRow
    <3> QED
      BY <1>1, <3>1, <3>2 DEF Backed, NewRun
  <2> HIDE DEF tp
  <2> QED
    BY <1>1, <1>3, <2>1, <2>2, SendStep DEF ApplyContainment
<1> QED
  BY <1>2, <1>3 DEF ApplyContainment, SendIfAnswered

LEMMA ApproveKeeps ==
    ASSUME IInv, NEW h \in Handler, NEW r \in Run, Approve(h, r)
    PROVE  IInv'
<1>1. TablesOK' /\ Grown /\ Applied' = Applied /\ run'[r].status = "completed"
  BY ApproveGrows DEF Approve, IInv, Typed
<1>2. CASE SendNothing
  BY <1>1, <1>2, QuietStep DEF Approve, SendNothing
<1>3. ASSUME ~run[r].playbook.blocks,
             NEW p, p = TicketPatch(run[r].incident, "contained", "other"), Send(h, p)
      PROVE  IInv'
  <2>1. run[r] \in RunRow /\ run[r] # None
    BY DEF IInv, Typed, TablesOK, Approve
  <2>2. p \in Patch /\ p.incident = run[r].incident
    BY <1>3, <2>1 DEF TicketPatch, Patch, Note, TicketStatus, RunRow
  <2>3. Backed(p.incident)'
    BY <1>1, <1>3, <2>1, <2>2 DEF Grown, Backed
  <2> QED
    BY <1>1, <1>3, <2>2, <2>3, SendStep DEF Approve
<1> QED
  BY <1>2, <1>3 DEF Approve, SendIfAnswered

LEMMA ReviewPolicyKeeps ==
    ASSUME IInv, NEW r \in Run, NEW q \in Request, ReviewPolicy(r, q)
    PROVE  IInv'
<1>1. /\ request' = [request EXCEPT ![q] = "pending"] /\ request[q] = None
      /\ UNCHANGED <<incident, run, handler, call, disturbed>>
  BY DEF ReviewPolicy
<1>2. TablesOK
  BY DEF IInv, Typed
<1>3. Applied' = Applied /\ \A x \in Applied : request'[x] = request[x]
  BY <1>1, <1>2, ContainmentAssumption DEF Applied, TablesOK
<1>4. TablesOK' /\ Grown
  BY <1>1, <1>2, <1>3 DEF TablesOK, Grown
<1> QED
  BY <1>1, <1>3, <1>4, QuietStep

LEMMA ApplyPolicyKeeps ==
    ASSUME IInv, NEW h \in Handler, NEW r \in Run, NEW q \in Request, ApplyPolicy(h, r, q)
    PROVE  IInv'
<1> SUFFICES ASSUME NEW p, p = TicketPatch(run[r].incident, "contained", q)
             PROVE  IInv'
  OBVIOUS
<1>1. /\ request' = [request EXCEPT ![q] = r] /\ request[q] = "pending"
      /\ run[r] # None /\ run[r].playbook.blocks /\ Free(h) /\ Send(h, p)
      /\ UNCHANGED <<incident, run, disturbed>>
  BY DEF ApplyPolicy
<1>2. TablesOK /\ run[r] \in RunRow
  BY <1>1 DEF IInv, Typed, TablesOK
<1>3. q \notin Applied
  BY <1>1, ContainmentAssumption DEF Applied
<1>4. /\ request'[q] = r
      /\ \A x \in Request \ {q} : request'[x] = request[x]
  BY <1>1, <1>2 DEF TablesOK
<1>5. Applied' = Applied \cup {q}
  BY <1>4 DEF Applied
<1>6. TablesOK' /\ Grown
  BY <1>1, <1>2, <1>3, <1>4, <1>5 DEF TablesOK, Grown
<1>7. p \in Patch /\ p.incident = run[r].incident /\ p.note = q
  BY <1>2 DEF TicketPatch, Patch, Note, TicketStatus, RunRow
<1>8. Backed(p.incident)'
  BY <1>1, <1>4, <1>5, <1>7 DEF Backed
<1>9. \A x \in Applied' \ Applied : p.note = x /\ p.incident = run'[request'[x]].incident
  BY <1>1, <1>4, <1>5, <1>7
<1> QED
  BY <1>1, <1>6, <1>7, <1>8, <1>9, SendStep

LEMMA EditTicketKeeps ==
    ASSUME IInv, NEW h \in Handler, NEW i \in Incident, EditTicket(h, i)
    PROVE  IInv'
<1>1. TablesOK' /\ Grown /\ Applied' = Applied /\ Free(h) /\ UNCHANGED <<incident, disturbed>>
  BY DEF EditTicket, IInv, Typed, TablesOK, Grown, Applied
<1>2. ASSUME NEW s \in Manual, Send(h, TicketPatch(i, s, None))
      PROVE  IInv'
  <2>1. TicketPatch(i, s, None) \in Patch
    BY ContainmentAssumption DEF TicketPatch, Patch
  <2>2. TicketPatch(i, s, None).ticket = "contained" => Backed(TicketPatch(i, s, None).incident)'
    BY DEF Backed, TicketPatch
  <2> QED
    BY <1>1, <1>2, <2>1, <2>2, SendStep
<1>3. CASE Send(h, TicketPatch(i, None, "other"))
  <2>1. TicketPatch(i, None, "other") \in Patch /\ TicketPatch(i, None, "other").ticket # "contained"
    BY ContainmentAssumption DEF TicketPatch, Patch, Note, TicketStatus
  <2> QED
    BY <1>1, <1>3, <2>1, SendStep
<1> QED
  BY <1>2, <1>3 DEF EditTicket

-----------------------------------------------------------------------------
(* Steps of siem_kowalski, and of a thread that waits for it. *)

\* A step that writes no incident: threads give up or go on with their patch,
\* attempts end or are new, and nobody stops recording a policy unless it is
\* recorded or its incident is disturbed.
LEMMA WaitingStep ==
    ASSUME IInv, CallsOK', UNCHANGED <<incident, run, request>>,
           disturbed \subseteq disturbed', disturbed' \subseteq Incident,
           \A g \in Handler : handler'[g].tries > 0 =>
             handler[g].tries > 0 /\ handler'[g].patch = handler[g].patch,
           \A g \in Handler, m \in 1..Attempts :
             call'[g][m].pc = "read" => call'[g][m] = call[g][m],
           \A g \in Handler, m \in 1..Attempts : call'[g][m].pc = "sent" =>
             \/ call'[g][m] = call[g][m]
             \/ handler[g].tries > 0 /\ call'[g][m].patch = handler[g].patch,
           \A g \in Handler, q \in Applied : Recording(g, q) =>
             Recording(g, q)' \/ Recorded(q) \/ run[request[q]].incident \in disturbed'
    PROVE  IInv'
<1>1. TablesOK' /\ Applied' = Applied
  BY DEF IInv, Typed, TablesOK, Applied
<1>2. \A i : Backed(i) => Backed(i)'
  BY <1>1 DEF Backed
<1>3. BackedEverywhere'
  BY <1>2 DEF IInv, BackedEverywhere
<1>4. \A g \in Handler, m \in 1..Attempts, i \in Incident : Reading(g, m, i)' => Reading(g, m, i)
  BY DEF Reading
<1>5. Undisturbed'
  <2>1. \A q \in Applied : Recorded(q)' = Recorded(q)
    BY DEF Recorded
  <2>2. \A i \in Incident \ disturbed' : i \in Incident \ disturbed
    OBVIOUS
  <2>3. ASSUME NEW q \in Applied, run[request[q]].incident \notin disturbed'
        PROVE  Recorded(q)' \/ \E h \in Handler : Recording(h, q)'
    BY <2>1, <2>3 DEF IInv, Undisturbed
  <2>4. ASSUME NEW i \in Incident \ disturbed', NEW h \in Handler, NEW n \in 1..Attempts,
               Reading(h, n, i)'
        PROVE  call'[h][n].copy = incident'[i]
    BY <1>4, <2>4 DEF IInv, Undisturbed, Reading
  <2> QED
    BY <1>1, <1>4, <2>2, <2>3, <2>4 DEF IInv, Undisturbed
<1> QED
  BY <1>1, <1>3, <1>5 DEF IInv, Typed

LEMMA LoseKeeps ==
    ASSUME IInv, NEW h \in Handler, NEW n \in 1..Attempts, Lose(h, n)
    PROVE  IInv'
<1>1. CallsOK /\ CallsOK' /\ disturbed \subseteq Incident
  BY LoseKeepsCalls DEF IInv, Typed, TablesOK
<1>2. /\ call' = [call EXCEPT ![h][n] = NoCall]
      /\ UNCHANGED <<incident, run, request, handler, disturbed>>
  BY DEF Lose
<1>3. \A g \in Handler, m \in 1..Attempts :
        call'[g][m] = IF g = h /\ m = n THEN NoCall ELSE call[g][m]
  BY <1>1, <1>2 DEF CallsOK
<1>4. NoCall.pc = "none"
  BY DEF NoCall
<1>5. ASSUME NEW g \in Handler, NEW q \in Applied, Recording(g, q) PROVE Recording(g, q)'
  <2>1. handler[g].tries \in 1..Attempts
    BY <1>1, <1>5 DEF CallsOK, Waiting, Recording
  <2> QED
    BY <1>2, <1>3, <1>4, <1>5, <2>1 DEF Recording
<1> QED
  BY <1>1, <1>2, <1>3, <1>4, <1>5, WaitingStep

LEMMA AnsweredKeeps ==
    ASSUME IInv, NEW h \in Handler, Answered(h)
    PROVE  IInv'
<1>1. CallsOK /\ CallsOK' /\ disturbed \subseteq Incident
  BY AnsweredKeepsCalls DEF IInv, Typed, TablesOK
<1> DEFINE n == handler[h].tries
<1>2. /\ handler' = [handler EXCEPT ![h] = Idle]
      /\ call' = [call EXCEPT ![h][n] = NoCall]
      /\ call[h][n].pc = "done" /\ n > 0
      /\ UNCHANGED <<incident, run, request, disturbed>>
  BY DEF Answered
<1>3. \A g \in Handler : handler'[g] = IF g = h THEN Idle ELSE handler[g]
  BY <1>1, <1>2 DEF CallsOK
<1>4. \A g \in Handler, m \in 1..Attempts :
        call'[g][m] = call[g][m] \/ (g = h /\ call'[g][m] = NoCall)
  BY <1>1, <1>2 DEF CallsOK
<1>5. NoCall.pc = "none" /\ Idle.tries = 0
  BY DEF NoCall, Idle
<1>6. ASSUME NEW g \in Handler, NEW q \in Applied, Recording(g, q) PROVE Recording(g, q)'
  <2>1. g # h
    BY <1>2, <1>6 DEF Recording
  <2>2. handler[g].tries \in 1..Attempts
    BY <1>1, <1>6 DEF Recording, CallsOK, Waiting
  <2> QED
    BY <1>2, <1>3, <1>4, <1>6, <2>1, <2>2 DEF Recording
<1> HIDE DEF n
<1> QED
  BY <1>1, <1>2, <1>3, <1>4, <1>5, <1>6, WaitingStep

LEMMA TimeoutKeeps ==
    ASSUME IInv, NEW h \in Handler, Timeout(h)
    PROVE  IInv'
<1>1. CallsOK /\ CallsOK' /\ disturbed \subseteq Incident
  BY TimeoutKeepsCalls DEF IInv, Typed, TablesOK
<1> DEFINE n == handler[h].tries
           u == Unread(h, n)
           s == [NoCall EXCEPT !.pc = "sent", !.patch = handler[h].patch]
<1>2. /\ n > 0 /\ n \in 1..Attempts /\ (n + 1) - 1 = n
      /\ handler[h].patch \in Patch /\ handler[h] \in Waiting
      /\ UNCHANGED <<incident, run, request>>
  BY <1>1, ContainmentAssumption DEF Timeout, CallsOK, Waiting, HandlerOK
<1>3. u = call[h][n] \/ u.pc = "none"
  BY DEF Unread, NoCall
<1>4. s.pc = "sent" /\ s.patch = handler[h].patch
  BY DEF NoCall
<1>5. CASE n + 1 <= Attempts
  <2>1. /\ handler' = [handler EXCEPT ![h].tries = n + 1]
        /\ call' = [call EXCEPT ![h][n] = u, ![h][n + 1] = s]
        /\ disturbed' = disturbed
    BY <1>2, <1>5 DEF Timeout
  <2>2. /\ handler'[h].tries = n + 1 /\ handler'[h].patch = handler[h].patch
        /\ \A g \in Handler \ {h} : handler'[g] = handler[g] /\ call'[g] = call[g]
    BY <1>1, <1>2, <2>1 DEF CallsOK, Waiting
  <2>3. n + 1 \in 1..Attempts /\ n # n + 1
    BY <1>2, <1>5, ContainmentAssumption
  <2>4. \A m \in 1..Attempts :
          call'[h][m] = IF m = n + 1 THEN s ELSE IF m = n THEN u ELSE call[h][m]
    <3> DEFINE a == [call[h] EXCEPT ![n] = u]
    <3>1. call'[h] = [a EXCEPT ![n + 1] = s]
      BY <1>1, <2>1 DEF CallsOK
    <3>2. DOMAIN a = 1..Attempts /\ \A m \in 1..Attempts : a[m] = IF m = n THEN u ELSE call[h][m]
      BY <1>1, <1>2 DEF CallsOK
    <3> HIDE DEF a, n, u, s
    <3> QED
      BY <2>3, <3>1, <3>2
  <2> HIDE DEF u, s
  <2>5. \A g \in Handler, m \in 1..Attempts :
          \/ call'[g][m] = call[g][m]
          \/ call'[g][m].pc = "none"
          \/ call'[g][m].pc = "sent" /\ g = h /\ call'[g][m].patch = handler[h].patch
    BY <1>3, <1>4, <2>2, <2>4
  <2>6. ASSUME NEW g \in Handler, NEW q \in Applied, Recording(g, q) PROVE Recording(g, q)'
    <3>1. CASE g = h
      <4>1. call'[h][handler'[h].tries].pc = "sent"
        BY <1>4, <2>2, <2>3, <2>4
      <4> QED
        BY <1>2, <2>2, <2>3, <2>6, <3>1, <4>1 DEF Recording
    <3>2. CASE g # h
      BY <1>2, <2>2, <2>6, <3>2 DEF Recording
    <3> QED
      BY <3>1, <3>2
  <2>7. \A g \in Handler : handler'[g].tries > 0 =>
          handler[g].tries > 0 /\ handler'[g].patch = handler[g].patch
    BY <1>2, <2>2
  <2>8. /\ \A g \in Handler, m \in 1..Attempts :
             call'[g][m].pc = "read" => call'[g][m] = call[g][m]
        /\ \A g \in Handler, m \in 1..Attempts : call'[g][m].pc = "sent" =>
             \/ call'[g][m] = call[g][m]
             \/ handler[g].tries > 0 /\ call'[g][m].patch = handler[g].patch
    BY <1>2, <2>5
  <2> HIDE DEF n
  <2> QED
    BY <1>1, <1>2, <2>1, <2>6, <2>7, <2>8, WaitingStep
<1>6. CASE ~(n + 1 <= Attempts)
  <2>1. /\ handler' = [handler EXCEPT ![h] = Idle]
        /\ call' = [call EXCEPT ![h][n] = u]
        /\ disturbed' = disturbed \cup {handler[h].patch.incident}
    BY <1>2, <1>6 DEF Timeout
  <2>2. /\ handler'[h].tries = 0
        /\ \A g \in Handler \ {h} : handler'[g] = handler[g] /\ call'[g] = call[g]
    BY <1>1, <2>1 DEF CallsOK, Idle
  <2>3. \A m \in 1..Attempts : call'[h][m] = IF m = n THEN u ELSE call[h][m]
    BY <1>1, <1>2, <2>1 DEF CallsOK
  <2> HIDE DEF u, s
  <2>4. \A g \in Handler, m \in 1..Attempts :
          call'[g][m] = call[g][m] \/ call'[g][m].pc = "none"
    BY <1>3, <2>2, <2>3
  <2>5. ASSUME NEW g \in Handler, NEW q \in Applied, Recording(g, q)
        PROVE  Recording(g, q)' \/ run[request[q]].incident \in disturbed'
    <3>1. CASE g = h
      BY <2>1, <2>5, <3>1 DEF Recording
    <3>2. CASE g # h
      BY <1>2, <2>2, <2>5, <3>2 DEF Recording
    <3> QED
      BY <3>1, <3>2
  <2>6. disturbed' \subseteq Incident
    BY <1>1, <1>2, <2>1 DEF Patch
  <2>7. \A g \in Handler : handler'[g].tries > 0 =>
          handler[g].tries > 0 /\ handler'[g].patch = handler[g].patch
    BY <2>2
  <2> HIDE DEF n
  <2> QED
    BY <1>1, <1>2, <2>1, <2>4, <2>5, <2>6, <2>7, WaitingStep
<1> QED
  BY <1>5, <1>6

LEMMA ReadKeeps ==
    ASSUME IInv, NEW h \in Handler, NEW n \in 1..Attempts, ReadIncident(h, n)
    PROVE  IInv'
<1> DEFINE i == call[h][n].patch.incident
           c == [call[h][n] EXCEPT !.pc = "read", !.copy = incident[i]]
<1>1. CallsOK /\ TablesOK /\ CallsOK' /\ disturbed' \subseteq Incident
  BY ReadKeepsCalls DEF IInv, Typed
<1>2. /\ call[h][n].pc = "sent"
      /\ call' = [call EXCEPT ![h][n] = c]
      /\ disturbed' = IF Overlaps(h, n, i) THEN disturbed \cup {i} ELSE disturbed
      /\ UNCHANGED <<incident, run, request, handler>>
  <2>1. /\ call[h][n].pc = "sent"
        /\ call' = [call EXCEPT ![h][n].pc = "read", ![h][n].copy = incident[i]]
        /\ disturbed' = IF Overlaps(h, n, i) THEN disturbed \cup {i} ELSE disturbed
        /\ UNCHANGED <<incident, run, request, handler>>
    BY DEF ReadIncident
  <2>2. call \in [Handler -> [1..Attempts -> Attempt]] /\ call[h][n] \in Attempt
    BY <1>1 DEF CallsOK
  <2>3. call' = [call EXCEPT ![h][n] = c]
    BY <2>1, <2>2 DEF Attempt
  <2> QED
    BY <2>1, <2>3
<1>3. \A g \in Handler, m \in 1..Attempts :
        call'[g][m] = IF <<g, m>> = <<h, n>> THEN c ELSE call[g][m]
  BY <1>1, <1>2 DEF CallsOK
<1>4. c.pc = "read" /\ c.patch = call[h][n].patch /\ c.copy = incident[i]
  BY <1>1 DEF CallsOK, Attempt
<1>5. i \in Incident
  BY <1>1, <1>2, PatchTypes
<1>6. TablesOK' /\ Applied' = Applied
  BY <1>1, <1>2 DEF TablesOK, Applied
<1>7. \A j : Backed(j) => Backed(j)'
  BY <1>2, <1>6 DEF Backed
<1> HIDE DEF c
<1>8. BackedEverywhere'
  <2>1. ASSUME NEW g \in Handler, NEW m \in 1..Attempts, call'[g][m].pc \in {"sent", "read"},
               \/ call'[g][m].patch.ticket = "contained"
               \/ call'[g][m].pc = "read" /\ call'[g][m].copy.ticket = "contained"
        PROVE  Backed(call[g][m].patch.incident)
    <3>1. CASE <<g, m>> = <<h, n>>
      BY <1>2, <1>3, <1>4, <1>5, <2>1, <3>1 DEF IInv, BackedEverywhere
    <3>2. CASE <<g, m>> # <<h, n>>
      BY <1>3, <2>1, <3>2 DEF IInv, BackedEverywhere
    <3> QED
      BY <3>1, <3>2
  <2>2. \A g \in Handler, m \in 1..Attempts : call'[g][m].patch = call[g][m].patch
    BY <1>3, <1>4
  <2> QED
    BY <1>2, <1>7, <2>1, <2>2 DEF IInv, BackedEverywhere
<1>9. \A g \in Handler, m \in 1..Attempts : \A j :
        Reading(g, m, j)' => IF <<g, m>> = <<h, n>> THEN j = i ELSE Reading(g, m, j)
  BY <1>3, <1>4 DEF Reading
<1>10. ASSUME NEW j \in Incident \ disturbed', NEW g \in Handler, NEW m \in 1..Attempts,
              Reading(g, m, j)', <<g, m>> # <<h, n>>
       PROVE  ~Reading(h, n, j)' /\ call'[g][m].copy = incident'[j]
  <2>1. Reading(g, m, j)
    BY <1>9, <1>10
  <2>2. j # i
    BY <1>2, <1>10, <2>1 DEF Overlaps, Reading
  <2> QED
    BY <1>2, <1>3, <1>9, <1>10, <2>1, <2>2 DEF IInv, Undisturbed
<1>11. ASSUME NEW j \in Incident \ disturbed', Reading(h, n, j)'
       PROVE  call'[h][n].copy = incident'[j]
  BY <1>2, <1>3, <1>4, <1>9, <1>11
<1>12. ASSUME NEW j \in Incident \ disturbed', NEW g \in Handler, NEW m \in 1..Attempts,
              NEW f \in Handler, NEW l \in 1..Attempts,
              Reading(g, m, j)', Reading(f, l, j)'
       PROVE  g = f /\ m = l
  <2>1. CASE <<g, m>> = <<h, n>> \/ <<f, l>> = <<h, n>>
    BY <1>10, <1>12, <2>1
  <2>2. CASE <<g, m>> # <<h, n>> /\ <<f, l>> # <<h, n>>
    BY <1>2, <1>9, <1>12, <2>2 DEF IInv, Undisturbed
  <2> QED
    BY <2>1, <2>2
<1>13. \A g \in Handler, q \in Applied : Recording(g, q) => Recording(g, q)'
  <2>1. \A g \in Handler : handler[g].tries > 0 => handler[g].tries \in 1..Attempts
    BY <1>1 DEF CallsOK, Waiting
  <2> QED
    BY <1>2, <1>3, <1>4, <2>1 DEF Recording
<1>14. ASSUME NEW q \in Applied, run[request[q]].incident \notin disturbed'
       PROVE  Recorded(q)' \/ \E g \in Handler : Recording(g, q)'
  BY <1>2, <1>13, <1>14 DEF IInv, Undisturbed, Recorded
<1>15. Undisturbed'
  BY <1>2, <1>6, <1>10, <1>11, <1>12, <1>14 DEF Undisturbed
<1> QED
  BY <1>1, <1>6, <1>8, <1>15 DEF IInv, Typed

LEMMA WriteKeeps ==
    ASSUME IInv, NEW h \in Handler, NEW n \in 1..Attempts, WriteIncident(h, n)
    PROVE  IInv'
<1> DEFINE p == call[h][n].patch
           x == call[h][n].copy
           i == p.incident
           y == incident'[i]
<1>1. CallsOK /\ TablesOK /\ CallsOK'
  BY WriteKeepsCalls DEF IInv, Typed
<1>2. /\ call[h][n].pc = "read"
      /\ incident' = IF Same(x, p) THEN incident ELSE [incident EXCEPT ![i] = Patched(x, p)]
      /\ UNCHANGED <<run, request, handler, disturbed>>
  BY DEF WriteIncident
<1>3. p \in Patch /\ x \in Payload /\ i \in Incident
  <2>1. CallOK(h, n)
    BY <1>1 DEF CallsOK
  <2> QED
    BY <1>2, <2>1 DEF CallOK, Patch
<1>4. /\ \A g \in Handler, m \in 1..Attempts :
           <<g, m>> # <<h, n>> => call'[g][m] = call[g][m]
      /\ call'[h][n].pc \in {"done", "none"}
      /\ n # handler[h].tries => call'[h][n].pc = "none"
  BY <1>1 DEF WriteIncident, CallsOK, NoCall
<1>5. /\ \A j \in Incident \ {i} : incident'[j] = incident[j]
      /\ y = IF Same(x, p) THEN incident[i] ELSE Patched(x, p)
      /\ incident' \in [Incident -> Payload]
  <2>1. Patched(x, p) \in Payload
    <3>1. /\ p.ticket = None \/ p.ticket \in TicketStatus
          /\ x.ticket \in TicketStatus /\ x.timeline \subseteq Request
      BY <1>3 DEF Patch, Payload
    <3> QED
      BY <3>1 DEF Patched, Payload
  <2> HIDE DEF x, p
  <2> QED
    BY <1>1, <1>2, <1>3, <2>1 DEF TablesOK
<1>6. TablesOK' /\ Applied' = Applied
  BY <1>1, <1>2, <1>5 DEF TablesOK, Applied
<1>7. \A j : Backed(j) => Backed(j)'
  BY <1>2, <1>6 DEF Backed
<1>8. BackedEverywhere'
  <2>1. ASSUME y.ticket = "contained" PROVE Backed(i)
    <3>1. CASE Same(x, p)
      BY <1>3, <1>5, <2>1, <3>1 DEF IInv, BackedEverywhere
    <3>2. CASE ~Same(x, p)
      <4>1. p.ticket = "contained" \/ x.ticket = "contained"
        BY <1>5, <2>1, <3>2 DEF Patched
      <4> QED
        BY <1>2, <4>1 DEF IInv, BackedEverywhere
    <3> QED
      BY <3>1, <3>2
  <2>2. \A j \in Incident : incident'[j].ticket = "contained" => Backed(j)'
    BY <1>5, <1>7, <2>1 DEF IInv, BackedEverywhere
  <2>3. \A g \in Handler, m \in 1..Attempts :
          call'[g][m].pc \in {"sent", "read"} => call'[g][m] = call[g][m]
    BY <1>4
  <2> QED
    BY <1>2, <1>7, <2>2, <2>3 DEF IInv, BackedEverywhere
<1>9. \A g \in Handler, m \in 1..Attempts : \A j :
        Reading(g, m, j)' =>
          Reading(g, m, j) /\ <<g, m>> # <<h, n>> /\ call'[g][m] = call[g][m]
  BY <1>4 DEF Reading
<1>10. Reading(h, n, i)
  BY <1>2 DEF Reading
<1>11. ASSUME NEW j \in Incident \ disturbed', NEW g \in Handler, NEW m \in 1..Attempts,
              Reading(g, m, j)'
       PROVE  call'[g][m].copy = incident'[j]
  <2>1. Reading(g, m, j) /\ <<g, m>> # <<h, n>> /\ j \in Incident \ disturbed
    BY <1>2, <1>9, <1>11
  <2>2. j # i
    BY <1>10, <2>1 DEF IInv, Undisturbed
  <2> QED
    BY <1>5, <1>9, <1>11, <2>1, <2>2 DEF IInv, Undisturbed
<1>12. i \notin disturbed => x = incident[i]
  BY <1>3, <1>10 DEF IInv, Undisturbed
<1>13. ASSUME NEW q \in Applied, run[request[q]].incident \notin disturbed'
       PROVE  Recorded(q)' \/ \E g \in Handler : Recording(g, q)'
  <2> DEFINE j == run[request[q]].incident
  <2>1. q \in Request /\ j \in Incident
    BY <1>1 DEF Applied, TablesOK, RunRow
  <2>2. CASE Recorded(q)
    <3>1. q \in incident'[j].timeline
      <4>1. CASE j # i
        BY <1>5, <2>1, <2>2, <4>1 DEF Recorded
      <4>2. CASE j = i
        <5>1. x = incident[i] /\ q \in incident[i].timeline
          BY <1>2, <1>12, <1>13, <2>2, <4>2 DEF Recorded
        <5> QED
          BY <1>5, <4>2, <5>1 DEF Patched
      <4> QED
        BY <4>1, <4>2
    <3> QED
      BY <1>2, <3>1 DEF Recorded
  <2>3. ASSUME NEW g \in Handler, Recording(g, q)
        PROVE  Recorded(q)' \/ Recording(g, q)'
    <3>1. handler[g].tries \in 1..Attempts
      BY <1>1, <2>3 DEF Recording, CallsOK, Waiting
    <3>2. CASE <<g, handler[g].tries>> # <<h, n>>
      BY <1>2, <1>4, <2>3, <3>1, <3>2 DEF Recording
    <3>3. CASE <<g, handler[g].tries>> = <<h, n>>
      <4>1. p = handler[h].patch /\ j = i /\ p.note = q
        BY <1>1, <1>2, <2>3, <3>1, <3>3 DEF CallsOK, HandlerOK, Recording
      <4>2. q # None
        BY <2>1, ContainmentAssumption
      <4>3. y = Patched(x, p)
        BY <1>5, <4>1, <4>2 DEF Same
      <4>4. q \in y.timeline
        BY <2>1, <4>1, <4>2, <4>3 DEF Patched
      <4> QED
        BY <1>2, <4>1, <4>4 DEF Recorded
    <3> QED
      BY <3>2, <3>3
  <2> QED
    BY <1>2, <1>13, <2>2, <2>3 DEF IInv, Undisturbed
<1>14. Undisturbed'
  BY <1>2, <1>6, <1>9, <1>11, <1>13 DEF IInv, Undisturbed
<1> QED
  BY <1>1, <1>6, <1>8, <1>14 DEF IInv, Typed

-----------------------------------------------------------------------------
(* The theorems. *)

LEMMA InitInvariant == Init => IInv
<1> SUFFICES ASSUME Init PROVE IInv
  OBVIOUS
<1>1. Applied = {}
  BY ContainmentAssumption DEF Init, Applied
<1>2. CallsOK
  <2>1. NoCall.pc = "none"
    BY DEF NoCall
  <2>2. \A h \in Handler : HandlerOK(h) /\ \A n \in 1..Attempts : CallOK(h, n)
    BY <2>1, ContainmentAssumption DEF Init, HandlerOK, CallOK, Idle
  <2> QED
    BY <2>2, ConstantTypes DEF Init, CallsOK
<1>3. TablesOK
  BY <1>1 DEF Init, TablesOK, Payload, TicketStatus
<1>4. BackedEverywhere
  BY DEF Init, BackedEverywhere, Idle, NoCall
<1>5. Undisturbed
  BY <1>1 DEF Init, Undisturbed, Reading, NoCall
<1> QED
  BY <1>2, <1>3, <1>4, <1>5 DEF IInv, Typed

LEMMA NextInvariant == IInv /\ [Next]_vars => IInv'
<1> SUFFICES ASSUME IInv, [Next]_vars PROVE IInv'
  OBVIOUS
<1>1. ASSUME NEW h \in Handler, Router(h) PROVE IInv'
  BY <1>1, RunPlaybookKeeps, ApplyContainmentKeeps, ApproveKeeps, ApplyPolicyKeeps,
     EditTicketKeeps DEF Router
<1>2. ASSUME NEW h \in Handler, Answered(h) \/ Timeout(h) PROVE IInv'
  BY <1>2, AnsweredKeeps, TimeoutKeeps
<1>3. ASSUME NEW h \in Handler, NEW n \in 1..Attempts, Serve(h, n) \/ Lose(h, n) PROVE IInv'
  BY <1>3, ReadKeeps, WriteKeeps, LoseKeeps DEF Serve
<1>4. ASSUME NEW r \in Run, NEW q \in Request, ReviewPolicy(r, q) PROVE IInv'
  BY <1>4, ReviewPolicyKeeps
<1>5. CASE UNCHANGED vars
  <2>1. TablesOK' /\ Grown /\ Applied' = Applied
    BY <1>5 DEF vars, IInv, Typed, TablesOK, Grown, Applied
  <2> QED
    BY <1>5, <2>1, QuietStep DEF vars
<1> QED
  BY <1>1, <1>2, <1>3, <1>4, <1>5 DEF Next

\* The inductive invariant holds throughout.
THEOREM Invariant == Spec => []IInv
BY InitInvariant, NextInvariant, PTL DEF Spec

\* Every variable holds what the code can store in it: among others, a policy
\* counts as applied only for a run that exists and that blocks, and an attempt
\* never follows the last one.
THEOREM TypeCorrect == Spec => []TypeOK
<1>1. IInv => TypeOK
  BY DEF IInv, Typed, CallsOK, TablesOK, TypeOK, Waiting, Attempt
<1> QED
  BY <1>1, Invariant, PTL

\* Unless an analyst may say so by hand, siem_kowalski never shows a contained
\* ticket without a completed run that does not block, or an applied policy,
\* behind it: whatever patch is repeated, given up or served late.
THEOREM BackedContainment == Spec => []ContainedIsBacked
<1>1. IInv => ContainedIsBacked
  BY DEF IInv, BackedEverywhere, Backed, ContainedIsBacked
<1> QED
  BY <1>1, Invariant, PTL

\* The timeline of a ticket holds every policy that was applied for it, when
\* nothing is under way for the ticket, no patch of it was given up and no two
\* of its patches overlapped.
THEOREM RecordedPolicies == Spec => []AppliedIsRecordedIfUndisturbed
<1>1. IInv => AppliedIsRecordedIfUndisturbed
  BY DEF IInv, Undisturbed, Recording, Pending, AppliedIsRecordedIfUndisturbed
<1> QED
  BY <1>1, Invariant, PTL
=============================================================================
