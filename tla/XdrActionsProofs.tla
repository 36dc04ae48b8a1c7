--------------------------- MODULE XdrActionsProofs ---------------------------
(***************************************************************************)
(* The remote actions, for any endpoints, daemons, actions and number of   *)
(* calls: their safety whatever fails; and, when nothing fails, that no    *)
(* claim is lost and that the status column keeps the life cycle of        *)
(* ActionLifecycle.                                                        *)
(***************************************************************************)
EXTENDS XdrActions, TLAPS

\* Some claim has taken action a: it will not be offered again.
Taken(a) == a \in Action /\ status[a] \notin Unborn \cup {"queued"}

\* Daemon d has not run action a.
Fresh(d, a) == \A o \in Outcome : <<d, a, o>> \notin ran

\* What daemon d works on was claimed for its endpoint; it runs it now first.
AgentOK(d) ==
    /\ agent[d].pc \in {"executing", "reporting"} =>
         Taken(agent[d].action) /\ Target[agent[d].action] = At[d]
    /\ agent[d].pc = "executing" => Fresh(d, agent[d].action)

\* The action a claim has selected may be claimed by others too, but if its
\* answer can still reach the daemon then that daemon has not run the action.
ClaimOK(c) ==
    c.kind = "claim" /\ c.phase # "sent" /\ c.action # NoAction =>
        /\ status[c.action] \notin Unborn
        /\ c.phase = "answered" => Taken(c.action)
        /\ Target[c.action] = At[c.daemon]
        /\ Live(c) => Fresh(c.daemon, c.action)

\* A report is about a run that took place.
ReportOK(c) ==
    c.kind = "report" =>
        Taken(c.action) /\ <<c.daemon, c.action, c.outcome>> \in ran

\* A call whose answer can reach the daemon is the one the daemon is in.
CallOK(c) ==
    /\ c.phase = "answered" => c.awaited
    /\ c.kind = "claim" /\ c.phase = "selected" => c.action \in Action
    /\ ClaimOK(c)
    /\ ReportOK(c)
    /\ Live(c) => agent[c.daemon].pc =
                    (IF c.kind = "claim" THEN "claiming" ELSE "reporting")

\* However often the BFF sends again, one answer at most reaches the daemon.
OneAnswer ==
    \A c, k \in calls : Live(c) /\ Live(k) /\ c.daemon = k.daemon => c = k

RanIsTaken == \A d \in Daemon, a \in Action, o \in Outcome : <<d, a, o>> \in ran => Taken(a)

\* The inductive invariant.
Inv ==
    /\ TypeOK
    /\ \A d \in Daemon : AgentOK(d)
    /\ \A c \in calls : CallOK(c)
    /\ OneAnswer
    /\ RanIsTaken
    /\ ResultIsReal

-----------------------------------------------------------------------------
(* Steps that touch no call: the analyst's, and telemetry. *)

\* What only moves rows forward, and none to a result, keeps the invariant.
LEMMA RowsOnly ==
    ASSUME Inv, UNCHANGED <<calls, agent, ran>>, TypeOK',
           \A a \in Action :
             /\ status[a] \notin Unborn => status'[a] \notin Unborn
             /\ Taken(a) => Taken(a)'
             /\ status'[a] \in Outcome => status[a] = status'[a]
    PROVE  Inv'
<1>1. \A d \in Daemon : AgentOK(d)'
  BY DEF Inv, AgentOK, Fresh, Taken
<1>2. \A c \in calls : CallOK(c)'
  BY DEF Inv, TypeOK, Exchange, CallOK, ClaimOK, ReportOK, Live, Fresh, Taken
<1>3. OneAnswer' /\ RanIsTaken' /\ ResultIsReal'
  BY DEF Inv, OneAnswer, Live, RanIsTaken, ResultIsReal
<1> QED
  BY <1>1, <1>2, <1>3 DEF Inv

LEMMA DraftKeeps ==
    ASSUME Inv, NEW a \in Action, DraftAction(a) PROVE Inv'
<1>1. TypeOK'
  BY DEF DraftAction, Inv, TypeOK, Status, Unborn
<1> QED
  BY <1>1, RowsOnly DEF DraftAction, Inv, TypeOK, Taken, Unborn, Outcome

LEMMA InsertKeeps ==
    ASSUME Inv, NEW a \in Action, InsertAction(a) PROVE Inv'
<1>1. TypeOK'
  BY DEF InsertAction, Inv, TypeOK, Status, Unborn
<1> QED
  BY <1>1, RowsOnly DEF InsertAction, Inv, TypeOK, Taken, Unborn, Outcome

LEMMA StartDeleteKeeps ==
    ASSUME Inv, NEW e \in Endpoint, StartDelete(e) PROVE Inv'
<1>1. TypeOK'
  BY DEF StartDelete, Inv, TypeOK
<1> QED
  BY <1>1, RowsOnly DEF StartDelete, Taken

LEMMA FinishDeleteKeeps ==
    ASSUME Inv, NEW e \in Endpoint, FinishDelete(e) PROVE Inv'
<1>1. TypeOK'
  BY DEF FinishDelete, Inv, TypeOK, Status
<1> QED
  BY <1>1, RowsOnly DEF FinishDelete, Inv, TypeOK, Taken, HasRow, Unborn, Outcome

LEMMA TelemetryKeeps ==
    ASSUME Inv, NEW d \in Daemon, PostTelemetry(d) PROVE Inv'
<1>1. TypeOK'
  BY XdrAssumption DEF PostTelemetry, Inv, TypeOK
<1> QED
  BY <1>1, RowsOnly DEF PostTelemetry, Taken

-----------------------------------------------------------------------------
(* The steps of the daemon. *)

\* What a request is, once its id is free and its fields are in range.
LEMMA RequestType ==
    ASSUME NEW i \in CallId, NEW d \in Daemon, NEW kind \in {"claim", "report"},
           NEW a \in Action \cup {NoAction}, NEW o \in Outcome
    PROVE  Request(i, d, kind, a, o) \in Exchange
BY XdrAssumption DEF Request, Exchange

LEMMA PollKeeps ==
    ASSUME Inv, NEW d \in Daemon, Poll(d) PROVE Inv'
<1>1. PICK i \in FreeIds : calls' = calls \cup {Request(i, d, "claim", NoAction, "failed")}
  BY DEF Poll
<1> DEFINE r == Request(i, d, "claim", NoAction, "failed")
<1>2. r \in Exchange
  BY RequestType DEF FreeIds, Outcome
<1>3. /\ agent' = [agent EXCEPT ![d].pc = "claiming"]
      /\ agent[d].pc = "idle"
      /\ UNCHANGED <<endpoints, deleting, status, ran>>
  BY DEF Poll
<1>4. TypeOK'
  BY <1>1, <1>2, <1>3 DEF Inv, TypeOK, Activity
<1>5. \A c \in calls : ~(Live(c) /\ c.daemon = d)
  BY <1>3 DEF Inv, CallOK, TypeOK, Exchange
<1>6. \A e \in Daemon : AgentOK(e)'
  BY <1>3 DEF Inv, TypeOK, Activity, AgentOK, Fresh, Taken
<1>7. \A c \in calls : CallOK(c)'
  BY <1>3, <1>5 DEF Inv, TypeOK, Exchange, Activity, CallOK, ClaimOK, ReportOK, Live, Fresh, Taken
<1>8. CallOK(r)'
  BY <1>3 DEF Inv, TypeOK, Activity, Request, CallOK, ClaimOK, ReportOK, Live
<1>9. OneAnswer'
  <2>1. r.daemon = d
    BY DEF Request
  <2> QED
    BY <1>1, <1>5, <2>1 DEF Inv, OneAnswer
<1>10. RanIsTaken' /\ ResultIsReal'
  BY <1>3 DEF Inv, RanIsTaken, ResultIsReal, Taken
<1> QED
  BY <1>1, <1>4, <1>6, <1>7, <1>8, <1>9, <1>10 DEF Inv

LEMMA ExecuteKeeps ==
    ASSUME Inv, NEW d \in Daemon, Execute(d) PROVE Inv'
<1> DEFINE a == agent[d].action
<1>1. PICK i \in FreeIds, o \in Outcome :
        /\ ran' = ran \cup {<<d, a, o>>}
        /\ calls' = calls \cup {Request(i, d, "report", a, o)}
  BY DEF Execute
<1> DEFINE r == Request(i, d, "report", a, o)
<1>2. Taken(a) /\ Target[a] = At[d] /\ a \in Action
  BY DEF Execute, Inv, AgentOK, Taken
<1>3. r \in Exchange
  BY <1>2, RequestType DEF FreeIds
<1>4. /\ agent' = [agent EXCEPT ![d].pc = "reporting"]
      /\ agent[d].pc = "executing"
      /\ UNCHANGED <<endpoints, deleting, status>>
  BY DEF Execute
<1>5. TypeOK'
  BY <1>1, <1>2, <1>3, <1>4 DEF Inv, TypeOK, Activity
<1>6. \A c \in calls : ~(Live(c) /\ c.daemon = d)
  BY <1>4 DEF Inv, CallOK, TypeOK, Exchange
<1>7. \A e \in Daemon : AgentOK(e)'
  BY <1>1, <1>2, <1>4 DEF Inv, TypeOK, Activity, AgentOK, Fresh, Taken
<1>8. \A c \in calls : CallOK(c)'
  BY <1>1, <1>4, <1>6 DEF Inv, TypeOK, Exchange, Activity, CallOK, ClaimOK, ReportOK, Live, Fresh, Taken
<1>9. ASSUME NEW c, c = r PROVE CallOK(c)'
  BY <1>1, <1>2, <1>4, <1>9 DEF Inv, TypeOK, Activity, Request, CallOK, ClaimOK, ReportOK, Live, Taken
<1>10. OneAnswer'
  <2>1. r.daemon = d
    BY DEF Request
  <2> QED
    BY <1>1, <1>6, <2>1 DEF Inv, OneAnswer
<1>11. RanIsTaken'
  BY <1>1, <1>2, <1>4 DEF Inv, RanIsTaken, Taken
<1>12. ResultIsReal'
  <2>1. ran \subseteq ran' /\ status' = status
    BY <1>1, <1>4
  <2> QED
    BY <2>1 DEF Inv, ResultIsReal
<1>13. \A c \in calls' : CallOK(c)'
  BY <1>1, <1>8, <1>9
<1> QED
  BY <1>5, <1>7, <1>10, <1>11, <1>12, <1>13 DEF Inv

LEMMA AbandonKeeps ==
    ASSUME Inv, NEW d \in Daemon, Abandon(d) PROVE Inv'
<1> DEFINE Left(c) == IF c.daemon = d THEN [c EXCEPT !.heard = FALSE] ELSE c
<1>1. /\ agent' = [agent EXCEPT ![d] = Idle]
      /\ calls' = {Left(c) : c \in calls}
      /\ UNCHANGED <<endpoints, deleting, status, ran>>
  BY DEF Abandon
<1>2. \A c \in calls :
        /\ Left(c) \in Exchange
        /\ \A f \in {"phase", "kind", "daemon", "action", "outcome", "awaited"} : Left(c)[f] = c[f]
        /\ Live(Left(c)) => Live(c) /\ c.daemon # d
  BY DEF Inv, TypeOK, Exchange, Live
<1>3. TypeOK'
  BY <1>1, <1>2 DEF Inv, TypeOK, Activity, Idle
<1>4. \A e \in Daemon : AgentOK(e)'
  BY <1>1 DEF Inv, TypeOK, Activity, Idle, AgentOK, Fresh, Taken
<1>5. ASSUME NEW c \in calls PROVE CallOK(Left(c))'
  <2>1. CallOK(c) /\ c.daemon \in Daemon
    BY DEF Inv, TypeOK, Exchange
  <2>2. c.daemon # d => agent'[c.daemon] = agent[c.daemon]
    BY <1>1, <2>1 DEF Inv, TypeOK
  <2> HIDE DEF Left
  <2> QED
    BY <1>1, <1>2, <2>1, <2>2 DEF CallOK, ClaimOK, ReportOK, Live, Fresh, Taken
<1>6. OneAnswer'
  BY <1>1 DEF Inv, TypeOK, Exchange, OneAnswer, Live
<1>7. RanIsTaken' /\ ResultIsReal'
  BY <1>1 DEF Inv, RanIsTaken, ResultIsReal, Taken
<1> QED
  BY <1>1, <1>3, <1>4, <1>5, <1>6, <1>7 DEF Inv

-----------------------------------------------------------------------------
(* The steps of a call. *)

\* A call becomes calls of the same exchange, of which at most one is live if
\* it was live itself, while rows move forward.
LEMMA CallStep ==
    ASSUME Inv, NEW c \in calls, NEW S \in SUBSET Exchange, Become(c, S),
           UNCHANGED <<endpoints, deleting, agent, ran>>,
           status' \in [Action -> Status],
           \A a \in Action :
             /\ status[a] \notin Unborn => status'[a] \notin Unborn
             /\ Taken(a) => Taken(a)'
           ,
           ResultIsReal',
           \A k \in S : k.daemon = c.daemon /\ (Live(k) => Live(c)) /\ CallOK(k)',
           \A k, l \in S : Live(k) /\ Live(l) => k = l
    PROVE  Inv'
<1>1. TypeOK'
  BY DEF Inv, TypeOK, Become
<1>2. \A d \in Daemon : AgentOK(d)'
  BY DEF Inv, AgentOK, Fresh, Taken
<1>3. \A k \in calls : CallOK(k)'
  BY DEF Inv, TypeOK, Exchange, CallOK, ClaimOK, ReportOK, Live, Fresh, Taken
<1>4. \A k \in calls' : CallOK(k)'
  BY <1>3 DEF Become
<1>5. OneAnswer'
  BY DEF Inv, OneAnswer, Become
<1>6. RanIsTaken'
  BY DEF Inv, RanIsTaken
<1> QED
  BY <1>1, <1>2, <1>4, <1>5, <1>6 DEF Inv

\* The same when no row changes.
LEMMA CallOnly ==
    ASSUME Inv, NEW c \in calls, NEW S \in SUBSET Exchange, Become(c, S),
           UNCHANGED <<endpoints, deleting, status, agent, ran>>,
           \A k \in S : k.daemon = c.daemon /\ (Live(k) => Live(c)) /\ CallOK(k)',
           \A k, l \in S : Live(k) /\ Live(l) => k = l
    PROVE  Inv'
<1>1. status' \in [Action -> Status] /\ ResultIsReal'
  BY DEF Inv, TypeOK, ResultIsReal
<1>2. \A a \in Action :
        /\ status[a] \notin Unborn => status'[a] \notin Unborn
        /\ Taken(a) => Taken(a)'
  BY DEF Taken
<1> QED
  BY <1>1, <1>2, CallStep

\* The exchange of a daemon ends, and it goes on to its next activity.
LEMMA HangUp ==
    ASSUME Inv, NEW c \in calls, NEW S \in SUBSET Exchange, Become(c, S),
           UNCHANGED <<endpoints, deleting, status, ran>>,
           Live(c), \A k \in S : ~Live(k) /\ CallOK(k)',
           NEW w \in Activity, agent' = [agent EXCEPT ![c.daemon] = w],
           AgentOK(c.daemon)'
    PROVE  Inv'
<1>1. TypeOK'
  BY DEF Inv, TypeOK, Become, Exchange
<1>2. \A d \in Daemon : AgentOK(d)'
  <2> SUFFICES ASSUME NEW d \in Daemon, d # c.daemon PROVE AgentOK(d)'
    OBVIOUS
  <2>1. agent'[d] = agent[d]
    BY DEF Inv, TypeOK
  <2> QED
    BY <2>1 DEF Inv, AgentOK, Fresh, Taken
<1>3. ASSUME NEW k \in calls, k # c PROVE CallOK(k)'
  <2>1. CallOK(k) /\ k.daemon \in Daemon
    BY DEF Inv, TypeOK, Exchange
  <2>2. Live(k) => agent'[k.daemon] = agent[k.daemon]
    BY <1>3, <2>1 DEF Inv, OneAnswer, TypeOK
  <2> QED
    BY <2>1, <2>2 DEF CallOK, ClaimOK, ReportOK, Fresh, Taken
<1>4. \A k \in calls' : CallOK(k)'
  BY <1>3 DEF Become
<1>5. OneAnswer'
  BY DEF Inv, OneAnswer, Become
<1>6. RanIsTaken' /\ ResultIsReal'
  BY DEF Inv, RanIsTaken, ResultIsReal, Taken
<1> QED
  BY <1>1, <1>2, <1>4, <1>5, <1>6 DEF Inv

LEMMA ClaimSelectKeeps ==
    ASSUME Inv, NEW c \in calls, ClaimSelect(c) PROVE Inv'
<1> USE XdrAssumption
<1>1. c \in Exchange /\ CallOK(c) /\ c.kind = "claim" /\ c.phase = "sent"
  BY DEF Inv, TypeOK, ClaimSelect
<1>2. UNCHANGED <<endpoints, deleting, status, agent, ran>> /\ ResultIsReal'
  BY DEF ClaimSelect, Inv, ResultIsReal
<1>3. CASE Queued(At[c.daemon]) = {} /\ Answered(c, NoAction)
  <2> DEFINE k == [c EXCEPT !.phase = "answered", !.action = NoAction]
             S == IF c.awaited THEN {k} ELSE {}
  <2>1. Become(c, S)
    BY <1>3 DEF Answered
  <2>2. k \in Exchange /\ k.daemon = c.daemon /\ (Live(k) => Live(c))
    BY <1>1 DEF Exchange, Live
  <2>3. c.awaited => CallOK(k)'
    BY <1>1, <1>2 DEF Exchange, CallOK, ClaimOK, ReportOK, Live
  <2> HIDE DEF k
  <2> QED
    BY <1>2, <2>1, <2>2, <2>3, CallStep DEF Inv, TypeOK, Taken
<1>4. ASSUME NEW a \in Queued(At[c.daemon]),
             Become(c, {[c EXCEPT !.phase = "selected", !.action = a]})
      PROVE  Inv'
  <2> DEFINE k == [c EXCEPT !.phase = "selected", !.action = a]
  <2>1. a \in Action /\ status[a] = "queued" /\ Target[a] = At[c.daemon]
    BY DEF Queued
  <2>2. k \in Exchange /\ k.daemon = c.daemon /\ (Live(k) => Live(c))
    BY <1>1, <2>1 DEF Exchange, Live
  <2>3. Fresh(c.daemon, a)
    BY <1>1, <2>1 DEF Inv, RanIsTaken, Taken, Fresh, Exchange
  <2>4. CallOK(k)'
    BY <1>1, <1>2, <2>1, <2>3 DEF Exchange, CallOK, ClaimOK, ReportOK, Live, Fresh, Unborn
  <2> HIDE DEF k
  <2>5. Become(c, {k}) /\ {k} \in SUBSET Exchange
    BY <1>4, <2>2 DEF k
  <2> QED
    BY <1>2, <2>2, <2>4, <2>5, CallOnly
<1> QED
  BY <1>3, <1>4 DEF ClaimSelect

LEMMA ClaimUpdateKeeps ==
    ASSUME Inv, NEW c \in calls, ClaimUpdate(c) PROVE Inv'
<1> USE XdrAssumption
<1> DEFINE k == [c EXCEPT !.phase = "answered", !.action = c.action]
           S == IF c.awaited THEN {k} ELSE {}
<1>1. c \in Exchange /\ CallOK(c) /\ c.kind = "claim" /\ c.phase = "selected"
  BY DEF Inv, TypeOK, ClaimUpdate
<1>2. c.action \in Action /\ status[c.action] \notin Unborn
  BY <1>1 DEF CallOK, ClaimOK
<1>3. /\ UNCHANGED <<endpoints, deleting, agent, ran>>
      /\ status' = IF HasRow(c.action) THEN [status EXCEPT ![c.action] = "claimed"] ELSE status
      /\ Become(c, S)
  BY DEF ClaimUpdate, Answered
<1>4. /\ status' \in [Action -> Status]
      /\ Taken(c.action)'
      /\ \A a \in Action : /\ status[a] \notin Unborn => status'[a] \notin Unborn
                           /\ Taken(a) => Taken(a)'
      /\ ResultIsReal'
  BY <1>2, <1>3 DEF Inv, TypeOK, Status, Unborn, Taken, HasRow, ResultIsReal, Outcome
<1>5. k \in Exchange /\ k.daemon = c.daemon /\ (Live(k) => Live(c))
  BY <1>1 DEF Exchange, Live
<1>6. c.awaited => CallOK(k)'
  BY <1>1, <1>2, <1>3, <1>4 DEF Exchange, CallOK, ClaimOK, ReportOK, Live, Fresh, Taken
<1> HIDE DEF k
<1> QED
  BY <1>3, <1>4, <1>5, <1>6, CallStep

LEMMA ReportSelectKeeps ==
    ASSUME Inv, NEW c \in calls, ReportSelect(c) PROVE Inv'
<1> USE XdrAssumption
<1> DEFINE p == [c EXCEPT !.phase = "selected"]
           q == [c EXCEPT !.phase = "answered", !.action = c.action]
<1>1. c \in Exchange /\ CallOK(c) /\ c.kind = "report"
  BY DEF Inv, TypeOK, ReportSelect
<1>2. UNCHANGED <<endpoints, deleting, status, agent, ran>> /\ ResultIsReal'
  BY DEF ReportSelect, Inv, ResultIsReal
<1>3. /\ p \in Exchange /\ p.daemon = c.daemon /\ (Live(p) => Live(c))
      /\ q \in Exchange /\ q.daemon = c.daemon /\ (Live(q) => Live(c))
  BY <1>1 DEF Exchange, Live
<1>4. CallOK(p)' /\ (c.awaited => CallOK(q)')
  BY <1>1, <1>2 DEF Exchange, CallOK, ClaimOK, ReportOK, Live, Taken
<1>5. Become(c, {p}) \/ Become(c, IF c.awaited THEN {q} ELSE {})
  BY DEF ReportSelect, Answered
<1> HIDE DEF p, q
<1>6. CASE Become(c, {p})
  <2>1. {p} \in SUBSET Exchange
    BY <1>3
  <2> QED
    BY <1>2, <1>3, <1>4, <1>6, <2>1, CallOnly
<1>7. CASE Become(c, IF c.awaited THEN {q} ELSE {})
  BY <1>2, <1>3, <1>4, <1>7, CallOnly
<1> QED
  BY <1>5, <1>6, <1>7

LEMMA ReportUpdateKeeps ==
    ASSUME Inv, NEW c \in calls, ReportUpdate(c) PROVE Inv'
<1> USE XdrAssumption
<1> DEFINE k == [c EXCEPT !.phase = "answered", !.action = c.action]
           S == IF c.awaited THEN {k} ELSE {}
<1>1. c \in Exchange /\ CallOK(c) /\ c.kind = "report"
  BY DEF Inv, TypeOK, ReportUpdate
<1>2. Taken(c.action) /\ c.action \in Action /\ <<c.daemon, c.action, c.outcome>> \in ran
  BY <1>1 DEF CallOK, ReportOK, Taken
<1>3. /\ UNCHANGED <<endpoints, deleting, agent, ran>>
      /\ status' = IF HasRow(c.action) THEN [status EXCEPT ![c.action] = c.outcome] ELSE status
      /\ Become(c, S)
  BY DEF ReportUpdate, Answered
<1>4. c.daemon \in Daemon /\ c.outcome \in Outcome
  BY <1>1 DEF Exchange
<1>5. status' \in [Action -> Status]
  BY <1>2, <1>3, <1>4 DEF Inv, TypeOK, Status
<1>6. \A a \in Action : /\ status[a] \notin Unborn => status'[a] \notin Unborn
                        /\ Taken(a) => Taken(a)'
  BY <1>2, <1>3, <1>4 DEF Inv, TypeOK, Unborn, Taken, Outcome
<1>7. ResultIsReal'
  <2> SUFFICES ASSUME NEW a \in Action, status'[a] \in Outcome
               PROVE  \E d \in Daemon : <<d, a, status'[a]>> \in ran'
    BY DEF ResultIsReal
  <2>1. CASE status'[a] = status[a]
    BY <1>3, <2>1 DEF Inv, ResultIsReal
  <2>2. CASE status'[a] # status[a]
    <3>1. a = c.action /\ status'[a] = c.outcome
      <4>1. status \in [Action -> Status] /\ c.action \in Action
        BY <1>2 DEF Inv, TypeOK
      <4>2. status' = [status EXCEPT ![c.action] = c.outcome]
        BY <1>3, <2>2
      <4> QED
        BY <2>2, <4>1, <4>2
    <3>2. <<c.daemon, a, status'[a]>> \in ran'
      BY <1>2, <1>3, <3>1
    <3> QED
      BY <1>4, <3>2
  <2> QED
    BY <2>1, <2>2
<1>8. k \in Exchange /\ k.daemon = c.daemon /\ (Live(k) => Live(c))
  BY <1>1 DEF Exchange, Live
<1>9. c.awaited => CallOK(k)'
  <2>1. Taken(c.action)' /\ <<c.daemon, c.action, c.outcome>> \in ran'
    <3>1. Taken(c.action)'
      BY <1>2, <1>6 DEF Taken
    <3> QED
      BY <1>2, <1>3, <3>1
  <2>2. agent' = agent
    BY <1>3
  <2> QED
    BY <1>1, <2>1, <2>2 DEF Exchange, CallOK, ClaimOK, ReportOK, Live
<1> HIDE DEF k
<1>10. S \in SUBSET Exchange
  BY <1>8
<1>11. \A l \in S : l.daemon = c.daemon /\ (Live(l) => Live(c)) /\ CallOK(l)'
  BY <1>8, <1>9
<1>12. \A l, n \in S : Live(l) /\ Live(n) => l = n
  OBVIOUS
<1> HIDE DEF S
<1> QED
  BY <1>3, <1>5, <1>6, <1>7, <1>10, <1>11, <1>12, CallStep

LEMMA DeliverKeeps ==
    ASSUME Inv, NEW c \in calls, Deliver(c) PROVE Inv'
<1> USE XdrAssumption
<1>1. c \in Exchange /\ CallOK(c) /\ c.awaited
  BY DEF Inv, TypeOK, Deliver, CallOK
<1>2. UNCHANGED <<endpoints, deleting, status, ran>> /\ Become(c, {})
  BY DEF Deliver
<1>3. {} \in SUBSET Exchange
  OBVIOUS
<1>4. CASE ~c.heard
  <2>1. agent' = agent
    BY <1>4 DEF Deliver
  <2> QED
    BY <1>2, <1>3, <2>1, CallOnly
<1>5. CASE c.heard
  <2> DEFINE w == IF c.kind = "claim" /\ c.action # NoAction
                  THEN [pc |-> "executing", action |-> c.action] ELSE Idle
  <2>1. agent' = [agent EXCEPT ![c.daemon] = w] /\ Live(c)
    BY <1>1, <1>5 DEF Deliver, Live
  <2>2. w \in Activity
    BY <1>1 DEF Exchange, Activity, Idle
  <2>3. AgentOK(c.daemon)'
    <3>1. agent'[c.daemon] = w
      BY <1>1, <2>1 DEF Inv, TypeOK, Exchange
    <3>2. CASE c.kind = "claim" /\ c.action # NoAction
      <4>1. Taken(c.action) /\ Target[c.action] = At[c.daemon] /\ Fresh(c.daemon, c.action)
        BY <1>1, <2>1, <3>2 DEF Deliver, CallOK, ClaimOK
      <4> QED
        BY <1>2, <3>1, <3>2, <4>1 DEF AgentOK, Taken, Fresh
    <3>3. CASE ~(c.kind = "claim" /\ c.action # NoAction)
      BY <3>1, <3>3 DEF AgentOK, Idle
    <3> QED
      BY <3>2, <3>3
  <2> HIDE DEF w
  <2> QED
    BY <1>2, <1>3, <2>1, <2>2, <2>3, HangUp
<1> QED
  BY <1>4, <1>5

\* What the BFF leaves behind is sound, and its answer reaches nobody.
LEMMA RemainsOK ==
    ASSUME Inv, NEW c \in calls, NEW R \in Remains(c), UNCHANGED <<status, ran>>
    PROVE  R \in SUBSET Exchange /\ \A k \in R : k.daemon = c.daemon /\ ~Live(k) /\ CallOK(k)'
<1> DEFINE k == [c EXCEPT !.awaited = FALSE]
<1>1. c \in Exchange /\ CallOK(c)
  BY DEF Inv, TypeOK
<1>2. R = {} \/ (c.phase # "answered" /\ R = {k})
  BY DEF Remains
<1>3. k \in Exchange /\ k.daemon = c.daemon /\ ~Live(k)
  BY <1>1 DEF Exchange, Live
<1>4. c.phase # "answered" => CallOK(k)'
  BY <1>1 DEF Exchange, CallOK, ClaimOK, ReportOK, Live, Taken
<1> QED
  BY <1>2, <1>3, <1>4

LEMMA GatewayRetryKeeps ==
    ASSUME Inv, NEW c \in calls, GatewayRetry(c) PROVE Inv'
<1> USE XdrAssumption
<1> DEFINE a == IF c.kind = "claim" THEN NoAction ELSE c.action
<1>1. c \in Exchange /\ CallOK(c) /\ c.awaited /\ c.attempt < MaxAttempts
  BY DEF Inv, TypeOK, GatewayRetry
<1>2. PICK i \in FreeIds, R \in Remains(c) :
        Become(c, R \cup {[Request(i, c.daemon, c.kind, a, c.outcome) EXCEPT
                             !.attempt = c.attempt + 1, !.heard = c.heard]})
  BY DEF GatewayRetry
<1> DEFINE k == [Request(i, c.daemon, c.kind, a, c.outcome) EXCEPT
                   !.attempt = c.attempt + 1, !.heard = c.heard]
<1>3. UNCHANGED <<endpoints, deleting, status, agent, ran>>
  BY DEF GatewayRetry
<1>4. k \in Exchange
  <2> DEFINE r == Request(i, c.daemon, c.kind, a, c.outcome)
  <2>1. r \in Exchange
    BY <1>1, RequestType DEF Exchange, FreeIds
  <2>2. c.attempt + 1 \in 1 .. MaxAttempts /\ c.heard \in BOOLEAN
    BY <1>1 DEF Exchange
  <2> HIDE DEF r
  <2>3. [r EXCEPT !.attempt = c.attempt + 1, !.heard = c.heard] \in Exchange
    BY <2>1, <2>2 DEF Exchange
  <2> QED
    BY <2>3 DEF r
<1>5. k.daemon = c.daemon /\ (Live(k) => Live(c))
  BY <1>1 DEF Request, Live
<1>6. CallOK(k)'
  BY <1>1, <1>3 DEF Exchange, CallOK, ClaimOK, ReportOK, Live, Taken, Request
<1>7. R \in SUBSET Exchange /\ \A l \in R : l.daemon = c.daemon /\ ~Live(l) /\ CallOK(l)'
  BY <1>3, RemainsOK
<1> HIDE DEF k
<1> DEFINE S == R \cup {k}
<1>8. Become(c, S)
  BY <1>2 DEF k
<1>9. S \in SUBSET Exchange
  BY <1>4, <1>7
<1>10. \A l \in S : l.daemon = c.daemon /\ (Live(l) => Live(c)) /\ CallOK(l)'
  BY <1>5, <1>6, <1>7
<1>11. \A l, n \in S : Live(l) /\ Live(n) => l = n
  BY <1>7
<1> HIDE DEF S
<1> QED
  BY <1>3, <1>8, <1>9, <1>10, <1>11, CallOnly

LEMMA GatewayErrorKeeps ==
    ASSUME Inv, NEW c \in calls, GatewayError(c) PROVE Inv'
<1> USE XdrAssumption
<1>1. c \in Exchange /\ CallOK(c) /\ c.awaited
  BY DEF Inv, TypeOK, GatewayError
<1>2. UNCHANGED <<endpoints, deleting, status, ran>>
  BY DEF GatewayError
<1>3. PICK R \in Remains(c) : Become(c, R)
  BY DEF GatewayError
<1>4. R \in SUBSET Exchange /\ \A k \in R : k.daemon = c.daemon /\ ~Live(k) /\ CallOK(k)'
  BY <1>2, RemainsOK
<1>5. CASE ~c.heard
  <2>1. agent' = agent
    BY <1>5 DEF GatewayError
  <2> QED
    BY <1>2, <1>3, <1>4, <2>1, CallOnly
<1>6. CASE c.heard
  <2>1. agent' = [agent EXCEPT ![c.daemon] = Idle] /\ Live(c)
    BY <1>1, <1>6 DEF GatewayError, Live
  <2>2. Idle \in Activity
    BY DEF Idle, Activity
  <2>3. AgentOK(c.daemon)'
    BY <1>1, <2>1 DEF Inv, TypeOK, Exchange, AgentOK, Idle
  <2> QED
    BY <1>2, <1>3, <1>4, <2>1, <2>2, <2>3, HangUp
<1> QED
  BY <1>5, <1>6

-----------------------------------------------------------------------------
\* Every step of the system keeps Inv.
LEMMA NextKeeps == Inv /\ [Next]_vars => Inv'
<1> SUFFICES ASSUME Inv, [Next]_vars PROVE Inv'
  OBVIOUS
<1>1. ASSUME NEW a \in Action, DraftAction(a) \/ InsertAction(a) PROVE Inv'
  BY <1>1, DraftKeeps, InsertKeeps
<1>2. ASSUME NEW e \in Endpoint, StartDelete(e) \/ FinishDelete(e) PROVE Inv'
  BY <1>2, StartDeleteKeeps, FinishDeleteKeeps
<1>3. ASSUME NEW d \in Daemon, Loop(d) PROVE Inv'
  BY <1>3, TelemetryKeeps, PollKeeps, ExecuteKeeps, AbandonKeeps
     DEF Loop, AgentDeadline, DaemonRestart
<1>4. ASSUME NEW c \in calls, Xdr(c) PROVE Inv'
  BY <1>4, ClaimSelectKeeps, ClaimUpdateKeeps, ReportSelectKeeps, ReportUpdateKeeps DEF Xdr
<1>5. ASSUME NEW c \in calls, Gateway(c) PROVE Inv'
  BY <1>5, DeliverKeeps, GatewayRetryKeeps, GatewayErrorKeeps DEF Gateway
<1>6. CASE UNCHANGED vars
  BY <1>6, RowsOnly DEF vars, Inv, TypeOK, Taken
<1> QED
  BY <1>1, <1>2, <1>3, <1>4, <1>5, <1>6 DEF Next

LEMMA InitInv == Init => Inv
BY XdrAssumption DEF Init, Inv, TypeOK, Idle, Activity, Status, Unborn, Outcome,
   AgentOK, OneAnswer, RanIsTaken, ResultIsReal

LEMMA Invariant == Spec => []Inv
BY InitInv, NextKeeps, PTL DEF Spec

\* The rows, calls and daemons only ever hold what TypeOK says.
THEOREM TypeCorrect == Spec => []TypeOK
<1>1. Inv => TypeOK
  BY DEF Inv
<1> QED
  BY <1>1, Invariant, PTL

\* No daemon runs an action a second time, whatever fails around it.
THEOREM RunsOnce == Spec => []NeverTwice
<1>1. Inv => NeverTwice
  BY DEF Inv, AgentOK, Fresh, NeverTwice
<1> QED
  BY <1>1, Invariant, PTL

\* What a daemon works on is an action of its endpoint that is off the queue.
THEOREM RunsClaimed == Spec => []RunningIsClaimed
<1>1. Inv => RunningIsClaimed
  BY DEF Inv, AgentOK, Taken, RunningIsClaimed
<1> QED
  BY <1>1, Invariant, PTL

\* A result in the table is the outcome of a run, from whichever daemon.
THEOREM ResultsAreReal == Spec => []ResultIsReal
<1>1. Inv => ResultIsReal
  BY DEF Inv
<1> QED
  BY <1>1, Invariant, PTL

-----------------------------------------------------------------------------
(* When nothing fails. *)

\* Call c stands for action a in the hands of its daemon: the claim is on its
\* way back, or the result is on its way to the table.
InHand(c, a) ==
    /\ c.action = a
    /\ \/ c.kind = "claim" /\ c.phase = "answered"
       \/ c.kind = "report" /\ c.phase # "answered"

\* Daemon d has action a, and xdr_rico has not stored its result.
Unreported(d, a) ==
    \/ agent[d].pc = "executing" /\ agent[d].action = a
    \/ \E c \in calls : c.daemon = d /\ InHand(c, a)

\* Every call is waited for, and a report is about the action at hand.
Quiet ==
    /\ Inv
    /\ \A c \in calls : Live(c) /\ (c.kind = "report" => agent[c.daemon].action = c.action)

\* A claimed action is held by a daemon that has not reported it.  (A daemon
\* that waits for the answer to its report holds it too, but would not do: the
\* action may be claimed once more by a daemon that had selected it.)
Calm ==
    /\ Quiet
    /\ \A a \in Action : status[a] = "claimed" => \E d \in Daemon : Unreported(d, a)

\* A call under way is the only thing its daemon does.
LEMMA OnlyCall ==
    ASSUME Quiet, NEW c \in calls
    PROVE  /\ c \in Exchange /\ CallOK(c) /\ Live(c)
           /\ \A k \in calls : k.daemon = c.daemon => k = c
           /\ agent[c.daemon].pc # "executing"
           /\ c.kind = "report" => /\ c.action \in Action /\ Target[c.action] = At[c.daemon]
                                   /\ agent[c.daemon].action = c.action
<1>1. c \in Exchange /\ CallOK(c) /\ Live(c) /\ AgentOK(c.daemon)
  BY DEF Quiet, Inv, TypeOK, Exchange
<1>2. \A k \in calls : k.daemon = c.daemon => k = c
  BY DEF Quiet, Inv, OneAnswer
<1>3. agent[c.daemon].pc # "executing"
  BY <1>1 DEF CallOK
<1>4. c.kind = "report" => /\ c.action \in Action /\ Target[c.action] = At[c.daemon]
                           /\ agent[c.daemon].action = c.action
  BY <1>1 DEF Quiet, CallOK, ReportOK, AgentOK, Taken
<1> QED
  BY <1>1, <1>2, <1>3, <1>4

\* When call c becomes call k of the same daemon, what the others have stays.
LEMMA CallMoves ==
    ASSUME Quiet, NEW c \in calls, NEW k, k.daemon = c.daemon, Become(c, {k}), agent' = agent
    PROVE  /\ \A d \in Daemon, a \in Action :
                d # c.daemon => (Unreported(d, a)' <=> Unreported(d, a))
           /\ \A a \in Action : Unreported(c.daemon, a) <=> InHand(c, a)
           /\ \A a : Unreported(c.daemon, a)' <=> InHand(k, a)
<1>1. \A l \in calls : l.daemon = c.daemon => l = c
  BY OnlyCall
<1>2. agent[c.daemon].pc # "executing" /\ agent'[c.daemon].pc # "executing"
  BY OnlyCall
<1>3. calls' = (calls \ {c}) \cup {k}
  BY DEF Become
<1>4. ASSUME NEW d \in Daemon, NEW a \in Action, d # c.daemon
      PROVE  Unreported(d, a)' <=> Unreported(d, a)
  <2>1. \A l : l \in calls' /\ l.daemon = d <=> l \in calls /\ l.daemon = d
    BY <1>3, <1>4
  <2>2. \A l : InHand(l, a)' <=> InHand(l, a)
    BY DEF InHand
  <2> QED
    BY <2>1, <2>2 DEF Unreported
<1>5. \A a \in Action : Unreported(c.daemon, a) <=> InHand(c, a)
  BY <1>1, <1>2 DEF Unreported
<1>6. \A a : Unreported(c.daemon, a)' <=> InHand(k, a)
  <2>1. \A l : l \in calls' /\ l.daemon = c.daemon <=> l = k
    BY <1>1, <1>3
  <2> QED
    BY <1>2, <2>1 DEF Unreported, InHand
<1> QED
  BY <1>4, <1>5, <1>6

\* The step a calm system takes, by what it does to the claims in hand: it
\* leaves them, or adds the one it claims, or takes away the one it stores.
Steady == \A d \in Daemon, a \in Action : Unreported(d, a)' <=> Unreported(d, a)

LEMMA PollQuiet ==
    ASSUME Quiet, NEW d \in Daemon, Poll(d) PROVE Quiet' /\ Steady
<1>1. PICK i \in FreeIds : calls' = calls \cup {Request(i, d, "claim", NoAction, "failed")}
  BY DEF Poll
<1> DEFINE r == Request(i, d, "claim", NoAction, "failed")
<1>2. r.daemon = d /\ r.kind = "claim" /\ r.phase = "sent" /\ Live(r)
  BY DEF Request, Live
<1>3. /\ agent[d].pc = "idle"
      /\ \A e \in Daemon : agent'[e].action = agent[e].action
      /\ \A e \in Daemon : agent'[e].pc = "executing" <=> agent[e].pc = "executing"
  BY DEF Poll, Quiet, Inv, TypeOK, Activity
<1>4. Inv'
  BY PollKeeps DEF Quiet
<1>5. \A c \in calls : c.daemon \in Daemon
  BY DEF Quiet, Inv, TypeOK, Exchange
<1> HIDE DEF r
<1>6. calls' = calls \cup {r}
  BY <1>1 DEF r
<1>7. Quiet'
  BY <1>2, <1>3, <1>4, <1>5, <1>6 DEF Quiet, Live
<1>8. Steady
  BY <1>2, <1>3, <1>6 DEF Steady, Unreported, InHand
<1> QED
  BY <1>7, <1>8

LEMMA ExecuteQuiet ==
    ASSUME Quiet, NEW d \in Daemon, Execute(d) PROVE Quiet' /\ Steady
<1>1. PICK i \in FreeIds, o \in Outcome :
        calls' = calls \cup {Request(i, d, "report", agent[d].action, o)}
  BY DEF Execute
<1> DEFINE r == Request(i, d, "report", agent[d].action, o)
<1>2. /\ r.daemon = d /\ r.kind = "report" /\ r.phase = "sent" /\ Live(r)
      /\ r.action = agent[d].action
  BY DEF Request, Live
<1>3. /\ agent[d].pc = "executing" /\ agent'[d].pc = "reporting"
      /\ \A e \in Daemon : agent'[e].action = agent[e].action
      /\ \A e \in Daemon \ {d} : agent'[e] = agent[e]
  BY DEF Execute, Quiet, Inv, TypeOK, Activity
<1>4. Inv'
  BY ExecuteKeeps DEF Quiet
<1>5. \A c \in calls : c.daemon \in Daemon /\ c.daemon # d
  BY <1>3, OnlyCall DEF Exchange
<1> HIDE DEF r
<1>6. calls' = calls \cup {r}
  BY <1>1 DEF r
<1>7. Quiet'
  BY <1>2, <1>3, <1>4, <1>5, <1>6 DEF Quiet, Live
<1>8. Steady
  BY <1>2, <1>3, <1>5, <1>6 DEF Steady, Unreported, InHand
<1> QED
  BY <1>7, <1>8

LEMMA DeliverQuiet ==
    ASSUME Quiet, NEW c \in calls, Deliver(c) PROVE Quiet' /\ Steady
<1> USE XdrAssumption
<1> DEFINE d == c.daemon
           w == IF c.kind = "claim" /\ c.action # NoAction
                THEN [pc |-> "executing", action |-> c.action] ELSE Idle
<1>1. /\ c \in Exchange /\ Live(c) /\ agent[d].pc # "executing"
      /\ \A k \in calls : k.daemon = d => k = c
  BY OnlyCall
<1>2. d \in Daemon
  BY <1>1 DEF Exchange
<1>3. /\ calls' = calls \ {c} /\ c.phase = "answered"
      /\ agent' = [agent EXCEPT ![d] = w]
  BY <1>1 DEF Deliver, Become, Live
<1>4. agent'[d] = w /\ \A e \in Daemon \ {d} : agent'[e] = agent[e]
  BY <1>2, <1>3 DEF Quiet, Inv, TypeOK
<1>5. Inv'
  BY DeliverKeeps DEF Quiet
<1>6. \A k \in calls : k.daemon \in Daemon
  BY DEF Quiet, Inv, TypeOK, Exchange
<1>7. Quiet'
  BY <1>1, <1>3, <1>4, <1>5, <1>6 DEF Quiet, Live
<1>8. ASSUME NEW a \in Action PROVE Unreported(d, a)' <=> Unreported(d, a)
  <2>1. Unreported(d, a) <=> c.kind = "claim" /\ c.action = a
    BY <1>1, <1>3 DEF Unreported, InHand
  <2>2. Unreported(d, a)' <=> w.pc = "executing" /\ w.action = a
    BY <1>1, <1>3, <1>4 DEF Unreported
  <2> QED
    BY <2>1, <2>2 DEF Idle
<1>9. ASSUME NEW e \in Daemon, NEW a \in Action, e # d
      PROVE  Unreported(e, a)' <=> Unreported(e, a)
  BY <1>3, <1>4, <1>9 DEF Unreported, InHand
<1> HIDE DEF d
<1>10. Steady
  BY <1>8, <1>9 DEF Steady
<1> QED
  BY <1>7, <1>10

LEMMA ClaimSelectQuiet ==
    ASSUME Quiet, NEW c \in calls, ClaimSelect(c) PROVE Quiet' /\ Steady
<1> USE XdrAssumption
<1>1. c \in Exchange /\ Live(c) /\ c.kind = "claim" /\ c.phase = "sent"
  BY OnlyCall DEF ClaimSelect
<1>2. agent' = agent /\ Inv'
  BY ClaimSelectKeeps DEF ClaimSelect, Quiet
<1>3. PICK k : /\ Become(c, {k}) /\ k.daemon = c.daemon /\ Live(k) /\ k.kind = "claim"
               /\ k.phase = "selected" \/ k.action = NoAction
  <2>1. CASE Queued(At[c.daemon]) = {} /\ Answered(c, NoAction)
    <3> DEFINE k == [c EXCEPT !.phase = "answered", !.action = NoAction]
    <3>1. Become(c, {k})
      BY <1>1, <2>1 DEF Answered, Live
    <3>2. k.daemon = c.daemon /\ Live(k) /\ k.kind = "claim" /\ k.action = NoAction
      BY <1>1 DEF Exchange, Live
    <3> HIDE DEF k
    <3> QED
      BY <3>1, <3>2
  <2>2. ASSUME NEW a \in Queued(At[c.daemon]),
               Become(c, {[c EXCEPT !.phase = "selected", !.action = a]})
        PROVE  \E k : /\ Become(c, {k}) /\ k.daemon = c.daemon /\ Live(k) /\ k.kind = "claim"
                      /\ k.phase = "selected" \/ k.action = NoAction
    <3> DEFINE k == [c EXCEPT !.phase = "selected", !.action = a]
    <3>1. k.daemon = c.daemon /\ Live(k) /\ k.kind = "claim" /\ k.phase = "selected"
      BY <1>1 DEF Exchange, Live
    <3>2. Become(c, {k})
      BY <2>2
    <3> HIDE DEF k
    <3> QED
      BY <3>1, <3>2
  <2> QED
    BY <2>1, <2>2 DEF ClaimSelect
<1>4. Quiet'
  BY <1>2, <1>3 DEF Quiet, Become, Live
<1>5. \A a \in Action : ~InHand(c, a) /\ ~InHand(k, a)
  BY <1>1, <1>3 DEF InHand
<1>6. Steady
  BY <1>2, <1>3, <1>5, CallMoves DEF Steady
<1> QED
  BY <1>4, <1>6

\* The claim is stored, whatever the status, and its daemon has the action.
LEMMA ClaimUpdateQuiet ==
    ASSUME Quiet, NEW c \in calls, ClaimUpdate(c)
    PROVE  /\ Quiet' /\ c.daemon \in Daemon /\ c.action \in Action
           /\ status' = IF HasRow(c.action) THEN [status EXCEPT ![c.action] = "claimed"] ELSE status
           /\ status[c.action] \notin Unborn
           /\ \A d \in Daemon, a \in Action :
                Unreported(d, a)' <=> Unreported(d, a) \/ (d = c.daemon /\ a = c.action)
<1>1. c \in Exchange /\ Live(c) /\ CallOK(c) /\ c.kind = "claim" /\ c.phase = "selected"
  BY OnlyCall DEF ClaimUpdate
<1>2. agent' = agent /\ Inv'
  BY ClaimUpdateKeeps DEF ClaimUpdate, Quiet
<1>3. c.daemon \in Daemon /\ c.action \in Action /\ status[c.action] \notin Unborn
  BY <1>1, XdrAssumption DEF Exchange, CallOK, ClaimOK
<1>4. PICK k : /\ Become(c, {k}) /\ k.daemon = c.daemon /\ Live(k) /\ k.kind = "claim"
               /\ k.phase = "answered" /\ k.action = c.action
  <2> DEFINE k == [c EXCEPT !.phase = "answered", !.action = c.action]
  <2>1. Become(c, {k})
    BY <1>1 DEF ClaimUpdate, Answered, Live
  <2>2. /\ k.daemon = c.daemon /\ Live(k) /\ k.kind = "claim"
        /\ k.phase = "answered" /\ k.action = c.action
    BY <1>1 DEF Exchange, Live
  <2> HIDE DEF k
  <2> QED
    BY <2>1, <2>2
<1>5. Quiet'
  BY <1>2, <1>4 DEF Quiet, Become, Live
<1>6. \A a \in Action : ~InHand(c, a) /\ (InHand(k, a) <=> a = c.action)
  BY <1>1, <1>4 DEF InHand
<1>7. \A d \in Daemon, a \in Action :
        Unreported(d, a)' <=> Unreported(d, a) \/ (d = c.daemon /\ a = c.action)
  BY <1>2, <1>4, <1>6, CallMoves
<1> QED
  BY <1>3, <1>5, <1>7 DEF ClaimUpdate

\* A report that finds its row goes on; the row of any other was deleted.
LEMMA ReportSelectQuiet ==
    ASSUME Quiet, NEW c \in calls, ReportSelect(c)
    PROVE  /\ Quiet'
           /\ \A d \in Daemon, a \in Action : Unreported(d, a)' => Unreported(d, a)
           /\ \A d \in Daemon, a \in Action : Unreported(d, a) /\ HasRow(a) => Unreported(d, a)'
<1>1. /\ c \in Exchange /\ Live(c) /\ c.kind = "report" /\ c.phase = "sent"
      /\ c.action \in Action /\ Target[c.action] = At[c.daemon]
      /\ agent[c.daemon].action = c.action
  BY OnlyCall DEF ReportSelect
<1>2. agent' = agent /\ Inv'
  BY ReportSelectKeeps DEF ReportSelect, Quiet
<1>3. PICK k : /\ Become(c, {k}) /\ k.daemon = c.daemon /\ Live(k) /\ k.kind = "report"
               /\ k.action = c.action
               /\ k.phase = IF HasRow(c.action) THEN "selected" ELSE "answered"
  <2>1. CASE HasRow(c.action)
    <3> DEFINE k == [c EXCEPT !.phase = "selected"]
    <3>1. Become(c, {k})
      BY <1>1, <2>1 DEF ReportSelect
    <3>2. /\ k.daemon = c.daemon /\ Live(k) /\ k.kind = "report"
          /\ k.action = c.action /\ k.phase = "selected"
      BY <1>1 DEF Exchange, Live
    <3> HIDE DEF k
    <3> QED
      BY <2>1, <3>1, <3>2
  <2>2. CASE ~HasRow(c.action)
    <3> DEFINE k == [c EXCEPT !.phase = "answered", !.action = c.action]
    <3>1. Become(c, {k})
      BY <1>1, <2>2 DEF ReportSelect, Answered, Live
    <3>2. /\ k.daemon = c.daemon /\ Live(k) /\ k.kind = "report"
          /\ k.action = c.action /\ k.phase = "answered"
      BY <1>1 DEF Exchange, Live
    <3> HIDE DEF k
    <3> QED
      BY <2>2, <3>1, <3>2
  <2> QED
    BY <2>1, <2>2
<1>4. Quiet'
  BY <1>1, <1>2, <1>3 DEF Quiet, Become, Live
<1>5. \A a \in Action : /\ InHand(k, a) => InHand(c, a)
                        /\ InHand(c, a) /\ HasRow(a) => InHand(k, a)
  BY <1>1, <1>3 DEF InHand
<1>6. c.daemon \in Daemon
  BY <1>1 DEF Exchange
<1>7. /\ \A d \in Daemon, a \in Action :
           d # c.daemon => (Unreported(d, a)' <=> Unreported(d, a))
      /\ \A a \in Action : Unreported(c.daemon, a) <=> InHand(c, a)
      /\ \A a \in Action : Unreported(c.daemon, a)' <=> InHand(k, a)
  BY <1>2, <1>3, CallMoves
<1> QED
  BY <1>4, <1>5, <1>7

\* The result is stored, whatever the status, and its daemon is done with it.
LEMMA ReportUpdateQuiet ==
    ASSUME Quiet, NEW c \in calls, ReportUpdate(c)
    PROVE  /\ Quiet' /\ c.daemon \in Daemon /\ c.action \in Action /\ c.outcome \in Outcome
           /\ Target[c.action] = At[c.daemon]
           /\ status' = IF HasRow(c.action) THEN [status EXCEPT ![c.action] = c.outcome] ELSE status
           /\ Unreported(c.daemon, c.action)
           /\ \A d \in Daemon, a \in Action :
                Unreported(d, a)' <=> Unreported(d, a) /\ ~(d = c.daemon /\ a = c.action)
<1>1. /\ c \in Exchange /\ Live(c) /\ c.kind = "report" /\ c.phase = "selected"
      /\ c.action \in Action /\ Target[c.action] = At[c.daemon]
      /\ agent[c.daemon].action = c.action
  BY OnlyCall DEF ReportUpdate
<1>2. agent' = agent /\ Inv'
  BY ReportUpdateKeeps DEF ReportUpdate, Quiet
<1>3. PICK k : /\ Become(c, {k}) /\ k.daemon = c.daemon /\ Live(k) /\ k.kind = "report"
               /\ k.phase = "answered" /\ k.action = c.action
  <2> DEFINE k == [c EXCEPT !.phase = "answered", !.action = c.action]
  <2>1. Become(c, {k})
    BY <1>1 DEF ReportUpdate, Answered, Live
  <2>2. /\ k.daemon = c.daemon /\ Live(k) /\ k.kind = "report"
        /\ k.phase = "answered" /\ k.action = c.action
    BY <1>1 DEF Exchange, Live
  <2> HIDE DEF k
  <2> QED
    BY <2>1, <2>2
<1>4. Quiet'
  BY <1>1, <1>2, <1>3 DEF Quiet, Become, Live
<1>5. \A a \in Action : ~InHand(k, a) /\ (InHand(c, a) <=> a = c.action)
  BY <1>1, <1>3 DEF InHand
<1>6. c.daemon \in Daemon /\ c.outcome \in Outcome
  BY <1>1 DEF Exchange
<1>7. \A d \in Daemon, a \in Action :
        Unreported(d, a)' <=> Unreported(d, a) /\ ~(d = c.daemon /\ a = c.action)
  BY <1>2, <1>3, <1>5, CallMoves
<1>8. Unreported(c.daemon, c.action)
  BY <1>1, <1>2, <1>3, <1>5, CallMoves
<1> QED
  BY <1>1, <1>4, <1>6, <1>7, <1>8 DEF ReportUpdate

\* Steps that touch neither calls nor daemons.
LEMMA RowsQuiet ==
    ASSUME Quiet, Inv', UNCHANGED <<calls, agent>> PROVE Quiet' /\ Steady
<1>1. Quiet'
  BY DEF Quiet, Live
<1>2. Steady
  BY DEF Steady, Unreported, InHand
<1> QED
  BY <1>1, <1>2

\* What a step of a calm system does to a row and to the daemons that have it.
RowsStay == Steady /\ UNCHANGED status

RowsMove ==
    /\ Steady
    /\ \/ \E a \in Action : DraftAction(a) \/ InsertAction(a)
       \/ \E e \in Endpoint : FinishDelete(e)

LEMMA QuietNext ==
    ASSUME ~Faults, Quiet, [Next]_vars
    PROVE  /\ Quiet'
           /\ \/ RowsStay
              \/ RowsMove
              \/ \E c \in calls : ClaimUpdate(c) \/ ReportSelect(c) \/ ReportUpdate(c)
<1>1. Inv'
  BY NextKeeps DEF Quiet
<1>2. ASSUME NEW a \in Action, DraftAction(a) \/ InsertAction(a)
      PROVE  Quiet' /\ RowsMove
  BY <1>1, <1>2, RowsQuiet DEF RowsMove, DraftAction, InsertAction
<1>3. ASSUME NEW e \in Endpoint, StartDelete(e)
      PROVE  Quiet' /\ RowsStay
  BY <1>1, <1>3, RowsQuiet DEF RowsStay, StartDelete
<1>4. ASSUME NEW e \in Endpoint, FinishDelete(e)
      PROVE  Quiet' /\ RowsMove
  BY <1>1, <1>4, RowsQuiet DEF RowsMove, FinishDelete
<1>5. ASSUME NEW d \in Daemon, Loop(d)
      PROVE  Quiet' /\ RowsStay
  <2>1. CASE PostTelemetry(d)
    BY <1>1, <2>1, RowsQuiet DEF RowsStay, PostTelemetry
  <2>2. CASE Poll(d)
    BY <2>2, PollQuiet DEF RowsStay, Poll
  <2>3. CASE Execute(d)
    BY <2>3, ExecuteQuiet DEF RowsStay, Execute
  <2> QED
    BY <1>5, <2>1, <2>2, <2>3 DEF Loop, AgentDeadline, DaemonRestart
<1>6. ASSUME NEW c \in calls, ClaimSelect(c) \/ Deliver(c)
      PROVE  Quiet' /\ RowsStay
  BY <1>6, ClaimSelectQuiet, DeliverQuiet DEF RowsStay, ClaimSelect, Deliver
<1>7. ASSUME NEW c \in calls, ClaimUpdate(c) \/ ReportSelect(c) \/ ReportUpdate(c)
      PROVE  Quiet'
  BY <1>7, ClaimUpdateQuiet, ReportSelectQuiet, ReportUpdateQuiet
<1>8. CASE UNCHANGED vars
  BY <1>1, <1>8, RowsQuiet DEF RowsStay, vars
<1> QED
  BY <1>2, <1>3, <1>4, <1>5, <1>6, <1>7, <1>8
     DEF Next, Xdr, Gateway, GatewayRetry, GatewayError

LEMMA CalmNext ==
    ASSUME ~Faults, Calm, [Next]_vars PROVE Calm'
<1>1. Quiet' /\ status \in [Action -> Status]
  BY QuietNext DEF Calm, Quiet, Inv, TypeOK
<1> SUFFICES ASSUME NEW a \in Action, status'[a] = "claimed"
             PROVE  \E d \in Daemon : Unreported(d, a)'
  BY <1>1 DEF Calm
<1>2. CASE RowsStay
  BY <1>2 DEF Calm, RowsStay, Steady
<1>3. CASE RowsMove
  <2>1. status[a] = "claimed"
    BY <1>1, <1>3 DEF RowsMove, DraftAction, InsertAction, FinishDelete
  <2> QED
    BY <1>3, <2>1 DEF Calm, RowsMove, Steady
<1>4. ASSUME NEW c \in calls, ClaimUpdate(c)
      PROVE  \E d \in Daemon : Unreported(d, a)'
  <2>1. CASE a = c.action
    BY <1>4, <2>1, ClaimUpdateQuiet DEF Calm
  <2>2. CASE a # c.action
    <3>1. status[a] = "claimed"
      BY <1>1, <1>4, <2>2, ClaimUpdateQuiet DEF Calm
    <3> QED
      BY <1>4, <3>1, ClaimUpdateQuiet DEF Calm
  <2> QED
    BY <2>1, <2>2
<1>5. ASSUME NEW c \in calls, ReportSelect(c)
      PROVE  \E d \in Daemon : Unreported(d, a)'
  <2>1. status[a] = "claimed" /\ HasRow(a)
    BY <1>5 DEF ReportSelect, HasRow, Unborn
  <2> QED
    BY <1>5, <2>1, ReportSelectQuiet DEF Calm
<1>6. ASSUME NEW c \in calls, ReportUpdate(c)
      PROVE  \E d \in Daemon : Unreported(d, a)'
  <2>1. /\ c.action \in Action /\ c.outcome \in Outcome
        /\ status' = IF HasRow(c.action) THEN [status EXCEPT ![c.action] = c.outcome] ELSE status
    BY <1>6, ReportUpdateQuiet DEF Calm
  <2>2. a # c.action /\ status[a] = "claimed"
    BY <1>1, <2>1 DEF HasRow, Unborn, Outcome
  <2> QED
    BY <1>6, <2>2, ReportUpdateQuiet DEF Calm
<1> QED
  BY <1>2, <1>3, <1>4, <1>5, <1>6, QuietNext DEF Calm

\* When nothing fails, a claimed action always has a daemon that works on it,
\* even where several daemons poll for one endpoint and claim it twice.
THEOREM ClaimsAreHeld ==
    ASSUME ~Faults PROVE Spec => []ClaimIsHeld
<1>1. Init => Calm
  <2> SUFFICES ASSUME Init PROVE Calm
    OBVIOUS
  <2> QED
    BY InitInv DEF Init, Calm, Quiet
<1>2. Calm /\ [Next]_vars => Calm'
  BY CalmNext
<1>3. Calm => ClaimIsHeld
  <2> SUFFICES ASSUME Calm, NEW a \in Action, NEW d \in Daemon, Unreported(d, a)
               PROVE  Holds(d, a)
    BY DEF Calm, ClaimIsHeld
  <2>1. CASE agent[d].pc = "executing" /\ agent[d].action = a
    BY <2>1 DEF Holds
  <2>2. ASSUME NEW c \in calls, c.daemon = d, InHand(c, a) PROVE Holds(d, a)
    <3>1. /\ Live(c) /\ CallOK(c) /\ c \in Exchange
          /\ c.kind = "report" => agent[d].action = c.action
      BY <2>2, OnlyCall DEF Calm
    <3> QED
      BY <2>2, <3>1 DEF InHand, Holds, CallOK
  <2> QED
    BY <2>1, <2>2 DEF Unreported
<1> QED
  BY <1>1, <1>2, <1>3, PTL DEF Spec

-----------------------------------------------------------------------------
(* When nothing fails and each endpoint has one daemon. *)

OneDaemonEach == \A d, e \in Daemon : At[d] = At[e] => d = e

\* An action in hand is claimed, and one that is selected is still queued,
\* unless it was deleted meanwhile.
Orderly ==
    /\ Quiet
    /\ \A d \in Daemon, a \in Action : Unreported(d, a) => status[a] \in {"claimed", "deleted"}
    /\ \A c \in calls : c.kind = "claim" /\ c.phase = "selected" =>
         status[c.action] \in {"queued", "deleted"}

\* An action is in the hands of a daemon of its endpoint.
LEMMA HandsAreOwn ==
    ASSUME Quiet, NEW d \in Daemon, NEW a \in Action, Unreported(d, a)
    PROVE  Target[a] = At[d]
<1>1. CASE agent[d].pc = "executing" /\ agent[d].action = a
  BY <1>1 DEF Quiet, Inv, AgentOK
<1>2. ASSUME NEW c \in calls, c.daemon = d, InHand(c, a) PROVE Target[a] = At[d]
  <2>1. CallOK(c) /\ (c.kind = "report" => Target[c.action] = At[c.daemon])
    BY OnlyCall
  <2> QED
    BY <1>2, <2>1, XdrAssumption DEF InHand, CallOK, ClaimOK
<1> QED
  BY <1>1, <1>2 DEF Unreported

\* A selected claim was selected before, or selects a queued action.
LEMMA PickedQueued ==
    ASSUME ~Faults, Quiet, [Next]_vars, NEW k \in calls', k.kind = "claim", k.phase = "selected"
    PROVE  k \in calls \/ status[k.action] = "queued"
<1> SUFFICES ASSUME k \notin calls PROVE status[k.action] = "queued"
  OBVIOUS
<1>1. ASSUME NEW d \in Daemon, Poll(d) \/ Execute(d) PROVE FALSE
  BY <1>1 DEF Poll, Execute, Request
<1>2. ASSUME NEW c \in calls, Xdr(c) \/ Deliver(c) PROVE status[k.action] = "queued"
  <2>1. c \in Exchange
    BY OnlyCall
  <2>2. CASE ClaimSelect(c)
    <3>1. CASE Answered(c, NoAction)
      BY <2>1, <3>1 DEF Answered, Become, Exchange
    <3>2. ASSUME NEW a \in Queued(At[c.daemon]),
                 Become(c, {[c EXCEPT !.phase = "selected", !.action = a]})
          PROVE  status[k.action] = "queued"
      <4>1. k = [c EXCEPT !.phase = "selected", !.action = a]
        BY <3>2 DEF Become
      <4>2. k.action = a
        BY <2>1, <4>1 DEF Exchange
      <4> QED
        BY <4>2 DEF Queued
    <3> QED
      BY <2>2, <3>1, <3>2 DEF ClaimSelect
  <2>3. CASE ClaimUpdate(c)
    BY <2>1, <2>3 DEF ClaimUpdate, Answered, Become, Exchange
  <2>4. CASE ReportSelect(c)
    <3>1. c.kind = "report"
      BY <2>4 DEF ReportSelect
    <3>2. CASE Answered(c, c.action)
      BY <2>1, <3>2 DEF Answered, Become, Exchange
    <3>3. CASE Become(c, {[c EXCEPT !.phase = "selected"]})
      <4>1. k = [c EXCEPT !.phase = "selected"]
        BY <3>3 DEF Become
      <4>2. k.kind = c.kind
        BY <2>1, <4>1 DEF Exchange
      <4> QED
        BY <3>1, <4>2
    <3> QED
      BY <2>4, <3>2, <3>3 DEF ReportSelect
  <2>5. CASE ReportUpdate(c)
    BY <2>1, <2>5 DEF ReportUpdate, Answered, Become, Exchange
  <2>6. CASE Deliver(c)
    BY <2>6 DEF Deliver, Become
  <2> QED
    BY <1>2, <2>2, <2>3, <2>4, <2>5, <2>6 DEF Xdr
<1>3. calls' # calls
  OBVIOUS
<1> QED
  BY <1>1, <1>2, <1>3
     DEF Next, vars, Loop, Gateway, DraftAction, InsertAction, StartDelete, FinishDelete,
         PostTelemetry, AgentDeadline, DaemonRestart, GatewayRetry, GatewayError

\* Another claim that has selected an action has selected another action.
LEMMA SelectedApart ==
    ASSUME Quiet, OneDaemonEach, NEW c \in calls, NEW k \in calls, k # c,
           k.kind = "claim", k.phase = "selected", c.action \in Action,
           Target[c.action] = At[c.daemon]
    PROVE  k.action # c.action
<1>1. CallOK(k) /\ k.daemon # c.daemon /\ k.daemon \in Daemon /\ c.daemon \in Daemon
  BY OnlyCall DEF Exchange
<1>2. Target[k.action] = At[k.daemon]
  BY <1>1, XdrAssumption DEF CallOK, ClaimOK
<1> QED
  BY <1>1, <1>2 DEF OneDaemonEach

LEMMA OrderlyNext ==
    ASSUME ~Faults, OneDaemonEach, Orderly, [Next]_vars
    PROVE  Orderly' /\ [LC!Next]_status
<1>1. Quiet /\ Quiet' /\ status \in [Action -> Status]
  BY QuietNext DEF Orderly, Quiet, Inv, TypeOK
<1>2. \A k \in calls' : k.kind = "claim" /\ k.phase = "selected" =>
        /\ status[k.action] \in {"queued", "deleted"}
        /\ k.action \in Action
  <2> SUFFICES ASSUME NEW k \in calls', k.kind = "claim", k.phase = "selected"
               PROVE  status[k.action] \in {"queued", "deleted"} /\ k.action \in Action
    OBVIOUS
  <2>1. status[k.action] \in {"queued", "deleted"}
    BY PickedQueued DEF Orderly, Quiet
  <2>2. k.action \in Action
    BY <1>1 DEF Quiet, Inv, CallOK
  <2> QED
    BY <2>1, <2>2
<1>3. CASE RowsStay
  <2>1. Orderly'
    BY <1>1, <1>2, <1>3 DEF Orderly, RowsStay, Steady
  <2> QED
    BY <1>3, <2>1 DEF RowsStay
<1>4. CASE RowsMove
  <2>1. ASSUME NEW a \in Action, status[a] \in {"claimed", "deleted"}
        PROVE  status'[a] \in {"claimed", "deleted"}
    BY <1>1, <1>4, <2>1 DEF RowsMove, DraftAction, InsertAction, FinishDelete
  <2>2. ASSUME NEW a \in Action, status[a] \in {"queued", "deleted"}
        PROVE  status'[a] \in {"queued", "deleted"}
    BY <1>1, <1>4, <2>2 DEF RowsMove, DraftAction, InsertAction, FinishDelete
  <2>3. Orderly'
    BY <1>1, <1>2, <1>4, <2>1, <2>2 DEF Orderly, RowsMove, Steady
  <2>4. ASSUME NEW a \in Action, DraftAction(a) \/ InsertAction(a) PROVE LC!Next
    BY <2>4 DEF DraftAction, InsertAction, LC!Next, LC!Draft, LC!Queue, LC!Move
  <2>5. ASSUME NEW e \in Endpoint, FinishDelete(e) PROVE LC!Next
    <3> DEFINE A == {a \in Action : Target[a] = e /\ HasRow(a)}
    <3>1. \A a \in A : status[a] \in {"queued", "claimed"} \cup LC!Outcome
      BY <1>1 DEF HasRow, Status, Unborn, Outcome, LC!Outcome
    <3>2. status' = [a \in Action |-> IF a \in A THEN "deleted" ELSE status[a]]
      BY <2>5 DEF FinishDelete
    <3>3. A \in SUBSET Action
      OBVIOUS
    <3> HIDE DEF A
    <3> QED
      BY <3>1, <3>2, <3>3 DEF LC!Next, LC!Delete
  <2> QED
    BY <1>4, <2>3, <2>4, <2>5 DEF RowsMove
<1>5. ASSUME NEW c \in calls, ClaimUpdate(c)
      PROVE  Orderly' /\ [LC!Next]_status
  <2> DEFINE a == c.action
  <2>1. /\ c.kind = "claim" /\ c.phase = "selected"
        /\ c \in Exchange /\ CallOK(c) /\ a \in Action
        /\ status' = IF HasRow(a) THEN [status EXCEPT ![a] = "claimed"] ELSE status
    BY <1>1, <1>5, OnlyCall, ClaimUpdateQuiet DEF ClaimUpdate
  <2>2. status[a] \in {"queued", "deleted"} /\ Target[a] = At[c.daemon]
    BY <2>1, XdrAssumption DEF Orderly, CallOK, ClaimOK
  <2>3. status'[a] \in {"claimed", "deleted"} /\ \A b \in Action \ {a} : status'[b] = status[b]
    BY <1>1, <2>1, <2>2 DEF HasRow, Unborn
  <2>4. \A d \in Daemon, b \in Action : Unreported(d, b)' => status'[b] \in {"claimed", "deleted"}
    BY <1>1, <1>5, <2>3, ClaimUpdateQuiet DEF Orderly
  <2>5. ASSUME NEW k \in calls', k.kind = "claim", k.phase = "selected"
        PROVE  status'[k.action] \in {"queued", "deleted"}
    <3>1. k \in calls /\ k # c
      BY <1>5, <2>1, <2>5 DEF ClaimUpdate, Answered, Become, Exchange
    <3>2. k.action # a
      BY <1>1, <2>1, <2>2, <2>5, <3>1, SelectedApart
    <3> QED
      BY <1>2, <2>3, <2>5, <3>2
  <2>6. Orderly'
    BY <1>1, <2>4, <2>5 DEF Orderly
  <2>7. HasRow(a) => LC!Claim(a)
    BY <2>1, <2>2 DEF HasRow, LC!Claim, LC!Move
  <2> HIDE DEF a
  <2> QED
    BY <2>1, <2>6, <2>7 DEF LC!Next
<1>6. ASSUME NEW c \in calls, ReportSelect(c)
      PROVE  Orderly' /\ [LC!Next]_status
  <2>1. status' = status
    BY <1>6 DEF ReportSelect
  <2>2. Orderly'
    BY <1>1, <1>2, <1>6, <2>1, ReportSelectQuiet DEF Orderly
  <2> QED
    BY <2>1, <2>2
<1>7. ASSUME NEW c \in calls, ReportUpdate(c)
      PROVE  Orderly' /\ [LC!Next]_status
  <2> DEFINE a == c.action
  <2>1. /\ a \in Action /\ c.outcome \in Outcome /\ Target[a] = At[c.daemon]
        /\ c.daemon \in Daemon /\ Unreported(c.daemon, a)
        /\ status' = IF HasRow(a) THEN [status EXCEPT ![a] = c.outcome] ELSE status
    BY <1>1, <1>7, ReportUpdateQuiet
  <2>2. status[a] \in {"claimed", "deleted"}
    BY <2>1 DEF Orderly
  <2>3. \A b \in Action \ {a} : status'[b] = status[b]
    BY <1>1, <2>1
  <2>4. ASSUME NEW d \in Daemon, NEW b \in Action, Unreported(d, b)'
        PROVE  status'[b] \in {"claimed", "deleted"}
    <3>1. Unreported(d, b) /\ ~(d = c.daemon /\ b = a)
      BY <1>1, <1>7, <2>4, ReportUpdateQuiet
    <3>2. Target[b] = At[d]
      BY <1>1, <3>1, HandsAreOwn
    <3>3. b # a
      BY <2>1, <3>1, <3>2 DEF OneDaemonEach
    <3> QED
      BY <2>3, <3>1, <3>3 DEF Orderly
  <2>5. ASSUME NEW k \in calls', k.kind = "claim", k.phase = "selected"
        PROVE  status'[k.action] \in {"queued", "deleted"}
    <3>1. k \in calls /\ k # c
      <4>1. c \in Exchange
        BY <1>1, OnlyCall
      <4> QED
        BY <1>7, <2>5, <4>1 DEF ReportUpdate, Answered, Become, Exchange
    <3>2. k.action # a
      BY <1>1, <2>1, <2>5, <3>1, SelectedApart
    <3> QED
      BY <1>2, <2>3, <2>5, <3>2
  <2>6. Orderly'
    BY <1>1, <2>4, <2>5 DEF Orderly
  <2>7. HasRow(a) => LC!Finish(a)
    BY <2>1, <2>2 DEF HasRow, Outcome, LC!Finish, LC!Move, LC!Outcome
  <2> HIDE DEF a
  <2> QED
    BY <2>1, <2>6, <2>7 DEF LC!Next
<1> QED
  BY <1>1, <1>3, <1>4, <1>5, <1>6, <1>7, QuietNext

\* When nothing fails and each endpoint has one daemon, the status column
\* implements the life cycle that the analyst reads in it: queued once, claimed
\* once, finished once, and kept until the endpoint is deleted.
THEOREM LifecycleIsKept ==
    ASSUME ~Faults, OneDaemonEach PROVE Spec => LifecycleSpec
<1>1. Init => Orderly /\ LC!Init
  <2> SUFFICES ASSUME Init PROVE Orderly /\ LC!Init
    OBVIOUS
  <2>1. Quiet
    BY InitInv DEF Init, Quiet
  <2> QED
    BY <2>1 DEF Init, Orderly, Unreported, Idle, LC!Init
<1>2. Orderly /\ [Next]_vars => Orderly' /\ [LC!Next]_status
  BY OrderlyNext
<1> QED
  BY <1>1, <1>2, PTL DEF Spec, LifecycleSpec, LC!Spec
=============================================================================
