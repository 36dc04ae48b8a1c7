---------------------------- MODULE PlatformProofs ----------------------------
(***************************************************************************)
(* Theorems about the machines of MCPlatform, for any users, sessions,     *)
(* requests and bounds.  A machine is one behaviour of the whole: `part'   *)
(* never changes, and the others stand still.                              *)
(***************************************************************************)
EXTENDS MCPlatform, Integers, SequenceTheorems, FiniteSetTheorems, TLAPS

-----------------------------------------------------------------------------
(* A turn of the agent. *)

Approval == [call : AT!Call, state : {"open", "granted", "denied"}]

Turn == [pc : AT!Pc, session : Session \cup {None}, step : 0..MaxSteps,
         todo : Seq(AT!Call), outcome : {None, "ran", "barred", "denied"}]

\* The store holds each of the sessions that were made once at most.
StoreOK(q, m) ==
    /\ q \in Seq(Session) /\ m \subseteq Session /\ Len(q) <= MaxSessions
    /\ \A k \in DOMAIN q : q[k] \in m
    /\ \A k, l \in DOMAIN q : q[k] = q[l] => k = l

TurnTypes ==
    /\ lock \in [Session -> Request \cup {None}]
    /\ turn \in [Request -> Turn]
    /\ unanswered \in [Session -> SUBSET AT!Call]
    /\ pending \in [Session -> [Id -> Approval \cup {None}]]
    /\ calls \in 0..MaxCalls

\* Who holds the lock of a session is in a turn of it.
Locked(s) ==
    lock[s] # None => turn[lock[s]].session = s /\ turn[lock[s]].pc \notin {"idle", "accepted"}

\* Without a turn that was cut off, the calls that have no result are those
\* that the turn is still to run.
Pending(s) ==
    /\ \A c \in unanswered[s] : c.no <= calls
    /\ s \notin cut /\ lock[s] = None => unanswered[s] = {}
    /\ s \notin cut /\ lock[s] # None =>
         \A c \in unanswered[s] : \E k \in DOMAIN turn[lock[s]].todo : turn[lock[s]].todo[k] = c

\* An approval is that of a call with its id; it is granted only if the call is,
\* and waited for unless a turn was cut off.
Awaited(s, i) ==
    pending[s][i] # None =>
        /\ pending[s][i].call.id = i
        /\ pending[s][i].state = "granted" => pending[s][i].call \in granted
        /\ s \notin cut =>
             /\ lock[s] # None /\ turn[lock[s]].pc \in {"asking", "waiting"}
             /\ Head(turn[lock[s]].todo).id = i

\* A turn holds its lock, has calls to run while it runs them, and waits for
\* the approval of the very call it is to run.
InTurn(r) ==
    LET t == turn[r] IN
    /\ t.pc # "idle" => t.session \in Session
    /\ t.pc \notin {"idle", "accepted"} => lock[t.session] = r
    /\ t.pc \in {"accepted", "model"} => t.todo = <<>>
    /\ t.pc \in {"calls", "asking", "waiting", "running", "telling"} => t.todo # <<>>
    /\ t.pc \in {"asking", "waiting"} =>
         /\ pending[t.session][Head(t.todo).id] # None
         /\ pending[t.session][Head(t.todo).id].call = Head(t.todo)

TurnInv ==
    /\ StoreOK(stored, made)
    /\ TurnTypes
    /\ \A s \in Session : Locked(s) /\ Pending(s) /\ \A i \in Id : Awaited(s, i)
    /\ \A r \in Request : InTurn(r)
    /\ AT!WriteIsGranted

-----------------------------------------------------------------------------
(* The store: a session goes, or becomes the one that was used last. *)

\* What is left of a sequence without its i-th element.
LEMMA Without ==
    ASSUME NEW S, NEW q \in Seq(S), NEW i \in 1..Len(q)
    PROVE  LET p == SubSeq(q, 1, i - 1) \o SubSeq(q, i + 1, Len(q)) IN
           /\ p \in Seq(S) /\ Len(p) = Len(q) - 1
           /\ \A k \in 1..Len(q) - 1 : p[k] = q[IF k < i THEN k ELSE k + 1]
<1> DEFINE a == SubSeq(q, 1, i - 1)
           b == SubSeq(q, i + 1, Len(q))
           N == Len(q)
<1>1. N \in Nat /\ \A k \in 1..N : q[k] \in S
  BY LenProperties, ElementOfSeq
<1>2. i \in 1..N
  OBVIOUS
<1> HIDE DEF N
<1>3. /\ a \in Seq(S) /\ Len(a) = IF 1 <= i - 1 THEN i - 1 - 1 + 1 ELSE 0
      /\ \A k \in 1..(i - 1) - 1 + 1 : a[k] = q[1 + k - 1]
  <2>1. 1 \in Int /\ i - 1 \in Int /\ \A k \in 1..(i - 1) : q[k] \in S
    BY <1>1, <1>2
  <2> QED
    BY <2>1, SubSeqProperties
<1>4. /\ b \in Seq(S) /\ Len(b) = IF i + 1 <= N THEN N - (i + 1) + 1 ELSE 0
      /\ \A k \in 1..N - (i + 1) + 1 : b[k] = q[i + 1 + k - 1]
  <2>1. i + 1 \in Int /\ N \in Int /\ \A k \in (i + 1)..N : q[k] \in S
    BY <1>1, <1>2
  <2> QED
    BY <2>1, SubSeqProperties DEF N
<1> HIDE DEF a, b
<1>5. Len(a) = i - 1 /\ Len(b) = N - i
  BY <1>1, <1>2, <1>3, <1>4
<1>6. /\ a \o b \in Seq(S) /\ Len(a \o b) = Len(a) + Len(b)
      /\ \A k \in 1..Len(a) + Len(b) : (a \o b)[k] = IF k <= Len(a) THEN a[k] ELSE b[k - Len(a)]
  BY <1>3, <1>4, ConcatProperties
<1>7. Len(a \o b) = N - 1
  BY <1>1, <1>2, <1>5, <1>6
<1>8. ASSUME NEW k \in 1..N - 1 PROVE (a \o b)[k] = q[IF k < i THEN k ELSE k + 1]
  <2>1. (a \o b)[k] = IF k <= i - 1 THEN a[k] ELSE b[k - (i - 1)]
    <3>1. k \in 1..Len(a) + Len(b)
      BY <1>1, <1>2, <1>5
    <3> QED
      BY <1>5, <1>6, <3>1
  <2>2. CASE k < i
    <3>1. k \in 1..(i - 1) - 1 + 1 /\ k <= i - 1 /\ 1 + k - 1 = k
      BY <1>2, <2>2
    <3> QED
      BY <1>3, <2>1, <2>2, <3>1
  <2>3. CASE ~(k < i)
    <3>1. /\ k - (i - 1) \in 1..N - (i + 1) + 1 /\ ~(k <= i - 1)
          /\ i + 1 + (k - (i - 1)) - 1 = k + 1
      BY <1>1, <1>2, <2>3
    <3> QED
      BY <1>4, <2>1, <2>3, <3>1
  <2> QED
    BY <2>2, <2>3
<1> QED
  BY <1>6, <1>7, <1>8 DEF a, b, N

LEMMA OthersIs ==
    ASSUME StoreOK(stored, made), NEW s \in AT!Range(stored)
    PROVE  LET q == AT!Others(s) IN
           /\ StoreOK(q, made) /\ Len(q) = Len(stored) - 1
           /\ \A k \in DOMAIN q : q[k] # s
<1> DEFINE i == CHOOSE k \in DOMAIN stored : stored[k] = s
           q == AT!Others(s)
           N == Len(stored)
<1>1. N \in Nat /\ DOMAIN stored = 1..N /\ stored \in Seq(Session)
  BY LenProperties DEF StoreOK
<1>2. i \in 1..N /\ stored[i] = s
  BY <1>1 DEF AT!Range
<1> HIDE DEF i
<1>3. q = SubSeq(stored, 1, i - 1) \o SubSeq(stored, i + 1, Len(stored))
  BY DEF AT!Others, i
<1>4. /\ q \in Seq(Session) /\ Len(q) = N - 1
      /\ \A k \in 1..N - 1 : q[k] = stored[IF k < i THEN k ELSE k + 1]
  BY <1>1, <1>2, <1>3, Without
<1> HIDE DEF q, N
<1>5. DOMAIN q = 1..N - 1
  BY <1>4, LenProperties
<1> DEFINE j(k) == IF k < i THEN k ELSE k + 1
<1>6. \A k \in 1..N - 1 : j(k) \in 1..N /\ j(k) # i /\ q[k] = stored[j(k)]
  BY <1>1, <1>2, <1>4
<1>7. \A k, l \in 1..N - 1 : j(k) = j(l) => k = l
  BY <1>1, <1>2
<1> HIDE DEF j
<1>8. \A k \in 1..N - 1 : q[k] # s /\ q[k] \in made
  BY <1>1, <1>2, <1>6 DEF StoreOK
<1>9. \A k, l \in 1..N - 1 : q[k] = q[l] => k = l
  BY <1>1, <1>6, <1>7 DEF StoreOK
<1>10. N - 1 <= MaxSessions
  BY <1>1, TurnAssumption DEF StoreOK, N
<1> QED
  BY <1>4, <1>5, <1>8, <1>9, <1>10 DEF StoreOK, q, N

LEMMA AppendedIs ==
    ASSUME NEW q, NEW m, StoreOK(q, m), Len(q) < MaxSessions, NEW s \in Session,
           \A k \in DOMAIN q : q[k] # s
    PROVE  StoreOK(Append(q, s), m \cup {s})
<1> DEFINE N == Len(q)
           p == Append(q, s)
<1>1. N \in Nat /\ DOMAIN q = 1..N /\ q \in Seq(Session)
  BY LenProperties DEF StoreOK
<1>2. /\ p \in Seq(Session) /\ Len(p) = N + 1 /\ p[N + 1] = s
      /\ \A k \in 1..N : p[k] = q[k]
  BY <1>1, AppendProperties
<1>3. DOMAIN p = 1..N + 1 /\ N + 1 <= MaxSessions
  BY <1>1, <1>2, LenProperties, TurnAssumption
<1> HIDE DEF p, N
<1>4. \A k \in 1..N + 1 : k \in 1..N \/ k = N + 1
  BY <1>1
<1>5. \A k \in 1..N + 1 : p[k] \in m \cup {s}
  BY <1>1, <1>2, <1>4 DEF StoreOK
<1>6. \A k, l \in 1..N + 1 : p[k] = p[l] => k = l
  BY <1>1, <1>2, <1>4 DEF StoreOK
<1>7. m \cup {s} \subseteq Session
  BY DEF StoreOK
<1> QED
  BY <1>2, <1>3, <1>5, <1>6, <1>7 DEF StoreOK, p

LEMMA TouchedIs ==
    ASSUME StoreOK(stored, made), NEW s \in Session
    PROVE  StoreOK(AT!Touched(s), made)
<1>1. CASE s \notin AT!Range(stored)
  BY <1>1 DEF AT!Touched
<1>2. CASE s \in AT!Range(stored)
  <2> DEFINE q == AT!Others(s)
  <2>1. StoreOK(q, made) /\ Len(q) = Len(stored) - 1 /\ \A k \in DOMAIN q : q[k] # s
    BY <1>2, OthersIs
  <2> HIDE DEF q
  <2>2. Len(stored) \in Nat /\ Len(q) < MaxSessions
    <3>1. Len(stored) \in Nat
      BY LenProperties DEF StoreOK
    <3> QED
      BY <2>1, <3>1, TurnAssumption DEF StoreOK
  <2>3. s \in made
    BY <1>2 DEF StoreOK, AT!Range
  <2>4. StoreOK(Append(q, s), made \cup {s}) /\ made \cup {s} = made
    BY <2>1, <2>2, <2>3, AppendedIs
  <2>5. AT!Touched(s) = Append(q, s)
    BY <1>2 DEF AT!Touched, q
  <2> QED
    BY <2>4, <2>5
<1> QED
  BY <1>1, <1>2

LEMMA CreatedIs ==
    ASSUME StoreOK(stored, made), NEW s \in Session \ made, AT!CreateSession(s)
    PROVE  StoreOK(stored', made')
<1> DEFINE N == Len(stored)
           q == IF N < MaxSessions THEN stored ELSE Tail(stored)
<1>1. N \in Nat /\ DOMAIN stored = 1..N /\ stored \in Seq(Session)
  BY LenProperties DEF StoreOK
<1>2. StoreOK(q, made) /\ Len(q) < MaxSessions
  <2>1. CASE N < MaxSessions
    BY <2>1
  <2>2. CASE ~(N < MaxSessions)
    <3> DEFINE p == Tail(stored)
    <3>1. stored # <<>>
      BY <2>2, EmptySeq, TurnAssumption
    <3>2. p \in Seq(Session) /\ Len(p) = N - 1 /\ \A k \in 1..Len(p) : p[k] = stored[k + 1]
      BY <1>1, <3>1, HeadTailProperties
    <3>3. DOMAIN p = 1..N - 1
      BY <3>2, LenProperties
    <3> HIDE DEF p
    <3>4. N <= MaxSessions
      BY DEF StoreOK
    <3> HIDE DEF N
    <3>5. \A k \in 1..N - 1 : k + 1 \in 1..N /\ p[k] = stored[k + 1]
      BY <1>1, <3>2
    <3>6. \A k, l \in 1..N - 1 : p[k] = p[l] => k = l
      <4>1. \A k, l \in 1..N - 1 : p[k] = p[l] => k + 1 = l + 1
        BY <1>1, <3>5 DEF StoreOK
      <4> QED
        BY <1>1, <4>1
    <3>7. \A k \in 1..N - 1 : p[k] \in made
      BY <1>1, <3>5 DEF StoreOK
    <3>8. Len(p) < MaxSessions /\ Len(p) <= MaxSessions
      BY <1>1, <3>2, <3>4, TurnAssumption
    <3>9. StoreOK(p, made)
      BY <3>2, <3>3, <3>6, <3>7, <3>8 DEF StoreOK
    <3> QED
      BY <2>2, <3>8, <3>9 DEF p, N
  <2> QED
    BY <2>1, <2>2
<1>3. stored' = Append(q, s) /\ made' = made \cup {s}
  BY DEF AT!CreateSession
<1> HIDE DEF q
<1>4. \A k \in DOMAIN q : q[k] # s
  BY <1>2 DEF StoreOK
<1> QED
  BY <1>2, <1>3, <1>4, AppendedIs

-----------------------------------------------------------------------------
(* Steps of a turn. *)

\* What the store and the calls that were run have of the invariant.
Ledger == StoreOK(stored, made) /\ AT!WriteIsGranted

\* A step that neither holds nor takes a lock: of the requests only r changes,
\* and it is in no turn before or after.
LEMMA OutsideTurn ==
    ASSUME TurnInv, NEW r \in Request,
           turn[r].pc \in {"idle", "accepted"}, turn'[r].pc \in {"idle", "accepted"},
           turn'[r].pc = "accepted" => turn'[r].session \in Session /\ turn'[r].todo = <<>>,
           \A u \in Request \ {r} : turn'[u] = turn[u],
           UNCHANGED <<lock, unanswered, pending, calls, granted, cut>>,
           TurnTypes', Ledger'
    PROVE  TurnInv'
<1>1. \A s \in Session : lock[s] # None => lock[s] \in Request \ {r}
  BY DEF TurnInv, TurnTypes, Locked
<1>2. \A s \in Session : Locked(s)' /\ Pending(s)' /\ \A i \in Id : Awaited(s, i)'
  BY <1>1 DEF TurnInv, Locked, Pending, Awaited
<1>3. \A u \in Request : InTurn(u)'
  <2>1. InTurn(r)'
    BY DEF InTurn
  <2>2. \A u \in Request \ {r} : InTurn(u)'
    BY DEF TurnInv, InTurn
  <2> QED
    BY <2>1, <2>2
<1> QED
  BY <1>2, <1>3 DEF TurnInv, Ledger

\* A step of the turn that r has, or begins, in session s.
LEMMA InsideTurn ==
    ASSUME TurnInv, NEW r \in Request, NEW s \in Session,
           lock[s] \in {r, None},
           turn[r].session = s \/ turn[r].pc \in {"idle", "accepted"},
           \A u \in Request \ {r} : turn'[u] = turn[u],
           \A x \in Session \ {s} :
             /\ lock'[x] = lock[x] /\ unanswered'[x] = unanswered[x] /\ pending'[x] = pending[x]
             /\ x \in cut' <=> x \in cut,
           granted \subseteq granted', calls <= calls', calls' \in 0..MaxCalls,
           TurnTypes', Ledger',
           Locked(s)', Pending(s)', \A i \in Id : Awaited(s, i)', InTurn(r)'
    PROVE  TurnInv'
<1>1. ASSUME NEW x \in Session \ {s}
      PROVE  lock[x] # None => lock[x] \in Request \ {r}
  BY DEF TurnInv, TurnTypes, Locked
<1>2. ASSUME NEW x \in Session \ {s}
      PROVE  Locked(x)' /\ Pending(x)' /\ \A i \in Id : Awaited(x, i)'
  <2>1. Locked(x)'
    BY <1>1 DEF TurnInv, Locked
  <2>2. Pending(x)'
    <3>1. calls \in Int /\ calls' \in Int /\ \A c \in unanswered[x] : c.no \in Int /\ c.no <= calls
      <4>1. \A c \in unanswered[x] : c \in AT!Call
        BY DEF TurnInv, TurnTypes
      <4>2. \A c \in AT!Call : c.no \in Int
        BY TurnAssumption DEF AT!Call
      <4> QED
        BY <4>1, <4>2, TurnAssumption DEF TurnInv, TurnTypes, Pending
    <3>2. \A c \in unanswered[x] : c.no <= calls'
      BY <3>1
    <3> QED
      BY <1>1, <3>2 DEF TurnInv, Pending
  <2>3. ASSUME NEW i \in Id PROVE Awaited(x, i)'
    BY <1>1 DEF TurnInv, Awaited
  <2> QED
    BY <2>1, <2>2, <2>3
<1>3. ASSUME NEW u \in Request \ {r} PROVE InTurn(u)'
  <2>1. InTurn(u) /\ turn'[u] = turn[u]
    BY DEF TurnInv
  <2>2. CASE turn[u].pc \in {"idle", "accepted"}
    BY <2>1, <2>2 DEF InTurn
  <2>3. CASE turn[u].pc \notin {"idle", "accepted"}
    <3>1. turn[u].session \in Session \ {s}
      BY <2>1, <2>3, TurnAssumption DEF InTurn
    <3> QED
      BY <2>1, <2>3, <3>1 DEF InTurn
  <2> QED
    BY <2>2, <2>3
<1> QED
  BY <1>2, <1>3 DEF TurnInv, Ledger

\* What is known of the turn that r is in.
LEMMA TurnIs ==
    ASSUME TurnInv, NEW r \in Request, turn[r].pc \notin {"idle", "accepted"}
    PROVE  LET s == turn[r].session IN
           /\ s \in Session /\ lock[s] = r /\ Locked(s) /\ Pending(s) /\ \A i \in Id : Awaited(s, i)
           /\ InTurn(r) /\ turn[r] \in Turn
BY DEF TurnInv, TurnTypes, InTurn

LEMMA RestingIs == AT!Resting \in Turn /\ AT!Resting.pc = "idle"
<1>1. <<>> \in Seq(AT!Call)
  BY EmptySeq
<1> QED
  BY <1>1, TurnAssumption DEF AT!Resting, Turn, AT!Pc

LEMMA PcIs ==
    ASSUME NEW t \in Turn, NEW p \in AT!Pc
    PROVE  LET u == [t EXCEPT !.pc = p] IN
           u \in Turn /\ u.pc = p /\ u.session = t.session /\ u.todo = t.todo
BY DEF Turn

\* r changes to record t.
Becomes(r, t) ==
    turn' \in [Request -> Turn] /\ turn'[r] = t /\ \A u \in Request \ {r} : turn'[u] = turn[u]

LEMMA BecomesIs ==
    ASSUME TurnInv, NEW r \in Request, NEW t \in Turn, turn' = [turn EXCEPT ![r] = t]
    PROVE  Becomes(r, t)
BY DEF TurnInv, TurnTypes, Becomes

LEMMA LeavesIs ==
    ASSUME TurnInv, NEW r \in Request, turn[r].pc \notin {"idle", "accepted"}, AT!Leaves(r)
    PROVE  LET s == turn[r].session IN
           /\ Becomes(r, AT!Resting)
           /\ lock' \in [Session -> Request \cup {None}] /\ lock'[s] = None
           /\ \A x \in Session \ {s} : lock'[x] = lock[x]
<1>1. turn[r].session \in Session
  BY TurnIs
<1>2. turn' = [turn EXCEPT ![r] = AT!Resting] /\ lock' = [lock EXCEPT ![turn[r].session] = None]
  BY DEF AT!Leaves
<1> QED
  BY <1>1, <1>2, RestingIs, BecomesIs DEF TurnInv, TurnTypes

\* A turn that ends by itself has run all its calls.
LEMMA EndKeeps ==
    ASSUME TurnInv, NEW r \in Request, turn[r].pc = "model", AT!Leaves(r),
           stored' \in {stored, AT!Touched(turn[r].session)},
           UNCHANGED <<made, unanswered, pending, calls, granted, invoked, cut>>
    PROVE  TurnInv'
<1>1. PICK s \in Session :
        /\ s = turn[r].session /\ lock[s] = r /\ Pending(s) /\ \A i \in Id : Awaited(s, i)
        /\ InTurn(r)
  BY TurnIs
<1>2. /\ Becomes(r, AT!Resting)
      /\ lock' \in [Session -> Request \cup {None}] /\ lock'[s] = None
      /\ \A x \in Session \ {s} : lock'[x] = lock[x]
  BY <1>1, LeavesIs
<1>3. s \in cut \/ unanswered[s] = {}
  <2>1. DOMAIN turn[r].todo = {}
    BY <1>1, EmptySeq DEF InTurn
  <2> QED
    BY <1>1, <2>1, TurnAssumption DEF Pending
<1>4. \A i \in Id : s \in cut \/ pending[s][i] = None
  BY <1>1 DEF Awaited
<1>5. Ledger'
  BY <1>1, TouchedIs DEF TurnInv, Ledger, AT!WriteIsGranted
<1>6. TurnTypes'
  BY <1>2 DEF TurnInv, TurnTypes, Becomes
<1>7. Locked(s)' /\ Pending(s)' /\ \A i \in Id : Awaited(s, i)'
  BY <1>1, <1>2, <1>3, <1>4 DEF Locked, Pending, Awaited
<1>8. InTurn(r)'
  BY <1>2, RestingIs DEF Becomes, InTurn
<1> QED
  BY <1>1, <1>2, <1>5, <1>6, <1>7, <1>8, InsideTurn DEF Becomes, TurnInv, TurnTypes

LEMMA StoreStepKeeps ==
    ASSUME TurnInv, NEW s \in Session, AT!CreateSession(s) \/ AT!DropSession(s)
    PROVE  TurnInv'
<1>1. UNCHANGED <<lock, turn, unanswered, pending, calls, granted, invoked, cut>>
  BY DEF AT!CreateSession, AT!DropSession, AT!ghosts
<1>2. StoreOK(stored, made)'
  <2>1. StoreOK(stored, made)
    BY DEF TurnInv
  <2>2. CASE AT!CreateSession(s)
    <3>1. s \in Session \ made
      BY <2>2 DEF AT!CreateSession
    <3> QED
      BY <2>1, <2>2, <3>1, CreatedIs
  <2>3. CASE AT!DropSession(s)
    BY <2>1, <2>3, OthersIs DEF AT!DropSession
  <2> QED
    BY <2>2, <2>3
<1> QED
  BY <1>1, <1>2 DEF TurnInv, TurnTypes, Locked, Pending, Awaited, InTurn, AT!WriteIsGranted

LEMMA SendKeeps ==
    ASSUME TurnInv, NEW s \in Session, NEW r \in Request, AT!Send(r, s)
    PROVE  TurnInv'
<1> DEFINE t == [AT!Resting EXCEPT !.pc = "accepted", !.session = s]
<1>1. turn[r].pc = "idle" /\ stored' = AT!Touched(s) /\ turn' = [turn EXCEPT ![r] = t]
      /\ UNCHANGED <<made, lock, unanswered, pending, calls, granted, invoked, cut>>
  BY DEF AT!Send, AT!ghosts
<1>2. t \in Turn /\ t.pc = "accepted" /\ t.session = s /\ t.todo = <<>>
  BY RestingIs DEF AT!Resting, Turn, AT!Pc
<1> HIDE DEF t
<1>3. Becomes(r, t)
  BY <1>1, <1>2, BecomesIs
<1>4. Ledger'
  BY <1>1, TouchedIs DEF TurnInv, Ledger, AT!WriteIsGranted
<1>5. TurnTypes'
  BY <1>1, <1>3 DEF TurnInv, TurnTypes, Becomes
<1> QED
  BY <1>1, <1>2, <1>3, <1>4, <1>5, OutsideTurn DEF Becomes

\* A request whose turn has not begun is forgotten.
LEMMA WithdrawKeeps ==
    ASSUME TurnInv, NEW r \in Request, turn[r].pc = "accepted",
           turn' = [turn EXCEPT ![r] = AT!Resting],
           UNCHANGED <<stored, made, lock, unanswered, pending, calls, granted, invoked, cut>>
    PROVE  TurnInv'
<1>1. Becomes(r, AT!Resting)
  BY RestingIs, BecomesIs
<1>2. Ledger'
  BY DEF TurnInv, Ledger, AT!WriteIsGranted
<1>3. TurnTypes'
  BY <1>1 DEF TurnInv, TurnTypes, Becomes
<1> QED
  BY <1>1, <1>2, <1>3, RestingIs, OutsideTurn DEF Becomes

LEMMA BeginKeeps ==
    ASSUME TurnInv, NEW r \in Request, AT!Begin(r)
    PROVE  TurnInv'
<1>1. /\ turn[r].pc = "accepted"
      /\ UNCHANGED <<made, unanswered, pending, calls, granted, invoked, cut>>
  BY DEF AT!Begin, AT!ghosts
<1>2. PICK s \in Session : s = turn[r].session
  BY <1>1 DEF TurnInv, InTurn
<1>3. CASE lock[s] # None
  BY <1>1, <1>2, <1>3, WithdrawKeeps DEF AT!Begin
<1>4. CASE lock[s] = None
  <2> DEFINE t == [turn[r] EXCEPT !.pc = "model"]
  <2>1. /\ turn' = [turn EXCEPT ![r] = t] /\ lock' = [lock EXCEPT ![s] = r]
        /\ stored' = AT!Touched(s)
    BY <1>2, <1>4 DEF AT!Begin
  <2>2. t \in Turn /\ t.pc = "model" /\ t.session = s /\ t.todo = <<>>
    <3>1. turn[r] \in Turn /\ turn[r].session = s /\ turn[r].todo = <<>>
      BY <1>1, <1>2 DEF TurnInv, TurnTypes, InTurn
    <3>2. "model" \in AT!Pc
      BY DEF AT!Pc
    <3> QED
      BY <3>1, <3>2, PcIs
  <2> HIDE DEF t
  <2>3. Becomes(r, t)
    BY <2>1, <2>2, BecomesIs
  <2>4. /\ lock' \in [Session -> Request \cup {None}] /\ lock'[s] = r
        /\ \A x \in Session \ {s} : lock'[x] = lock[x]
    BY <2>1 DEF TurnInv, TurnTypes
  <2>5. Ledger'
    BY <1>1, <2>1, TouchedIs DEF TurnInv, Ledger, AT!WriteIsGranted
  <2>6. TurnTypes'
    BY <1>1, <2>3, <2>4 DEF TurnInv, TurnTypes, Becomes
  <2>7. Pending(s) /\ \A i \in Id : Awaited(s, i)
    BY DEF TurnInv
  <2>8. Locked(s)' /\ Pending(s)' /\ (\A i \in Id : Awaited(s, i)') /\ InTurn(r)'
    BY <1>1, <1>4, <2>2, <2>3, <2>4, <2>7 DEF Locked, Pending, Awaited, InTurn, Becomes
  <2> QED
    BY <1>1, <1>2, <1>4, <2>3, <2>4, <2>5, <2>6, <2>8, InsideTurn DEF Becomes, TurnInv, TurnTypes
<1> QED
  BY <1>3, <1>4

-----------------------------------------------------------------------------
(* The tools that a turn runs. *)

\* A step of the turn that leaves its calls and its approvals as they are.
LEMMA MoveKeeps ==
    ASSUME TurnInv, NEW r \in Request, NEW t \in Turn, Becomes(r, t),
           t.session = turn[r].session, t.todo = turn[r].todo,
           \/ turn[r].pc \in {"calls", "running"} /\ t.pc \in {"running", "telling"}
           \/ turn[r].pc = "asking" /\ t.pc = "waiting",
           UNCHANGED <<lock, unanswered, pending, calls, granted, cut>>,
           Ledger'
    PROVE  TurnInv'
<1>1. PICK s \in Session :
        /\ s = turn[r].session /\ lock[s] = r /\ Pending(s) /\ \A i \in Id : Awaited(s, i)
        /\ InTurn(r)
  BY TurnIs
<1>2. TurnTypes'
  BY DEF TurnInv, TurnTypes, Becomes
<1>3. \A i \in Id : Awaited(s, i)'
  BY <1>1, TurnAssumption DEF Awaited, Becomes
<1>4. Locked(s)' /\ Pending(s)' /\ InTurn(r)'
  BY <1>1, TurnAssumption DEF Locked, Pending, InTurn, Becomes
<1> QED
  BY <1>1, <1>2, <1>3, <1>4, InsideTurn DEF Becomes, TurnInv, TurnTypes

\* The next call of the turn.
LEMMA NextCallIs ==
    ASSUME TurnInv, NEW r \in Request, turn[r].pc \in {"calls", "asking", "waiting", "running", "telling"}
    PROVE  LET q == turn[r].todo IN
           /\ q \in Seq(AT!Call) /\ q # <<>> /\ Head(q) \in AT!Call /\ Head(q).id \in Id
           /\ Tail(q) \in Seq(AT!Call) /\ Len(Tail(q)) = Len(q) - 1 /\ Len(q) \in Nat \ {0}
           /\ \A k \in 1..Len(q) - 1 : Tail(q)[k] = q[k + 1]
           /\ Head(q) = q[1] /\ DOMAIN q = 1..Len(q)
<1> DEFINE q == turn[r].todo
<1>1. q \in Seq(AT!Call) /\ q # <<>>
  BY TurnIs DEF Turn, InTurn
<1> HIDE DEF q
<1>2. /\ Head(q) \in AT!Call /\ Tail(q) \in Seq(AT!Call) /\ Len(Tail(q)) = Len(q) - 1
      /\ \A k \in 1..Len(Tail(q)) : Tail(q)[k] = q[k + 1]
  BY <1>1, HeadTailProperties
<1>3. Len(q) \in Nat \ {0} /\ DOMAIN q = 1..Len(q)
  BY <1>1, EmptySeq, LenProperties
<1>4. Head(q) = q[1] /\ Head(q).id \in Id
  BY <1>1, <1>2 DEF AT!Call
<1> QED
  BY <1>1, <1>2, <1>3, <1>4 DEF q

\* A tool is started.
LEMMA InvokesIs ==
    ASSUME TurnInv, NEW r \in Request, turn[r].pc \in {"calls", "waiting"},
           NEW c, AT!Invokes(r, c), c.kind = "write" => c \in granted,
           UNCHANGED <<granted>>
    PROVE  \E t \in Turn : /\ Becomes(r, t) /\ t.pc = "running"
                           /\ t.session = turn[r].session /\ t.todo = turn[r].todo
                           /\ AT!WriteIsGranted'
<1> DEFINE t == [turn[r] EXCEPT !.pc = "running"]
<1>1. turn' = [turn EXCEPT ![r] = t] /\ invoked' = invoked \cup {c}
  BY DEF AT!Invokes
<1>2. turn[r] \in Turn /\ "running" \in AT!Pc
  BY DEF TurnInv, TurnTypes, AT!Pc
<1>3. t \in Turn /\ t.pc = "running" /\ t.session = turn[r].session /\ t.todo = turn[r].todo
  BY <1>2, PcIs
<1> HIDE DEF t
<1>4. Becomes(r, t)
  BY <1>1, <1>3, BecomesIs
<1>5. AT!WriteIsGranted'
  BY <1>1 DEF TurnInv, AT!WriteIsGranted
<1> QED
  BY <1>3, <1>4, <1>5

LEMMA ReadToolKeeps ==
    ASSUME TurnInv, NEW r \in Request, AT!RunReadTool(r)
    PROVE  TurnInv'
<1>1. /\ turn[r].pc = "calls" /\ Head(turn[r].todo).kind = "read"
      /\ AT!Invokes(r, Head(turn[r].todo))
      /\ UNCHANGED <<stored, made, lock, unanswered, pending, calls, granted, cut>>
  BY DEF AT!RunReadTool
<1>2. PICK t \in Turn : /\ Becomes(r, t) /\ t.pc = "running"
                        /\ t.session = turn[r].session /\ t.todo = turn[r].todo
                        /\ AT!WriteIsGranted'
  BY <1>1, InvokesIs
<1>3. Ledger'
  BY <1>1, <1>2 DEF Ledger, TurnInv
<1> QED
  BY <1>1, <1>2, <1>3, MoveKeeps

LEMMA ToolEndsKeeps ==
    ASSUME TurnInv, NEW r \in Request, AT!ToolEnds(r)
    PROVE  TurnInv'
<1> DEFINE t == [turn[r] EXCEPT !.pc = "telling", !.outcome = "ran"]
<1>1. /\ turn[r].pc = "running"
      /\ turn' = [turn EXCEPT ![r].pc = "telling", ![r].outcome = "ran"]
      /\ UNCHANGED <<stored, made, lock, unanswered, pending, calls, granted, invoked, cut>>
  BY DEF AT!ToolEnds
<1>2. turn[r] \in Turn /\ "telling" \in AT!Pc
  BY DEF TurnInv, TurnTypes, AT!Pc
<1>3. t \in Turn /\ t.pc = "telling" /\ t.session = turn[r].session /\ t.todo = turn[r].todo
  BY <1>2 DEF Turn
<1>4. turn' = [turn EXCEPT ![r] = t]
  BY <1>1 DEF TurnInv, TurnTypes
<1> HIDE DEF t
<1>5. Becomes(r, t)
  BY <1>3, <1>4, BecomesIs
<1>6. Ledger'
  BY <1>1 DEF TurnInv, Ledger, AT!WriteIsGranted
<1> QED
  BY <1>1, <1>3, <1>5, <1>6, MoveKeeps

LEMMA RefuseKeeps ==
    ASSUME TurnInv, NEW r \in Request, AT!Refuse(r)
    PROVE  TurnInv'
<1> DEFINE t == [turn[r] EXCEPT !.pc = "telling", !.outcome = "barred"]
<1>1. /\ turn[r].pc = "calls"
      /\ turn' = [turn EXCEPT ![r].pc = "telling", ![r].outcome = "barred"]
      /\ UNCHANGED <<stored, made, lock, unanswered, pending, calls, granted, invoked, cut>>
  BY DEF AT!Refuse, AT!ghosts
<1>2. turn[r] \in Turn /\ "telling" \in AT!Pc
  BY DEF TurnInv, TurnTypes, AT!Pc
<1>3. t \in Turn /\ t.pc = "telling" /\ t.session = turn[r].session /\ t.todo = turn[r].todo
  BY <1>2 DEF Turn
<1>4. turn' = [turn EXCEPT ![r] = t]
  BY <1>1 DEF TurnInv, TurnTypes
<1> HIDE DEF t
<1>5. Becomes(r, t)
  BY <1>3, <1>4, BecomesIs
<1>6. Ledger'
  BY <1>1 DEF TurnInv, Ledger, AT!WriteIsGranted
<1> QED
  BY <1>1, <1>3, <1>5, <1>6, MoveKeeps

LEMMA WaitKeeps ==
    ASSUME TurnInv, NEW r \in Request, AT!Wait(r)
    PROVE  TurnInv'
<1> DEFINE t == [turn[r] EXCEPT !.pc = "waiting"]
<1>1. /\ turn[r].pc = "asking" /\ turn' = [turn EXCEPT ![r] = t]
      /\ UNCHANGED <<stored, made, lock, unanswered, pending, calls, granted, invoked, cut>>
  BY DEF AT!Wait, AT!ghosts
<1>2. turn[r] \in Turn /\ "waiting" \in AT!Pc
  BY DEF TurnInv, TurnTypes, AT!Pc
<1>3. t \in Turn /\ t.pc = "waiting" /\ t.session = turn[r].session /\ t.todo = turn[r].todo
  BY <1>2, PcIs
<1> HIDE DEF t
<1>4. Becomes(r, t)
  BY <1>1, <1>3, BecomesIs
<1>5. Ledger'
  BY <1>1 DEF TurnInv, Ledger, AT!WriteIsGranted
<1> QED
  BY <1>1, <1>3, <1>4, <1>5, MoveKeeps

LEMMA AskApprovalKeeps ==
    ASSUME TurnInv, NEW r \in Request, AT!AskApproval(r)
    PROVE  TurnInv'
<1> DEFINE t == [turn[r] EXCEPT !.pc = "asking"]
<1>1. PICK s \in Session :
        /\ s = turn[r].session /\ lock[s] = r /\ Pending(s) /\ \A i \in Id : Awaited(s, i)
        /\ InTurn(r)
  BY TurnIs DEF AT!AskApproval
<1>2. PICK c \in AT!Call : c = Head(turn[r].todo) /\ c.id \in Id
  BY NextCallIs DEF AT!AskApproval
<1> DEFINE p == [call |-> c, state |-> "open"]
<1>3. /\ turn[r].pc = "calls" /\ turn' = [turn EXCEPT ![r] = t]
      /\ pending' = [pending EXCEPT ![s][c.id] = p]
      /\ UNCHANGED <<stored, made, lock, unanswered, calls, granted, invoked, cut>>
  BY <1>1, <1>2 DEF AT!AskApproval, AT!Future, AT!ghosts
<1>4. turn[r] \in Turn /\ "asking" \in AT!Pc
  BY DEF TurnInv, TurnTypes, AT!Pc
<1>5. t \in Turn /\ t.pc = "asking" /\ t.session = s /\ t.todo = turn[r].todo
  BY <1>1, <1>4, PcIs
<1> HIDE DEF t
<1>6. Becomes(r, t)
  BY <1>3, <1>5, BecomesIs
<1>7. p \in Approval /\ p # None /\ p.call = c /\ p.state = "open"
  BY TurnAssumption DEF Approval, AT!Call, AT!ToolKind
<1> HIDE DEF p
<1>8. /\ pending' \in [Session -> [Id -> Approval \cup {None}]]
      /\ pending'[s][c.id] = p
      /\ \A i \in Id \ {c.id} : pending'[s][i] = pending[s][i]
      /\ \A x \in Session \ {s} : pending'[x] = pending[x]
  BY <1>2, <1>3, <1>7 DEF TurnInv, TurnTypes
<1>9. Ledger'
  BY <1>3 DEF TurnInv, Ledger, AT!WriteIsGranted
<1>10. TurnTypes'
  BY <1>3, <1>6, <1>8 DEF TurnInv, TurnTypes, Becomes
<1>11. ASSUME NEW i \in Id PROVE Awaited(s, i)'
  <2>1. CASE i = c.id
    BY <1>1, <1>2, <1>3, <1>5, <1>6, <1>7, <1>8, <2>1, TurnAssumption DEF Awaited, Becomes
  <2>2. CASE i # c.id
    BY <1>1, <1>3, <1>8, <2>2 DEF Awaited
  <2> QED
    BY <2>1, <2>2
<1>12. Locked(s)' /\ Pending(s)' /\ InTurn(r)'
  BY <1>1, <1>2, <1>3, <1>5, <1>6, <1>7, <1>8 DEF Locked, Pending, InTurn, Becomes
<1> QED
  BY <1>1, <1>3, <1>6, <1>8, <1>9, <1>10, <1>11, <1>12, InsideTurn DEF Becomes, TurnInv, TurnTypes

\* The approval that r waits for is taken back.
LEMMA PopIs ==
    ASSUME TurnInv, NEW s \in Session, NEW i,
           pending' = [pending EXCEPT ![s] = AT!Pop(@, i)]
    PROVE  /\ pending' \in [Session -> [Id -> Approval \cup {None}]]
           /\ i \in Id => pending'[s][i] = None
           /\ \A j \in Id \ {i} : pending'[s][j] = pending[s][j]
           /\ \A x \in Session \ {s} : pending'[x] = pending[x]
<1> DEFINE p == [pending[s] EXCEPT ![i] = None]
<1>1. pending[s] \in [Id -> Approval \cup {None}]
  BY DEF TurnInv, TurnTypes
<1>2. /\ p \in [Id -> Approval \cup {None}]
      /\ i \in Id => p[i] = None
      /\ \A j \in Id \ {i} : p[j] = pending[s][j]
  BY <1>1
<1>3. pending' = [pending EXCEPT ![s] = p]
  BY DEF AT!Pop
<1> HIDE DEF p
<1> QED
  BY <1>2, <1>3 DEF TurnInv, TurnTypes

LEMMA ResumeKeeps ==
    ASSUME TurnInv, NEW r \in Request, AT!Resume(r)
    PROVE  TurnInv'
<1>1. PICK s \in Session :
        /\ s = turn[r].session /\ lock[s] = r /\ Pending(s) /\ \A i \in Id : Awaited(s, i)
        /\ InTurn(r)
  BY TurnIs DEF AT!Resume
<1>2. PICK c \in AT!Call : c = Head(turn[r].todo) /\ c.id \in Id
  BY NextCallIs DEF AT!Resume
<1>3. /\ turn[r].pc = "waiting" /\ pending' = [pending EXCEPT ![s] = AT!Pop(@, c.id)]
      /\ \/ pending[s][c.id].state = "granted" /\ AT!Invokes(r, c)
         \/ /\ turn' = [turn EXCEPT ![r].pc = "telling", ![r].outcome = "denied"]
            /\ UNCHANGED invoked
      /\ UNCHANGED <<stored, made, lock, unanswered, calls, granted, cut>>
  BY <1>1, <1>2 DEF AT!Resume
<1>4. \E t \in Turn : /\ Becomes(r, t) /\ t.pc \in {"running", "telling"}
                      /\ t.session = turn[r].session /\ t.todo = turn[r].todo
                      /\ AT!WriteIsGranted'
  <2>1. CASE pending[s][c.id].state = "granted" /\ AT!Invokes(r, c)
    <3>1. c \in granted
      BY <1>1, <1>2, <1>3, <2>1 DEF InTurn, Awaited
    <3> QED
      BY <1>3, <2>1, <3>1, InvokesIs
  <2>2. CASE /\ turn' = [turn EXCEPT ![r].pc = "telling", ![r].outcome = "denied"]
             /\ UNCHANGED invoked
    <3> DEFINE t == [turn[r] EXCEPT !.pc = "telling", !.outcome = "denied"]
    <3>1. turn[r] \in Turn /\ "telling" \in AT!Pc
      BY DEF TurnInv, TurnTypes, AT!Pc
    <3>2. t \in Turn /\ t.pc = "telling" /\ t.session = turn[r].session /\ t.todo = turn[r].todo
      BY <3>1 DEF Turn
    <3>3. turn' = [turn EXCEPT ![r] = t]
      BY <2>2 DEF TurnInv, TurnTypes
    <3> HIDE DEF t
    <3>4. Becomes(r, t)
      BY <3>2, <3>3, BecomesIs
    <3>5. AT!WriteIsGranted'
      BY <1>3, <2>2 DEF TurnInv, AT!WriteIsGranted
    <3> QED
      BY <3>2, <3>4, <3>5
  <2> QED
    BY <1>3, <2>1, <2>2
<1>5. PICK t \in Turn : /\ Becomes(r, t) /\ t.pc \in {"running", "telling"}
                        /\ t.session = turn[r].session /\ t.todo = turn[r].todo
                        /\ AT!WriteIsGranted'
  BY <1>4
<1>6. /\ pending' \in [Session -> [Id -> Approval \cup {None}]]
      /\ pending'[s][c.id] = None
      /\ \A i \in Id \ {c.id} : pending'[s][i] = pending[s][i]
      /\ \A x \in Session \ {s} : pending'[x] = pending[x]
  <2>1. pending' = [pending EXCEPT ![s] = AT!Pop(@, c.id)]
    BY <1>3
  <2> QED
    BY <1>2, <2>1, PopIs
<1>7. Ledger'
  BY <1>3, <1>5 DEF TurnInv, Ledger
<1>8. TurnTypes'
  BY <1>3, <1>5, <1>6 DEF TurnInv, TurnTypes, Becomes
<1>9. ASSUME NEW i \in Id PROVE Awaited(s, i)'
  <2>1. CASE i = c.id
    BY <1>6, <2>1 DEF Awaited
  <2>2. CASE i # c.id
    <3>1. s \notin cut => pending[s][i] = None
      BY <1>1, <1>2, <2>2 DEF Awaited
    <3>2. Awaited(s, i) /\ UNCHANGED <<granted, cut>> /\ pending'[s][i] = pending[s][i]
      BY <1>1, <1>3, <1>6, <2>2
    <3> QED
      BY <3>1, <3>2 DEF Awaited
  <2> QED
    BY <2>1, <2>2
<1>10. Locked(s)' /\ Pending(s)' /\ InTurn(r)'
  <2>1. UNCHANGED <<lock, unanswered, calls, cut>> /\ turn[r].pc = "waiting"
    BY <1>3
  <2>2. turn'[r].pc \in {"running", "telling"} /\ turn'[r].session = s /\ turn'[r].todo = turn[r].todo
    BY <1>1, <1>5 DEF Becomes
  <2>3. Locked(s)'
    BY <1>1, <2>1, <2>2 DEF Locked
  <2>4. Pending(s)'
    BY <1>1, <2>1, <2>2, TurnAssumption DEF Pending
  <2>5. InTurn(r)'
    BY <1>1, <2>1, <2>2 DEF InTurn
  <2> QED
    BY <2>3, <2>4, <2>5
<1> QED
  BY <1>1, <1>3, <1>5, <1>6, <1>7, <1>8, <1>9, <1>10, InsideTurn DEF Becomes, TurnInv, TurnTypes

LEMMA CutKeeps ==
    ASSUME TurnInv, NEW r \in Request, AT!Cut(r)
    PROVE  TurnInv'
<1>1. CASE turn[r].pc = "accepted"
  BY <1>1, WithdrawKeeps DEF AT!Cut
<1>2. CASE turn[r].pc # "accepted"
  <2>1. turn[r].pc \notin {"idle", "accepted"} /\ AT!Leaves(r)
        /\ UNCHANGED <<stored, made, unanswered, calls, granted, invoked>>
    BY <1>2 DEF AT!Cut
  <2>2. PICK s \in Session :
          /\ s = turn[r].session /\ lock[s] = r /\ Pending(s) /\ \A i \in Id : Awaited(s, i)
          /\ InTurn(r)
    BY <2>1, TurnIs
  <2>3. /\ Becomes(r, AT!Resting)
        /\ lock' \in [Session -> Request \cup {None}] /\ lock'[s] = None
        /\ \A x \in Session \ {s} : lock'[x] = lock[x]
    BY <2>1, <2>2, LeavesIs
  <2>4. cut' = cut \cup {s}
    BY <1>2, <2>2 DEF AT!Cut
  <2>5. /\ pending' \in [Session -> [Id -> Approval \cup {None}]]
        /\ \A i \in Id : pending'[s][i] \in {None, pending[s][i]}
        /\ \A x \in Session \ {s} : pending'[x] = pending[x]
    <3>1. CASE turn[r].pc = "waiting"
      <4>1. pending' = [pending EXCEPT ![s] = AT!Pop(@, Head(turn[r].todo).id)]
        BY <2>2, <3>1 DEF AT!Cut
      <4> QED
        BY <4>1, PopIs
    <3>2. CASE turn[r].pc # "waiting"
      BY <3>2 DEF AT!Cut, TurnInv, TurnTypes
    <3> QED
      BY <3>1, <3>2
  <2>6. Ledger'
    BY <2>1 DEF TurnInv, Ledger, AT!WriteIsGranted
  <2>7. TurnTypes'
    BY <2>1, <2>3, <2>5 DEF TurnInv, TurnTypes, Becomes
  <2>8. Locked(s)' /\ Pending(s)' /\ \A i \in Id : Awaited(s, i)'
    BY <2>1, <2>2, <2>3, <2>4, <2>5 DEF Locked, Pending, Awaited
  <2>9. InTurn(r)'
    BY <2>3, RestingIs DEF Becomes, InTurn
  <2> QED
    BY <2>1, <2>2, <2>3, <2>4, <2>5, <2>6, <2>7, <2>8, <2>9, InsideTurn DEF Becomes, TurnInv, TurnTypes
<1> QED
  BY <1>1, <1>2

\* A call has its result, and the turn goes on with the next one.
LEMMA AddResultKeeps ==
    ASSUME TurnInv, NEW r \in Request, AT!AddResult(r)
    PROVE  TurnInv'
<1> DEFINE q == turn[r].todo
           p == IF Len(q) = 1 THEN "model" ELSE "calls"
           t == [turn[r] EXCEPT !.pc = p, !.todo = Tail(q), !.outcome = None]
<1>1. PICK s \in Session :
        /\ s = turn[r].session /\ lock[s] = r /\ Pending(s) /\ \A i \in Id : Awaited(s, i)
        /\ InTurn(r)
  BY TurnIs DEF AT!AddResult
<1>2. PICK c \in AT!Call : c = Head(turn[r].todo)
  BY NextCallIs DEF AT!AddResult
<1>3. /\ turn[r].pc = "telling"
      /\ unanswered' = [unanswered EXCEPT ![s] = @ \ {c}]
      /\ stored' = AT!Touched(s)
      /\ UNCHANGED <<made, lock, pending, calls, granted, invoked, cut>>
  BY <1>1, <1>2 DEF AT!AddResult, AT!Answered
<1>4. turn' = [turn EXCEPT ![r].pc = p, ![r].todo = Tail(q), ![r].outcome = None]
  BY DEF AT!AddResult
<1>5. /\ q \in Seq(AT!Call) /\ Tail(q) \in Seq(AT!Call) /\ Len(Tail(q)) = Len(q) - 1
      /\ Len(q) \in Nat \ {0} /\ \A k \in 1..Len(q) - 1 : Tail(q)[k] = q[k + 1]
      /\ c = q[1] /\ DOMAIN q = 1..Len(q)
  BY <1>2, <1>3, NextCallIs
<1>6. turn[r] \in Turn /\ p \in AT!Pc
  BY DEF TurnInv, TurnTypes, AT!Pc
<1>7. t \in Turn /\ t.pc = p /\ t.session = s /\ t.todo = Tail(q)
  <2> HIDE DEF p, q
  <2> QED
    BY <1>1, <1>5, <1>6 DEF Turn
<1>8. turn' = [turn EXCEPT ![r] = t]
  <2> HIDE DEF p, q
  <2> QED
    BY <1>4 DEF TurnInv, TurnTypes
<1> HIDE DEF t
<1>9. Becomes(r, t)
  BY <1>7, <1>8, BecomesIs
<1> DEFINE z == Tail(q)
<1>10. /\ DOMAIN z = 1..Len(q) - 1 /\ z \in Seq(AT!Call)
       /\ z = <<>> <=> p = "model"
  <2>1. DOMAIN z = 1..Len(q) - 1
    BY <1>5, LenProperties
  <2>2. z = <<>> <=> Len(z) = 0
    BY <1>5, EmptySeq
  <2> QED
    BY <1>5, <2>1, <2>2
<1>11. z \in Seq(AT!Call) /\ \A k \in 1..Len(q) - 1 : z[k] = q[k + 1]
  BY <1>5
<1>12. p \in {"model", "calls"}
  OBVIOUS
<1>13. t.todo = z
  BY <1>7
<1> HIDE DEF p, q, z
<1>14. Ledger'
  BY <1>1, <1>3, TouchedIs DEF TurnInv, Ledger, AT!WriteIsGranted
<1>15. /\ unanswered' \in [Session -> SUBSET AT!Call] /\ unanswered'[s] = unanswered[s] \ {c}
       /\ \A x \in Session \ {s} : unanswered'[x] = unanswered[x]
  BY <1>3 DEF TurnInv, TurnTypes
<1>16. TurnTypes'
  BY <1>3, <1>9, <1>15 DEF TurnInv, TurnTypes, Becomes
<1>17. Locked(s)'
  BY <1>1, <1>3, <1>7, <1>9, <1>12 DEF Locked, Becomes
<1>18. Pending(s)'
  <2>1. ASSUME s \notin cut, NEW d \in unanswered'[s]
        PROVE  \E k \in DOMAIN z : z[k] = d
    <3>1. \E k \in DOMAIN turn[r].todo : turn[r].todo[k] = d
      BY <1>1, <1>15, <2>1, TurnAssumption DEF Pending
    <3>2. PICK k \in 1..Len(q) : q[k] = d
      BY <1>5, <3>1 DEF q
    <3>3. k # 1
      BY <1>5, <1>15, <3>2
    <3>4. k - 1 \in 1..Len(q) - 1 /\ (k - 1) + 1 = k
      BY <1>5, <3>2, <3>3
    <3>5. z[k - 1] = q[k]
      BY <1>11, <3>4
    <3> QED
      BY <1>10, <3>2, <3>4, <3>5
  <2>2. \A d \in unanswered'[s] : d.no <= calls'
    BY <1>1, <1>3, <1>15 DEF Pending
  <2>3. lock'[s] = r /\ turn'[r].todo = z /\ UNCHANGED cut
    BY <1>1, <1>3, <1>9, <1>13 DEF Becomes
  <2> QED
    BY <2>1, <2>2, <2>3, TurnAssumption DEF Pending
<1>19. ASSUME NEW i \in Id PROVE Awaited(s, i)'
  <2>1. s \notin cut => pending[s][i] = None
    BY <1>1, <1>3 DEF Awaited
  <2>2. UNCHANGED <<granted, cut, pending>>
    BY <1>3
  <2> QED
    BY <1>1, <2>1, <2>2 DEF Awaited
<1>20. InTurn(r)'
  <2>1. turn'[r].pc = p /\ turn'[r].session = s /\ turn'[r].todo = z /\ lock'[s] = r
    BY <1>1, <1>3, <1>7, <1>9, <1>13 DEF Becomes
  <2> QED
    BY <1>10, <1>12, <2>1 DEF InTurn
<1> QED
  BY <1>1, <1>3, <1>9, <1>14, <1>15, <1>16, <1>17, <1>18, <1>19, <1>20, InsideTurn
     DEF Becomes, TurnInv, TurnTypes

-----------------------------------------------------------------------------
(* The answer to an approval. *)

LEMMA ApproveKeeps ==
    ASSUME TurnInv, NEW s \in Session, NEW i \in Id, NEW reply \in {"granted", "denied"},
           AT!Approve(s, i, reply)
    PROVE  TurnInv'
<1> DEFINE a == pending[s][i]
           b == [a EXCEPT !.state = reply]
           p == [pending[s] EXCEPT ![i] = b]
<1>1. /\ a # None /\ stored' = AT!Touched(s)
      /\ pending' = [pending EXCEPT ![s][i].state = reply]
      /\ granted' = IF reply = "granted" THEN granted \cup {a.call} ELSE granted
      /\ UNCHANGED <<made, lock, turn, unanswered, calls, invoked, cut>>
  BY DEF AT!Approve
<1>2. pending \in [Session -> [Id -> Approval \cup {None}]]
  BY DEF TurnInv, TurnTypes
<1>3. a \in Approval
  BY <1>1, <1>2
<1>4. b \in Approval /\ b.call = a.call /\ b.state = reply /\ b # None
  <2>1. b \in Approval /\ b.call = a.call /\ b.state = reply
    BY <1>3 DEF Approval
  <2>2. None \notin Approval
    BY TurnAssumption DEF Approval, AT!Call, AT!ToolKind
  <2> QED
    BY <2>1, <2>2
<1>5. pending' = [pending EXCEPT ![s] = p]
  BY <1>1, <1>2
<1> HIDE DEF b
<1>6. p \in [Id -> Approval \cup {None}] /\ p[i] = b /\ \A j \in Id \ {i} : p[j] = pending[s][j]
  BY <1>2, <1>4
<1> HIDE DEF p
<1>7. /\ pending' \in [Session -> [Id -> Approval \cup {None}]] /\ pending'[s][i] = b
      /\ \A j \in Id \ {i} : pending'[s][j] = pending[s][j]
      /\ \A x \in Session \ {s} : pending'[x] = pending[x]
  BY <1>2, <1>5, <1>6
<1>8. \A x \in Session, j \in Id :
        /\ pending'[x][j] = None <=> pending[x][j] = None
        /\ pending[x][j] # None => pending'[x][j].call = pending[x][j].call
  BY <1>1, <1>4, <1>7
<1>9. granted \subseteq granted'
  BY <1>1
<1>10. ASSUME NEW x \in Session, NEW j \in Id PROVE Awaited(x, j)'
  <2>1. Awaited(x, j)
    BY DEF TurnInv
  <2>2. CASE x = s /\ j = i
    <3>1. pending'[x][j] = b /\ (reply = "granted" => a.call \in granted')
      BY <1>1, <1>7, <2>2
    <3> QED
      BY <1>1, <1>4, <2>1, <2>2, <3>1 DEF Awaited
  <2>3. CASE ~(x = s /\ j = i)
    <3>1. pending'[x][j] = pending[x][j]
      BY <1>7, <2>3
    <3> QED
      BY <1>1, <1>9, <2>1, <3>1 DEF Awaited
  <2> QED
    BY <2>2, <2>3
<1>11. \A x \in Session : Locked(x)' /\ Pending(x)'
  BY <1>1 DEF TurnInv, Locked, Pending
<1>12. ASSUME NEW r \in Request PROVE InTurn(r)'
  <2>1. InTurn(r) /\ UNCHANGED <<turn, lock>>
    BY <1>1 DEF TurnInv
  <2>2. CASE turn[r].pc \in {"asking", "waiting"}
    <3>1. turn[r].session \in Session /\ Head(turn[r].todo).id \in Id
      BY <2>1, <2>2, NextCallIs DEF InTurn
    <3> QED
      BY <1>8, <2>1, <2>2, <3>1 DEF InTurn
  <2>3. CASE turn[r].pc \notin {"asking", "waiting"}
    BY <2>1, <2>3 DEF InTurn
  <2> QED
    BY <2>2, <2>3
<1>13. StoreOK(stored, made)'
  BY <1>1, TouchedIs DEF TurnInv
<1>14. TurnTypes'
  BY <1>1, <1>7 DEF TurnInv, TurnTypes
<1>15. AT!WriteIsGranted'
  BY <1>1, <1>9 DEF TurnInv, AT!WriteIsGranted
<1> QED
  BY <1>10, <1>11, <1>12, <1>13, <1>14, <1>15 DEF TurnInv

-----------------------------------------------------------------------------
(* The model asks for tools. *)

LEMMA CallsAre ==
    ASSUME TurnInv, NEW k \in 1..2, NEW ids \in [1..k -> Id], NEW kinds \in [1..k -> AT!ToolKind],
           calls + Len(ids) <= MaxCalls
    PROVE  LET cs == [i \in DOMAIN ids |-> [no |-> calls + i, id |-> ids[i], kind |-> kinds[i]]] IN
           /\ Len(ids) = k /\ cs \in Seq(AT!Call) /\ cs # <<>> /\ DOMAIN cs = 1..k
           /\ \A i \in 1..k : cs[i].no <= calls + k
<1> DEFINE cs == [i \in 1..k |-> [no |-> calls + i, id |-> ids[i], kind |-> kinds[i]]]
<1>1. k \in Nat /\ DOMAIN ids = 1..k /\ ids \in Seq(Id)
  BY SeqDef
<1>2. Len(ids) = k
  BY <1>1, LenProperties
<1>3. calls \in Nat /\ MaxCalls \in Nat /\ calls + k <= MaxCalls
  BY <1>2, TurnAssumption DEF TurnInv, TurnTypes
<1>4. ASSUME NEW i \in 1..k PROVE cs[i] \in AT!Call /\ cs[i].no <= calls + k
  <2>1. calls + i \in 1..MaxCalls /\ calls + i <= calls + k
    BY <1>3
  <2> QED
    BY <2>1 DEF AT!Call
<1>5. DOMAIN cs = 1..k
  OBVIOUS
<1>6. cs \in [1..k -> AT!Call]
  BY <1>4
<1> HIDE DEF cs
<1>7. cs \in Seq(AT!Call)
  BY <1>1, <1>6, SeqDef
<1>8. cs # <<>>
  <2>1. Len(cs) = k
    BY <1>1, <1>5, <1>7, LenProperties
  <2> QED
    BY <2>1, <1>7, EmptySeq
<1> QED
  BY <1>1, <1>2, <1>4, <1>5, <1>7, <1>8 DEF cs

LEMMA AskForToolsKeeps ==
    ASSUME TurnInv, NEW r \in Request,
           NEW k \in 1..2, NEW ids \in [1..k -> Id], NEW kinds \in [1..k -> AT!ToolKind],
           AT!AskForTools(r, ids, kinds)
    PROVE  TurnInv'
<1> DEFINE cs == [i \in DOMAIN ids |-> [no |-> calls + i, id |-> ids[i], kind |-> kinds[i]]]
           n == turn[r].step + 1
           t == [turn[r] EXCEPT !.pc = "calls", !.step = n, !.todo = cs]
<1>1. PICK s \in Session :
        /\ s = turn[r].session /\ lock[s] = r /\ Pending(s) /\ \A i \in Id : Awaited(s, i)
        /\ InTurn(r)
  BY TurnIs DEF AT!AskForTools, AT!MayAsk
<1>2. /\ turn[r].pc = "model" /\ turn[r].step < MaxSteps
      /\ calls + Len(ids) <= MaxCalls /\ calls' = calls + Len(ids)
      /\ unanswered' = [unanswered EXCEPT ![s] = @ \cup AT!Range(cs)]
      /\ turn' = [turn EXCEPT ![r].pc = "calls", ![r].step = n, ![r].todo = cs]
      /\ stored' = AT!Touched(s)
      /\ UNCHANGED <<made, lock, pending, granted, invoked, cut>>
  BY <1>1 DEF AT!AskForTools, AT!MayAsk, AT!ghosts
<1>3. /\ Len(ids) = k /\ cs \in Seq(AT!Call) /\ cs # <<>> /\ DOMAIN cs = 1..k
      /\ \A i \in 1..k : cs[i].no <= calls + k
  BY <1>2, CallsAre
<1> HIDE DEF cs
<1>4. turn[r] \in Turn /\ "calls" \in AT!Pc
  BY DEF TurnInv, TurnTypes, AT!Pc
<1>5. n \in 0..MaxSteps
  BY <1>2, <1>4, TurnAssumption DEF Turn
<1> HIDE DEF n
<1>6. t \in Turn /\ t.pc = "calls" /\ t.session = s /\ t.todo = cs
  BY <1>1, <1>3, <1>4, <1>5 DEF Turn
<1>7. turn' = [turn EXCEPT ![r] = t]
  BY <1>2 DEF TurnInv, TurnTypes
<1> HIDE DEF t
<1>8. Becomes(r, t)
  BY <1>6, <1>7, BecomesIs
<1>9. Ledger'
  BY <1>1, <1>2, TouchedIs DEF TurnInv, Ledger, AT!WriteIsGranted
<1>10. AT!Range(cs) \subseteq AT!Call /\ \A c \in AT!Range(cs) : c.no <= calls + k
  <2>1. \A i \in 1..k : cs[i] \in AT!Call
    BY <1>3, ElementOfSeq, LenProperties
  <2> QED
    BY <1>3, <2>1 DEF AT!Range
<1>11. /\ unanswered' \in [Session -> SUBSET AT!Call]
       /\ unanswered'[s] = unanswered[s] \cup AT!Range(cs)
       /\ \A x \in Session \ {s} : unanswered'[x] = unanswered[x]
  <2> HIDE DEF AT!Range
  <2> QED
    BY <1>2, <1>10 DEF TurnInv, TurnTypes
<1>12. /\ calls \in Nat /\ calls' \in 0..MaxCalls /\ calls' = calls + k /\ calls <= calls'
       /\ k \in Nat
  BY <1>2, <1>3, TurnAssumption DEF TurnInv, TurnTypes
<1>13. TurnTypes'
  BY <1>2, <1>8, <1>11, <1>12 DEF TurnInv, TurnTypes, Becomes
<1>14. Locked(s)'
  BY <1>1, <1>2, <1>6, <1>8 DEF Locked, Becomes
<1>15. Pending(s)'
  <2>1. ASSUME NEW c \in unanswered'[s] PROVE c.no <= calls'
    <3>1. CASE c \in unanswered[s]
      <4>1. c \in AT!Call /\ c.no <= calls
        BY <1>1, <3>1 DEF Pending, TurnInv, TurnTypes
      <4>2. c.no \in Int
        BY <4>1, TurnAssumption DEF AT!Call
      <4> QED
        BY <1>12, <4>1, <4>2
    <3>2. CASE c \in AT!Range(cs)
      BY <1>10, <1>12, <3>2
    <3> QED
      BY <1>11, <2>1, <3>1, <3>2
  <2>2. s \notin cut => unanswered[s] = {}
    <3>1. DOMAIN turn[r].todo = {}
      BY <1>1, <1>2, EmptySeq DEF InTurn
    <3> QED
      BY <1>1, <3>1, TurnAssumption DEF Pending
  <2>3. ASSUME s \notin cut, NEW c \in unanswered'[s] PROVE \E i \in DOMAIN cs : cs[i] = c
    BY <1>11, <2>2, <2>3 DEF AT!Range
  <2>4. lock'[s] = r /\ turn'[r].todo = cs /\ UNCHANGED cut
    BY <1>1, <1>2, <1>6, <1>8 DEF Becomes
  <2> QED
    BY <2>1, <2>3, <2>4, TurnAssumption DEF Pending
<1>16. ASSUME NEW i \in Id PROVE Awaited(s, i)'
  <2>1. s \notin cut => pending[s][i] = None
    BY <1>1, <1>2 DEF Awaited
  <2>2. UNCHANGED <<granted, cut, pending>>
    BY <1>2
  <2> QED
    BY <1>1, <2>1, <2>2 DEF Awaited
<1>17. InTurn(r)'
  BY <1>1, <1>2, <1>3, <1>6, <1>8 DEF InTurn, Becomes
<1> QED
  BY <1>1, <1>2, <1>8, <1>9, <1>11, <1>12, <1>13, <1>14, <1>15, <1>16, <1>17, InsideTurn
     DEF Becomes, TurnInv, TurnTypes

-----------------------------------------------------------------------------
(* The invariant of a turn, and the theorem. *)

LEMMA InitTurn == AT!Init => TurnInv
<1> SUFFICES ASSUME AT!Init PROVE TurnInv
  OBVIOUS
<1>1. StoreOK(stored, made)
  <2>1. stored = <<>> /\ made = {}
    BY DEF AT!Init
  <2>2. <<>> \in Seq(Session) /\ Len(<<>>) = 0 /\ DOMAIN <<>> = {}
    BY EmptySeq
  <2> QED
    BY <2>1, <2>2, TurnAssumption DEF StoreOK
<1>2. TurnTypes
  BY RestingIs, TurnAssumption DEF AT!Init, TurnTypes
<1>3. \A s \in Session : Locked(s) /\ Pending(s) /\ \A i \in Id : Awaited(s, i)
  BY DEF AT!Init, Locked, Pending, Awaited
<1>4. \A r \in Request : InTurn(r)
  BY DEF AT!Init, InTurn, AT!Resting
<1>5. AT!WriteIsGranted
  BY DEF AT!Init, AT!WriteIsGranted
<1> QED
  BY <1>1, <1>2, <1>3, <1>4, <1>5 DEF TurnInv

LEMMA NextTurn ==
    ASSUME TurnInv, AT!Next
    PROVE  TurnInv'
<1>1. ASSUME NEW s \in Session, AT!CreateSession(s) \/ AT!DropSession(s) PROVE TurnInv'
  BY <1>1, StoreStepKeeps
<1>2. ASSUME NEW s \in Session, NEW i \in Id, NEW reply \in {"granted", "denied"},
             AT!Approve(s, i, reply)
      PROVE  TurnInv'
  BY <1>2, ApproveKeeps
<1>3. ASSUME NEW s \in Session, NEW r \in Request, AT!Send(r, s) PROVE TurnInv'
  BY <1>3, SendKeeps
<1>4. ASSUME NEW r \in Request, AT!Begin(r) PROVE TurnInv'
  BY <1>4, BeginKeeps
<1>5. ASSUME NEW r \in Request, AT!Fail(r) \/ AT!Reply(r) PROVE TurnInv'
  <2>1. /\ turn[r].pc = "model" /\ AT!Leaves(r)
        /\ stored' \in {stored, AT!Touched(turn[r].session)}
        /\ UNCHANGED <<made, unanswered, pending, calls, granted, invoked, cut>>
    BY <1>5 DEF AT!Fail, AT!Reply, AT!MayAsk, AT!ghosts
  <2> QED
    BY <2>1, EndKeeps
<1>6. ASSUME NEW r \in Request, AT!Refuse(r) PROVE TurnInv'
  BY <1>6, RefuseKeeps
<1>7. ASSUME NEW r \in Request, AT!RunReadTool(r) PROVE TurnInv'
  BY <1>7, ReadToolKeeps
<1>8. ASSUME NEW r \in Request, AT!AskApproval(r) PROVE TurnInv'
  BY <1>8, AskApprovalKeeps
<1>9. ASSUME NEW r \in Request, AT!Wait(r) PROVE TurnInv'
  BY <1>9, WaitKeeps
<1>10. ASSUME NEW r \in Request, AT!Resume(r) PROVE TurnInv'
  BY <1>10, ResumeKeeps
<1>11. ASSUME NEW r \in Request, AT!AddResult(r) PROVE TurnInv'
  BY <1>11, AddResultKeeps
<1>12. ASSUME NEW r \in Request, AT!Cut(r) PROVE TurnInv'
  BY <1>12, CutKeeps
<1>14. ASSUME NEW r \in Request, AT!ToolEnds(r) PROVE TurnInv'
  BY <1>14, ToolEndsKeeps
<1>13. ASSUME NEW r \in Request, NEW k \in 1..2, NEW ids \in [1..k -> Id],
              NEW kinds \in [1..k -> AT!ToolKind], AT!AskForTools(r, ids, kinds)
       PROVE  TurnInv'
  BY <1>13, AskForToolsKeeps
<1> QED
  BY <1>1, <1>2, <1>3, <1>4, <1>5, <1>6, <1>7, <1>8, <1>9, <1>10, <1>11, <1>12, <1>13, <1>14
     DEF AT!Next

\* The invariant is a reason for what the run checks.
LEMMA TurnImplies ==
    ASSUME TurnInv
    PROVE  /\ AT!TypeOK /\ AT!WriteIsGranted /\ AT!CallsAreAnswered
           /\ AT!PendingIsAwaited
<1>1. /\ AT!Range(stored) \subseteq made /\ Len(stored) <= MaxSessions
      /\ \A i, j \in DOMAIN stored : stored[i] = stored[j] => i = j
  BY DEF TurnInv, StoreOK, AT!Range
<1>2. ASSUME NEW s \in Session
      PROVE  /\ lock[s] # None =>
                  turn[lock[s]].session = s /\ turn[lock[s]].pc \notin {"idle", "accepted"}
             /\ \A c \in unanswered[s] : c \in AT!Call /\ c.no <= calls
             /\ \A i \in Id : pending[s][i] # None =>
                  pending[s][i].call.id = i /\ pending[s][i].state \in {"open", "granted", "denied"}
  <2>1. lock[s] # None =>
          turn[lock[s]].session = s /\ turn[lock[s]].pc \notin {"idle", "accepted"}
    BY DEF TurnInv, Locked
  <2>2. \A c \in unanswered[s] : c \in AT!Call /\ c.no <= calls
    BY DEF TurnInv, TurnTypes, Pending
  <2>3. ASSUME NEW i \in Id, pending[s][i] # None
        PROVE  pending[s][i].call.id = i /\ pending[s][i].state \in {"open", "granted", "denied"}
    <3>1. pending[s][i] \in Approval
      BY <2>3 DEF TurnInv, TurnTypes
    <3> QED
      BY <2>3, <3>1 DEF TurnInv, Awaited, Approval
  <2> QED
    BY <2>1, <2>2, <2>3
<1>3. ASSUME NEW r \in Request
      PROVE  /\ turn[r].pc \in AT!Pc /\ turn[r].step <= MaxSteps
             /\ turn[r].pc \notin {"idle", "accepted"} => lock[turn[r].session] = r
             /\ turn[r].pc \in {"asking", "waiting", "running", "telling"} => turn[r].todo # <<>>
             /\ turn[r].pc = "waiting" => pending[turn[r].session][Head(turn[r].todo).id] # None
  <2>1. turn[r] \in Turn /\ InTurn(r)
    BY DEF TurnInv, TurnTypes
  <2>2. turn[r].pc \in AT!Pc /\ turn[r].step <= MaxSteps
    BY <2>1, TurnAssumption DEF Turn
  <2> QED
    BY <2>1, <2>2 DEF InTurn
<1>4. AT!TypeOK
  BY <1>1, <1>2, <1>3 DEF AT!TypeOK
<1>5. AT!CallsAreAnswered /\ AT!PendingIsAwaited
  BY DEF TurnInv, Pending, Awaited, AT!CallsAreAnswered, AT!PendingIsAwaited
<1> QED
  BY <1>4, <1>5 DEF TurnInv

-----------------------------------------------------------------------------
(* The audit records of a turn. *)

\* The calls for which the recorder was asked.
Recorded == unrecorded \cup {a.call : a \in audited}

Todo(r) == {turn[r].todo[k] : k \in DOMAIN turn[r].todo}

\* The calls of a turn are apart, in the history without a result, and but for
\* the one that is run or told of, neither run nor recorded.
Ready(r) ==
    LET t == turn[r] IN
    /\ t.pc = "idle" => t.todo = <<>>
    /\ \A k, l \in DOMAIN t.todo : t.todo[k] = t.todo[l] => k = l
    /\ \A k \in DOMAIN t.todo :
         /\ t.todo[k] \in unanswered[t.session]
         /\ k # 1 \/ t.pc \notin {"running", "telling"} => t.todo[k] \notin invoked \cup Recorded
    /\ t.pc \in {"asking", "waiting"} => t.todo[1].kind = "write"
    /\ t.pc = "running" => t.todo[1] \in invoked
    /\ t.pc = "telling" =>
         \/ t.outcome = "ran" /\ t.todo[1] \in invoked \cap Recorded
         \/ t.outcome = "denied" /\ t.todo[1] \notin invoked /\ t.todo[1].kind = "write"
         \/ t.outcome = "barred" /\ t.todo[1] \notin invoked

NoneShared == \A r, u \in Request : r # u => Todo(r) \cap Todo(u) = {}

Old == \A c \in invoked \cup Recorded : c \in AT!Call /\ c.no <= calls

AuditInv == Old /\ NoneShared /\ (\A r \in Request : Ready(r)) /\ AT!AuditIsTrue

\* The calls that a turn is still to run.
LEMMA TodoIs ==
    ASSUME TurnInv, NEW u \in Request, Ready(u), NEW c \in Todo(u)
    PROVE  /\ turn[u].session \in Session /\ c \in unanswered[turn[u].session]
           /\ c \in AT!Call /\ c.no <= calls
<1>1. PICK k \in DOMAIN turn[u].todo : turn[u].todo[k] = c
  BY DEF Todo
<1>2. turn[u].todo # <<>>
  BY <1>1, EmptySeq
<1>3. turn[u].session \in Session /\ c \in unanswered[turn[u].session]
  BY <1>1, <1>2 DEF Ready, TurnInv, InTurn
<1> QED
  BY <1>3 DEF TurnInv, TurnTypes, Pending

\* What a step of r leaves of the other turns: it runs, records and answers
\* only calls of its own, and adds calls with new numbers.
LEMMA OthersReady ==
    ASSUME TurnInv, AuditInv, NEW r \in Request, NEW h \in SUBSET Todo(r),
           \A u \in Request \ {r} : turn'[u] = turn[u],
           \A c \in Todo(r)' : c \in Todo(r) \/ (c \in AT!Call /\ c.no > calls),
           invoked \subseteq invoked', invoked' \subseteq invoked \cup h,
           Recorded \subseteq Recorded', Recorded' \subseteq Recorded \cup h,
           \A s \in Session : unanswered[s] \ h \subseteq unanswered'[s],
           calls <= calls', calls' \in Nat,
           Ready(r)', (AT!AuditIsTrue)'
    PROVE  AuditInv'
<1>1. ASSUME NEW u \in Request \ {r}
      PROVE  Todo(u)' = Todo(u) /\ Todo(u) \cap Todo(r) = {} /\ Todo(u) \cap h = {}
  BY DEF Todo, AuditInv, NoneShared
<1>2. ASSUME NEW u \in Request \ {r} PROVE Ready(u)'
  <2>1. /\ Ready(u) /\ turn'[u] = turn[u]
        /\ \A k \in DOMAIN turn[u].todo : turn[u].todo[k] \in Todo(u)
    BY DEF AuditInv, Todo
  <2>2. \A c \in Todo(u) : /\ c \in invoked' <=> c \in invoked
                           /\ c \in Recorded' <=> c \in Recorded
                           /\ c \in unanswered'[turn[u].session]
    BY <1>1, <2>1, TodoIs
  <2>3. turn[u].pc \in {"asking", "waiting", "running", "telling"} =>
          turn[u].todo[1] \in Todo(u)
    BY <2>1, NextCallIs DEF Todo
  <2> HIDE DEF Recorded, Todo
  <2> QED
    BY <2>1, <2>2, <2>3 DEF Ready
<1>3. ASSUME NEW u \in Request \ {r} PROVE Todo(u)' \cap Todo(r)' = {}
  <2> SUFFICES ASSUME NEW c \in Todo(u), c \in Todo(r)' PROVE FALSE
    BY <1>1
  <2>1. c \in AT!Call /\ c.no <= calls
    BY TodoIs DEF AuditInv
  <2>2. c.no \in Int /\ calls \in Int
    BY <2>1, TurnAssumption DEF AT!Call, TurnInv, TurnTypes
  <2> QED
    BY <1>1, <2>1, <2>2
<1>4. NoneShared'
  <2>1. ASSUME NEW u \in Request, NEW v \in Request, u # v PROVE Todo(u)' \cap Todo(v)' = {}
    <3>1. CASE u = r
      BY <1>3, <2>1, <3>1
    <3>2. CASE v = r
      BY <1>3, <2>1, <3>2
    <3>3. CASE u # r /\ v # r
      BY <1>1, <2>1, <3>3 DEF AuditInv, NoneShared
    <3> QED
      BY <3>1, <3>2, <3>3
  <2> QED
    BY <2>1 DEF NoneShared
<1>5. Old'
  <2> SUFFICES ASSUME NEW c \in invoked' \cup Recorded' PROVE c \in AT!Call /\ c.no <= calls'
    BY DEF Old
  <2>1. c \in AT!Call /\ c.no <= calls
    BY TodoIs DEF AuditInv, Old
  <2>2. c.no \in Int /\ calls \in Int
    BY <2>1, TurnAssumption DEF AT!Call, TurnInv, TurnTypes
  <2> QED
    BY <2>1, <2>2
<1>6. \A u \in Request : Ready(u)'
  BY <1>2
<1> QED
  BY <1>4, <1>5, <1>6 DEF AuditInv

\* A step of r that runs and records nothing.  If it ends a tool, the turn is cut.
LEMMA QuietKeeps ==
    ASSUME TurnInv, AuditInv, NEW r \in Request,
           \A u \in Request \ {r} : turn'[u] = turn[u],
           \A c \in Todo(r)' : c \in Todo(r) \/ (c \in AT!Call /\ c.no > calls),
           UNCHANGED <<invoked, audited, unrecorded>>,
           \A s \in Session : /\ unanswered[s] \subseteq unanswered'[s]
                              /\ lock'[s] = lock[s] \/ lock[s] \in {None, r},
           calls <= calls', calls' \in Nat, cut \subseteq cut',
           turn[r].pc = "running" => turn[r].session \in cut',
           Ready(r)'
    PROVE  AuditInv'
<1>1. ASSUME NEW c \in invoked' \ (unrecorded' \cup {a.call : a \in audited'})
      PROVE  \E s \in Session : /\ c \in unanswered'[s]
                                /\ s \in cut' \/ (lock'[s] # None /\ turn'[lock'[s]].pc = "running")
  <2>1. PICK s \in Session : /\ c \in unanswered[s]
                             /\ s \in cut \/ (lock[s] # None /\ turn[lock[s]].pc = "running")
    BY <1>1 DEF AuditInv, AT!AuditIsTrue
  <2>2. CASE s \in cut
    BY <2>1, <2>2
  <2>3. CASE lock[s] # None /\ turn[lock[s]].pc = "running"
    <3>1. turn[lock[s]].session = s /\ lock[s] \in Request
      BY <2>3 DEF TurnInv, Locked, TurnTypes
    <3>2. CASE lock[s] = r
      BY <2>1, <2>3, <3>1, <3>2
    <3>3. CASE lock[s] # r
      BY <2>1, <2>3, <3>1, <3>3
    <3> QED
      BY <3>2, <3>3
  <2> QED
    BY <2>1, <2>2, <2>3
<1>2. (AT!AuditIsTrue)'
  BY <1>1 DEF AuditInv, AT!AuditIsTrue
<1>3. Recorded' = Recorded
  BY DEF Recorded
<1> QED
  BY <1>2, <1>3, OthersReady

\* A step that ends the turn of r, begins it, or only moves it on with its calls.
LEMMA EmptyReady ==
    ASSUME NEW r \in Request, turn'[r].todo = <<>>, turn'[r].pc \in {"idle", "accepted", "model"}
    PROVE  Ready(r)' /\ Todo(r)' = {}
<1>1. DOMAIN turn'[r].todo = {}
  BY EmptySeq
<1> QED
  BY <1>1 DEF Ready, Todo

LEMMA MovedReady ==
    ASSUME NEW r \in Request, Ready(r),
           turn[r].pc \in {"calls", "asking", "waiting"}, turn'[r].todo = turn[r].todo,
           turn'[r].session = turn[r].session, 1 \in DOMAIN turn[r].todo,
           UNCHANGED <<invoked, audited, unrecorded, unanswered>>,
           \/ turn'[r].pc \in {"asking", "waiting"} /\ turn[r].todo[1].kind = "write"
           \/ turn'[r].pc = "telling" /\ turn'[r].outcome = "barred"
           \/ /\ turn'[r].pc = "telling" /\ turn'[r].outcome = "denied"
              /\ turn[r].todo[1].kind = "write"
    PROVE  Ready(r)' /\ Todo(r)' = Todo(r)
<1>1. Recorded' = Recorded
  BY DEF Recorded
<1>2. turn[r].todo[1] \notin invoked
  BY DEF Ready
<1> QED
  BY <1>1, <1>2 DEF Ready, Todo

\* A tool is started.
LEMMA InvokesAudit ==
    ASSUME TurnInv, AuditInv, NEW r \in Request, turn[r].pc \in {"calls", "waiting"},
           AT!Invokes(r, Head(turn[r].todo)),
           UNCHANGED <<lock, unanswered, calls, audited, unrecorded, cut>>
    PROVE  AuditInv'
<1> DEFINE q == turn[r].todo
           t == [turn[r] EXCEPT !.pc = "running"]
<1>1. /\ turn' = [turn EXCEPT ![r] = t] /\ invoked' = invoked \cup {q[1]}
      /\ q # <<>> /\ 1 \in DOMAIN q
  BY NextCallIs DEF AT!Invokes
<1>2. turn[r] \in Turn /\ "running" \in AT!Pc /\ turn \in [Request -> Turn]
  BY DEF TurnInv, TurnTypes, AT!Pc
<1>3. t.pc = "running" /\ t.session = turn[r].session /\ t.todo = q
  BY <1>2, PcIs
<1> HIDE DEF t
<1>4. turn'[r] = t /\ \A u \in Request \ {r} : turn'[u] = turn[u]
  BY <1>1, <1>2
<1>5. Recorded' = Recorded /\ Todo(r)' = Todo(r) /\ {q[1]} \subseteq Todo(r)
  BY <1>1, <1>3, <1>4 DEF Recorded, Todo
<1>6. Ready(r) /\ q[1] \notin invoked \cup Recorded
  BY <1>1 DEF AuditInv, Ready
<1>7. Ready(r)'
  <2>1. \A k \in DOMAIN q : /\ q[k] \in unanswered[turn[r].session]
                            /\ k # 1 => q[k] \notin invoked' \cup Recorded
                            /\ \A l \in DOMAIN q : q[k] = q[l] => k = l
    BY <1>1, <1>6 DEF Ready
  <2>2. /\ turn'[r].pc = "running" /\ turn'[r].session = turn[r].session /\ turn'[r].todo = q
        /\ q[1] \in invoked'
    BY <1>1, <1>3, <1>4
  <2> HIDE DEF q
  <2> QED
    BY <1>5, <2>1, <2>2 DEF Ready
<1>8. /\ turn[r].session \in Session /\ lock[turn[r].session] = r
      /\ q[1] \in unanswered[turn[r].session]
  BY <1>1, <1>6, TurnIs DEF Ready
<1>9. (AT!AuditIsTrue)'
  <2>1. ASSUME NEW a \in audited
        PROVE  IF a.outcome = "ran" THEN a.call \in invoked'
               ELSE a.call.kind = "write" /\ a.call \notin invoked'
    <3>1. a.call # q[1]
      BY <1>6 DEF Recorded
    <3> QED
      BY <1>1, <3>1 DEF AuditInv, AT!AuditIsTrue
  <2>2. ASSUME NEW c \in invoked' \ (unrecorded \cup {a.call : a \in audited})
        PROVE  \E s \in Session : /\ c \in unanswered[s]
                                  /\ s \in cut \/ (lock[s] # None /\ turn'[lock[s]].pc = "running")
    <3>1. CASE c = q[1]
      BY <1>3, <1>4, <1>8, <3>1, TurnAssumption
    <3>2. CASE c # q[1]
      <4>1. c \in invoked
        BY <1>1, <2>2, <3>2
      <4>2. PICK s \in Session : /\ c \in unanswered[s]
                                 /\ s \in cut \/ (lock[s] # None /\ turn[lock[s]].pc = "running")
        BY <2>2, <4>1 DEF AuditInv, AT!AuditIsTrue
      <4>3. lock[s] # None => lock[s] \in Request
        BY DEF TurnInv, TurnTypes
      <4> QED
        BY <1>3, <1>4, <4>2, <4>3
    <3> QED
      BY <3>1, <3>2
  <2> QED
    BY <2>1, <2>2 DEF AT!AuditIsTrue
<1>10. calls \in Nat
  BY TurnAssumption DEF TurnInv, TurnTypes
<1> HIDE DEF q
<1> QED
  BY <1>1, <1>4, <1>5, <1>7, <1>9, <1>10, OthersReady

\* What the recorder leaves, whether it works or fails.
LEMMA RecordsIs ==
    ASSUME NEW c, NEW outcome, AT!Records(c, outcome)
    PROVE  /\ Recorded' = Recorded \cup {c}
           /\ \A a \in audited' : a \in audited \/ a = [call |-> c, outcome |-> outcome]
<1> DEFINE x == [call |-> c, outcome |-> outcome]
<1>1. x.call = c
  OBVIOUS
<1>2. \/ audited' = audited \cup {x} /\ unrecorded' = unrecorded
      \/ unrecorded' = unrecorded \cup {c} /\ audited' = audited
  BY DEF AT!Records
<1> HIDE DEF x
<1>3. \A d : d \in Recorded' <=> d \in Recorded \cup {c}
  BY <1>1, <1>2 DEF Recorded
<1>4. \A a \in audited' : a \in audited \/ a = x
  BY <1>2
<1> QED
  BY <1>3, <1>4 DEF x

\* A tool has ended.
LEMMA ToolEndsAudit ==
    ASSUME TurnInv, AuditInv, NEW r \in Request, AT!ToolEnds(r)
    PROVE  AuditInv'
<1> DEFINE q == turn[r].todo
           t == [turn[r] EXCEPT !.pc = "telling", !.outcome = "ran"]
<1>1. /\ turn[r].pc = "running" /\ AT!Records(q[1], "ran")
      /\ turn' = [turn EXCEPT ![r].pc = "telling", ![r].outcome = "ran"]
      /\ q # <<>> /\ 1 \in DOMAIN q
      /\ UNCHANGED <<lock, unanswered, calls, invoked, cut>>
  BY NextCallIs DEF AT!ToolEnds
<1>2. turn[r] \in Turn /\ turn \in [Request -> Turn]
  BY DEF TurnInv, TurnTypes
<1>3. t.pc = "telling" /\ t.session = turn[r].session /\ t.todo = q /\ t.outcome = "ran"
  BY <1>2 DEF Turn
<1>4. turn'[r] = t /\ \A u \in Request \ {r} : turn'[u] = turn[u]
  BY <1>1, <1>2
<1> HIDE DEF t
<1>5. /\ Recorded' = Recorded \cup {q[1]}
      /\ \A a \in audited' : a \in audited \/ a = [call |-> q[1], outcome |-> "ran"]
  BY <1>1, RecordsIs
<1>6. Todo(r)' = Todo(r) /\ {q[1]} \subseteq Todo(r)
  BY <1>1, <1>3, <1>4 DEF Todo
<1>7. Ready(r) /\ q[1] \in invoked
  BY <1>1 DEF AuditInv, Ready
<1>8. Ready(r)'
  <2>1. \A k \in DOMAIN q : /\ q[k] \in unanswered[turn[r].session]
                            /\ k # 1 => q[k] \notin invoked \cup Recorded'
                            /\ \A l \in DOMAIN q : q[k] = q[l] => k = l
    BY <1>1, <1>5, <1>7 DEF Ready
  <2>2. /\ turn'[r].pc = "telling" /\ turn'[r].session = turn[r].session /\ turn'[r].todo = q
        /\ turn'[r].outcome = "ran" /\ q[1] \in invoked \cap Recorded'
    BY <1>1, <1>3, <1>4, <1>5, <1>7
  <2>3. unanswered' = unanswered /\ invoked' = invoked
    BY <1>1
  <2> HIDE DEF q
  <2>4. ASSUME NEW k \in DOMAIN q
        PROVE  /\ q[k] \in unanswered'[turn'[r].session]
               /\ k # 1 \/ turn'[r].pc \notin {"running", "telling"} => q[k] \notin invoked' \cup Recorded'
    BY <2>1, <2>2, <2>3
  <2> QED
    BY <2>1, <2>2, <2>3, <2>4 DEF Ready
<1>9. (AT!AuditIsTrue)'
  <2>1. ASSUME NEW a \in audited'
        PROVE  IF a.outcome = "ran" THEN a.call \in invoked
               ELSE a.call.kind = "write" /\ a.call \notin invoked
    BY <1>5, <1>7 DEF AuditInv, AT!AuditIsTrue
  <2>2. ASSUME NEW c \in invoked \ Recorded'
        PROVE  \E s \in Session : /\ c \in unanswered[s]
                                  /\ s \in cut \/ (lock[s] # None /\ turn'[lock[s]].pc = "running")
    <3>1. c \in invoked \ Recorded /\ c # q[1]
      BY <1>5, <2>2
    <3>2. PICK s \in Session : /\ c \in unanswered[s]
                               /\ s \in cut \/ (lock[s] # None /\ turn[lock[s]].pc = "running")
      BY <3>1 DEF AuditInv, AT!AuditIsTrue, Recorded
    <3>3. lock[s] # None => lock[s] \in Request
      BY DEF TurnInv, TurnTypes
    <3>4. CASE lock[s] = r /\ s \notin cut
      <4>1. \E k \in DOMAIN q : q[k] = c
        BY <3>2, <3>4, TurnAssumption DEF TurnInv, Pending
      <4> QED
        BY <1>7, <3>1, <4>1 DEF Ready
    <3> QED
      BY <1>4, <3>2, <3>3, <3>4
  <2>3. Recorded' = unrecorded' \cup {a.call : a \in audited'}
    BY DEF Recorded
  <2> QED
    BY <1>1, <2>1, <2>2, <2>3 DEF AT!AuditIsTrue
<1>10. calls \in Nat /\ calls' \in Nat /\ calls <= calls'
  BY <1>1, TurnAssumption DEF TurnInv, TurnTypes
<1>11. PICK h \in SUBSET Todo(r) : h = {q[1]}
  BY <1>6
<1>12. /\ invoked \subseteq invoked' /\ invoked' \subseteq invoked \cup h
       /\ Recorded \subseteq Recorded' /\ Recorded' \subseteq Recorded \cup h
       /\ \A s \in Session : unanswered[s] \ h \subseteq unanswered'[s]
  BY <1>1, <1>5, <1>11
<1> HIDE DEF q
<1> QED
  BY <1>4, <1>6, <1>8, <1>9, <1>10, <1>11, <1>12, OthersReady

\* A call has its result, and its record if it was denied.
LEMMA AddResultAudit ==
    ASSUME TurnInv, AuditInv, NEW r \in Request, AT!AddResult(r)
    PROVE  AuditInv'
<1> DEFINE q == turn[r].todo
           z == Tail(q)
           p == IF Len(q) = 1 THEN "model" ELSE "calls"
<1>1. PICK s \in Session : s = turn[r].session /\ lock[s] = r
  BY TurnIs DEF AT!AddResult
<1>2. /\ turn[r].pc = "telling"
      /\ unanswered' = [unanswered EXCEPT ![s] = @ \ {q[1]}]
      /\ IF turn[r].outcome = "denied" THEN AT!Records(q[1], "denied")
         ELSE UNCHANGED <<audited, unrecorded>>
      /\ UNCHANGED <<lock, calls, invoked, cut>>
  BY <1>1, NextCallIs DEF AT!AddResult, AT!Answered
<1>3. /\ q \in Seq(AT!Call) /\ z \in Seq(AT!Call) /\ Len(z) = Len(q) - 1
      /\ Len(q) \in Nat \ {0} /\ \A k \in 1..Len(q) - 1 : z[k] = q[k + 1]
      /\ DOMAIN q = 1..Len(q) /\ 1 \in DOMAIN q
  BY <1>2, NextCallIs
<1>4. /\ turn[r] \in Turn /\ turn \in [Request -> Turn]
      /\ turn' = [turn EXCEPT ![r].pc = p, ![r].todo = z, ![r].outcome = None]
  BY DEF TurnInv, TurnTypes, AT!AddResult
<1>5. /\ turn'[r].pc = p /\ turn'[r].session = s /\ turn'[r].todo = z
      /\ \A u \in Request \ {r} : turn'[u] = turn[u]
  <2> HIDE DEF p, z
  <2> QED
    BY <1>1, <1>4 DEF Turn
<1>6. DOMAIN z = 1..Len(q) - 1 /\ p \in {"model", "calls"}
  BY <1>3, LenProperties
<1> HIDE DEF p, z
<1>7. Ready(r) /\ \A k \in DOMAIN q : k # 1 => q[k] # q[1] /\ q[k] \notin invoked \cup Recorded
  BY <1>2, <1>3 DEF AuditInv, Ready
<1>8. \A k \in DOMAIN z : /\ k + 1 \in DOMAIN q /\ z[k] = q[k + 1] /\ k + 1 # 1
                          /\ \A l \in DOMAIN z : k + 1 = l + 1 => k = l
  BY <1>3, <1>6
<1>9. Todo(r)' \subseteq Todo(r) /\ {q[1]} \subseteq Todo(r)
  BY <1>3, <1>5, <1>8 DEF Todo
<1>10. /\ Recorded \subseteq Recorded' /\ Recorded' \subseteq Recorded \cup {q[1]}
       /\ \A a \in audited' : \/ a \in audited
                              \/ /\ a = [call |-> q[1], outcome |-> "denied"]
                                 /\ turn[r].outcome = "denied"
  <2>1. CASE turn[r].outcome = "denied"
    BY <1>2, <2>1, RecordsIs
  <2>2. CASE turn[r].outcome # "denied"
    BY <1>2, <2>2 DEF Recorded
  <2> QED
    BY <2>1, <2>2
<1>11. /\ unanswered'[s] = unanswered[s] \ {q[1]}
       /\ \A x \in Session \ {s} : unanswered'[x] = unanswered[x]
  BY <1>2 DEF TurnInv, TurnTypes
<1>12. Ready(r)'
  <2>1. \A k \in DOMAIN z : /\ z[k] \in unanswered'[s]
                            /\ z[k] \notin invoked' \cup Recorded'
                            /\ \A l \in DOMAIN z : z[k] = z[l] => k = l
    BY <1>1, <1>2, <1>7, <1>8, <1>10, <1>11 DEF Ready
  <2> QED
    BY <1>5, <1>6, <2>1 DEF Ready
<1>13. q[1] \in invoked => q[1] \in Recorded
  BY <1>2, <1>7 DEF Ready
<1>14. turn[r].outcome = "denied" => q[1] \notin invoked /\ q[1].kind = "write"
  BY <1>2, <1>7 DEF Ready
<1>15. (AT!AuditIsTrue)'
  <2>1. ASSUME NEW a \in audited'
        PROVE  IF a.outcome = "ran" THEN a.call \in invoked
               ELSE a.call.kind = "write" /\ a.call \notin invoked
    BY <1>10, <1>14 DEF AuditInv, AT!AuditIsTrue
  <2>2. ASSUME NEW c \in invoked \ Recorded'
        PROVE  \E x \in Session : /\ c \in unanswered'[x]
                                  /\ x \in cut \/ (lock[x] # None /\ turn'[lock[x]].pc = "running")
    <3>1. c \in invoked \ Recorded /\ c # q[1]
      BY <1>10, <1>13, <2>2
    <3>2. PICK x \in Session : /\ c \in unanswered[x]
                               /\ x \in cut \/ (lock[x] # None /\ turn[lock[x]].pc = "running")
      BY <3>1 DEF AuditInv, AT!AuditIsTrue, Recorded
    <3>3. c \in unanswered'[x]
      BY <1>11, <3>1, <3>2
    <3>4. lock[x] # None /\ turn[lock[x]].pc = "running" => lock[x] \in Request \ {r}
      BY <1>2 DEF TurnInv, TurnTypes
    <3> QED
      BY <1>5, <3>2, <3>3, <3>4
  <2>3. Recorded' = unrecorded' \cup {a.call : a \in audited'}
    BY DEF Recorded
  <2> QED
    BY <1>2, <2>1, <2>2, <2>3 DEF AT!AuditIsTrue
<1>16. calls \in Nat /\ \A x \in Session : unanswered[x] \ {q[1]} \subseteq unanswered'[x]
  BY <1>11, TurnAssumption DEF TurnInv, TurnTypes
<1> HIDE DEF q
<1> QED
  BY <1>2, <1>5, <1>9, <1>10, <1>12, <1>15, <1>16, OthersReady

\* A turn asks, is asked, waits or is told no.
LEMMA MovesAudit ==
    ASSUME TurnInv, AuditInv, NEW r \in Request,
           \/ AT!Refuse(r) \/ AT!AskApproval(r) \/ AT!Wait(r)
           \/ /\ AT!Resume(r)
              /\ turn' = [turn EXCEPT ![r].pc = "telling", ![r].outcome = "denied"]
              /\ UNCHANGED invoked
    PROVE  AuditInv'
<1>1. /\ turn[r].pc \in {"calls", "asking", "waiting"} /\ turn[r] \in Turn
      /\ turn \in [Request -> Turn] /\ Ready(r) /\ 1 \in DOMAIN turn[r].todo
      /\ Head(turn[r].todo) = turn[r].todo[1]
      /\ UNCHANGED <<lock, unanswered, calls, invoked, audited, unrecorded, cut>>
  BY NextCallIs
     DEF AuditInv, TurnInv, TurnTypes, AT!Refuse, AT!AskApproval, AT!Wait, AT!Resume, AT!ghosts
<1>2. /\ \A u \in Request \ {r} : turn'[u] = turn[u]
      /\ turn'[r].todo = turn[r].todo /\ turn'[r].session = turn[r].session
      /\ \/ turn'[r].pc \in {"asking", "waiting"} /\ turn[r].todo[1].kind = "write"
         \/ turn'[r].pc = "telling" /\ turn'[r].outcome = "barred"
         \/ /\ turn'[r].pc = "telling" /\ turn'[r].outcome = "denied"
            /\ turn[r].todo[1].kind = "write"
  <2>1. CASE AT!Refuse(r)
    BY <1>1, <2>1 DEF AT!Refuse, Turn
  <2>2. CASE AT!AskApproval(r)
    BY <1>1, <2>2 DEF AT!AskApproval, Turn
  <2>3. CASE AT!Wait(r)
    BY <1>1, <2>3 DEF AT!Wait, Turn, Ready
  <2>4. CASE /\ AT!Resume(r)
             /\ turn' = [turn EXCEPT ![r].pc = "telling", ![r].outcome = "denied"]
    BY <1>1, <2>4 DEF AT!Resume, Turn, Ready
  <2> QED
    BY <2>1, <2>2, <2>3, <2>4
<1>3. Ready(r)' /\ Todo(r)' = Todo(r)
  BY <1>1, <1>2, MovedReady
<1>4. calls \in Nat
  BY TurnAssumption DEF TurnInv, TurnTypes
<1> QED
  BY <1>1, <1>2, <1>3, <1>4, QuietKeeps

\* A turn begins or is over: it has no calls any more.
LEMMA EdgesAudit ==
    ASSUME TurnInv, AuditInv, NEW r \in Request,
           \/ \E s \in Session : AT!Send(r, s)
           \/ AT!Begin(r) \/ AT!Fail(r) \/ AT!Reply(r) \/ AT!Cut(r)
    PROVE  AuditInv'
<1>1. turn \in [Request -> Turn] /\ lock \in [Session -> Request \cup {None}] /\ calls \in Nat
  BY TurnAssumption DEF TurnInv, TurnTypes
<1>2. UNCHANGED <<unanswered, calls, invoked, audited, unrecorded>> /\ cut \subseteq cut'
  BY DEF AT!Send, AT!Begin, AT!Fail, AT!Reply, AT!Cut, AT!ghosts
<1>3. turn[r].pc = "running" => turn[r].session \in cut'
  BY DEF AT!Send, AT!Begin, AT!Fail, AT!Reply, AT!Cut, AT!MayAsk
<1>4. /\ \A u \in Request \ {r} : turn'[u] = turn[u]
      /\ turn'[r].todo = <<>> /\ turn'[r].pc \in {"idle", "accepted", "model"}
  <2>1. ASSUME turn' = [turn EXCEPT ![r] = AT!Resting]
        PROVE  /\ \A u \in Request \ {r} : turn'[u] = turn[u]
               /\ turn'[r].todo = <<>> /\ turn'[r].pc \in {"idle", "accepted", "model"}
    BY <1>1, <2>1 DEF AT!Resting
  <2>2. ASSUME NEW s \in Session, AT!Send(r, s)
        PROVE  /\ \A u \in Request \ {r} : turn'[u] = turn[u]
               /\ turn'[r].todo = <<>> /\ turn'[r].pc \in {"idle", "accepted", "model"}
    BY <1>1, <2>2 DEF AT!Send, AT!Resting
  <2>3. CASE AT!Begin(r)
    <3>1. turn[r].todo = <<>> /\ turn[r] \in Turn
      BY <1>1, <2>3 DEF AT!Begin, TurnInv, InTurn
    <3>2. CASE turn' = [turn EXCEPT ![r].pc = "model"]
      BY <1>1, <3>1, <3>2 DEF Turn
    <3> QED
      BY <2>1, <2>3, <3>2 DEF AT!Begin
  <2>4. CASE AT!Fail(r) \/ AT!Reply(r) \/ AT!Cut(r)
    <3>1. turn' = [turn EXCEPT ![r] = AT!Resting]
      BY <2>4 DEF AT!Fail, AT!Reply, AT!Cut, AT!Leaves
    <3> QED
      BY <2>1, <3>1
  <2> QED
    BY <2>2, <2>3, <2>4
<1>5. \A s \in Session : lock'[s] = lock[s] \/ lock[s] \in {None, r}
  <2>1. ASSUME turn[r].pc \notin {"idle", "accepted"}, AT!Leaves(r)
        PROVE  \A s \in Session : lock'[s] = lock[s] \/ lock[s] \in {None, r}
    BY <1>1, <2>1, TurnIs DEF AT!Leaves
  <2>2. CASE AT!Begin(r) \/ \E s \in Session : AT!Send(r, s)
    BY <1>1, <2>2 DEF AT!Begin, AT!Send
  <2>3. CASE AT!Fail(r) \/ AT!Reply(r)
    BY <2>1, <2>3 DEF AT!Fail, AT!Reply, AT!MayAsk
  <2>4. CASE AT!Cut(r)
    BY <2>1, <2>4 DEF AT!Cut
  <2> QED
    BY <2>2, <2>3, <2>4
<1>6. Ready(r)' /\ Todo(r)' = {}
  BY <1>4, EmptyReady
<1> QED
  BY <1>1, <1>2, <1>3, <1>4, <1>5, <1>6, QuietKeeps

\* The calls that a model makes are new.
LEMMA AskForToolsAudit ==
    ASSUME TurnInv, AuditInv, NEW r \in Request,
           NEW k \in 1..2, NEW ids \in [1..k -> Id], NEW kinds \in [1..k -> AT!ToolKind],
           AT!AskForTools(r, ids, kinds)
    PROVE  AuditInv'
<1> DEFINE cs == [i \in DOMAIN ids |-> [no |-> calls + i, id |-> ids[i], kind |-> kinds[i]]]
<1>1. PICK s \in Session : s = turn[r].session /\ lock[s] = r
  BY TurnIs DEF AT!AskForTools, AT!MayAsk
<1>2. /\ turn[r].pc = "model" /\ calls + Len(ids) <= MaxCalls /\ calls' = calls + Len(ids)
      /\ unanswered' = [unanswered EXCEPT ![s] = @ \cup AT!Range(cs)]
      /\ turn' = [turn EXCEPT ![r].pc = "calls", ![r].step = @ + 1, ![r].todo = cs]
      /\ UNCHANGED <<lock, invoked, audited, unrecorded, cut>>
  BY <1>1 DEF AT!AskForTools, AT!MayAsk, AT!ghosts
<1>3. Len(ids) = k /\ cs \in Seq(AT!Call) /\ DOMAIN cs = 1..k
  BY <1>2, CallsAre
<1>4. calls \in Nat /\ calls' = calls + k /\ k \in Nat
  BY <1>2, <1>3, TurnAssumption DEF TurnInv, TurnTypes
<1>5. ASSUME NEW i \in 1..k
      PROVE  /\ cs[i] \in AT!Call /\ cs[i].no = calls + i /\ cs[i].no > calls
             /\ cs[i] \notin invoked \cup Recorded
             /\ \A j \in 1..k : cs[i] = cs[j] => i = j
  <2>1. /\ DOMAIN ids = 1..k /\ cs[i].no = calls + i /\ \A j \in 1..k : cs[j].no = calls + j
    OBVIOUS
  <2>2. cs[i] \in AT!Call
    BY <1>3, ElementOfSeq, LenProperties
  <2> HIDE DEF cs
  <2>3. calls + i > calls /\ \A j \in 1..k : calls + i = calls + j => i = j
    BY <1>4
  <2>4. cs[i] \notin invoked \cup Recorded
    BY <1>4, <2>1, <2>3 DEF AuditInv, Old
  <2> QED
    BY <2>1, <2>2, <2>3, <2>4
<1> HIDE DEF cs
<1>6. /\ turn \in [Request -> Turn] /\ turn[r] \in Turn
      /\ unanswered'[s] = unanswered[s] \cup AT!Range(cs)
      /\ \A x \in Session \ {s} : unanswered'[x] = unanswered[x]
  <2> HIDE DEF AT!Range
  <2> QED
    BY <1>2 DEF TurnInv, TurnTypes
<1>7. /\ turn'[r].pc = "calls" /\ turn'[r].session = s /\ turn'[r].todo = cs
      /\ \A u \in Request \ {r} : turn'[u] = turn[u]
  BY <1>1, <1>2, <1>6 DEF Turn
<1>8. Recorded' = Recorded
  BY <1>2 DEF Recorded
<1>9. Ready(r)'
  <2>1. \A i \in DOMAIN cs : cs[i] \in unanswered'[s]
    BY <1>6 DEF AT!Range
  <2> QED
    <3>1. \A i \in DOMAIN cs : /\ cs[i] \notin invoked' \cup Recorded'
                               /\ \A j \in DOMAIN cs : cs[i] = cs[j] => i = j
      BY <1>2, <1>3, <1>5, <1>8
    <3> QED
      BY <1>7, <2>1, <3>1 DEF Ready
<1>10. \A c \in Todo(r)' : c \in AT!Call /\ c.no > calls
  BY <1>3, <1>5, <1>7 DEF Todo
<1> QED
  BY <1>2, <1>4, <1>6, <1>7, <1>9, <1>10, QuietKeeps

\* The variables that the invariant speaks of stand still.
LEMMA AuditStands ==
    ASSUME AuditInv, UNCHANGED <<lock, turn, unanswered, calls, invoked, audited, unrecorded, cut>>
    PROVE  AuditInv'
<1>1. Recorded' = Recorded /\ Old' /\ (AT!AuditIsTrue)'
  BY DEF AuditInv, Recorded, Old, AT!AuditIsTrue
<1>2. NoneShared'
  BY DEF AuditInv, NoneShared, Todo
<1>3. ASSUME NEW r \in Request PROVE Ready(r)'
  <2>1. Ready(r) /\ UNCHANGED <<turn, unanswered, invoked, Recorded>>
    BY <1>1 DEF AuditInv
  <2> HIDE DEF Recorded
  <2> QED
    BY <2>1 DEF Ready
<1> QED
  BY <1>1, <1>2, <1>3 DEF AuditInv

LEMMA InitAudit == AT!Init => AuditInv
<1> SUFFICES ASSUME AT!Init PROVE AuditInv
  OBVIOUS
<1>1. Old /\ AT!AuditIsTrue
  BY DEF AT!Init, Old, Recorded, AT!AuditIsTrue
<1>2. \A r \in Request : turn[r] = AT!Resting
  BY DEF AT!Init
<1>3. DOMAIN AT!Resting.todo = {} /\ AT!Resting.todo = <<>> /\ AT!Resting.pc = "idle"
  BY EmptySeq DEF AT!Resting
<1>4. NoneShared /\ \A r \in Request : Ready(r)
  BY <1>2, <1>3 DEF NoneShared, Todo, Ready
<1> QED
  BY <1>1, <1>4 DEF AuditInv

LEMMA NextAudit ==
    ASSUME TurnInv, AuditInv, AT!Next
    PROVE  AuditInv'
<1>1. ASSUME NEW s \in Session,
             \/ AT!CreateSession(s) \/ AT!DropSession(s)
             \/ \E i \in Id, reply \in {"granted", "denied"} : AT!Approve(s, i, reply)
      PROVE  AuditInv'
  <2>1. UNCHANGED <<lock, turn, unanswered, calls, invoked, audited, unrecorded, cut>>
    BY <1>1 DEF AT!CreateSession, AT!DropSession, AT!Approve, AT!ghosts
  <2> QED
    BY <2>1, AuditStands
<1>2. ASSUME NEW r \in Request, AT!RunReadTool(r) PROVE AuditInv'
  BY <1>2, InvokesAudit DEF AT!RunReadTool
<1>3. ASSUME NEW r \in Request, AT!Resume(r) PROVE AuditInv'
  <2>1. CASE AT!Invokes(r, Head(turn[r].todo))
    BY <1>3, <2>1, InvokesAudit DEF AT!Resume
  <2>2. CASE /\ turn' = [turn EXCEPT ![r].pc = "telling", ![r].outcome = "denied"]
             /\ UNCHANGED invoked
    BY <1>3, <2>2, MovesAudit
  <2> QED
    BY <1>3, <2>1, <2>2 DEF AT!Resume
<1>4. ASSUME NEW r \in Request, AT!ToolEnds(r) \/ AT!AddResult(r) PROVE AuditInv'
  BY <1>4, ToolEndsAudit, AddResultAudit
<1>5. ASSUME NEW r \in Request, AT!Refuse(r) \/ AT!AskApproval(r) \/ AT!Wait(r)
      PROVE  AuditInv'
  BY <1>5, MovesAudit
<1>6. ASSUME NEW r \in Request,
             \/ \E s \in Session : AT!Send(r, s)
             \/ AT!Begin(r) \/ AT!Fail(r) \/ AT!Reply(r) \/ AT!Cut(r)
      PROVE  AuditInv'
  BY <1>6, EdgesAudit
<1>7. ASSUME NEW r \in Request, NEW k \in 1..2, NEW ids \in [1..k -> Id],
             NEW kinds \in [1..k -> AT!ToolKind], AT!AskForTools(r, ids, kinds)
      PROVE  AuditInv'
  BY <1>7, AskForToolsAudit
<1> QED
  BY <1>1, <1>2, <1>3, <1>4, <1>5, <1>6, <1>7 DEF AT!Next

-----------------------------------------------------------------------------
(* A login. *)

Attempt == [pc : LG!Pc, no : Nat, account : Account \cup {None}, at : Nat,
            new : BOOLEAN, row : Nat]

LoginTypes ==
    /\ now \in Nat /\ tries \in Nat /\ raced \in BOOLEAN
    /\ bucket \in Seq(Nat) /\ allowed \in Seq(Nat)
    /\ handler \in [Handler -> Attempt]
    /\ accounts \subseteq Account
    /\ session \in Seq([account : Account, revoked : BOOLEAN])
    /\ cookies \subseteq DOMAIN session
    /\ DOMAIN audit \subseteq 1..tries

\* A request has a number without a record so far, came in before now, and its
\* account is known when a session is made; the session's row is its own until
\* the cookie is sent.
Underway(h) ==
    LET q == handler[h] IN
    /\ q.pc # "idle" =>
         q.account \in Account /\ q.at <= now /\ q.no \in 1..tries /\ q.no \notin DOMAIN audit
    /\ q.pc \in {"userinfo", "insert"} => q.account \in accounts
    /\ q.pc = "record" => q.row \in DOMAIN session \ cookies /\ ~session[q.row].revoked

\* No two requests have a number, or a row, in common.
Distinct(g, h) ==
    g # h =>
        /\ handler[g].pc # "idle" /\ handler[h].pc # "idle" => handler[g].no # handler[h].no
        /\ handler[g].pc = "record" /\ handler[h].pc = "record" => handler[g].row # handler[h].row

Successes == {n \in DOMAIN audit : audit[n] = "success"}

\* Every cookie that was sent has its own record of success: the record is made
\* first (Audited), and a number is recorded once.
LoginInv ==
    /\ LoginTypes
    /\ \A k \in DOMAIN bucket : bucket[k] <= now
    /\ \A n \in DOMAIN session : session[n].account \in accounts
    /\ \A h \in Handler : Underway(h)
    /\ \A g, h \in Handler : Distinct(g, h)
    /\ Cardinality(cookies) <= Cardinality(Successes)

-----------------------------------------------------------------------------
\* Request h changes to record q.
Handles(h, q) ==
    /\ handler' \in [Handler -> Attempt] /\ handler'[h] = q
    /\ \A g \in Handler \ {h} : handler'[g] = handler[g]

LEMMA HandlesIs ==
    ASSUME LoginTypes, NEW h \in Handler, NEW q \in Attempt, handler' = [handler EXCEPT ![h] = q]
    PROVE  Handles(h, q)
BY DEF LoginTypes, Handles

LEMMA EndsIs ==
    ASSUME LoginTypes, NEW h \in Handler, LG!Ends(h)
    PROVE  \E q \in Attempt : Handles(h, q) /\ q.pc = "idle"
<1>1. LG!Resting \in Attempt /\ LG!Resting.pc = "idle"
  BY DEF LG!Resting, Attempt, LG!Pc
<1> QED
  BY <1>1, HandlesIs DEF LG!Ends

LEMMA GoesIs ==
    ASSUME LoginTypes, NEW h \in Handler, NEW p \in LG!Pc, LG!Goes(h, p)
    PROVE  \E q \in Attempt :
             /\ Handles(h, q) /\ q.pc = p /\ q.no = handler[h].no /\ q.account = handler[h].account
             /\ q.at = handler[h].at /\ q.new = handler[h].new /\ q.row = handler[h].row
<1> DEFINE q == [handler[h] EXCEPT !.pc = p]
<1>1. handler[h] \in Attempt
  BY DEF LoginTypes
<1>2. /\ q \in Attempt /\ q.pc = p /\ q.no = handler[h].no /\ q.account = handler[h].account
      /\ q.at = handler[h].at /\ q.new = handler[h].new /\ q.row = handler[h].row
  BY <1>1 DEF Attempt
<1>3. handler' = [handler EXCEPT ![h] = q]
  BY DEF LG!Goes
<1> HIDE DEF q
<1> QED
  BY <1>2, <1>3, HandlesIs

\* The records of success, and how one more is counted.
LEMMA SuccessesAreFinite ==
    ASSUME LoginTypes
    PROVE  IsFiniteSet(Successes) /\ Cardinality(Successes) \in Nat
<1>1. IsFiniteSet(1..tries) /\ Successes \in SUBSET (1..tries)
  BY FS_Interval DEF LoginTypes, Successes
<1> QED
  BY <1>1, FS_Subset, FS_CardinalityType

LEMMA CookiesAreFinite ==
    ASSUME LoginTypes
    PROVE  IsFiniteSet(cookies) /\ Cardinality(cookies) \in Nat
<1>1. IsFiniteSet(1..Len(session)) /\ cookies \in SUBSET (1..Len(session))
  <2>1. Len(session) \in Nat /\ DOMAIN session = 1..Len(session)
    BY LenProperties DEF LoginTypes
  <2> QED
    BY <2>1, FS_Interval DEF LoginTypes
<1> QED
  BY <1>1, FS_Subset, FS_CardinalityType

LEMMA AuditedIs ==
    ASSUME LoginTypes, NEW h \in Handler, Underway(h), handler[h].pc # "idle",
           NEW outcome, LG!Audited(h, outcome)
    PROVE  /\ DOMAIN audit' = DOMAIN audit \cup {handler[h].no}
           /\ DOMAIN audit' \subseteq 1..tries
           /\ outcome # "success" => Successes' = Successes
           /\ outcome = "success" =>
                Successes' = Successes \cup {handler[h].no} /\ handler[h].no \notin Successes
<1> DEFINE m == handler[h].no
<1>1. m \in 1..tries /\ m \notin DOMAIN audit
  BY DEF Underway
<1>2. /\ audit' = [n \in DOMAIN audit \cup {m} |-> IF n = m THEN outcome ELSE audit[n]]
  BY DEF LG!Audited
<1> HIDE DEF m
<1>3. /\ DOMAIN audit' = DOMAIN audit \cup {m} /\ audit'[m] = outcome
      /\ \A n \in DOMAIN audit : audit'[n] = audit[n]
  BY <1>1, <1>2
<1>4. outcome # "success" => Successes' = Successes
  BY <1>1, <1>3 DEF Successes
<1>5. outcome = "success" => Successes' = Successes \cup {m} /\ m \notin Successes
  BY <1>1, <1>3 DEF Successes
<1> QED
  BY <1>1, <1>3, <1>4, <1>5 DEF m, LoginTypes

-----------------------------------------------------------------------------
\* A step of one request that leaves the sessions alone.
LEMMA RequestStep ==
    ASSUME LoginInv, NEW h \in Handler, handler[h].pc # "idle",
           NEW q \in Attempt, Handles(h, q),
           q.pc # "record",
           q.pc # "idle" => q.no = handler[h].no /\ q.account = handler[h].account /\ q.at = handler[h].at,
           q.pc \in {"userinfo", "insert"} => q.account \in accounts',
           UNCHANGED <<now, tries, raced, session, cookies>>,
           \/ UNCHANGED audit
           \/ q.pc = "idle" /\ \E outcome \in {"failed", "rate_limited"} : LG!Audited(h, outcome),
           accounts \subseteq accounts', accounts' \subseteq Account,
           bucket' \in Seq(Nat), allowed' \in Seq(Nat), \A k \in DOMAIN bucket' : bucket'[k] <= now
    PROVE  LoginInv'
<1>1. /\ DOMAIN audit' \subseteq 1..tries /\ Successes' = Successes
      /\ DOMAIN audit' \subseteq DOMAIN audit \cup {handler[h].no}
      /\ q.pc # "idle" => audit' = audit
  <2>1. CASE UNCHANGED audit
    BY <2>1 DEF Successes, LoginInv, LoginTypes
  <2>2. CASE q.pc = "idle" /\ \E outcome \in {"failed", "rate_limited"} : LG!Audited(h, outcome)
    BY <2>2, AuditedIs DEF LoginInv
  <2> QED
    BY <2>1, <2>2
<1>2. LoginTypes'
  BY <1>1 DEF LoginInv, LoginTypes, Handles
<1>3. ASSUME NEW g \in Handler PROVE Underway(g)'
  <2>1. CASE g = h
    BY <1>1, <2>1 DEF LoginInv, Underway, Handles
  <2>2. CASE g # h
    <3>1. Underway(g) /\ Distinct(g, h) /\ handler'[g] = handler[g]
      BY <2>2 DEF LoginInv, Handles
    <3> QED
      BY <1>1, <2>2, <3>1 DEF Underway, Distinct
  <2> QED
    BY <2>1, <2>2
<1>4. ASSUME NEW f \in Handler, NEW g \in Handler PROVE Distinct(f, g)'
  <2>1. Distinct(f, g)
    BY DEF LoginInv
  <2> QED
    BY <2>1 DEF Distinct, Handles
<1> QED
  BY <1>1, <1>2, <1>3, <1>4 DEF LoginInv

LEMMA StartKeeps ==
    ASSUME LoginInv, NEW h \in Handler, NEW a \in Account, NEW new \in BOOLEAN, LG!Start(h, a, new)
    PROVE  LoginInv'
<1> DEFINE q == [pc |-> "prune", no |-> tries + 1, account |-> a, at |-> now,
                 new |-> new, row |-> 0]
<1>1. /\ handler[h].pc = "idle" /\ tries' = tries + 1 /\ handler' = [handler EXCEPT ![h] = q]
      /\ raced' \in BOOLEAN
      /\ UNCHANGED <<now, bucket, accounts, session, audit, cookies, allowed>>
  <2>1. raced' = (raced \/ \E g \in Handler : handler[g].pc \in LG!InLimiter)
    BY DEF LG!Start
  <2> QED
    BY <2>1 DEF LG!Start, LG!Is, LoginInv, LoginTypes
<1>2. now \in Nat /\ tries \in Nat
  BY DEF LoginInv, LoginTypes
<1>3. q \in Attempt /\ q.pc = "prune" /\ q.no = tries + 1 /\ q.account = a /\ q.at = now
  BY <1>2 DEF Attempt, LG!Pc, LG!InLimiter
<1> HIDE DEF q
<1>4. Handles(h, q)
  BY <1>1, <1>3, HandlesIs DEF LoginInv
<1>5. \A n \in 1..tries : n \in 1..tries' /\ n # tries + 1
  BY <1>1, <1>2
<1>6. LoginTypes'
  BY <1>1, <1>2, <1>4, <1>5 DEF LoginInv, LoginTypes, Handles
<1>7. ASSUME NEW g \in Handler PROVE Underway(g)'
  <2>1. CASE g = h
    <3>1. tries + 1 \in 1..tries' /\ tries + 1 \notin DOMAIN audit
      BY <1>1, <1>2, <1>5 DEF LoginInv, LoginTypes
    <3> QED
      BY <1>1, <1>2, <1>3, <1>4, <2>1, <3>1 DEF Underway, Handles
  <2>2. CASE g # h
    BY <1>1, <1>4, <1>5, <2>2 DEF LoginInv, Underway, Handles
  <2> QED
    BY <2>1, <2>2
<1>8. \A g \in Handler \ {h} : handler[g].pc # "idle" => handler[g].no # tries + 1
  BY <1>5 DEF LoginInv, Underway
<1>9. ASSUME NEW f \in Handler, NEW g \in Handler PROVE Distinct(f, g)'
  <2>1. Distinct(f, g)
    BY DEF LoginInv
  <2> QED
    BY <1>3, <1>4, <1>8, <2>1 DEF Distinct, Handles
<1>10. Successes' = Successes
  BY <1>1 DEF Successes
<1> QED
  BY <1>1, <1>6, <1>7, <1>9, <1>10 DEF LoginInv

LEMMA InsertKeeps ==
    ASSUME LoginInv, NEW h \in Handler, LG!InsertSession(h)
    PROVE  LoginInv'
<1> DEFINE n == Len(session) + 1
           entry == [account |-> handler[h].account, revoked |-> FALSE]
           q == [handler[h] EXCEPT !.pc = "record", !.row = n]
<1>1. /\ handler[h].pc = "insert" /\ session' = Append(session, entry)
      /\ handler' = [handler EXCEPT ![h].pc = "record", ![h].row = n]
      /\ UNCHANGED <<now, bucket, accounts, audit, cookies, tries, allowed, raced>>
  BY DEF LG!InsertSession, LG!Is
<1>2. Len(session) \in Nat /\ DOMAIN session = 1..Len(session)
  BY LenProperties DEF LoginInv, LoginTypes
<1>3. handler[h] \in Attempt /\ Underway(h)
  BY DEF LoginInv, LoginTypes
<1>4. q \in Attempt /\ q.pc = "record" /\ q.no = handler[h].no /\ q.account = handler[h].account
      /\ q.at = handler[h].at /\ q.row = n
  <2>1. n \in Nat /\ "record" \in LG!Pc
    BY <1>2 DEF LG!Pc
  <2> HIDE DEF n
  <2> QED
    BY <1>3, <2>1 DEF Attempt
<1>5. handler' = [handler EXCEPT ![h] = q]
  <2> HIDE DEF n
  <2> QED
    BY <1>1 DEF LoginInv, LoginTypes
<1>6. entry \in [account : Account, revoked : BOOLEAN] /\ entry.account \in accounts /\ ~entry.revoked
  BY <1>1, <1>3 DEF Underway
<1> HIDE DEF q, entry
<1>7. /\ session' \in Seq([account : Account, revoked : BOOLEAN])
      /\ Len(session') = n /\ session'[n] = entry
      /\ \A k \in 1..Len(session) : session'[k] = session[k]
  BY <1>1, <1>6, AppendProperties DEF LoginInv, LoginTypes
<1>8. DOMAIN session' = DOMAIN session \cup {n} /\ n \notin DOMAIN session
  BY <1>2, <1>7, LenProperties
<1> HIDE DEF n
<1>9. Handles(h, q)
  BY <1>4, <1>5, HandlesIs DEF LoginInv
<1>10. LoginTypes'
  BY <1>1, <1>7, <1>8, <1>9 DEF LoginInv, LoginTypes, Handles
<1>11. \A k \in DOMAIN session' : session'[k].account \in accounts'
  BY <1>1, <1>2, <1>6, <1>7, <1>8 DEF LoginInv
<1>12. ASSUME NEW g \in Handler PROVE Underway(g)'
  <2>1. CASE g = h
    <3>1. n \notin cookies
      BY <1>8 DEF LoginInv, LoginTypes
    <3> QED
      BY <1>1, <1>3, <1>4, <1>6, <1>7, <1>8, <1>9, <2>1, <3>1 DEF Underway, Handles
  <2>2. CASE g # h
    BY <1>1, <1>2, <1>7, <1>8, <1>9, <2>2 DEF LoginInv, Underway, Handles
  <2> QED
    BY <2>1, <2>2
<1>13. \A g \in Handler \ {h} : handler[g].pc = "record" => handler[g].row # n
  BY <1>8 DEF LoginInv, Underway
<1>14. ASSUME NEW f \in Handler, NEW g \in Handler PROVE Distinct(f, g)'
  <2>1. Distinct(f, g)
    BY DEF LoginInv
  <2> QED
    BY <1>1, <1>4, <1>9, <1>13, <2>1 DEF Distinct, Handles
<1>15. Successes' = Successes
  BY <1>1 DEF Successes
<1> QED
  BY <1>1, <1>10, <1>11, <1>12, <1>14, <1>15 DEF LoginInv

\* One record of success more, and one cookie more at most.
LEMMA RecordKeeps ==
    ASSUME LoginInv, NEW h \in Handler, LG!RecordAndAnswer(h)
    PROVE  LoginInv'
<1> DEFINE n == handler[h].row
           m == handler[h].no
<1>1. /\ handler[h].pc = "record" /\ LG!Ends(h)
      /\ \/ LG!Audited(h, "success") /\ cookies' = cookies \cup {n}
         \/ UNCHANGED <<audit, cookies>>
      /\ UNCHANGED <<now, bucket, accounts, session, tries, allowed, raced>>
  BY DEF LG!RecordAndAnswer, LG!Is
<1>2. PICK q \in Attempt : Handles(h, q) /\ q.pc = "idle"
  BY EndsIs DEF LoginInv, LG!RecordAndAnswer
<1>3. Underway(h) /\ LoginTypes
  BY DEF LoginInv
<1>4. n \in DOMAIN session \ cookies
  BY <1>1, <1>3 DEF Underway
<1>5. /\ DOMAIN audit \subseteq DOMAIN audit' /\ DOMAIN audit' \subseteq 1..tries
      /\ DOMAIN audit' \subseteq DOMAIN audit \cup {m}
      /\ cookies' \subseteq cookies \cup {n}
      /\ Cardinality(cookies') <= Cardinality(Successes')
  <2>1. CASE LG!Audited(h, "success") /\ cookies' = cookies \cup {n}
    <3>1. /\ DOMAIN audit' = DOMAIN audit \cup {m} /\ DOMAIN audit' \subseteq 1..tries
          /\ Successes' = Successes \cup {m} /\ m \notin Successes
      BY <1>1, <1>3, <2>1, AuditedIs
    <3>2. /\ Cardinality(Successes \cup {m}) = Cardinality(Successes) + 1
          /\ Cardinality(Successes) \in Nat
      BY <1>3, <3>1, SuccessesAreFinite, FS_AddElement
    <3>3. Cardinality(cookies \cup {n}) = Cardinality(cookies) + 1 /\ Cardinality(cookies) \in Nat
      BY <1>3, <1>4, CookiesAreFinite, FS_AddElement
    <3>4. Cardinality(cookies) <= Cardinality(Successes)
      BY DEF LoginInv
    <3>5. Cardinality(cookies) + 1 <= Cardinality(Successes) + 1
      BY <3>2, <3>3, <3>4
    <3>6. Cardinality(cookies') <= Cardinality(Successes')
      BY <2>1, <3>1, <3>2, <3>3, <3>5
    <3> QED
      BY <2>1, <3>1, <3>6
  <2>2. CASE UNCHANGED <<audit, cookies>>
    BY <1>3, <2>2 DEF Successes, LoginInv, LoginTypes
  <2> QED
    BY <1>1, <2>1, <2>2
<1>6. LoginTypes'
  BY <1>1, <1>2, <1>4, <1>5 DEF LoginInv, LoginTypes, Handles
<1>7. ASSUME NEW g \in Handler PROVE Underway(g)'
  <2>1. CASE g = h
    BY <1>2, <2>1 DEF Underway, Handles
  <2>2. CASE g # h
    <3>1. Underway(g) /\ Distinct(g, h) /\ handler'[g] = handler[g]
      BY <1>2, <2>2 DEF LoginInv, Handles
    <3>2. handler[g].pc # "idle" => handler[g].no # m
      BY <1>1, <2>2, <3>1 DEF Distinct
    <3>3. handler[g].pc = "record" => handler[g].row # n
      BY <1>1, <2>2, <3>1 DEF Distinct
    <3> HIDE DEF m, n
    <3> QED
      BY <1>1, <1>5, <3>1, <3>2, <3>3 DEF Underway
  <2> QED
    BY <2>1, <2>2
<1>8. ASSUME NEW f \in Handler, NEW g \in Handler PROVE Distinct(f, g)'
  BY <1>2 DEF LoginInv, Distinct, Handles
<1> QED
  BY <1>1, <1>5, <1>6, <1>7, <1>8 DEF LoginInv

LEMMA LogoutKeeps ==
    ASSUME LoginInv, NEW n \in cookies, LG!Logout(n)
    PROVE  LoginInv'
<1> DEFINE entry == [session[n] EXCEPT !.revoked = TRUE]
           Row == [account : Account, revoked : BOOLEAN]
<1>1. /\ session' = [session EXCEPT ![n].revoked = TRUE] /\ cookies' \in {cookies, cookies \ {n}}
      /\ UNCHANGED <<now, bucket, handler, accounts, audit, tries, allowed, raced>>
  BY DEF LG!Logout
<1>2. session \in Seq(Row) /\ n \in DOMAIN session /\ LoginTypes
  BY DEF LoginInv, LoginTypes
<1>3. session[n] \in Row
  BY <1>2, ElementOfSeq, LenProperties
<1>4. entry \in Row /\ entry.account = session[n].account
  BY <1>3
<1>5. session' = [session EXCEPT ![n] = entry]
  BY <1>1
<1> HIDE DEF entry
<1>6. /\ session' \in Seq(Row) /\ DOMAIN session' = DOMAIN session
      /\ \A k \in DOMAIN session : /\ session'[k].account = session[k].account
                                   /\ k # n => session'[k] = session[k]
  <2>1. session' \in Seq(Row) /\ Len(session') = Len(session)
    BY <1>2, <1>4, <1>5, ExceptSeq, LenProperties
  <2>2. DOMAIN session' = DOMAIN session
    BY <1>5
  <2> QED
    BY <1>2, <1>4, <1>5, <2>1, <2>2
<1>7. LoginTypes'
  BY <1>1, <1>2, <1>6 DEF LoginTypes
<1>8. ASSUME NEW g \in Handler PROVE Underway(g)'
  <2>1. Underway(g) /\ (handler[g].pc = "record" => handler[g].row # n)
    BY DEF LoginInv, Underway
  <2> QED
    BY <1>1, <1>6, <2>1 DEF Underway
<1>9. Cardinality(cookies') <= Cardinality(Successes')
  <2>1. /\ IsFiniteSet(cookies) /\ cookies' \subseteq cookies
        /\ Cardinality(cookies) \in Nat /\ Cardinality(Successes) \in Nat
    BY <1>1, <1>2, CookiesAreFinite, SuccessesAreFinite
  <2>2. Cardinality(cookies') <= Cardinality(cookies) /\ Cardinality(cookies') \in Nat
    BY <2>1, FS_Subset, FS_CardinalityType
  <2>3. Successes' = Successes /\ Cardinality(cookies) <= Cardinality(Successes)
    BY <1>1 DEF Successes, LoginInv
  <2> QED
    BY <2>1, <2>2, <2>3
<1>10. \A f, g \in Handler : Distinct(f, g)'
  BY <1>1 DEF LoginInv, Distinct
<1>11. \A k \in DOMAIN session' : session'[k].account \in accounts'
  BY <1>1, <1>6 DEF LoginInv
<1>12. \A k \in DOMAIN bucket' : bucket'[k] <= now'
  BY <1>1 DEF LoginInv
<1> QED
  BY <1>7, <1>8, <1>9, <1>10, <1>11, <1>12 DEF LoginInv

-----------------------------------------------------------------------------
(* The limiter, while one thread at a time is in it. *)

\* Who is in the limiter judges all that came before, and knows the head of the
\* bucket as it left it.
Judges(h) ==
    LET at == handler[h].at IN
    handler[h].pc \in LG!InLimiter =>
        /\ \A k \in 1..Len(allowed) : allowed[k] <= at
        /\ \A k \in 1..Len(allowed) - Len(bucket) : allowed[k] + Window <= at
        /\ handler[h].pc = "pop" => bucket # <<>> /\ bucket[1] + Window <= at
        /\ handler[h].pc = "count" => (bucket # <<>> => bucket[1] + Window > at)
        /\ handler[h].pc = "append" => Len(bucket) < MaxAttempts

\* Requests come through in the order of their times; the bucket has the last
\* of them, and those that have left it are too old; so max_attempts of them
\* take a window.
Limited ==
    /\ Len(bucket) <= Len(allowed)
    /\ \A k \in 1..Len(allowed) : allowed[k] <= now
    /\ \A j, k \in 1..Len(allowed) : j <= k => allowed[j] <= allowed[k]
    /\ \A k \in 1..Len(bucket) : bucket[k] = allowed[Len(allowed) - Len(bucket) + k]
    /\ \A k \in 1..Len(allowed) - Len(bucket) : allowed[k] + Window <= now
    /\ \A k \in 1..Len(allowed) :
         k + MaxAttempts <= Len(allowed) => allowed[k] + Window <= allowed[k + MaxAttempts]
    /\ \A h \in Handler : Judges(h)
    /\ \A g, h \in Handler :
         handler[g].pc \in LG!InLimiter /\ handler[h].pc \in LG!InLimiter => g = h

LEMMA TimesAre ==
    ASSUME LoginInv
    PROVE  /\ now \in Nat /\ Window \in Nat /\ MaxAttempts \in Nat
           /\ Len(allowed) \in Nat /\ Len(bucket) \in Nat
           /\ DOMAIN allowed = 1..Len(allowed) /\ DOMAIN bucket = 1..Len(bucket)
           /\ \A k \in 1..Len(allowed) : allowed[k] \in Nat
           /\ \A k \in 1..Len(bucket) : bucket[k] \in Nat
           /\ bucket = <<>> <=> Len(bucket) = 0
           /\ \A h \in Handler : handler[h] \in Attempt /\ handler[h].at \in Nat
           /\ \A h \in Handler : handler[h].pc # "idle" => handler[h].at <= now
BY LenProperties, ElementOfSeq, EmptySeq, LoginAssumption
   DEF LoginInv, LoginTypes, Attempt, Underway

\* A step outside of the limiter.
LEMMA OutsideLimiter ==
    ASSUME LoginInv, Limited, UNCHANGED <<allowed, bucket>>, now <= now', now' \in Nat,
           \A g \in Handler : handler'[g].pc \in LG!InLimiter => handler'[g] = handler[g]
    PROVE  Limited'
<1>1. Len(bucket)' = Len(bucket) /\ Len(allowed)' = Len(allowed)
  OBVIOUS
<1>2. \A k \in 1..Len(allowed) : allowed[k]' = allowed[k] /\ allowed[k] <= now'
  BY TimesAre DEF Limited
<1>3. \A k \in 1..Len(allowed) - Len(bucket) : allowed[k] + Window <= now'
  <2>1. \A k \in 1..Len(allowed) - Len(bucket) : k \in 1..Len(allowed)
    BY TimesAre
  <2> QED
    BY <2>1, TimesAre DEF Limited
<1>4. \A g \in Handler : Judges(g)'
  BY <1>1 DEF Limited, Judges
<1> QED
  BY <1>1, <1>2, <1>3, <1>4 DEF Limited

LEMMA StartLimited ==
    ASSUME LoginInv, ~raced => Limited, NEW h \in Handler, NEW a \in Account, NEW new \in BOOLEAN,
           LG!Start(h, a, new), ~raced'
    PROVE  Limited'
<1>1. /\ ~raced /\ \A g \in Handler : handler[g].pc \notin LG!InLimiter
      /\ UNCHANGED <<now, bucket, allowed>>
  BY DEF LG!Start
<1>2. Limited /\ handler \in [Handler -> Attempt]
  BY <1>1 DEF LoginInv, LoginTypes
<1>3. handler' = [handler EXCEPT ![h] = [pc |-> "prune", no |-> tries + 1, account |-> a, at |-> now,
                                         new |-> new, row |-> 0]]
  BY DEF LG!Start
<1>4. /\ handler'[h].pc = "prune" /\ handler'[h].at = now
      /\ \A g \in Handler \ {h} : handler'[g] = handler[g]
  BY <1>2, <1>3
<1>5. Judges(h)'
  BY <1>1, <1>2, <1>4 DEF Limited, Judges
<1>6. \A g \in Handler \ {h} : Judges(g)' /\ handler'[g].pc \notin LG!InLimiter
  BY <1>1, <1>4 DEF Judges
<1> QED
  BY <1>1, <1>2, <1>5, <1>6 DEF Limited

\* The one in the limiter goes on, and the bucket stays.
LEMMA GoesInLimiter ==
    ASSUME LoginInv, Limited, NEW h \in Handler, handler[h].pc \in LG!InLimiter,
           NEW p \in LG!InLimiter, LG!Goes(h, p), UNCHANGED <<now, bucket, allowed>>,
           p = "pop" => bucket # <<>> /\ bucket[1] + Window <= handler[h].at,
           p = "count" => (bucket # <<>> => bucket[1] + Window > handler[h].at),
           p = "append" => Len(bucket) < MaxAttempts
    PROVE  Limited'
<1>1. PICK q \in Attempt : Handles(h, q) /\ q.pc = p /\ q.at = handler[h].at
  <2>1. p \in LG!Pc
    BY DEF LG!Pc
  <2> QED
    BY <2>1, GoesIs DEF LoginInv
<1>2. \A g \in Handler \ {h} : handler'[g] = handler[g] /\ handler[g].pc \notin LG!InLimiter
  BY <1>1 DEF Limited, Handles
<1>3. Judges(h)'
  BY <1>1 DEF Limited, Judges, Handles
<1>4. \A g \in Handler \ {h} : Judges(g)'
  BY <1>2 DEF Judges
<1> QED
  BY <1>2, <1>3, <1>4 DEF Limited

LEMMA PruneLimited ==
    ASSUME LoginInv, Limited, NEW h \in Handler, LG!Prune(h)
    PROVE  Limited'
<1> DEFINE at == handler[h].at
           p == IF bucket # <<>> /\ LG!Old(Head(bucket), at) THEN "pop" ELSE "count"
<1>1. handler[h].pc = "prune" /\ LG!Goes(h, p) /\ UNCHANGED <<now, bucket, allowed>>
  BY DEF LG!Prune, LG!Is
<1>2. bucket # <<>> => Head(bucket) = bucket[1] /\ bucket[1] \in Nat
  BY TimesAre
<1>3. /\ p \in LG!InLimiter /\ p # "append"
      /\ p = "pop" => bucket # <<>> /\ bucket[1] + Window <= at
      /\ p = "count" => (bucket # <<>> => bucket[1] + Window > at)
  BY <1>2, TimesAre DEF LG!Old, LG!InLimiter
<1>4. handler[h].pc \in LG!InLimiter
  BY <1>1 DEF LG!InLimiter
<1> HIDE DEF p
<1> QED
  BY <1>1, <1>3, <1>4, GoesInLimiter

LEMMA PopLimited ==
    ASSUME LoginInv, Limited, NEW h \in Handler, LG!PopLeft(h)
    PROVE  Limited'
<1> DEFINE b == Tail(bucket)
           N == Len(allowed)
           B == Len(bucket)
           at == handler[h].at
<1>1. /\ handler[h].pc = "pop" /\ bucket # <<>> /\ bucket[1] + Window <= at
      /\ \A k \in 1..N : allowed[k] <= at
      /\ \A k \in 1..N - B : allowed[k] + Window <= at
  BY DEF LG!PopLeft, LG!Is, LG!InLimiter, Limited, Judges
<1>2. LG!Goes(h, "prune") /\ bucket' = b /\ UNCHANGED <<now, allowed>>
  BY <1>1 DEF LG!PopLeft
<1>3. PICK q \in Attempt : Handles(h, q) /\ q.pc = "prune" /\ q.at = handler[h].at
  <2>1. "prune" \in LG!Pc
    BY DEF LG!Pc, LG!InLimiter
  <2> QED
    BY <1>2, <2>1, GoesIs DEF LoginInv
<1>4. Len(b) = B - 1 /\ \A k \in 1..B - 1 : b[k] = bucket[k + 1]
  <2>1. bucket \in Seq(Nat)
    BY DEF LoginInv, LoginTypes
  <2> QED
    BY <1>1, <2>1, HeadTailProperties
<1>5. /\ N \in Nat /\ B \in Nat /\ B > 0 /\ B <= N /\ at \in Nat /\ at <= now /\ now \in Nat
      /\ Window \in Nat
      /\ \A k \in 1..N : allowed[k] \in Nat
  BY <1>1, TimesAre DEF Limited
<1>6. \A k \in 1..B : bucket[k] = allowed[N - B + k]
  BY DEF Limited
<1> HIDE DEF b, N, B, at
<1>7. \A k \in 1..N - (B - 1) : allowed[k] + Window <= at
  <2>1. \A k \in 1..N - (B - 1) : k \in 1..N - B \/ k = N - B + 1
    BY <1>5
  <2>2. bucket[1] = allowed[N - B + 1]
    BY <1>5, <1>6
  <2> QED
    BY <1>1, <2>1, <2>2
<1>8. \A k \in 1..N - (B - 1) : allowed[k] + Window <= now
  <2>1. \A k \in 1..N - (B - 1) : allowed[k] \in Nat
    BY <1>5
  <2> QED
    BY <1>5, <1>7, <2>1
<1>9. \A k \in 1..B - 1 : b[k] = allowed[N - (B - 1) + k]
  <2> SUFFICES ASSUME NEW k \in 1..B - 1 PROVE b[k] = allowed[N - (B - 1) + k]
    OBVIOUS
  <2>1. k + 1 \in 1..B /\ N - B + (k + 1) = N - (B - 1) + k
    BY <1>5
  <2> QED
    BY <1>4, <1>6, <2>1
<1>10. Len(allowed)' = N /\ Len(bucket)' = B - 1 /\ Len(allowed) = N /\ Len(bucket) = B
  BY <1>2, <1>4 DEF N, B
<1>11. handler'[h].pc = "prune" /\ handler'[h].at = at
  BY <1>3 DEF Handles, at
<1>12. Judges(h)'
  BY <1>1, <1>2, <1>7, <1>10, <1>11 DEF Judges
<1>13. \A g \in Handler \ {h} : handler'[g] = handler[g] /\ handler[g].pc \notin LG!InLimiter
  BY <1>1, <1>3 DEF Limited, Handles, LG!InLimiter
<1>14. \A g \in Handler \ {h} : Judges(g)'
  BY <1>13 DEF Judges
<1>15. /\ \A k \in 1..N : allowed[k] <= now
       /\ \A j, k \in 1..N : j <= k => allowed[j] <= allowed[k]
       /\ \A k \in 1..N : k + MaxAttempts <= N => allowed[k] + Window <= allowed[k + MaxAttempts]
  BY DEF Limited, N
<1>16. B - 1 <= N
  BY <1>5
<1> QED
  BY <1>2, <1>8, <1>9, <1>10, <1>12, <1>13, <1>14, <1>15, <1>16 DEF Limited

LEMMA AdmitLimited ==
    ASSUME LoginInv, Limited, NEW h \in Handler, LG!Admit(h)
    PROVE  Limited'
<1> DEFINE N == Len(allowed)
           B == Len(bucket)
           at == handler[h].at
           p == IF handler[h].new THEN "create" ELSE "login"
<1>1. /\ handler[h].pc = "append" /\ B < MaxAttempts
      /\ \A k \in 1..N : allowed[k] <= at
      /\ \A k \in 1..N - B : allowed[k] + Window <= at
  BY DEF LG!Admit, LG!Is, LG!InLimiter, Limited, Judges
<1>2. /\ bucket' = Append(bucket, at) /\ allowed' = Append(allowed, at) /\ LG!Goes(h, p)
      /\ UNCHANGED now
  BY DEF LG!Admit
<1>3. PICK q \in Attempt : Handles(h, q) /\ q.pc \in {"create", "login"}
  <2>1. p \in LG!Pc
    BY DEF LG!Pc
  <2> QED
    BY <1>2, <2>1, GoesIs DEF LoginInv
<1>4. /\ N \in Nat /\ B \in Nat /\ B <= N /\ at \in Nat /\ at <= now /\ now \in Nat
      /\ Window \in Nat /\ MaxAttempts \in Nat
      /\ \A k \in 1..N : allowed[k] \in Nat
  BY <1>1, TimesAre DEF Limited
<1>5. /\ Len(allowed)' = N + 1 /\ allowed'[N + 1] = at /\ \A k \in 1..N : allowed'[k] = allowed[k]
      /\ Len(bucket)' = B + 1 /\ bucket'[B + 1] = at /\ \A k \in 1..B : bucket'[k] = bucket[k]
  <2>1. bucket \in Seq(Nat) /\ allowed \in Seq(Nat)
    BY DEF LoginInv, LoginTypes
  <2> QED
    BY <1>2, <1>4, <2>1, AppendProperties
<1>6. /\ \A k \in 1..B : bucket[k] = allowed[N - B + k]
      /\ \A k \in 1..N : allowed[k] <= now
      /\ \A j, k \in 1..N : j <= k => allowed[j] <= allowed[k]
      /\ \A k \in 1..N : k + MaxAttempts <= N => allowed[k] + Window <= allowed[k + MaxAttempts]
      /\ \A k \in 1..N - B : allowed[k] + Window <= now
  BY DEF Limited
<1> HIDE DEF N, B, at, p
<1>7. \A k \in 1..N + 1 : k \in 1..N \/ k = N + 1
  BY <1>4
<1>8. \A k \in 1..N + 1 : allowed'[k] <= now
  BY <1>4, <1>5, <1>6, <1>7
<1>9. \A j, k \in 1..N + 1 : j <= k => allowed'[j] <= allowed'[k]
  <2> SUFFICES ASSUME NEW j \in 1..N + 1, NEW k \in 1..N + 1, j <= k
               PROVE  allowed'[j] <= allowed'[k]
    OBVIOUS
  <2>1. CASE k \in 1..N
    <3>1. j \in 1..N
      BY <1>4, <2>1
    <3> QED
      BY <1>5, <1>6, <2>1, <3>1
  <2>2. CASE k = N + 1
    BY <1>1, <1>4, <1>5, <1>7, <2>2
  <2> QED
    BY <1>7, <2>1, <2>2
<1>10. \A k \in 1..B + 1 : bucket'[k] = allowed'[(N + 1) - (B + 1) + k]
  <2> SUFFICES ASSUME NEW k \in 1..B + 1 PROVE bucket'[k] = allowed'[(N + 1) - (B + 1) + k]
    OBVIOUS
  <2>1. (N + 1) - (B + 1) + k = N - B + k
    BY <1>4
  <2>2. CASE k = B + 1
    <3>1. N - B + k = N + 1
      BY <1>4, <2>2
    <3> QED
      BY <1>5, <2>1, <2>2, <3>1
  <2>3. CASE k # B + 1
    <3>1. k \in 1..B /\ N - B + k \in 1..N
      BY <1>4, <2>3
    <3> QED
      BY <1>5, <1>6, <2>1, <3>1
  <2> QED
    BY <2>2, <2>3
<1>11. \A k \in 1..(N + 1) - (B + 1) : allowed'[k] + Window <= now
  <2>1. \A k \in 1..(N + 1) - (B + 1) : k \in 1..N - B /\ k \in 1..N
    BY <1>4
  <2> QED
    BY <1>5, <1>6, <2>1
<1>12. ASSUME NEW k \in 1..N + 1, k + MaxAttempts <= N + 1
       PROVE  allowed'[k] + Window <= allowed'[k + MaxAttempts]
  <2>1. k \in 1..N
    BY <1>1, <1>4, <1>12
  <2>2. CASE k + MaxAttempts = N + 1
    <3>1. k \in 1..N - B
      BY <1>1, <1>4, <2>1, <2>2
    <3> QED
      BY <1>1, <1>5, <2>1, <2>2, <3>1
  <2>3. CASE k + MaxAttempts # N + 1
    <3>1. k + MaxAttempts <= N /\ k + MaxAttempts \in 1..N
      BY <1>4, <1>12, <2>1, <2>3
    <3> QED
      BY <1>5, <1>6, <2>1, <3>1
  <2> QED
    BY <2>2, <2>3
<1>13. \A g \in Handler : handler'[g].pc \notin LG!InLimiter
  BY <1>1, <1>3 DEF Limited, Handles, LG!InLimiter
<1>14. \A g \in Handler : Judges(g)'
  BY <1>13 DEF Judges
<1>15. B + 1 <= N + 1
  BY <1>4
<1> QED
  BY <1>2, <1>5, <1>8, <1>9, <1>10, <1>11, <1>12, <1>13, <1>14, <1>15 DEF Limited

LEMMA CountLimited ==
    ASSUME LoginInv, Limited, NEW h \in Handler, LG!Count(h)
    PROVE  Limited'
<1>1. handler[h].pc = "count" /\ UNCHANGED <<now, bucket, allowed>> /\ now <= now'
  BY TimesAre DEF LG!Count, LG!Is
<1>2. CASE Len(bucket) >= MaxAttempts
  <2>1. PICK q \in Attempt : Handles(h, q) /\ q.pc = "idle"
    BY <1>2, EndsIs DEF LG!Count, LoginInv
  <2>2. \A g \in Handler : handler'[g].pc \in LG!InLimiter => handler'[g] = handler[g]
    BY <2>1 DEF Handles, LG!InLimiter
  <2> QED
    BY <1>1, <2>2, OutsideLimiter, TimesAre
<1>3. CASE ~(Len(bucket) >= MaxAttempts)
  <2>1. LG!Goes(h, "append") /\ Len(bucket) < MaxAttempts
    BY <1>3, TimesAre DEF LG!Count
  <2>2. "append" \in LG!InLimiter /\ handler[h].pc \in LG!InLimiter
    BY <1>1 DEF LG!InLimiter
  <2> QED
    BY <1>1, <2>1, <2>2, GoesInLimiter
<1> QED
  BY <1>2, <1>3

-----------------------------------------------------------------------------
(* The steps of a login. *)

LoginIInv == LoginInv /\ (~raced => Limited)

LEMMA InitLogin == LG!Init => LoginIInv
<1> SUFFICES ASSUME LG!Init PROVE LoginIInv
  OBVIOUS
<1>1. <<>> \in Seq(Nat) /\ <<>> \in Seq([account : Account, revoked : BOOLEAN])
      /\ Len(<<>>) = 0 /\ DOMAIN <<>> = {}
  BY EmptySeq
<1>2. LG!Resting \in Attempt /\ LG!Resting.pc = "idle"
  BY DEF LG!Resting, Attempt, LG!Pc
<1>3. LoginTypes
  BY <1>1, <1>2 DEF LG!Init, LoginTypes
<1>4. \A g \in Handler : handler[g].pc = "idle"
  BY <1>2 DEF LG!Init
<1>5. Cardinality(cookies) <= Cardinality(Successes)
  <2>1. cookies = {} /\ Successes = {}
    BY <1>1 DEF LG!Init, Successes
  <2> QED
    BY <2>1, FS_EmptySet
<1>6. LoginInv
  BY <1>1, <1>3, <1>4, <1>5 DEF LG!Init, LoginInv, Underway, Distinct
<1>7. Limited
  BY <1>1, <1>4, LoginAssumption DEF LG!Init, Limited, Judges, LG!InLimiter
<1> QED
  BY <1>6, <1>7 DEF LoginIInv

\* A step of a request that is not about its session: the request ends, perhaps
\* with a record, or goes on.
LEMMA RequestKeeps ==
    ASSUME LoginInv, NEW h \in Handler, handler[h].pc # "idle",
           \/ LG!Ends(h) /\ ( \/ UNCHANGED audit
                              \/ \E outcome \in {"failed", "rate_limited"} : LG!Audited(h, outcome) )
           \/ UNCHANGED audit
              /\ \E p \in LG!Pc \ {"record"} :
                   LG!Goes(h, p) /\ (p \in {"userinfo", "insert"} => handler[h].account \in accounts'),
           UNCHANGED <<now, tries, raced, session, cookies>>,
           accounts \subseteq accounts', accounts' \subseteq Account,
           bucket' \in Seq(Nat), allowed' \in Seq(Nat), \A k \in DOMAIN bucket' : bucket'[k] <= now
    PROVE  LoginInv'
<1>1. CASE LG!Ends(h) /\ ( \/ UNCHANGED audit
                           \/ \E outcome \in {"failed", "rate_limited"} : LG!Audited(h, outcome) )
  <2>1. PICK q \in Attempt : Handles(h, q) /\ q.pc = "idle"
    BY <1>1, EndsIs DEF LoginInv
  <2> QED
    BY <1>1, <2>1, RequestStep
<1>2. CASE UNCHANGED audit
           /\ \E p \in LG!Pc \ {"record"} :
                LG!Goes(h, p) /\ (p \in {"userinfo", "insert"} => handler[h].account \in accounts')
  <2>1. PICK p \in LG!Pc \ {"record"} :
          LG!Goes(h, p) /\ (p \in {"userinfo", "insert"} => handler[h].account \in accounts')
    BY <1>2
  <2>2. PICK q \in Attempt :
             /\ Handles(h, q) /\ q.pc = p /\ q.no = handler[h].no /\ q.account = handler[h].account
             /\ q.at = handler[h].at
    BY <2>1, GoesIs DEF LoginInv
  <2>3. UNCHANGED audit
    BY <1>2
  <2> QED
    BY <2>1, <2>2, <2>3, RequestStep
<1> QED
  BY <1>1, <1>2

\* The limiter, when the others of its steps are looked at.
LEMMA OutsideKeeps ==
    ASSUME LoginIInv, LoginInv', NEW h \in Handler, UNCHANGED <<now, allowed, bucket, raced>>,
           \/ \E q \in Attempt : Handles(h, q) /\ q.pc \notin LG!InLimiter
           \/ UNCHANGED handler
    PROVE  LoginIInv'
<1>1. now <= now'
  BY TimesAre DEF LoginIInv
<1>2. \A g \in Handler : handler'[g].pc \in LG!InLimiter => handler'[g] = handler[g]
  BY DEF Handles
<1> QED
  BY <1>1, <1>2, OutsideLimiter DEF LoginIInv, LoginInv, LoginTypes

LEMMA LimiterKeeps ==
    ASSUME LoginIInv, NEW h \in Handler,
           LG!Prune(h) \/ LG!PopLeft(h) \/ LG!Count(h) \/ LG!Admit(h)
    PROVE  LoginIInv'
<1>1. LoginInv /\ LoginTypes
  BY DEF LoginIInv, LoginInv
<1>2. /\ handler[h].pc \in LG!InLimiter
      /\ UNCHANGED <<now, tries, raced, session, cookies, accounts>>
  BY DEF LG!Prune, LG!PopLeft, LG!Count, LG!Admit, LG!Is, LG!InLimiter
<1>3. /\ bucket' \in Seq(Nat) /\ allowed' \in Seq(Nat)
      /\ \A k \in DOMAIN bucket' : bucket'[k] <= now
  <2>1. /\ bucket \in Seq(Nat) /\ allowed \in Seq(Nat) /\ \A k \in DOMAIN bucket : bucket[k] <= now
        /\ handler[h].at \in Nat /\ handler[h].at <= now
    BY <1>1, <1>2, TimesAre DEF LoginInv, LoginTypes, LG!InLimiter
  <2>2. CASE LG!Prune(h) \/ LG!Count(h)
    BY <2>1, <2>2 DEF LG!Prune, LG!Count
  <2>3. CASE LG!PopLeft(h)
    <3>1. allowed' = allowed /\ bucket' = IF bucket = <<>> THEN bucket ELSE Tail(bucket)
      BY <2>3 DEF LG!PopLeft
    <3>2. CASE bucket = <<>>
      BY <2>1, <3>1, <3>2
    <3>3. CASE bucket # <<>>
      <4> DEFINE b == Tail(bucket)
      <4>1. /\ b \in Seq(Nat) /\ Len(b) = Len(bucket) - 1
            /\ \A k \in 1..Len(b) : b[k] = bucket[k + 1]
        BY <2>1, <3>3, HeadTailProperties
      <4>2. DOMAIN b = 1..Len(b) /\ DOMAIN bucket = 1..Len(bucket) /\ Len(bucket) \in Nat
        BY <2>1, <4>1, LenProperties
      <4> HIDE DEF b
      <4>3. \A k \in 1..Len(b) : b[k] <= now
        <5>1. \A k \in 1..Len(b) : k + 1 \in 1..Len(bucket)
          BY <4>1, <4>2
        <5> QED
          BY <2>1, <4>1, <4>2, <5>1
      <4> QED
        BY <2>1, <3>1, <3>3, <4>1, <4>2, <4>3 DEF b
    <3> QED
      BY <3>2, <3>3
  <2>4. CASE LG!Admit(h)
    <3> DEFINE b == Append(bucket, handler[h].at)
               a == Append(allowed, handler[h].at)
    <3>1. bucket' = b /\ allowed' = a
      BY <2>4 DEF LG!Admit
    <3>2. /\ b \in Seq(Nat) /\ a \in Seq(Nat) /\ Len(b) = Len(bucket) + 1
          /\ b[Len(bucket) + 1] = handler[h].at /\ \A k \in 1..Len(bucket) : b[k] = bucket[k]
      BY <2>1, AppendProperties
    <3>3. DOMAIN b = 1..Len(b) /\ DOMAIN bucket = 1..Len(bucket) /\ Len(bucket) \in Nat
      BY <2>1, <3>2, LenProperties
    <3> HIDE DEF a, b
    <3>4. \A k \in 1..Len(b) : k \in 1..Len(bucket) \/ k = Len(bucket) + 1
      BY <3>2, <3>3
    <3> QED
      BY <2>1, <3>1, <3>2, <3>3, <3>4
  <2> QED
    BY <2>2, <2>3, <2>4
<1>4. \/ LG!Ends(h) /\ ( \/ UNCHANGED audit
                         \/ \E outcome \in {"failed", "rate_limited"} : LG!Audited(h, outcome) )
      \/ UNCHANGED audit
         /\ \E p \in LG!Pc \ {"record"} :
              LG!Goes(h, p) /\ (p \in {"userinfo", "insert"} => handler[h].account \in accounts')
  <2>1. /\ {"pop", "count", "prune", "append", "create", "login"} \subseteq LG!Pc \ {"record"}
        /\ {"pop", "count", "prune", "append", "create", "login"} \cap {"userinfo", "insert"} = {}
    BY DEF LG!Pc, LG!InLimiter
  <2>2. CASE LG!Prune(h)
    <3>1. UNCHANGED audit /\ (LG!Goes(h, "pop") \/ LG!Goes(h, "count"))
      BY <2>2 DEF LG!Prune
    <3> QED
      BY <2>1, <3>1
  <2>3. CASE LG!PopLeft(h)
    <3>1. UNCHANGED audit /\ (LG!Ends(h) \/ LG!Goes(h, "prune"))
      BY <2>3 DEF LG!PopLeft
    <3> QED
      BY <2>1, <3>1
  <2>4. CASE LG!Count(h)
    <3>1. \/ LG!Ends(h) /\ LG!Audited(h, "rate_limited")
          \/ UNCHANGED audit /\ LG!Goes(h, "append")
      BY <2>4 DEF LG!Count
    <3> QED
      BY <2>1, <3>1
  <2>5. CASE LG!Admit(h)
    <3>1. UNCHANGED audit /\ (LG!Goes(h, "create") \/ LG!Goes(h, "login"))
      BY <2>5 DEF LG!Admit
    <3> QED
      BY <2>1, <3>1
  <2> QED
    BY <2>2, <2>3, <2>4, <2>5
<1>5. handler[h].pc # "idle" /\ accounts' \subseteq Account
  BY <1>1, <1>2 DEF LG!InLimiter, LoginTypes
<1>6. LoginInv'
  BY <1>1, <1>2, <1>3, <1>4, <1>5, RequestKeeps
<1>7. ~raced => Limited'
  BY PruneLimited, PopLimited, CountLimited, AdmitLimited DEF LoginIInv
<1> QED
  BY <1>2, <1>6, <1>7 DEF LoginIInv

LEMMA ProviderKeeps ==
    ASSUME LoginIInv, NEW h \in Handler,
           LG!ProviderError(h) \/ LG!CreateUser(h) \/ LG!PasswordGrant(h) \/ LG!Userinfo(h)
    PROVE  LoginIInv'
<1>1. LoginInv /\ LoginTypes
  BY DEF LoginIInv, LoginInv
<1>2. /\ handler[h].pc \in {"create", "login", "userinfo"}
      /\ UNCHANGED <<now, tries, raced, session, cookies, bucket, allowed>>
  BY DEF LG!ProviderError, LG!CreateUser, LG!PasswordGrant, LG!Userinfo, LG!Is
<1>3. accounts \subseteq accounts' /\ accounts' \subseteq Account
  BY <1>1, <1>2 DEF LG!ProviderError, LG!CreateUser, LG!PasswordGrant, LG!Userinfo, LoginInv,
                    LoginTypes, Underway
<1>4. \/ LG!Ends(h) /\ LG!Audited(h, "failed")
      \/ UNCHANGED audit /\ \E p \in {"login", "userinfo", "insert"} :
           LG!Goes(h, p) /\ (p \in {"userinfo", "insert"} => handler[h].account \in accounts')
  <2>1. CASE LG!ProviderError(h)
    BY <2>1 DEF LG!ProviderError
  <2>2. CASE LG!CreateUser(h)
    BY <2>2 DEF LG!CreateUser
  <2>3. CASE LG!PasswordGrant(h)
    <3>1. UNCHANGED audit /\ handler[h].account \in accounts'
          /\ (LG!Goes(h, "insert") \/ LG!Goes(h, "userinfo"))
      BY <2>3 DEF LG!PasswordGrant
    <3> QED
      BY <3>1
  <2>4. CASE LG!Userinfo(h)
    BY <1>1, <2>4 DEF LG!Userinfo, LG!Is, LoginInv, Underway
  <2> QED
    BY <2>1, <2>2, <2>3, <2>4
<1>5. {"login", "userinfo", "insert"} \subseteq LG!Pc \ {"record"}
  BY DEF LG!Pc
<1>6. handler[h].pc # "idle" /\ bucket' \in Seq(Nat) /\ allowed' \in Seq(Nat)
      /\ \A k \in DOMAIN bucket' : bucket'[k] <= now
  BY <1>1, <1>2 DEF LoginInv, LoginTypes
<1>7. LoginInv'
  BY <1>1, <1>2, <1>3, <1>4, <1>5, <1>6, RequestKeeps
<1>8. \E q \in Attempt : Handles(h, q) /\ q.pc \notin LG!InLimiter
  <2>1. {"idle", "login", "userinfo", "insert"} \cap LG!InLimiter = {}
    BY DEF LG!InLimiter
  <2>2. CASE LG!Ends(h)
    <3>1. PICK q \in Attempt : Handles(h, q) /\ q.pc = "idle"
      BY <1>1, <2>2, EndsIs
    <3> QED
      BY <2>1, <3>1
  <2>3. ASSUME NEW p \in {"login", "userinfo", "insert"}, LG!Goes(h, p)
        PROVE  \E q \in Attempt : Handles(h, q) /\ q.pc \notin LG!InLimiter
    <3>1. PICK q \in Attempt : Handles(h, q) /\ q.pc = p
      BY <1>1, <1>5, <2>3, GoesIs
    <3> QED
      BY <2>1, <3>1
  <2> QED
    BY <1>4, <2>2, <2>3
<1> QED
  BY <1>2, <1>7, <1>8, OutsideKeeps

LEMMA SessionStepKeeps ==
    ASSUME LoginIInv, NEW h \in Handler, LG!InsertSession(h) \/ LG!RecordAndAnswer(h)
    PROVE  LoginIInv'
<1>1. LoginInv /\ LoginTypes /\ UNCHANGED <<now, allowed, bucket, raced>>
  BY DEF LoginIInv, LoginInv, LG!InsertSession, LG!RecordAndAnswer
<1>2. LoginInv'
  BY <1>1, InsertKeeps, RecordKeeps
<1>3. \A g \in Handler : handler'[g].pc \in LG!InLimiter => handler'[g] = handler[g]
  <2>1. CASE LG!InsertSession(h)
    <3>1. handler'[h].pc = "record" /\ \A g \in Handler \ {h} : handler'[g] = handler[g]
      BY <1>1, <2>1 DEF LG!InsertSession, LoginTypes, Attempt
    <3> QED
      BY <3>1 DEF LG!InLimiter
  <2>2. CASE LG!RecordAndAnswer(h)
    <3>1. PICK q \in Attempt : Handles(h, q) /\ q.pc = "idle"
      BY <1>1, <2>2, EndsIs DEF LG!RecordAndAnswer
    <3> QED
      BY <3>1 DEF Handles, LG!InLimiter
  <2> QED
    BY <2>1, <2>2
<1>4. now <= now'
  BY <1>1, TimesAre
<1> QED
  BY <1>1, <1>2, <1>3, <1>4, OutsideLimiter DEF LoginIInv, LoginTypes

LEMMA NextLogin ==
    ASSUME LoginIInv, LG!Next
    PROVE  LoginIInv'
<1>1. LoginInv /\ LoginTypes
  BY DEF LoginIInv, LoginInv
<1>2. CASE LG!Tick
  <2>1. now' = now + 1 /\ now \in Nat
        /\ UNCHANGED <<bucket, handler, accounts, session, audit, cookies, tries, allowed, raced>>
    BY <1>1, <1>2 DEF LG!Tick, LoginTypes
  <2>2. now <= now' /\ now' \in Nat
    BY <2>1
  <2>3. LoginTypes'
    BY <1>1, <2>1, <2>2 DEF LoginTypes
  <2>4. \A k \in DOMAIN bucket' : bucket'[k] <= now'
    BY <1>1, <2>1, TimesAre DEF LoginInv
  <2>5. ASSUME NEW g \in Handler PROVE Underway(g)'
    BY <1>1, <2>1, TimesAre DEF LoginInv, Underway
  <2>6. LoginInv'
    BY <1>1, <2>1, <2>3, <2>4, <2>5 DEF LoginInv, Distinct, Successes
  <2>7. \A g \in Handler : handler'[g] = handler[g]
    BY <2>1
  <2> QED
    BY <1>1, <2>1, <2>2, <2>6, <2>7, OutsideLimiter DEF LoginIInv
<1>3. ASSUME NEW h \in Handler, NEW a \in Account, NEW new \in BOOLEAN, LG!Start(h, a, new)
      PROVE  LoginIInv'
  BY <1>1, <1>3, StartKeeps, StartLimited DEF LoginIInv
<1>4. ASSUME NEW n \in cookies, LG!Logout(n) PROVE LoginIInv'
  <2>1. LoginInv' /\ UNCHANGED <<now, bucket, handler, allowed, raced>>
    BY <1>1, <1>4, LogoutKeeps DEF LG!Logout
  <2>2. now <= now' /\ \A g \in Handler : handler'[g] = handler[g]
    BY <1>1, <2>1, TimesAre
  <2> QED
    BY <1>1, <2>1, <2>2, OutsideLimiter DEF LoginIInv, LoginTypes
<1> QED
  BY <1>2, <1>3, <1>4, LimiterKeeps, ProviderKeeps, SessionStepKeeps DEF LG!Next

-----------------------------------------------------------------------------
(* What follows. *)

LEMMA Least ==
    ASSUME NEW I, I \subseteq Nat, I # {}
    PROVE  \E k \in I : \A j \in I : k <= j
<1> DEFINE R == OpToRel(<, Nat)
<1>1. PICK k \in I : \A j \in I : ~ (<<j, k>> \in R)
  BY NatLessThanWellFounded, WFMin
<1>2. \A j \in Nat : j < k => <<j, k>> \in R
  <2>1. R = {ss \in Nat \X Nat : ss[1] < ss[2]}
    BY DEF OpToRel
  <2> HIDE DEF R
  <2> QED
    BY <2>1
<1> HIDE DEF R
<1>3. ASSUME NEW j \in I PROVE k <= j
  <2>1. j \in Nat /\ k \in Nat /\ ~ (j < k)
    BY <1>1, <1>2
  <2> QED
    BY <2>1
<1> QED
  BY <1>3

\* The machine counts as the library does.
LEMMA CountsAlike == \A S : LG!Cardinality(S) = Cardinality(S)
BY DEF LG!Cardinality, Cardinality

LEMMA LimitedHolds ==
    ASSUME LoginInv, Limited
    PROVE  LG!LimitHolds
<1> SUFFICES ASSUME NEW t \in 0..now
             PROVE  Cardinality({k \in DOMAIN allowed : allowed[k] <= t /\ allowed[k] + Window > t})
                      <= MaxAttempts
  BY CountsAlike DEF LG!LimitHolds
<1> DEFINE K == {k \in DOMAIN allowed : allowed[k] <= t /\ allowed[k] + Window > t}
           N == Len(allowed)
<1>1. /\ N \in Nat /\ DOMAIN allowed = 1..N /\ MaxAttempts \in Nat /\ Window \in Nat /\ t \in Nat
      /\ \A k \in 1..N : allowed[k] \in Nat
  BY TimesAre
<1>2. CASE K = {}
  BY <1>1, <1>2, FS_EmptySet
<1>3. CASE K # {}
  <2>1. PICK m \in K : \A j \in K : m <= j
    <3>1. K \subseteq Nat
      BY <1>1
    <3> HIDE DEF K
    <3> QED
      BY <1>3, <3>1, Least
  <2>2. m \in 1..N /\ allowed[m] + Window > t
    BY <1>1, <2>1
  <2>3. ASSUME NEW j \in K PROVE j \in m..m + MaxAttempts - 1
    <3>1. j \in 1..N /\ allowed[j] <= t /\ m <= j
      BY <1>1, <2>1
    <3>2. ASSUME j >= m + MaxAttempts PROVE FALSE
      <4>1. m + MaxAttempts \in 1..N /\ m + MaxAttempts <= j
        BY <1>1, <2>2, <3>1, <3>2
      <4>2. allowed[m] + Window <= allowed[m + MaxAttempts]
        BY <1>1, <2>2, <4>1 DEF Limited
      <4>3. allowed[m + MaxAttempts] <= allowed[j]
        BY <3>1, <4>1 DEF Limited
      <4> QED
        BY <1>1, <2>2, <3>1, <4>1, <4>2, <4>3
    <3> QED
      BY <1>1, <2>2, <3>1, <3>2
  <2> HIDE DEF K
  <2>4. K \in SUBSET (m..m + MaxAttempts - 1) /\ m \in Int /\ m + MaxAttempts - 1 \in Int
    BY <1>1, <2>2, <2>3
  <2>5. /\ IsFiniteSet(m..m + MaxAttempts - 1)
        /\ Cardinality(m..m + MaxAttempts - 1) = IF m > m + MaxAttempts - 1 THEN 0
                                                 ELSE (m + MaxAttempts - 1) - m + 1
    BY <2>4, FS_Interval
  <2>6. IsFiniteSet(K) /\ Cardinality(K) <= Cardinality(m..m + MaxAttempts - 1)
    BY <2>4, <2>5, FS_Subset
  <2>7. Cardinality(K) \in Nat /\ Cardinality(m..m + MaxAttempts - 1) <= MaxAttempts
    BY <1>1, <2>2, <2>5, <2>6, FS_CardinalityType
  <2> QED
    BY <1>1, <2>5, <2>6, <2>7, FS_CardinalityType DEF K
<1> QED
  BY <1>2, <1>3

LEMMA RefusalsAreDue ==
    ASSUME LoginInv, Limited
    PROVE  LG!RefusalIsDue
<1> SUFFICES ASSUME NEW h \in Handler, handler[h].pc = "count", Len(bucket) >= MaxAttempts
             PROVE  Cardinality({k \in DOMAIN allowed : allowed[k] + Window > handler[h].at})
                      >= MaxAttempts
  BY CountsAlike DEF LG!RefusalIsDue, LG!Is
<1> DEFINE at == handler[h].at
           K == {k \in DOMAIN allowed : allowed[k] + Window > at}
           N == Len(allowed)
           B == Len(bucket)
           I == N - B + 1..N
<1>1. /\ N \in Nat /\ B \in Nat /\ DOMAIN allowed = 1..N /\ MaxAttempts \in Nat /\ Window \in Nat
      /\ B <= N /\ at \in Nat
      /\ \A k \in 1..N : allowed[k] \in Nat
  BY TimesAre DEF Limited
<1>2. ASSUME NEW k \in I PROVE k \in K
  <2>1. k \in 1..N /\ N - B + 1 \in 1..N /\ N - B + 1 <= k /\ B > 0
    BY <1>1
  <2>2. bucket # <<>> /\ bucket[1] = allowed[N - B + 1]
    BY <2>1, <1>1, TimesAre DEF Limited
  <2>3. bucket[1] + Window > at
    BY <2>2 DEF Limited, Judges, LG!InLimiter
  <2>4. allowed[N - B + 1] <= allowed[k]
    BY <2>1 DEF Limited
  <2>5. allowed[k] \in Nat /\ allowed[N - B + 1] \in Nat
    BY <1>1, <2>1
  <2>6. allowed[k] + Window > at
    BY <1>1, <2>2, <2>3, <2>4, <2>5
  <2> QED
    BY <1>1, <2>1, <2>6
<1>3. IsFiniteSet(K) /\ Cardinality(K) \in Nat
  <2>1. IsFiniteSet(1..N) /\ K \in SUBSET (1..N)
    BY <1>1, FS_Interval
  <2> HIDE DEF K
  <2> QED
    BY <2>1, FS_Subset, FS_CardinalityType
<1>4. Cardinality(I) = B
  <2>1. N - B + 1 \in Int /\ N \in Int
    BY <1>1
  <2>2. Cardinality(I) = IF N - B + 1 > N THEN 0 ELSE N - (N - B + 1) + 1
    BY <2>1, FS_Interval
  <2> HIDE DEF I, N, B
  <2> QED
    BY <1>1, <2>2
<1>5. Cardinality(I) <= Cardinality(K)
  <2> HIDE DEF I, K
  <2> QED
    BY <1>2, <1>3, FS_Subset
<1> HIDE DEF I, N, at
<1>6. Cardinality(K) >= MaxAttempts
  <2> HIDE DEF K
  <2> QED
    BY <1>1, <1>3, <1>4, <1>5 DEF B
<1> QED
  BY <1>6 DEF K, at

LEMMA LiveAreAudited ==
    ASSUME LoginInv
    PROVE  LG!LiveIsAudited
<1>1. /\ LoginTypes /\ IsFiniteSet(cookies) /\ Cardinality(cookies) \in Nat
      /\ Cardinality(Successes) \in Nat
  BY CookiesAreFinite, SuccessesAreFinite DEF LoginInv
<1>2. LG!Live \in SUBSET cookies
  BY DEF LG!Live
<1>3. Cardinality(LG!Live) <= Cardinality(cookies) /\ Cardinality(LG!Live) \in Nat
  BY <1>1, <1>2, FS_Subset, FS_CardinalityType
<1> QED
  BY <1>1, <1>3, CountsAlike DEF LG!LiveIsAudited, LoginInv, Successes

LEMMA LoginImplies ==
    ASSUME LoginIInv
    PROVE  LG!TypeOK /\ LG!LimitHolds /\ LG!RefusalIsDue /\ LG!LiveIsAudited
<1>1. LoginInv
  BY DEF LoginIInv
<1>2. LG!TypeOK
  BY <1>1 DEF LoginInv, LoginTypes, Underway, Attempt, LG!TypeOK, LG!Range
<1>3. LG!LimitHolds /\ LG!RefusalIsDue
  BY <1>1, LimitedHolds, RefusalsAreDue DEF LoginIInv, LG!LimitHolds, LG!RefusalIsDue
<1> QED
  BY <1>1, <1>2, <1>3, LiveAreAudited

-----------------------------------------------------------------------------
(* The roles. *)

RoleRequest == [pc : {"idle", "authorised", "written"},
                op : {"none", "create", "update", "delete", "add", "remove"},
                role : RO!AllRoles \cup {None}, perms : SUBSET Permission,
                seen : SUBSET (Permission \cup {RO!Wildcard}), target : Clerk \cup {None}]

RoleTypes ==
    /\ claim \subseteq Clerk /\ session \in [Clerk -> {None, "admin", "analyst"}]
    /\ exists \subseteq RO!AllRoles
    /\ grants \in [RO!AllRoles -> SUBSET (Permission \cup {RO!Wildcard})]
    /\ member \in [RO!AllRoles -> SUBSET Clerk]
    /\ handler \in [Handler -> RoleRequest]
    /\ edits \in [Role -> SUBSET SUBSET Permission]
    /\ rooted \in BOOLEAN

\* A role has the permissions of one edit unless it was disturbed; its id is
\* not used again.
RoleOK(r) ==
    /\ grants[r] \subseteq Permission
    /\ r \notin exists => grants[r] = {} /\ member[r] = {}
    /\ r \in exists => edits[r] # {}
    /\ r \in exists \ disturbed => grants[r] \in edits[r]

\* A request is about a role, and one that replaces permissions has seen those
\* that there are, unless the role was disturbed or is gone.
Asks(h) ==
    LET q == handler[h] IN
    q.pc # "idle" =>
        /\ q.role \in RO!AllRoles
        /\ q.op = "create" => q.role \in Role
        /\ q.op \in {"add", "remove"} => q.target \in Clerk
        /\ q.pc = "written" =>
             /\ q.op = "update" /\ q.role \in Role /\ edits[q.role] # {}
             /\ q.role \in exists \ disturbed => grants[q.role] = q.seen

Undisturbed(g, h) ==
    /\ handler[g].pc = "written" /\ handler[h].pc = "written"
    /\ handler[g].role = handler[h].role /\ handler[h].role \notin disturbed
    => g = h

\* Before an admin has logged in, nobody is permitted anything.
Unrooted ==
    /\ \A u \in Clerk : session[u] # "admin"
    /\ exists = {RO!Super} /\ \A r \in RO!AllRoles : member[r] = {}
    /\ \A h \in Handler : handler[h].pc = "idle"

RolesInv ==
    /\ RoleTypes
    /\ RO!Super \in exists /\ grants[RO!Super] = {RO!Wildcard}
    /\ \A r \in Role : RoleOK(r)
    /\ \A h \in Handler : Asks(h)
    /\ \A g, h \in Handler : Undisturbed(g, h)
    /\ ~rooted => Unrooted

LEMMA RestIs == RO!Resting \in RoleRequest /\ RO!Resting.pc = "idle"
BY DEF RO!Resting, RoleRequest

LEMMA RolesAre == RO!AllRoles = Role \cup {RO!Super} /\ RO!Super \notin Role
BY RolesAssumption DEF RO!AllRoles

\* Request h becomes q.
AsksNow(h, q) ==
    /\ handler' \in [Handler -> RoleRequest] /\ handler'[h] = q
    /\ \A g \in Handler \ {h} : handler'[g] = handler[g]

LEMMA FinishesIs ==
    ASSUME RoleTypes, NEW h \in Handler, RO!Finishes(h)
    PROVE  \E q \in RoleRequest : AsksNow(h, q) /\ q.pc = "idle"
<1>1. handler' = [handler EXCEPT ![h] = RO!Resting]
  BY DEF RO!Finishes
<1> QED
  BY <1>1, RestIs DEF RoleTypes, AsksNow

\* Sessions and what the identity provider says.
LEMMA SessionsKeep ==
    ASSUME RolesInv, NEW u \in Clerk, RO!ChangeClaim(u) \/ RO!LogIn(u) \/ RO!EndSession(u)
    PROVE  RolesInv'
<1>1. /\ UNCHANGED <<exists, grants, member, handler, edits, disturbed>>
      /\ claim' \subseteq Clerk /\ session' \in [Clerk -> {None, "admin", "analyst"}]
      /\ rooted' \in BOOLEAN
  BY DEF RO!ChangeClaim, RO!LogIn, RO!EndSession, RO!rows, RolesInv, RoleTypes
<1>2. ~rooted' => ~rooted /\ \A x \in Clerk : session'[x] \in {session[x], None, "analyst"}
  BY DEF RO!ChangeClaim, RO!LogIn, RO!EndSession, RolesInv, RoleTypes
<1>3. RoleTypes'
  BY <1>1 DEF RolesInv, RoleTypes
<1>4. ~rooted' => Unrooted'
  BY <1>1, <1>2, RolesAssumption DEF RolesInv, Unrooted
<1> QED
  BY <1>1, <1>3, <1>4 DEF RolesInv, RoleOK, Asks, Undisturbed

\* Without members nobody has a permission.
LEMMA NobodyIsPermitted ==
    ASSUME RolesInv, ~rooted, NEW u \in Clerk, NEW slug
    PROVE  ~RO!Permitted(u, slug)
<1>1. Unrooted
  BY DEF RolesInv
<1>2. RO!Effective(u) = {}
  BY <1>1 DEF Unrooted, RO!Effective, RolesInv, RoleTypes
<1> QED
  BY <1>1, <1>2 DEF Unrooted, RO!Permitted

LEMMA SubmitKeeps ==
    ASSUME RolesInv, NEW h \in Handler, NEW u \in Clerk,
           NEW op \in {"create", "update", "delete", "add", "remove"}, NEW r \in RO!AllRoles,
           NEW perms \in SUBSET Permission, NEW target \in Clerk \cup {None},
           op = "create" => r \in Role, op \in {"add", "remove"} => target \in Clerk,
           RO!Submit(h, u, op, r, perms, target)
    PROVE  RolesInv'
<1> DEFINE q == [pc |-> "authorised", op |-> op, role |-> r,
                 perms |-> perms, seen |-> {}, target |-> target]
<1>1. /\ RO!Permitted(u, Manage) /\ handler' = [handler EXCEPT ![h] = q]
      /\ UNCHANGED <<claim, session, exists, grants, member, edits, disturbed, rooted>>
  BY DEF RO!Submit, RO!rows
<1>2. /\ q \in RoleRequest /\ q.pc = "authorised" /\ q.role = r /\ q.op = op /\ q.target = target
  BY DEF RoleRequest
<1> HIDE DEF q
<1>3. AsksNow(h, q)
  BY <1>1, <1>2 DEF RolesInv, RoleTypes, AsksNow
<1>4. rooted
  BY <1>1, NobodyIsPermitted
<1>5. RoleTypes'
  BY <1>1, <1>3 DEF RolesInv, RoleTypes, AsksNow
<1>6. \A g \in Handler : Asks(g)'
  BY <1>1, <1>2, <1>3 DEF RolesInv, Asks, AsksNow
<1>7. \A f, g \in Handler : Undisturbed(f, g)'
  BY <1>1, <1>2, <1>3 DEF RolesInv, Undisturbed, AsksNow
<1> QED
  BY <1>1, <1>4, <1>5, <1>6, <1>7 DEF RolesInv, RoleOK

\* A request that ends changes one role.
LEMMA ChangeKeeps ==
    ASSUME RolesInv, NEW h \in Handler, handler[h].pc # "idle", RO!Finishes(h),
           NEW r \in RO!AllRoles,
           UNCHANGED <<claim, session, disturbed, rooted>>,
           exists' \subseteq exists \cup {r}, RO!Super \in exists',
           \A x \in RO!AllRoles \ {r} :
             /\ grants'[x] = grants[x] /\ member'[x] = member[x]
             /\ x \in exists' <=> x \in exists
             /\ x \in Role => edits'[x] = edits[x],
           grants' \in [RO!AllRoles -> SUBSET (Permission \cup {RO!Wildcard})],
           member' \in [RO!AllRoles -> SUBSET Clerk],
           edits' \in [Role -> SUBSET SUBSET Permission],
           r = RO!Super => grants'[r] = {RO!Wildcard},
           r \in Role => RoleOK(r)' /\ edits[r] \subseteq edits'[r],
           \A g \in Handler \ {h} : handler[g].pc = "written" /\ handler[g].role = r =>
               (r \in exists' \ disturbed => grants'[r] = handler[g].seen)
    PROVE  RolesInv'
<1>1. PICK q \in RoleRequest : AsksNow(h, q) /\ q.pc = "idle"
  BY FinishesIs DEF RolesInv
<1>2. RoleTypes'
  BY <1>1 DEF RolesInv, RoleTypes, AsksNow
<1>3. RO!Super \in exists' /\ grants'[RO!Super] = {RO!Wildcard}
  BY RolesAre DEF RolesInv
<1>4. ASSUME NEW x \in Role PROVE RoleOK(x)'
  <2>1. CASE x = r
    BY <2>1
  <2>2. CASE x # r
    <3>1. RoleOK(x) /\ x \in RO!AllRoles \ {r}
      BY <2>2, RolesAre DEF RolesInv
    <3>2. /\ grants'[x] = grants[x] /\ member'[x] = member[x] /\ edits'[x] = edits[x]
          /\ x \in exists' <=> x \in exists
          /\ disturbed' = disturbed
      BY <3>1
    <3> QED
      BY <3>1, <3>2 DEF RoleOK
  <2> QED
    BY <2>1, <2>2
<1>5. ASSUME NEW g \in Handler PROVE Asks(g)'
  <2>1. CASE g = h
    BY <1>1, <2>1 DEF Asks, AsksNow
  <2>2. CASE g # h
    <3>1. Asks(g) /\ handler'[g] = handler[g]
      BY <1>1, <2>2 DEF RolesInv, AsksNow
    <3> QED
      BY <2>2, <3>1, RolesAre DEF Asks
  <2> QED
    BY <2>1, <2>2
<1>6. \A f, g \in Handler : Undisturbed(f, g)'
  BY <1>1 DEF RolesInv, Undisturbed, AsksNow
<1>7. rooted
  BY DEF RolesInv, Unrooted
<1> QED
  BY <1>2, <1>3, <1>4, <1>5, <1>6, <1>7 DEF RolesInv

LEMMA CreateRoleKeeps ==
    ASSUME RolesInv, NEW h \in Handler, RO!CreateRole(h)
    PROVE  RolesInv'
<1>1. PICK r \in Role : r = handler[h].role
  BY DEF RO!CreateRole, RO!Works, RolesInv, Asks
<1>2. PICK perms \in SUBSET Permission : perms = handler[h].perms
  BY DEF RolesInv, RoleTypes, RoleRequest
<1>3. /\ handler[h].pc = "authorised" /\ r \notin exists /\ edits[r] = {}
      /\ exists' = exists \cup {r} /\ grants' = [grants EXCEPT ![r] = perms]
      /\ edits' = [edits EXCEPT ![r] = {perms}] /\ RO!Finishes(h)
      /\ UNCHANGED <<claim, session, member, disturbed, rooted>>
  BY <1>1, <1>2 DEF RO!CreateRole, RO!Works
<1>4. r \in RO!AllRoles /\ r # RO!Super
  BY RolesAre
<1>5. /\ grants' \in [RO!AllRoles -> SUBSET (Permission \cup {RO!Wildcard})] /\ grants'[r] = perms
      /\ edits' \in [Role -> SUBSET SUBSET Permission] /\ edits'[r] = {perms}
      /\ \A x \in RO!AllRoles \ {r} : grants'[x] = grants[x]
      /\ \A x \in Role \ {r} : edits'[x] = edits[x]
      /\ member' \in [RO!AllRoles -> SUBSET Clerk]
  BY <1>3, <1>4 DEF RolesInv, RoleTypes
<1>6. RoleOK(r)' /\ edits[r] \subseteq edits'[r]
  BY <1>3, <1>5 DEF RoleOK
<1>7. \A g \in Handler : handler[g].pc = "written" => handler[g].role # r
  BY <1>3 DEF RolesInv, Asks
<1>8. RO!Super \in exists' /\ \A x \in RO!AllRoles \ {r} : x \in exists' <=> x \in exists
  BY <1>3 DEF RolesInv
<1> QED
  BY <1>3, <1>4, <1>5, <1>6, <1>7, <1>8, ChangeKeeps

LEMMA UpdateDeleteKeeps ==
    ASSUME RolesInv, NEW h \in Handler, RO!UpdateDelete(h)
    PROVE  RolesInv'
<1> DEFINE q == [handler[h] EXCEPT !.pc = "written", !.seen = grants[handler[h].role]]
<1>1. PICK r \in Role : r = handler[h].role /\ r \in exists
  BY RolesAre DEF RO!UpdateDelete, RO!Editable, RO!Works, RolesInv, RoleTypes
<1>2. /\ handler[h].pc = "authorised" /\ handler[h].op = "update"
      /\ handler' = [handler EXCEPT ![h].pc = "written", ![h].seen = grants[r]]
      /\ disturbed' = IF \E g \in Handler : handler[g].pc = "written" /\ handler[g].role = r
                      THEN disturbed \cup {r} ELSE disturbed
      /\ UNCHANGED <<claim, session, exists, grants, member, edits, rooted>>
  BY <1>1 DEF RO!UpdateDelete, RO!Works, RO!rows
<1>3. handler[h] \in RoleRequest /\ grants[r] \in SUBSET (Permission \cup {RO!Wildcard})
  BY <1>1, RolesAre DEF RolesInv, RoleTypes
<1>4. q \in RoleRequest /\ q.pc = "written" /\ q.role = r /\ q.op = "update" /\ q.seen = grants[r]
  BY <1>1, <1>2, <1>3 DEF RoleRequest
<1>5. handler' = [handler EXCEPT ![h] = q]
  BY <1>1, <1>2 DEF RolesInv, RoleTypes
<1> HIDE DEF q
<1>6. AsksNow(h, q)
  BY <1>4, <1>5 DEF RolesInv, RoleTypes, AsksNow
<1>7. RoleTypes'
  BY <1>2, <1>6 DEF RolesInv, RoleTypes, AsksNow
<1>8. disturbed \subseteq disturbed'
  BY <1>2
<1>9. ASSUME NEW g \in Handler PROVE Asks(g)'
  <2>1. CASE g = h
    <3>1. handler'[g] = q /\ edits[r] # {}
      BY <1>1, <1>6, <2>1 DEF AsksNow, RolesInv, RoleOK
    <3>2. /\ handler'[g].role = r /\ handler'[g].op = "update" /\ handler'[g].pc = "written"
          /\ handler'[g].seen = grants[r] /\ grants' = grants /\ edits' = edits /\ r \in Role
      BY <1>1, <1>2, <1>4, <3>1
    <3> QED
      BY <3>1, <3>2, RolesAre DEF Asks
  <2>2. CASE g # h
    <3>1. Asks(g) /\ handler'[g] = handler[g]
      BY <1>6, <2>2 DEF RolesInv, AsksNow
    <3>2. exists \ disturbed' \subseteq exists \ disturbed /\ exists' = exists
          /\ grants' = grants /\ edits' = edits
      BY <1>2, <1>8
    <3> QED
      BY <3>1, <3>2 DEF Asks
  <2> QED
    BY <2>1, <2>2
<1>10. \A g \in Handler \ {h} : handler'[g].pc = "written" /\ handler'[g].role = r => r \in disturbed'
  BY <1>2, <1>6 DEF AsksNow
<1>11. handler'[h].role = r
  BY <1>4, <1>6 DEF AsksNow
<1>12. ASSUME NEW f \in Handler, NEW g \in Handler PROVE Undisturbed(f, g)'
  <2>1. CASE f = h /\ g # h
    BY <1>10, <1>11, <2>1 DEF Undisturbed
  <2>2. CASE f # h /\ g = h
    BY <1>10, <1>11, <2>2 DEF Undisturbed
  <2>3. CASE f # h /\ g # h
    <3>1. Undisturbed(f, g) /\ handler'[f] = handler[f] /\ handler'[g] = handler[g]
      BY <1>6, <2>3 DEF RolesInv, AsksNow
    <3> QED
      BY <1>8, <3>1 DEF Undisturbed
  <2>4. CASE f = h /\ g = h
    BY <2>4 DEF Undisturbed
  <2> QED
    BY <2>1, <2>2, <2>3, <2>4
<1>13. \A x \in Role : RoleOK(x)'
  BY <1>2, <1>8 DEF RolesInv, RoleOK
<1>14. rooted
  BY <1>2 DEF RolesInv, Unrooted
<1> QED
  BY <1>2, <1>7, <1>9, <1>12, <1>13, <1>14 DEF RolesInv

LEMMA UpdateCommitKeeps ==
    ASSUME RolesInv, NEW h \in Handler, RO!UpdateCommit(h)
    PROVE  RolesInv'
<1> DEFINE q == handler[h]
<1>1. PICK r \in Role : r = q.role
  BY DEF RO!UpdateCommit, RolesInv, Asks
<1>2. PICK perms \in SUBSET Permission : perms = q.perms
  BY DEF RolesInv, RoleTypes, RoleRequest
<1> DEFINE new == (grants[r] \ q.seen) \cup perms
<1>3. /\ q.pc = "written" /\ RO!Finishes(h)
      /\ \/ /\ r \in exists /\ grants' = [grants EXCEPT ![r] = new]
            /\ edits' = [edits EXCEPT ![r] = @ \cup {perms}]
         \/ UNCHANGED <<grants, edits>>
      /\ UNCHANGED <<claim, session, exists, member, disturbed, rooted>>
  BY <1>1, <1>2 DEF RO!UpdateCommit, RO!Replaced
<1>4. r \in RO!AllRoles /\ r # RO!Super
  BY RolesAre
<1>5. RoleOK(r) /\ RoleTypes
  BY DEF RolesInv
<1>6. /\ new \subseteq Permission
      /\ r \in exists \ disturbed => new = perms
  <2>1. grants[r] \subseteq Permission
    BY <1>5 DEF RoleOK
  <2>2. r \in exists \ disturbed => grants[r] = q.seen
    BY <1>1, <1>3 DEF RolesInv, Asks
  <2> QED
    BY <2>1, <2>2
<1> HIDE DEF new
<1>7. /\ grants' \in [RO!AllRoles -> SUBSET (Permission \cup {RO!Wildcard})]
      /\ edits' \in [Role -> SUBSET SUBSET Permission]
      /\ \A x \in RO!AllRoles \ {r} : grants'[x] = grants[x]
      /\ \A x \in Role \ {r} : edits'[x] = edits[x]
      /\ edits[r] \subseteq edits'[r]
      /\ member' \in [RO!AllRoles -> SUBSET Clerk]
  BY <1>3, <1>4, <1>5, <1>6 DEF RoleTypes
<1>8. RoleOK(r)'
  <2>1. CASE /\ r \in exists /\ grants' = [grants EXCEPT ![r] = new]
             /\ edits' = [edits EXCEPT ![r] = @ \cup {perms}]
    <3>1. grants'[r] = new /\ edits'[r] = edits[r] \cup {perms}
      BY <1>4, <1>5, <2>1 DEF RoleTypes
    <3> QED
      BY <1>3, <1>6, <2>1, <3>1 DEF RoleOK
  <2>2. CASE UNCHANGED <<grants, edits>>
    BY <1>3, <1>5, <2>2 DEF RoleOK
  <2> QED
    BY <1>3, <2>1, <2>2
<1>9. \A g \in Handler \ {h} : handler[g].pc = "written" /\ handler[g].role = r =>
               (r \in exists' \ disturbed => grants'[r] = handler[g].seen)
  BY <1>1, <1>3 DEF RolesInv, Undisturbed
<1>10. RO!Super \in exists' /\ exists' \subseteq exists \cup {r}
       /\ \A x \in RO!AllRoles \ {r} : x \in exists' <=> x \in exists
  BY <1>3 DEF RolesInv
<1> HIDE DEF q
<1>11. handler[h].pc # "idle"
  BY <1>3 DEF q
<1> QED
  BY <1>3, <1>4, <1>7, <1>8, <1>9, <1>10, <1>11, ChangeKeeps

LEMMA DeleteRoleKeeps ==
    ASSUME RolesInv, NEW h \in Handler, RO!DeleteRole(h)
    PROVE  RolesInv'
<1>1. PICK r \in Role : r = handler[h].role
  BY RolesAre DEF RO!DeleteRole, RO!Editable, RO!Works, RolesInv, RoleTypes
<1>2. /\ handler[h].pc = "authorised" /\ RO!Finishes(h) /\ exists' = exists \ {r}
      /\ grants' = [grants EXCEPT ![r] = {}] /\ member' = [member EXCEPT ![r] = {}]
      /\ UNCHANGED <<claim, session, edits, disturbed, rooted>>
  BY <1>1 DEF RO!DeleteRole, RO!Works
<1>3. r \in RO!AllRoles /\ r # RO!Super
  BY RolesAre
<1>4. /\ grants' \in [RO!AllRoles -> SUBSET (Permission \cup {RO!Wildcard})] /\ grants'[r] = {}
      /\ member' \in [RO!AllRoles -> SUBSET Clerk] /\ member'[r] = {}
      /\ edits' \in [Role -> SUBSET SUBSET Permission]
      /\ \A x \in RO!AllRoles \ {r} : grants'[x] = grants[x] /\ member'[x] = member[x]
  BY <1>2, <1>3 DEF RolesInv, RoleTypes
<1>5. RoleOK(r)'
  BY <1>2, <1>4 DEF RoleOK
<1>6. RO!Super \in exists' /\ exists' \subseteq exists \cup {r}
      /\ \A x \in RO!AllRoles \ {r} : x \in exists' <=> x \in exists
  BY <1>2, <1>3 DEF RolesInv
<1> QED
  BY <1>2, <1>3, <1>4, <1>5, <1>6, ChangeKeeps

LEMMA MemberKeeps ==
    ASSUME RolesInv, NEW h \in Handler, RO!AddMember(h) \/ RO!RemoveMember(h)
    PROVE  RolesInv'
<1>1. PICK r \in RO!AllRoles : r = handler[h].role
  BY DEF RO!AddMember, RO!RemoveMember, RO!Works, RolesInv, Asks
<1>2. PICK t \in Clerk : t = handler[h].target
  BY DEF RO!AddMember, RO!RemoveMember, RO!Works, RolesInv, Asks
<1>3. /\ handler[h].pc = "authorised" /\ RO!Finishes(h)
      /\ \/ r \in exists /\ member' = [member EXCEPT ![r] = @ \cup {t}]
         \/ member' = [member EXCEPT ![r] = @ \ {t}]
      /\ UNCHANGED <<claim, session, exists, grants, edits, disturbed, rooted>>
  BY <1>1, <1>2 DEF RO!AddMember, RO!RemoveMember, RO!Works
<1>4. /\ member' \in [RO!AllRoles -> SUBSET Clerk]
      /\ \A x \in RO!AllRoles \ {r} : member'[x] = member[x]
      /\ r \notin exists /\ member[r] = {} => member'[r] = {}
  BY <1>3 DEF RolesInv, RoleTypes
<1>5. r \in Role => RoleOK(r)'
  BY <1>3, <1>4 DEF RolesInv, RoleOK
<1>6. \A g \in Handler \ {h} : handler[g].pc = "written" /\ handler[g].role = r =>
               (r \in exists' \ disturbed => grants'[r] = handler[g].seen)
  BY <1>3 DEF RolesInv, Asks
<1>7. r = RO!Super => grants'[r] = {RO!Wildcard}
  BY <1>3 DEF RolesInv
<1>8. /\ grants' \in [RO!AllRoles -> SUBSET (Permission \cup {RO!Wildcard})]
      /\ edits' \in [Role -> SUBSET SUBSET Permission]
      /\ RO!Super \in exists'
  BY <1>3 DEF RolesInv, RoleTypes
<1> QED
  BY <1>3, <1>4, <1>5, <1>6, <1>7, <1>8, ChangeKeeps

LEMMA RefusedKeeps ==
    ASSUME RolesInv, NEW h \in Handler, RO!Refuse(h)
    PROVE  RolesInv'
<1>1. PICK r \in RO!AllRoles : r = handler[h].role
  BY DEF RO!Refuse, RolesInv, Asks
<1>2. /\ handler[h].pc = "authorised" /\ RO!Finishes(h)
      /\ UNCHANGED <<claim, session, exists, grants, member, edits, disturbed, rooted>>
  BY DEF RO!Refuse, RO!rows
<1>3. /\ r \in Role => RoleOK(r)'
      /\ r = RO!Super => grants'[r] = {RO!Wildcard}
      /\ RO!Super \in exists'
  BY <1>2 DEF RolesInv, RoleOK
<1>4. \A g \in Handler \ {h} : handler[g].pc = "written" /\ handler[g].role = r =>
               (r \in exists' \ disturbed => grants'[r] = handler[g].seen)
  BY <1>2 DEF RolesInv, Asks
<1>5. /\ grants' \in [RO!AllRoles -> SUBSET (Permission \cup {RO!Wildcard})]
      /\ edits' \in [Role -> SUBSET SUBSET Permission]
      /\ member' \in [RO!AllRoles -> SUBSET Clerk]
  BY <1>2 DEF RolesInv, RoleTypes
<1> QED
  BY <1>2, <1>3, <1>4, <1>5, ChangeKeeps

LEMMA InitRoles == RO!Init => RolesInv
<1> SUFFICES ASSUME RO!Init PROVE RolesInv
  OBVIOUS
<1>1. RoleTypes /\ \A h \in Handler : handler[h].pc = "idle"
  BY RestIs, RolesAre DEF RO!Init, RoleTypes
<1>2. RO!Super \in exists /\ grants[RO!Super] = {RO!Wildcard}
  BY RolesAre DEF RO!Init
<1>3. \A r \in Role : RoleOK(r)
  BY RolesAre DEF RO!Init, RoleOK
<1>4. Unrooted
  BY <1>1, RolesAssumption DEF RO!Init, Unrooted
<1> QED
  BY <1>1, <1>2, <1>3, <1>4 DEF RolesInv, Asks, Undisturbed

LEMMA NextRoles ==
    ASSUME RolesInv, RO!Next
    PROVE  RolesInv'
<1>1. ASSUME NEW h \in Handler, NEW u \in Clerk, NEW r \in Role, NEW perms \in SUBSET Permission,
             RO!Submit(h, u, "create", r, perms, None)
      PROVE  RolesInv'
  BY <1>1, RolesAre, SubmitKeeps
<1>2. ASSUME NEW h \in Handler, NEW u \in Clerk, NEW r \in RO!AllRoles,
             NEW perms \in SUBSET Permission, RO!Submit(h, u, "update", r, perms, None)
      PROVE  RolesInv'
  BY <1>2, SubmitKeeps
<1>3. ASSUME NEW h \in Handler, NEW u \in Clerk, NEW r \in RO!AllRoles,
             RO!Submit(h, u, "delete", r, {}, None)
      PROVE  RolesInv'
  BY <1>3, SubmitKeeps
<1>4. ASSUME NEW h \in Handler, NEW u \in Clerk, NEW r \in RO!AllRoles, NEW t \in Clerk,
             NEW op \in {"add", "remove"}, RO!Submit(h, u, op, r, {}, t)
      PROVE  RolesInv'
  BY <1>4, SubmitKeeps
<1>5. ASSUME NEW h \in Handler,
             \/ RO!CreateRole(h) \/ RO!UpdateDelete(h) \/ RO!UpdateCommit(h) \/ RO!DeleteRole(h)
             \/ RO!AddMember(h) \/ RO!RemoveMember(h) \/ RO!Refuse(h)
      PROVE  RolesInv'
  BY <1>5, CreateRoleKeeps, UpdateDeleteKeeps, UpdateCommitKeeps, DeleteRoleKeeps, MemberKeeps,
     RefusedKeeps
<1> QED
  BY <1>1, <1>2, <1>3, <1>4, <1>5, SessionsKeep DEF RO!Next

LEMMA RolesImply ==
    ASSUME RolesInv
    PROVE  RO!TypeOK /\ RO!WildcardIsSuper /\ RO!PermissionsOfOneEdit /\ RO!AdminComesFirst
<1>1. RO!TypeOK
  BY RolesAre DEF RolesInv, RoleTypes, RoleOK, Asks, RoleRequest, RO!TypeOK
<1>2. RO!WildcardIsSuper
  BY RolesAre, RolesAssumption DEF RolesInv, RoleOK, RO!WildcardIsSuper
<1>3. RO!PermissionsOfOneEdit
  BY DEF RolesInv, RoleOK, RO!PermissionsOfOneEdit
<1>4. RO!AdminComesFirst
  BY DEF RolesInv, Unrooted, RO!AdminComesFirst
<1> QED
  BY <1>1, <1>2, <1>3, <1>4

-----------------------------------------------------------------------------
(* One request moves in a step. *)

Moves(h) ==
    /\ DOMAIN pc' = Handler
    /\ \A g \in Handler \ {h} : pc'[g] = pc[g]

-----------------------------------------------------------------------------
(* Workspaces and templates. *)

Widgets == [Kind -> WS!Integration \cup {None}]

Row == [widgets : Widgets, version : Nat, made : {"saved", "imported", "installed"},
        missing : SUBSET Provider, touched : BOOLEAN]

\* A row says what is unbound until somebody changes it.
Sound(r) ==
    /\ r \in Row /\ r.version >= 1
    /\ ~r.touched /\ r.made # "saved" =>
         \A k \in Kind : Prefix[k] = First => (First \in r.missing <=> r.widgets[k] = None)

Listed(m) ==
    /\ m \in [Kind -> Provider \cup {Generic}]
    /\ \A k \in Kind : Prefix[k] = First => m[k] = First

TemplateOK ==
    template # None =>
        /\ template \in [id : Nat, owner : User, manifest : [Kind -> Provider \cup {Generic}], count : Nat]
        /\ Listed(template.manifest)
        /\ template.id = published /\ template.id \in 1..MaxTemplate

WorkTypes ==
    /\ owned \in [User -> SUBSET Provider]
    /\ DOMAIN space = User /\ DOMAIN pc = Handler
    /\ installs \in [1..MaxTemplate -> Nat] /\ missed \in [1..MaxTemplate -> Int]
    /\ published \in 0..MaxTemplate /\ requests \in 0..MaxRequests

RowOK(u) == space[u] # None => Sound(space[u]) /\ space[u].version <= requests + 1

\* What a request has read and is about to write.
Holds(h) ==
    /\ pc[h].op \in {"save", "rebind"} =>
         /\ pc[h].user \in User /\ pc[h].widgets \in Widgets
         /\ pc[h].seen # None => pc[h].seen \in Row /\ pc[h].seen.version \in 1..requests
    /\ pc[h].op \in {"publish", "write"} => pc[h].user \in User /\ Listed(pc[h].manifest)
    /\ pc[h].op = "create" =>
         /\ pc[h].user \in User /\ Sound(pc[h].row) /\ pc[h].row.version = 1
    /\ pc[h].op \in {"create", "count", "counted"} => pc[h].id \in 1..published
    /\ pc[h].op = "counted" => pc[h].to \in Nat

\* The requests that have made a workspace and not counted it yet.
Counting(i) == {h \in Handler : pc[h].op \in {"count", "counted"} /\ pc[h].id = i}

\* Each of them may still add one; ids are not used twice.
CountOK(i) ==
    /\ template # None /\ template.id = i =>
         template.count + missed[i] + Cardinality(Counting(i)) <= installs[i]
    /\ i > published => installs[i] = 0 /\ missed[i] = 0

WorkInv ==
    /\ WorkTypes /\ TemplateOK
    /\ \A i \in 1..MaxTemplate : CountOK(i)
    /\ \A u \in User : RowOK(u)
    /\ \A h \in Handler : Holds(h)

-----------------------------------------------------------------------------
LEMMA ManifestIs ==
    ASSUME NEW widgets \in Widgets
    PROVE  Listed(WS!Manifest(widgets))
<1>1. ASSUME NEW k \in Kind, NEW i \in WS!Integration \cup {None}
      PROVE  /\ WS!Detect(k, i) \in Provider \cup {Generic}
             /\ Prefix[k] = First => WS!Detect(k, i) = First
  BY WorkspaceAssumption DEF WS!Detect
<1>2. \A k \in Kind : widgets[k] \in WS!Integration \cup {None}
  BY DEF Widgets
<1> QED
  BY <1>1, <1>2 DEF Listed, WS!Manifest

LEMMA NewRowIs ==
    ASSUME WorkTypes, NEW u \in User, NEW m, Listed(m), NEW how \in {"imported", "installed"}
    PROVE  /\ Sound(WS!NewRow(u, m, how)) /\ WS!NewRow(u, m, how).version = 1
           /\ WS!Foreign(u, WS!NewRow(u, m, how).widgets) = {}
<1> DEFINE b == WS!Bind(u, m)
           x == WS!Missing(u, m)
           r == [widgets |-> b, version |-> 1, made |-> how, missing |-> x, touched |-> FALSE]
<1>1. /\ b \in Widgets /\ \A k \in Kind : b[k] # None => b[k].owner = u
      /\ \A k \in Kind : m[k] \in owned[u] <=> b[k] # None
  <2>1. owned[u] \subseteq Provider
    BY DEF WorkTypes
  <2>2. \A k \in Kind : m[k] \in owned[u] => [owner |-> u, provider |-> m[k]] \in WS!Integration
    BY <2>1 DEF WS!Integration
  <2> QED
    BY <2>2, WorkspaceAssumption DEF WS!Bind, Widgets
<1>2. /\ x \subseteq Provider
      /\ \A k \in Kind : m[k] = First => (First \in x <=> First \notin owned[u])
  BY WorkspaceAssumption DEF Listed, WS!Missing, WS!Range
<1> HIDE DEF b, x
<1>3. \A k \in Kind : Prefix[k] = First => (First \in x <=> b[k] = None)
  BY <1>1, <1>2 DEF Listed
<1>4. r \in Row /\ r.version = 1 /\ r.widgets = b /\ r.missing = x
  BY <1>1, <1>2 DEF Row
<1>5. r = WS!NewRow(u, m, how)
  BY DEF WS!NewRow, b, x
<1> HIDE DEF r
<1>6. WS!Foreign(u, b) = {}
  BY <1>1 DEF WS!Foreign
<1> QED
  BY <1>1, <1>3, <1>4, <1>5, <1>6 DEF Sound

\* A request that counts is one of finitely many.
LEMMA CountingIs ==
    ASSUME NEW i
    PROVE  IsFiniteSet(Counting(i)) /\ Cardinality(Counting(i)) \in Nat
<1>1. IsFiniteSet(Handler) /\ Counting(i) \in SUBSET Handler
  BY WorkspaceAssumption DEF Counting
<1> QED
  BY <1>1, FS_Subset, FS_CardinalityType

LEMMA CountingStep ==
    ASSUME NEW h \in Handler, Moves(h), NEW i
    PROVE  /\ Cardinality(Counting(i)') \in Nat
           /\ Cardinality(Counting(i)') <= Cardinality(Counting(i)) + 1
           /\ h \notin Counting(i)' => Cardinality(Counting(i)') <= Cardinality(Counting(i))
           /\ h \in Counting(i) => Cardinality(Counting(i)') <= Cardinality(Counting(i))
           /\ h \in Counting(i) /\ h \notin Counting(i)' =>
                Cardinality(Counting(i)') <= Cardinality(Counting(i)) - 1
<1>1. IsFiniteSet(Handler) /\ Counting(i) \in SUBSET Handler /\ Counting(i)' \in SUBSET Handler
  BY WorkspaceAssumption DEF Counting
<1>2. Counting(i)' \ {h} = Counting(i) \ {h}
  BY DEF Counting, Moves
<1> DEFINE C == Counting(i)
           D == Counting(i)'
<1> HIDE DEF C, D
<1>3. /\ IsFiniteSet(C) /\ IsFiniteSet(D) /\ Cardinality(C) \in Nat /\ Cardinality(D) \in Nat
      /\ D \ {h} = C \ {h}
  BY <1>1, <1>2, FS_Subset, FS_CardinalityType DEF C, D
<1>4. /\ Cardinality(C \ {h}) = IF h \in C THEN Cardinality(C) - 1 ELSE Cardinality(C)
      /\ Cardinality(D \ {h}) = IF h \in D THEN Cardinality(D) - 1 ELSE Cardinality(D)
  BY <1>3, FS_RemoveElement
<1>5. /\ Cardinality(D) <= Cardinality(C) + 1
      /\ h \notin D => Cardinality(D) <= Cardinality(C)
      /\ h \in C => Cardinality(D) <= Cardinality(C)
      /\ h \in C /\ h \notin D => Cardinality(D) <= Cardinality(C) - 1
  BY <1>3, <1>4
<1> QED
  BY <1>3, <1>5 DEF C, D

-----------------------------------------------------------------------------
LEMMA HoldsStill ==
    ASSUME WorkInv, WorkTypes', NEW h \in Handler, Moves(h), Holds(h)',
           requests <= requests', published <= published'
    PROVE  \A g \in Handler : Holds(g)'
<1> SUFFICES ASSUME NEW g \in Handler \ {h} PROVE Holds(g)'
  OBVIOUS
<1>1. Holds(g) /\ pc'[g] = pc[g]
  BY DEF WorkInv, Moves
<1>2. 1..requests \subseteq 1..requests' /\ 1..published \subseteq 1..published'
  BY DEF WorkInv, WorkTypes
<1> QED
  BY <1>1, <1>2 DEF Holds

LEMMA RowsStand ==
    ASSUME WorkInv, WorkTypes', UNCHANGED space, requests <= requests'
    PROVE  \A u \in User : RowOK(u)'
<1> SUFFICES ASSUME NEW u \in User, space[u] # None PROVE RowOK(u)'
  BY DEF RowOK
<1>1. Sound(space[u]) /\ space[u].version <= requests + 1 /\ space[u].version \in Nat
  BY DEF WorkInv, RowOK, Sound, Row
<1>2. requests \in Nat /\ requests' \in Nat
  BY WorkspaceAssumption DEF WorkInv, WorkTypes
<1>3. space[u].version <= requests' + 1
  BY <1>1, <1>2
<1> QED
  BY <1>1, <1>3 DEF RowOK

\* The count stands, or the template is gone.
LEMMA CountStands ==
    ASSUME WorkInv, NEW h \in Handler, Moves(h), UNCHANGED <<installs, missed, published>>,
           template' # None =>
             template # None /\ template'.id = template.id /\ template'.count = template.count,
           pc'[h].op \in {"count", "counted"} =>
             pc[h].op \in {"count", "counted"} /\ pc'[h].id = pc[h].id
    PROVE  \A i \in 1..MaxTemplate : CountOK(i)'
<1> SUFFICES ASSUME NEW i \in 1..MaxTemplate PROVE CountOK(i)'
  OBVIOUS
<1>1. CountOK(i) /\ missed[i] \in Int /\ installs[i] \in Nat
  BY DEF WorkInv, WorkTypes
<1>2. ASSUME template' # None, template'.id = i
      PROVE  template'.count + missed[i] + Cardinality(Counting(i)') <= installs[i]
  <2>1. PICK n \in Nat : n = template.count /\ n = template'.count
    BY <1>2 DEF WorkInv, TemplateOK
  <2>2. n + missed[i] + Cardinality(Counting(i)) <= installs[i]
    BY <1>1, <1>2, <2>1 DEF CountOK
  <2>3. Cardinality(Counting(i)') <= Cardinality(Counting(i)) /\ Cardinality(Counting(i)') \in Nat
        /\ Cardinality(Counting(i)) \in Nat
    BY CountingStep, CountingIs DEF Counting
  <2>4. n + missed[i] + Cardinality(Counting(i)') <= installs[i]
    BY <1>1, <2>2, <2>3
  <2> QED
    BY <2>1, <2>4
<1> QED
  BY <1>1, <1>2 DEF CountOK

\* A step of which only request h, and the number of requests, knows.
LEMMA RequestMoves ==
    ASSUME WorkInv, NEW h \in Handler, Moves(h), Holds(h)',
           UNCHANGED <<owned, space, template, published, installs, missed>>,
           requests' = requests \/ WS!Received,
           pc'[h].op \in {"count", "counted"} =>
             pc[h].op \in {"count", "counted"} /\ pc'[h].id = pc[h].id
    PROVE  WorkInv'
<1>1. WorkTypes' /\ requests <= requests' /\ published <= published'
  BY WorkspaceAssumption DEF WorkInv, WorkTypes, Moves, WS!Received
<1>2. TemplateOK'
  BY DEF WorkInv, TemplateOK
<1>3. \A i \in 1..MaxTemplate : CountOK(i)'
  BY CountStands
<1> QED
  BY <1>1, <1>2, <1>3, HoldsStill, RowsStand DEF WorkInv

\* A step of no request that was stored.
LEMMA RowMoves ==
    ASSUME WorkInv, UNCHANGED <<pc, installs, missed, published>>,
           template' = template \/ template' = None, WS!Received,
           owned' \in [User -> SUBSET Provider], DOMAIN space' = User,
           \A u \in User : RowOK(u)'
    PROVE  WorkInv'
<1>1. WorkTypes' /\ requests <= requests' /\ requests \in Nat /\ requests' \in Nat
  BY WorkspaceAssumption DEF WorkInv, WorkTypes, WS!Received
<1>2. TemplateOK' /\ \A i \in 1..MaxTemplate : CountOK(i)'
  BY DEF WorkInv, TemplateOK, CountOK, Counting
<1>3. ASSUME NEW h \in Handler PROVE Holds(h)'
  <2>1. 1..requests \subseteq 1..requests'
    BY <1>1
  <2> QED
    BY <2>1 DEF WorkInv, Holds
<1> QED
  BY <1>1, <1>2, <1>3 DEF WorkInv

LEMMA PutIs ==
    ASSUME WorkTypes, NEW h \in Handler, NEW q, pc' = [pc EXCEPT ![h] = q]
    PROVE  Moves(h) /\ pc'[h] = q
BY DEF WorkTypes, Moves

LEMMA IdleIs ==
    ASSUME WorkTypes, NEW h \in Handler, pc' = [pc EXCEPT ![h] = WS!Idle]
    PROVE  Moves(h) /\ Holds(h)' /\ pc'[h].op = "idle"
<1>1. Moves(h) /\ pc'[h] = WS!Idle
  BY PutIs
<1>2. pc'[h].op = "idle"
  BY <1>1 DEF WS!Idle
<1> QED
  BY <1>1, <1>2 DEF Holds

-----------------------------------------------------------------------------
LEMMA ConnectKeeps ==
    ASSUME WorkInv, NEW u \in User, NEW p \in Provider, WS!Connect(u, p)
    PROVE  WorkInv'
<1>1. /\ WS!Received /\ owned' = [owned EXCEPT ![u] = @ \cup {p}]
      /\ UNCHANGED <<space, template, published, installs, missed, pc>>
  BY DEF WS!Connect
<1>2. owned' \in [User -> SUBSET Provider] /\ DOMAIN space' = User
  BY <1>1 DEF WorkInv, WorkTypes
<1>3. WorkTypes' /\ requests <= requests'
  BY <1>1, <1>2, WorkspaceAssumption DEF WorkInv, WorkTypes, WS!Received
<1> QED
  BY <1>1, <1>2, <1>3, RowsStand, RowMoves

LEMMA SaveKeeps ==
    ASSUME WorkInv, NEW h \in Handler, NEW u \in User, NEW w \in Layout,
           WS!Save(h, u, w)
    PROVE  WorkInv'
<1> DEFINE q == [op |-> "save", user |-> u, seen |-> space[u], widgets |-> w]
<1>1. /\ WS!Received /\ pc' = [pc EXCEPT ![h] = q]
      /\ UNCHANGED <<owned, space, template, published, installs, missed>>
  BY DEF WS!Save
<1>2. q.op = "save" /\ q.user = u /\ q.seen = space[u] /\ q.widgets = w
  OBVIOUS
<1> HIDE DEF q
<1>3. Moves(h) /\ pc'[h] = q
  BY <1>1, PutIs DEF WorkInv
<1>4. w \in Widgets
  BY WorkspaceAssumption DEF Widgets
<1>5. space[u] # None => space[u] \in Row /\ space[u].version \in 1..requests'
  <2>1. requests \in Nat /\ requests' = requests + 1
    BY <1>1, WorkspaceAssumption DEF WorkInv, WorkTypes, WS!Received
  <2> QED
    BY <2>1 DEF WorkInv, RowOK, Sound, Row
<1>6. Holds(h)'
  BY <1>1, <1>2, <1>3, <1>4, <1>5 DEF Holds
<1> QED
  BY <1>1, <1>2, <1>3, <1>6, RequestMoves

LEMMA RebindKeeps ==
    ASSUME WorkInv, NEW h \in Handler, NEW u \in User, NEW k \in Kind, NEW p \in Provider,
           WS!Rebind(h, u, k, p)
    PROVE  WorkInv'
<1> DEFINE i == [owner |-> u, provider |-> p]
           w == [space[u].widgets EXCEPT ![k] = i]
           q == [op |-> "rebind", user |-> u, seen |-> space[u], kind |-> k, widgets |-> w]
<1>1. /\ WS!Received /\ space[u] # None /\ pc' = [pc EXCEPT ![h] = q]
      /\ UNCHANGED <<owned, space, template, published, installs, missed>>
  BY DEF WS!Rebind
<1>2. q.op = "rebind" /\ q.user = u /\ q.seen = space[u] /\ q.widgets = w
  OBVIOUS
<1>3. i \in WS!Integration /\ i.owner = u
  BY DEF WS!Integration
<1> HIDE DEF i, q
<1>4. Moves(h) /\ pc'[h] = q
  BY <1>1, PutIs DEF WorkInv
<1>5. Sound(space[u]) /\ space[u].version <= requests + 1
  BY <1>1 DEF WorkInv, RowOK
<1>6. w \in Widgets
  BY <1>3, <1>5 DEF Sound, Row, Widgets
<1>7. space[u] \in Row /\ space[u].version \in 1..requests'
  <2>1. requests \in Nat /\ requests' = requests + 1
    BY <1>1, WorkspaceAssumption DEF WorkInv, WorkTypes, WS!Received
  <2> QED
    BY <2>1, <1>5 DEF Sound, Row
<1> HIDE DEF w
<1>8. Holds(h)'
  BY <1>1, <1>2, <1>4, <1>6, <1>7 DEF Holds
<1> QED
  BY <1>1, <1>2, <1>4, <1>8, RequestMoves

\* A row is written, or taken away.
LEMMA RowPut ==
    ASSUME WorkInv, WorkTypes', NEW u \in User, NEW r, space' = [space EXCEPT ![u] = r],
           r # None => Sound(r) /\ r.version <= requests' + 1,
           requests <= requests'
    PROVE  \A x \in User : RowOK(x)'
<1> SUFFICES ASSUME NEW x \in User PROVE RowOK(x)'
  OBVIOUS
<1>1. CASE x = u
  <2>1. space'[x] = r
    BY <1>1 DEF WorkInv, WorkTypes
  <2> QED
    BY <1>1, <2>1 DEF RowOK
<1>2. CASE x # u
  <2>1. space'[x] = space[x]
    BY <1>2 DEF WorkInv, WorkTypes
  <2>2. requests \in Nat /\ requests' \in Nat
    BY WorkspaceAssumption DEF WorkInv, WorkTypes
  <2>3. space[x] # None =>
          Sound(space[x]) /\ space[x].version <= requests + 1 /\ space[x].version \in Nat
    BY DEF WorkInv, RowOK, Sound, Row
  <2>4. space[x] # None => space[x].version <= requests' + 1
    BY <2>2, <2>3
  <2> QED
    BY <2>1, <2>3, <2>4 DEF RowOK
<1> QED
  BY <1>1, <1>2

\* What a save or a rebind makes of a row.
LEMMA ColumnsAre ==
    ASSUME NEW old \in Row, NEW r, NEW n \in Nat,
           r.op \in {"save", "rebind"}, r.widgets \in Widgets,
           r.seen \in Row, r.seen.version \in 1..n
    PROVE  Sound(WS!WriteColumns(old, r)) /\ WS!WriteColumns(old, r).version <= n + 1
<1> DEFINE w == IF r.widgets = r.seen.widgets THEN old.widgets ELSE r.widgets
           v == r.seen.version + 1
           m == IF r.op = "rebind" /\ r.seen.missing # {} THEN {} ELSE old.missing
           new == [old EXCEPT !.widgets = w, !.version = v, !.missing = m, !.touched = TRUE]
<1>1. w \in Widgets /\ v \in 1..n + 1 /\ v \in Nat /\ m \in SUBSET Provider
  BY DEF Row
<1>2. new = WS!WriteColumns(old, r)
  BY DEF WS!WriteColumns
<1> HIDE DEF w, v, m
<1>3. /\ new \in Row /\ new.version = v /\ new.widgets = w /\ new.touched
  BY <1>1 DEF Row
<1> HIDE DEF new
<1>4. Sound(new) /\ new.version <= n + 1
  BY <1>1, <1>3 DEF Sound
<1> QED
  BY <1>2, <1>4

LEMMA WriteKeeps ==
    ASSUME WorkInv, NEW h \in Handler, WS!Write(h)
    PROVE  WorkInv'
<1> DEFINE r == pc[h]
<1>1. /\ r.op \in {"save", "rebind"} /\ pc' = [pc EXCEPT ![h] = WS!Idle]
      /\ UNCHANGED <<owned, template, published, installs, missed, requests>>
  BY DEF WS!Write
<1>2. PICK u \in User : u = r.user
  BY <1>1 DEF WorkInv, Holds
<1>3. \/ r.seen = None /\ space[u] = None
         /\ space' = [space EXCEPT ![u] = [widgets |-> r.widgets, version |-> 1, made |-> "saved",
                                            missing |-> {}, touched |-> FALSE]]
      \/ r.seen # None /\ space[u] # None
         /\ space' = [space EXCEPT ![u] = WS!WriteColumns(space[u], r)]
      \/ space' = space
  BY <1>2 DEF WS!Write
<1>4. r.widgets \in Widgets /\ (r.seen # None => r.seen \in Row /\ r.seen.version \in 1..requests)
  BY <1>1, <1>2 DEF WorkInv, Holds
<1>5. Moves(h) /\ Holds(h)' /\ pc'[h].op = "idle"
  BY <1>1, IdleIs DEF WorkInv
<1>6. requests \in Nat /\ requests' = requests /\ requests <= requests' /\ WorkTypes'
  BY <1>1, <1>3, <1>5, WorkspaceAssumption DEF WorkInv, WorkTypes, Moves
<1>7. \A x \in User : RowOK(x)'
  <2>1. CASE r.seen = None /\ space' = [space EXCEPT ![u] = [widgets |-> r.widgets, version |-> 1,
                                          made |-> "saved", missing |-> {}, touched |-> FALSE]]
    <3> DEFINE new == [widgets |-> r.widgets, version |-> 1, made |-> "saved",
                       missing |-> {}, touched |-> FALSE]
    <3>1. new \in Row /\ new.version = 1 /\ new.widgets = r.widgets /\ new.made = "saved"
      BY <1>4 DEF Row
    <3> HIDE DEF new
    <3>2. Sound(new)
      BY <1>4, <3>1 DEF Sound
    <3>3. space' = [space EXCEPT ![u] = new]
      BY <2>1 DEF new
    <3>4. new.version <= requests' + 1
      BY <1>6, <3>1
    <3> QED
      BY <1>6, <3>2, <3>3, <3>4, RowPut
  <2>2. CASE r.seen # None /\ space[u] # None /\ space' = [space EXCEPT ![u] = WS!WriteColumns(space[u], r)]
    <3>1. PICK old \in Row : old = space[u]
      BY <2>2 DEF WorkInv, RowOK, Sound
    <3>2. PICK q : q = r
      OBVIOUS
    <3>3. PICK n \in Nat : n = requests
      BY <1>6
    <3>4. Sound(WS!WriteColumns(old, q)) /\ WS!WriteColumns(old, q).version <= n + 1
      BY <1>1, <1>4, <2>2, <3>1, <3>2, <3>3, ColumnsAre
    <3>5. PICK new : new = WS!WriteColumns(old, q)
      OBVIOUS
    <3>6. space' = [space EXCEPT ![u] = new]
      BY <2>2, <3>1, <3>2, <3>5
    <3>7. Sound(new) /\ new.version <= requests' + 1
      BY <1>6, <3>3, <3>4, <3>5
    <3> QED
      BY <1>6, <3>6, <3>7, RowPut
  <2>3. CASE space' = space
    BY <1>1, <1>6, <2>3, RowsStand
  <2> QED
    BY <1>3, <2>1, <2>2, <2>3
<1>8. TemplateOK' /\ \A i \in 1..MaxTemplate : CountOK(i)'
  BY <1>1, <1>5, CountStands DEF WorkInv, TemplateOK
<1>9. \A g \in Handler : Holds(g)'
  BY <1>1, <1>5, <1>6, HoldsStill DEF WorkInv, WorkTypes
<1> QED
  BY <1>6, <1>7, <1>8, <1>9 DEF WorkInv

LEMMA DeleteKeeps ==
    ASSUME WorkInv, NEW u \in User, WS!Delete(u)
    PROVE  WorkInv'
<1>1. /\ WS!Received /\ space' = [space EXCEPT ![u] = None]
      /\ UNCHANGED <<owned, template, published, installs, missed, pc>>
  BY DEF WS!Delete
<1>2. WorkTypes' /\ requests <= requests'
  BY <1>1, WorkspaceAssumption DEF WorkInv, WorkTypes, WS!Received
<1>3. \A x \in User : RowOK(x)'
  BY <1>1, <1>2, RowPut
<1> QED
  BY <1>1, <1>2, <1>3, RowMoves DEF WorkTypes

LEMMA ImportKeeps ==
    ASSUME WorkInv, NEW u \in User, NEW v \in User, WS!Import(u, v)
    PROVE  WorkInv'
<1>1. /\ WS!Received /\ space[v] # None
      /\ space' = [space EXCEPT ![u] = WS!NewRow(u, WS!Manifest(space[v].widgets), "imported")]
      /\ UNCHANGED <<owned, template, published, installs, missed, pc>>
  BY DEF WS!Import
<1>2. PICK w \in Widgets : w = space[v].widgets
  BY <1>1 DEF WorkInv, RowOK, Sound, Row
<1>3. PICK m : m = WS!Manifest(w) /\ Listed(m)
  BY <1>2, ManifestIs
<1>4. PICK r : r = WS!NewRow(u, m, "imported") /\ Sound(r) /\ r.version = 1
  BY <1>3, NewRowIs DEF WorkInv
<1>5. space' = [space EXCEPT ![u] = r]
  BY <1>1, <1>2, <1>3, <1>4
<1>6. WorkTypes' /\ requests <= requests' /\ requests' \in Nat
  BY <1>1, <1>5, WorkspaceAssumption DEF WorkInv, WorkTypes, WS!Received
<1>7. Sound(r) /\ r.version <= requests' + 1
  BY <1>4, <1>6
<1>8. \A x \in User : RowOK(x)'
  BY <1>5, <1>6, <1>7, RowPut
<1> QED
  BY <1>1, <1>6, <1>8, RowMoves DEF WorkTypes

LEMMA DeleteTemplateKeeps ==
    ASSUME WorkInv, NEW u \in User, WS!DeleteTemplate(u)
    PROVE  WorkInv'
<1>1. /\ WS!Received /\ template' = None
      /\ UNCHANGED <<owned, space, published, installs, missed, pc>>
  BY DEF WS!DeleteTemplate
<1>2. WorkTypes' /\ requests <= requests'
  BY <1>1, WorkspaceAssumption DEF WorkInv, WorkTypes, WS!Received
<1> QED
  BY <1>1, <1>2, RowsStand, RowMoves DEF WorkTypes

\* The rows of a step of the templates.
LEMMA TemplateMoves ==
    ASSUME WorkInv, NEW h \in Handler, Moves(h), Holds(h)', UNCHANGED <<owned, space, requests>>,
           installs' = installs, missed' \in [1..MaxTemplate -> Int],
           published' \in 0..MaxTemplate, published <= published',
           TemplateOK', \A i \in 1..MaxTemplate : CountOK(i)'
    PROVE  WorkInv'
<1>1. WorkTypes' /\ requests <= requests'
  BY WorkspaceAssumption DEF WorkInv, WorkTypes, Moves
<1> QED
  BY <1>1, HoldsStill, RowsStand DEF WorkInv

LEMMA PublishKeeps ==
    ASSUME WorkInv, NEW h \in Handler, NEW u \in User, WS!Publish(h, u)
    PROVE  WorkInv'
<1>1. PICK w \in Widgets : w = space[u].widgets
  BY DEF WS!Publish, WorkInv, RowOK, Sound, Row
<1>2. PICK m : m = WS!Manifest(w) /\ Listed(m)
  BY ManifestIs
<1> DEFINE q == [op |-> "publish", user |-> u, manifest |-> m]
<1>3. /\ WS!Received /\ pc' = [pc EXCEPT ![h] = q]
      /\ UNCHANGED <<owned, space, template, published, installs, missed>>
  BY <1>1, <1>2 DEF WS!Publish
<1>4. q.op = "publish" /\ q.user = u /\ q.manifest = m
  OBVIOUS
<1> HIDE DEF q
<1>5. Moves(h) /\ pc'[h] = q
  BY <1>3, PutIs DEF WorkInv
<1>6. Holds(h)'
  BY <1>2, <1>4, <1>5 DEF Holds
<1> QED
  BY <1>3, <1>4, <1>5, <1>6, RequestMoves

LEMMA LookUpSlugKeeps ==
    ASSUME WorkInv, NEW h \in Handler, WS!LookUpSlug(h)
    PROVE  WorkInv'
<1>1. /\ pc[h].op = "publish" /\ UNCHANGED <<owned, space, template, published, installs, missed, requests>>
      /\ pc' = [pc EXCEPT ![h] = IF template # None /\ template.owner # pc[h].user THEN WS!Idle
                                 ELSE [op |-> "write", user |-> pc[h].user, manifest |-> pc[h].manifest,
                                       id |-> IF template = None THEN None ELSE template.id]]
  BY DEF WS!LookUpSlug, WorkInv, WorkTypes
<1>2. CASE template # None /\ template.owner # pc[h].user
  <2>1. pc' = [pc EXCEPT ![h] = WS!Idle]
    BY <1>1, <1>2
  <2> QED
    BY <1>1, <2>1, IdleIs, RequestMoves DEF WorkInv
<1>3. CASE ~(template # None /\ template.owner # pc[h].user)
  <2>1. PICK id : id = IF template = None THEN None ELSE template.id
    OBVIOUS
  <2> DEFINE q == [op |-> "write", user |-> pc[h].user, manifest |-> pc[h].manifest, id |-> id]
  <2>2. pc' = [pc EXCEPT ![h] = q]
    BY <1>1, <1>3, <2>1
  <2>3. q.op = "write" /\ q.user = pc[h].user /\ q.manifest = pc[h].manifest
    OBVIOUS
  <2> HIDE DEF q
  <2>4. Moves(h) /\ pc'[h] = q
    BY <2>2, PutIs DEF WorkInv
  <2>5. pc[h].user \in User /\ Listed(pc[h].manifest)
    BY <1>1 DEF WorkInv, Holds
  <2>6. Holds(h)'
    BY <2>3, <2>4, <2>5 DEF Holds
  <2> QED
    BY <1>1, <2>3, <2>4, <2>6, RequestMoves
<1> QED
  BY <1>2, <1>3

LEMMA WriteTemplateKeeps ==
    ASSUME WorkInv, NEW h \in Handler, WS!WriteTemplate(h)
    PROVE  WorkInv'
<1> DEFINE r == pc[h]
<1>1. /\ r.op = "write" /\ pc' = [pc EXCEPT ![h] = WS!Idle]
      /\ UNCHANGED <<owned, space, installs, missed, requests>>
  BY DEF WS!WriteTemplate
<1>2. Moves(h) /\ Holds(h)' /\ pc'[h].op = "idle"
  BY <1>1, IdleIs DEF WorkInv
<1>3. PICK u \in User, m \in [Kind -> Provider \cup {Generic}] :
        u = r.user /\ m = r.manifest /\ Listed(m)
  BY <1>1 DEF WorkInv, Holds, Listed
<1>4. installs \in [1..MaxTemplate -> Nat] /\ missed \in [1..MaxTemplate -> Int]
      /\ published \in 0..MaxTemplate /\ MaxTemplate \in Nat
  BY WorkspaceAssumption DEF WorkInv, WorkTypes
<1>5. CASE r.id = None /\ template = None
  <2> DEFINE new == [id |-> published + 1, owner |-> u, manifest |-> m, count |-> 0]
  <2>1. published < MaxTemplate /\ published' = published + 1 /\ template' = new
    BY <1>3, <1>5 DEF WS!WriteTemplate
  <2>2. /\ new \in [id : Nat, owner : User, manifest : [Kind -> Provider \cup {Generic}], count : Nat]
        /\ new.id = published + 1 /\ new.manifest = m /\ new.count = 0
    BY <1>4
  <2> HIDE DEF new
  <2>3. published' \in 0..MaxTemplate /\ published <= published' /\ published + 1 \in 1..MaxTemplate
    BY <1>4, <2>1
  <2>4. TemplateOK'
    BY <1>3, <2>1, <2>2, <2>3 DEF TemplateOK
  <2>5. ASSUME NEW i \in 1..MaxTemplate PROVE CountOK(i)'
    <3>1. i > published => installs[i] = 0 /\ missed[i] = 0
      BY DEF WorkInv, CountOK
    <3>2. i > published' => installs'[i] = 0 /\ missed'[i] = 0
      BY <1>1, <1>4, <2>1, <3>1
    <3>3. ASSUME i = published + 1 PROVE Counting(i)' = {}
      <4>1. \A g \in Handler : pc[g].op \in {"count", "counted"} => pc[g].id # i
        BY <1>4, <3>3 DEF WorkInv, Holds
      <4> QED
        BY <1>2, <4>1 DEF Counting, Moves
    <3>4. i = published + 1 => Cardinality(Counting(i)') = 0
      BY <3>3, FS_EmptySet
    <3>5. i = published + 1 => 0 + missed'[i] + Cardinality(Counting(i)') <= installs'[i]
      BY <1>1, <1>4, <3>1, <3>4
    <3> QED
      BY <2>1, <2>2, <3>2, <3>5 DEF CountOK
  <2> QED
    BY <1>1, <1>2, <1>4, <2>3, <2>4, <2>5, TemplateMoves
<1>6. CASE ~(r.id = None /\ template = None)
  <2>1. /\ published' = published
        /\ template' = template
           \/ (template # None /\ template.id = r.id /\ template' = [template EXCEPT !.manifest = m])
    <3>1. /\ UNCHANGED published
          /\ template' = IF r.id # None /\ WS!Hits(r.id)
                         THEN [template EXCEPT !.owner = IF template.id = r.id THEN @ ELSE r.user,
                                               !.manifest = r.manifest]
                         ELSE template
      BY <1>6 DEF WS!WriteTemplate
    <3>2. CASE r.id # None /\ WS!Hits(r.id)
      <4>1. /\ template # None /\ template.id = r.id
            /\ template \in [id : Nat, owner : User, manifest : [Kind -> Provider \cup {Generic}],
                             count : Nat]
        BY <3>2 DEF WS!Hits, WorkInv, TemplateOK
      <4>2. template' = [template EXCEPT !.owner = template.owner, !.manifest = m]
        BY <1>3, <3>1, <3>2, <4>1
      <4> QED
        BY <3>1, <4>1, <4>2
    <3>3. CASE ~(r.id # None /\ WS!Hits(r.id))
      BY <3>1, <3>3
    <3> QED
      BY <3>2, <3>3
  <2>2. TemplateOK' /\ (template' # None =>
          template # None /\ template'.id = template.id /\ template'.count = template.count)
    BY <1>3, <2>1 DEF WorkInv, TemplateOK
  <2>3. \A i \in 1..MaxTemplate : CountOK(i)'
    BY <1>1, <1>2, <2>1, <2>2, CountStands
  <2>4. published' \in 0..MaxTemplate /\ published <= published'
    BY <1>4, <2>1
  <2> QED
    BY <1>1, <1>2, <1>4, <2>2, <2>3, <2>4, TemplateMoves
<1> QED
  BY <1>5, <1>6

LEMMA InstallTemplateKeeps ==
    ASSUME WorkInv, NEW h \in Handler, NEW u \in User, WS!Install(h, u)
    PROVE  WorkInv'
<1>1. PICK m : m = template.manifest /\ Listed(m)
  BY DEF WS!Install, WorkInv, TemplateOK
<1>2. PICK r : r = WS!NewRow(u, m, "installed") /\ Sound(r) /\ r.version = 1
  BY <1>1, NewRowIs DEF WorkInv
<1>3. PICK i \in 1..published : i = template.id
  BY DEF WS!Install, WorkInv, TemplateOK, WorkTypes
<1> DEFINE q == [op |-> "create", user |-> u, id |-> i, row |-> r]
<1>4. /\ WS!Received /\ pc' = [pc EXCEPT ![h] = q]
      /\ UNCHANGED <<owned, space, template, published, installs, missed>>
  BY <1>1, <1>2, <1>3 DEF WS!Install
<1>5. q.op = "create" /\ q.user = u /\ q.id = i /\ q.row = r
  OBVIOUS
<1> HIDE DEF q
<1>6. Moves(h) /\ pc'[h] = q
  BY <1>4, PutIs DEF WorkInv
<1>7. Holds(h)'
  BY <1>2, <1>4, <1>5, <1>6 DEF Holds
<1> QED
  BY <1>4, <1>5, <1>6, <1>7, RequestMoves

LEMMA CreateInstalledKeeps ==
    ASSUME WorkInv, NEW h \in Handler, WS!CreateInstalled(h)
    PROVE  WorkInv'
<1>1. pc[h].op = "create" /\ UNCHANGED <<owned, template, published, missed, requests>>
  BY DEF WS!CreateInstalled
<1>2. PICK u \in User, i \in 1..published, r \in Row :
        u = pc[h].user /\ i = pc[h].id /\ r = pc[h].row /\ Sound(r) /\ r.version = 1
  BY <1>1 DEF WorkInv, Holds, Sound
<1>3. CASE space[u] # None
  <2>1. pc' = [pc EXCEPT ![h] = WS!Idle] /\ UNCHANGED <<space, installs>>
    BY <1>2, <1>3 DEF WS!CreateInstalled
  <2> QED
    BY <1>1, <2>1, IdleIs, RequestMoves DEF WorkInv
<1>4. CASE space[u] = None
  <2> DEFINE q == [op |-> "count", id |-> i]
  <2>1. /\ space' = [space EXCEPT ![u] = r] /\ installs' = [installs EXCEPT ![i] = @ + 1]
        /\ pc' = [pc EXCEPT ![h] = q]
    BY <1>2, <1>4 DEF WS!CreateInstalled
  <2>2. q.op = "count" /\ q.id = i
    OBVIOUS
  <2> HIDE DEF q
  <2>3. Moves(h) /\ pc'[h] = q
    BY <2>1, PutIs DEF WorkInv
  <2>4. Holds(h)'
    BY <1>1, <2>2, <2>3 DEF Holds
  <2>5. /\ WorkTypes' /\ requests' \in Nat /\ requests <= requests' /\ published <= published'
        /\ i \in 1..MaxTemplate /\ installs \in [1..MaxTemplate -> Nat] /\ missed \in [1..MaxTemplate -> Int]
    <3>1. /\ installs \in [1..MaxTemplate -> Nat] /\ missed \in [1..MaxTemplate -> Int]
          /\ published \in 0..MaxTemplate /\ requests \in 0..MaxRequests
          /\ MaxTemplate \in Nat /\ MaxRequests \in Nat
      BY WorkspaceAssumption DEF WorkInv, WorkTypes
    <3>2. i \in 1..MaxTemplate
      BY <3>1
    <3>3. installs' \in [1..MaxTemplate -> Nat]
      BY <2>1, <3>1, <3>2
    <3>4. WorkTypes'
      BY <1>1, <2>1, <2>3, <3>3 DEF WorkInv, WorkTypes, Moves
    <3> QED
      BY <1>1, <3>1, <3>2, <3>4
  <2>6. \A x \in User : RowOK(x)'
    <3>1. PICK n \in Nat : n = requests'
      BY <2>5
    <3>2. \A k \in Nat : 1 <= k + 1
      OBVIOUS
    <3>3. r.version <= requests' + 1
      BY <1>2, <3>1, <3>2
    <3> QED
      BY <1>2, <2>1, <2>5, <3>3, RowPut
  <2>7. ASSUME NEW j \in 1..MaxTemplate PROVE CountOK(j)'
    <3>1. CountOK(j)
      BY DEF WorkInv
    <3>2. installs'[j] = IF j = i THEN installs[j] + 1 ELSE installs[j]
      BY <2>1, <2>5
    <3>3. ASSUME template # None, template.id = j
          PROVE  template.count + missed[j] + Cardinality(Counting(j)') <= installs'[j]
      <4>1. PICK n \in Nat : n = template.count
        BY <3>3 DEF WorkInv, TemplateOK
      <4>2. n + missed[j] + Cardinality(Counting(j)) <= installs[j]
        BY <3>1, <3>3, <4>1 DEF CountOK
      <4>3. /\ Cardinality(Counting(j)') <= Cardinality(Counting(j)) + 1
            /\ j # i => Cardinality(Counting(j)') <= Cardinality(Counting(j))
            /\ Cardinality(Counting(j)') \in Nat /\ Cardinality(Counting(j)) \in Nat
        <5>1. j # i => h \notin Counting(j)'
          BY <2>2, <2>3 DEF Counting
        <5> QED
          BY <2>3, <5>1, CountingStep, CountingIs
      <4>4. n + missed[j] + Cardinality(Counting(j)') <= installs'[j]
        BY <2>5, <3>2, <4>2, <4>3
      <4> QED
        BY <4>1, <4>4
    <3>4. j > published => j # i
      BY <1>2 DEF WorkInv, WorkTypes
    <3> QED
      BY <1>1, <3>1, <3>2, <3>3, <3>4 DEF CountOK
  <2>8. TemplateOK'
    BY <1>1 DEF WorkInv, TemplateOK
  <2> QED
    BY <2>3, <2>4, <2>5, <2>6, <2>7, <2>8, HoldsStill DEF WorkInv
<1> QED
  BY <1>3, <1>4

LEMMA ReadCountKeeps ==
    ASSUME WorkInv, NEW h \in Handler, WS!ReadCount(h)
    PROVE  WorkInv'
<1>1. /\ pc[h].op = "count" /\ UNCHANGED <<owned, space, template, published, installs, missed, requests>>
      /\ pc' = [pc EXCEPT ![h] = IF WS!Hits(pc[h].id)
                                 THEN [op |-> "counted", id |-> pc[h].id, to |-> template.count + 1]
                                 ELSE WS!Idle]
  BY DEF WS!ReadCount, WorkInv, WorkTypes
<1>2. CASE ~WS!Hits(pc[h].id)
  <2>1. pc' = [pc EXCEPT ![h] = WS!Idle]
    BY <1>1, <1>2
  <2> QED
    BY <1>1, <2>1, IdleIs, RequestMoves DEF WorkInv
<1>3. CASE WS!Hits(pc[h].id)
  <2>1. PICK to \in Nat : to = template.count + 1
    BY <1>3 DEF WS!Hits, WorkInv, TemplateOK
  <2>2. PICK i \in 1..published : i = pc[h].id
    BY <1>1 DEF WorkInv, Holds
  <2> DEFINE q == [op |-> "counted", id |-> i, to |-> to]
  <2>3. pc' = [pc EXCEPT ![h] = q]
    BY <1>1, <1>3, <2>1, <2>2
  <2>4. q.op = "counted" /\ q.id = i /\ q.to = to
    OBVIOUS
  <2> HIDE DEF q
  <2>5. Moves(h) /\ pc'[h] = q
    BY <2>3, PutIs DEF WorkInv
  <2>6. Holds(h)'
    BY <1>1, <2>4, <2>5 DEF Holds
  <2> QED
    BY <1>1, <2>2, <2>4, <2>5, <2>6, RequestMoves
<1> QED
  BY <1>2, <1>3

\* A count that is written over others is short of them by as much as is missed.
LEMMA StoreCountKeeps ==
    ASSUME WorkInv, NEW h \in Handler, WS!StoreCount(h)
    PROVE  WorkInv'
<1>1. /\ pc[h].op = "counted" /\ pc' = [pc EXCEPT ![h] = WS!Idle]
      /\ UNCHANGED <<owned, space, published, installs, requests>>
  BY DEF WS!StoreCount
<1>2. PICK i \in 1..published, to \in Nat : i = pc[h].id /\ to = pc[h].to
  BY <1>1 DEF WorkInv, Holds
<1>3. Moves(h) /\ Holds(h)' /\ pc'[h].op = "idle"
  BY <1>1, IdleIs DEF WorkInv
<1>4. /\ published \in 0..MaxTemplate /\ published' = published /\ published <= published'
      /\ i \in 1..MaxTemplate
      /\ installs \in [1..MaxTemplate -> Nat] /\ missed \in [1..MaxTemplate -> Int]
  BY <1>1, WorkspaceAssumption DEF WorkInv, WorkTypes
<1>5. CASE ~WS!Hits(i)
  <2>1. UNCHANGED <<template, missed>>
    BY <1>2, <1>5 DEF WS!StoreCount, WS!WriteCount
  <2> QED
    BY <1>1, <1>3, <2>1, RequestMoves
<1>6. CASE WS!Hits(i)
  <2>1. PICK n \in Nat : n = template.count
    BY <1>6 DEF WS!Hits, WorkInv, TemplateOK
  <2>2. /\ template # None /\ template.id = i /\ template.id = published
        /\ template \in [id : Nat, owner : User, manifest : [Kind -> Provider \cup {Generic}], count : Nat]
        /\ Listed(template.manifest)
    BY <1>6 DEF WS!Hits, WorkInv, TemplateOK
  <2>3. /\ template' = [template EXCEPT !.count = to]
        /\ missed' = [missed EXCEPT ![i] = @ + (n + 1 - to)]
    BY <1>2, <1>6, <2>1 DEF WS!StoreCount, WS!WriteCount
  <2>4. /\ template' \in [id : Nat, owner : User, manifest : [Kind -> Provider \cup {Generic}], count : Nat]
        /\ template'.id = i /\ template'.count = to /\ template'.manifest = template.manifest
    BY <2>2, <2>3
  <2>5. TemplateOK'
    BY <1>4, <2>2, <2>4 DEF TemplateOK
  <2>6. missed' \in [1..MaxTemplate -> Int]
        /\ \A j \in 1..MaxTemplate : missed'[j] = IF j = i THEN missed[i] + (n + 1 - to) ELSE missed[j]
    BY <1>4, <2>3
  <2>7. ASSUME NEW j \in 1..MaxTemplate PROVE CountOK(j)'
    <3>1. j > published' => installs'[j] = 0 /\ missed'[j] = 0
      BY <1>1, <1>2, <1>4, <2>6 DEF WorkInv, CountOK
    <3>2. CASE j = i
      <4>1. n + missed[i] + Cardinality(Counting(i)) <= installs[i]
        BY <1>4, <2>1, <2>2 DEF WorkInv, CountOK
      <4>2. h \in Counting(i) /\ h \notin Counting(i)'
        BY <1>1, <1>2, <1>3 DEF Counting
      <4>3. /\ Cardinality(Counting(i)') <= Cardinality(Counting(i)) - 1
            /\ Cardinality(Counting(i)') \in Nat /\ Cardinality(Counting(i)) \in Nat
        BY <1>3, <4>2, CountingStep, CountingIs
      <4>4. /\ missed[i] \in Int /\ installs[i] \in Nat /\ n \in Nat /\ to \in Nat
            /\ missed'[i] = missed[i] + (n + 1 - to)
        BY <1>4, <2>6
      <4>5. PICK c \in Nat, d \in Nat : c = Cardinality(Counting(i)) /\ d = Cardinality(Counting(i)')
        BY <4>3
      <4>6. n + missed[i] + c <= installs[i] /\ d <= c - 1
        BY <4>1, <4>3, <4>5
      <4>7. to + missed'[i] + d <= installs[i]
        BY <4>4, <4>5, <4>6
      <4>8. to + missed'[i] + Cardinality(Counting(i)') <= installs[i]
        BY <4>5, <4>7
      <4>9. to + missed'[j] + Cardinality(Counting(j)') <= installs'[j]
        BY <1>1, <3>2, <4>8
      <4> QED
        BY <2>4, <3>1, <4>9 DEF CountOK
    <3>3. CASE j # i
      BY <2>4, <3>1, <3>3 DEF CountOK
    <3> QED
      BY <3>2, <3>3
  <2> QED
    BY <1>1, <1>3, <1>4, <2>5, <2>6, <2>7, TemplateMoves
<1> QED
  BY <1>5, <1>6

LEMMA AbandonKeeps ==
    ASSUME WorkInv, NEW h \in Handler, WS!Abandon(h)
    PROVE  WorkInv'
BY IdleIs, RequestMoves DEF WorkInv, WS!Abandon

LEMMA InitWorkspaces == WS!Init => WorkInv
<1> SUFFICES ASSUME WS!Init PROVE WorkInv
  OBVIOUS
<1> DEFINE none == [k \in Kind |-> None]
           r == [widgets |-> none, version |-> 1, made |-> "saved", missing |-> {}, touched |-> FALSE]
<1>1. none \in Widgets /\ \A k \in Kind : none[k] = None
  BY DEF Widgets
<1> HIDE DEF none
<1>2. r \in Row /\ r.version = 1 /\ r.widgets = none /\ r.made = "saved"
  BY <1>1 DEF Row
<1>3. space \in [User -> {None} \cup {r}]
  BY DEF WS!Init, none
<1> HIDE DEF r
<1>4. WorkTypes /\ requests = 0
  BY <1>3, WorkspaceAssumption DEF WS!Init, WorkTypes
<1>5. \A u \in User : RowOK(u)
  BY <1>1, <1>2, <1>3, <1>4 DEF RowOK, Sound
<1>6. \A h \in Handler : pc[h].op = "idle"
  BY DEF WS!Init, WS!Idle
<1>7. TemplateOK /\ \A i \in 1..MaxTemplate : CountOK(i)
  BY DEF WS!Init, TemplateOK, CountOK
<1> QED
  BY <1>4, <1>5, <1>6, <1>7 DEF WorkInv, Holds

LEMMA NextWorkspaces ==
    ASSUME WorkInv, WS!Next
    PROVE  WorkInv'
BY ConnectKeeps, SaveKeeps, RebindKeeps, WriteKeeps, DeleteKeeps, ImportKeeps, PublishKeeps,
   LookUpSlugKeeps, WriteTemplateKeeps, DeleteTemplateKeeps, InstallTemplateKeeps,
   CreateInstalledKeeps, ReadCountKeeps, StoreCountKeeps, AbandonKeeps DEF WS!Next

-----------------------------------------------------------------------------
(* Whose integrations the widgets of a workspace are bound to. *)

LentInv ==
    /\ DOMAIN lent = User
    /\ \A u \in User : space[u] # None => WS!Foreign(u, space[u].widgets) \subseteq lent[u]
    /\ \A h \in Handler :
         /\ pc[h].op = "rebind" => WS!Foreign(pc[h].user, pc[h].widgets) \subseteq lent[pc[h].user]
         /\ pc[h].op = "create" => WS!Foreign(pc[h].user, pc[h].row.widgets) = {}

\* A step that neither writes a row nor begins a request that will write one.
LEMMA LentStands ==
    ASSUME WorkInv, LentInv, NEW h \in Handler, Moves(h) \/ pc' = pc,
           pc'[h] = pc[h] \/ pc'[h].op \notin {"rebind", "create"}, UNCHANGED <<space, lent>>
    PROVE  LentInv'
BY DEF LentInv, Moves

\* A row is written, and the bindings that its user saved himself are noted.
LEMMA LentPut ==
    ASSUME WorkInv, LentInv, NEW u \in User, NEW r,
           space' = [space EXCEPT ![u] = r] \/ (space' = space /\ r = space[u]),
           DOMAIN lent' = User, \A x \in User : lent[x] \subseteq lent'[x],
           r # None => WS!Foreign(u, r.widgets) \subseteq lent'[u],
           \A h \in Handler : pc'[h] = pc[h] \/ pc'[h].op \notin {"rebind", "create"}
    PROVE  LentInv'
<1>1. \A x \in User : space'[x] = IF x = u THEN r ELSE space[x]
  BY DEF WorkInv, WorkTypes
<1>2. ASSUME NEW x \in User, space'[x] # None
      PROVE  WS!Foreign(x, space'[x].widgets) \subseteq lent'[x]
  BY <1>1, <1>2 DEF LentInv
<1>3. ASSUME NEW h \in Handler
      PROVE  /\ pc'[h].op = "rebind" =>
                  WS!Foreign(pc'[h].user, pc'[h].widgets) \subseteq lent'[pc'[h].user]
             /\ pc'[h].op = "create" => WS!Foreign(pc'[h].user, pc'[h].row.widgets) = {}
  <2>1. CASE pc'[h] = pc[h]
    <3>1. pc[h].op = "rebind" => pc[h].user \in User
      BY DEF WorkInv, Holds
    <3> QED
      BY <2>1, <3>1 DEF LentInv
  <2>2. CASE pc'[h].op \notin {"rebind", "create"}
    BY <2>2
  <2> QED
    BY <2>1, <2>2
<1> QED
  BY <1>2, <1>3 DEF LentInv

\* A rebind replaces a binding by one of the user's own.
LEMMA RebindLent ==
    ASSUME WorkInv, LentInv, NEW h \in Handler, NEW u \in User, NEW k \in Kind, NEW p \in Provider,
           WS!Rebind(h, u, k, p)
    PROVE  LentInv'
<1> DEFINE i == [owner |-> u, provider |-> p]
           w == [space[u].widgets EXCEPT ![k] = i]
           q == [op |-> "rebind", user |-> u, seen |-> space[u], kind |-> k, widgets |-> w]
<1>1. /\ space[u] # None /\ pc' = [pc EXCEPT ![h] = q] /\ UNCHANGED <<space, lent>>
  BY DEF WS!Rebind
<1>2. q.op = "rebind" /\ q.user = u /\ q.widgets = w /\ i.owner = u
  OBVIOUS
<1> HIDE DEF i, q
<1>3. Moves(h) /\ pc'[h] = q
  BY <1>1, PutIs DEF WorkInv
<1>4. space[u].widgets \in Widgets
  BY <1>1 DEF WorkInv, RowOK, Sound, Row
<1>5. \A l \in Kind : w[l] = IF l = k THEN i ELSE space[u].widgets[l]
  BY <1>4 DEF Widgets
<1>6. WS!Foreign(u, w) \subseteq WS!Foreign(u, space[u].widgets)
  <2> HIDE DEF w
  <2> QED
    BY <1>2, <1>5 DEF WS!Foreign
<1> HIDE DEF w
<1>7. WS!Foreign(u, w) \subseteq lent[u]
  BY <1>1, <1>6 DEF LentInv
<1> QED
  BY <1>1, <1>2, <1>3, <1>7 DEF LentInv, Moves

LEMMA InstallLent ==
    ASSUME WorkInv, LentInv, NEW h \in Handler, NEW u \in User, WS!Install(h, u)
    PROVE  LentInv'
<1>1. PICK m : m = template.manifest /\ Listed(m)
  BY DEF WS!Install, WorkInv, TemplateOK
<1>2. PICK r : r = WS!NewRow(u, m, "installed") /\ WS!Foreign(u, r.widgets) = {}
  BY <1>1, NewRowIs DEF WorkInv
<1> DEFINE q == [op |-> "create", user |-> u, id |-> template.id, row |-> r]
<1>3. pc' = [pc EXCEPT ![h] = q] /\ UNCHANGED <<space, lent>>
  BY <1>1, <1>2 DEF WS!Install
<1>4. q.op = "create" /\ q.user = u /\ q.row = r
  OBVIOUS
<1> HIDE DEF q
<1>5. Moves(h) /\ pc'[h] = q
  BY <1>3, PutIs DEF WorkInv
<1> QED
  BY <1>2, <1>3, <1>4, <1>5 DEF LentInv, Moves

LEMMA WriteLent ==
    ASSUME WorkInv, LentInv, NEW h \in Handler, WS!Write(h)
    PROVE  LentInv'
<1> DEFINE r == pc[h]
<1>1. r.op \in {"save", "rebind"} /\ pc' = [pc EXCEPT ![h] = WS!Idle]
  BY DEF WS!Write
<1>2. PICK u \in User : u = r.user
  BY <1>1 DEF WorkInv, Holds
<1>3. \A g \in Handler : pc'[g] = pc[g] \/ pc'[g].op \notin {"rebind", "create"}
  <2>1. Moves(h) /\ pc'[h].op = "idle"
    BY <1>1, IdleIs DEF WorkInv
  <2> QED
    BY <2>1 DEF Moves
<1>4. lent' = IF r.op = "save" /\ (r.seen = None) = (space[u] = None)
              THEN [lent EXCEPT ![u] = @ \cup WS!Foreign(u, r.widgets)] ELSE lent
  BY <1>2 DEF WS!Write
<1>5. /\ DOMAIN lent' = User /\ \A x \in User : lent[x] \subseteq lent'[x]
      /\ (r.seen = None) = (space[u] = None) =>
           (r.op = "save" => WS!Foreign(u, r.widgets) \subseteq lent'[u])
  BY <1>4 DEF LentInv
<1>6. r.op = "rebind" => WS!Foreign(u, r.widgets) \subseteq lent'[u]
  BY <1>2, <1>5 DEF LentInv
<1>7. CASE r.seen = None /\ space[u] = None
           /\ space' = [space EXCEPT ![u] = [widgets |-> r.widgets, version |-> 1, made |-> "saved",
                                              missing |-> {}, touched |-> FALSE]]
  <2> DEFINE new == [widgets |-> r.widgets, version |-> 1, made |-> "saved",
                     missing |-> {}, touched |-> FALSE]
  <2>1. new.widgets = r.widgets /\ space' = [space EXCEPT ![u] = new]
    BY <1>7
  <2> HIDE DEF new
  <2>2. WS!Foreign(u, new.widgets) \subseteq lent'[u]
    BY <1>1, <1>5, <1>6, <1>7, <2>1
  <2> QED
    BY <1>3, <1>5, <2>1, <2>2, LentPut
<1>8. CASE r.seen # None /\ space[u] # None
           /\ space' = [space EXCEPT ![u] = WS!WriteColumns(space[u], r)]
  <2>1. PICK old \in Row : old = space[u]
    BY <1>8 DEF WorkInv, RowOK, Sound
  <2>2. WS!WriteColumns(old, r).widgets \in {old.widgets, r.widgets}
    BY DEF WS!WriteColumns, Row
  <2>3. PICK new : new = WS!WriteColumns(old, r)
    OBVIOUS
  <2>4. space' = [space EXCEPT ![u] = new] /\ new.widgets \in {old.widgets, r.widgets}
    BY <1>8, <2>1, <2>2, <2>3
  <2>5. WS!Foreign(u, old.widgets) \subseteq lent'[u] /\ WS!Foreign(u, r.widgets) \subseteq lent'[u]
    BY <1>1, <1>5, <1>6, <1>8, <2>1 DEF LentInv
  <2>6. WS!Foreign(u, new.widgets) \subseteq lent'[u]
    BY <2>4, <2>5
  <2> QED
    BY <1>3, <1>5, <2>4, <2>6, LentPut
<1>9. CASE space' = space
  <2>1. PICK old : old = space[u]
    OBVIOUS
  <2>2. space' = space /\ old = space[u]
    BY <1>9, <2>1
  <2>3. old # None => WS!Foreign(u, old.widgets) \subseteq lent'[u]
    BY <1>5, <2>1 DEF LentInv
  <2> QED
    BY <1>3, <1>5, <2>2, <2>3, LentPut
<1> QED
  BY <1>2, <1>7, <1>8, <1>9 DEF WS!Write

LEMMA NextLent ==
    ASSUME WorkInv, LentInv, WS!Next
    PROVE  LentInv'
<1>1. ASSUME NEW u \in User,
             \/ \E p \in Provider : WS!Connect(u, p)
             \/ WS!DeleteTemplate(u)
      PROVE  LentInv'
  BY <1>1 DEF WS!Connect, WS!DeleteTemplate, LentInv
<1>2. ASSUME NEW h \in Handler, NEW u \in User, NEW w, WS!Save(h, u, w) PROVE LentInv'
  <2> DEFINE q == [op |-> "save", user |-> u, seen |-> space[u], widgets |-> w]
  <2>1. pc' = [pc EXCEPT ![h] = q] /\ UNCHANGED <<space, lent>> /\ q.op = "save"
    BY <1>2 DEF WS!Save
  <2> HIDE DEF q
  <2> QED
    BY <2>1, PutIs, LentStands DEF WorkInv
<1>3. ASSUME NEW u \in User, WS!Delete(u) PROVE LentInv'
  <2>1. space' = [space EXCEPT ![u] = None] /\ UNCHANGED <<lent, pc>>
    BY <1>3 DEF WS!Delete
  <2> QED
    BY <2>1, LentPut DEF LentInv
<1>4. ASSUME NEW u \in User, NEW v \in User, WS!Import(u, v) PROVE LentInv'
  <2>1. PICK w \in Widgets : w = space[v].widgets
    BY <1>4 DEF WS!Import, WorkInv, RowOK, Sound, Row
  <2>2. PICK r : r = WS!NewRow(u, WS!Manifest(w), "imported") /\ WS!Foreign(u, r.widgets) = {}
    BY ManifestIs, NewRowIs DEF WorkInv
  <2>3. space' = [space EXCEPT ![u] = r] /\ UNCHANGED <<lent, pc>>
    BY <1>4, <2>1, <2>2 DEF WS!Import
  <2> QED
    BY <2>2, <2>3, LentPut DEF LentInv
<1>5. ASSUME NEW h \in Handler, NEW u \in User, WS!Publish(h, u) PROVE LentInv'
  <2> DEFINE q == [op |-> "publish", user |-> u, manifest |-> WS!Manifest(space[u].widgets)]
  <2>1. pc' = [pc EXCEPT ![h] = q] /\ UNCHANGED <<space, lent>> /\ q.op = "publish"
    BY <1>5 DEF WS!Publish
  <2> HIDE DEF q
  <2> QED
    BY <2>1, PutIs, LentStands DEF WorkInv
<1>6. ASSUME NEW h \in Handler, WS!LookUpSlug(h) PROVE LentInv'
  <2>1. PICK q : /\ pc' = [pc EXCEPT ![h] = q] /\ UNCHANGED <<space, lent>>
                 /\ q = IF template # None /\ template.owner # pc[h].user THEN WS!Idle
                        ELSE [op |-> "write", user |-> pc[h].user, manifest |-> pc[h].manifest,
                              id |-> IF template = None THEN None ELSE template.id]
    BY <1>6 DEF WS!LookUpSlug, WorkInv, WorkTypes
  <2>2. q.op \in {"idle", "write"}
    BY <2>1 DEF WS!Idle
  <2>3. pc' = [pc EXCEPT ![h] = q] /\ space' = space /\ lent' = lent
    BY <2>1
  <2>4. WorkTypes
    BY DEF WorkInv
  <2> HIDE <2>1
  <2>5. Moves(h) /\ pc'[h] = q
    BY <2>3, <2>4, PutIs
  <2>6. pc'[h].op \notin {"rebind", "create"}
    BY <2>2, <2>5
  <2> QED
    BY <2>3, <2>5, <2>6, LentStands
<1>7. ASSUME NEW h \in Handler, WS!WriteTemplate(h) \/ WS!StoreCount(h) \/ WS!Abandon(h)
      PROVE  LentInv'
  <2>1. pc' = [pc EXCEPT ![h] = WS!Idle] /\ UNCHANGED <<space, lent>>
    BY <1>7 DEF WS!WriteTemplate, WS!StoreCount, WS!Abandon
  <2> QED
    BY <2>1, IdleIs, LentStands DEF WorkInv
<1>8. ASSUME NEW h \in Handler, WS!ReadCount(h) PROVE LentInv'
  <2>1. PICK q : /\ pc' = [pc EXCEPT ![h] = q] /\ UNCHANGED <<space, lent>>
                 /\ q = IF WS!Hits(pc[h].id)
                        THEN [op |-> "counted", id |-> pc[h].id, to |-> template.count + 1]
                        ELSE WS!Idle
    BY <1>8 DEF WS!ReadCount, WorkInv, WorkTypes
  <2>2. q.op \in {"idle", "counted"}
    BY <2>1 DEF WS!Idle
  <2>3. Moves(h) /\ pc'[h] = q
    BY <2>1, PutIs DEF WorkInv
  <2>4. pc'[h].op \notin {"rebind", "create"} /\ UNCHANGED <<space, lent>>
    BY <2>1, <2>2, <2>3
  <2> QED
    BY <2>3, <2>4, LentStands
<1>9. ASSUME NEW h \in Handler, WS!CreateInstalled(h) PROVE LentInv'
  <2>1. pc[h].op = "create" /\ UNCHANGED lent
    BY <1>9 DEF WS!CreateInstalled
  <2>2. PICK u \in User, r \in Row : u = pc[h].user /\ r = pc[h].row /\ WS!Foreign(u, r.widgets) = {}
    BY <2>1 DEF WorkInv, Holds, Sound, LentInv
  <2>3. CASE space[u] # None
    BY <1>9, <2>1, <2>2, <2>3, IdleIs, LentStands DEF WorkInv, WS!CreateInstalled
  <2>4. CASE space[u] = None
    <3> DEFINE q == [op |-> "count", id |-> pc[h].id]
    <3>1. space' = [space EXCEPT ![u] = r] /\ pc' = [pc EXCEPT ![h] = q] /\ q.op = "count"
      BY <1>9, <2>2, <2>4 DEF WS!CreateInstalled
    <3> HIDE DEF q
    <3>2. \A g \in Handler : pc'[g] = pc[g] \/ pc'[g].op \notin {"rebind", "create"}
      BY <3>1, PutIs DEF WorkInv, Moves
    <3> QED
      BY <2>1, <2>2, <3>1, <3>2, LentPut DEF LentInv
  <2> QED
    BY <2>3, <2>4
<1> QED
  BY <1>1, <1>2, <1>3, <1>4, <1>5, <1>6, <1>7, <1>8, <1>9, RebindLent, WriteLent, InstallLent
     DEF WS!Next

LEMMA InitLent == WS!Init => LentInv
<1> SUFFICES ASSUME WS!Init PROVE LentInv
  OBVIOUS
<1> DEFINE none == [k \in Kind |-> None]
           r == [widgets |-> none, version |-> 1, made |-> "saved", missing |-> {}, touched |-> FALSE]
<1>1. r.widgets = none /\ \A k \in Kind : none[k] = None
  OBVIOUS
<1>2. space \in [User -> {None} \cup {r}] /\ lent = [u \in User |-> {}]
  BY DEF WS!Init
<1> HIDE DEF r, none
<1>3. \A u \in User : space[u] # None => WS!Foreign(u, space[u].widgets) = {}
  BY <1>1, <1>2 DEF WS!Foreign
<1>4. \A h \in Handler : pc[h].op = "idle"
  BY DEF WS!Init, WS!Idle
<1> QED
  BY <1>2, <1>3, <1>4 DEF LentInv

\* Who has a template keeps it while it is there.
LEMMA OwnersAreKept ==
    ASSUME WorkInv, WS!Next
    PROVE  WS!OwnerKept
<1> SUFFICES ASSUME template # None, template' # None, template' # template
             PROVE  template'.owner = template.owner
  BY DEF WS!OwnerKept
<1>1. /\ template \in [id : Nat, owner : User, manifest : [Kind -> Provider \cup {Generic}], count : Nat]
      /\ template.id = published
  BY DEF WorkInv, TemplateOK
<1>2. PICK h \in Handler : WS!WriteTemplate(h) \/ WS!StoreCount(h)
  BY DEF WS!Next, WS!Connect, WS!Save, WS!Rebind, WS!Write, WS!Delete, WS!Import, WS!Publish,
         WS!LookUpSlug, WS!DeleteTemplate, WS!Install, WS!CreateInstalled, WS!ReadCount, WS!Abandon
<1>3. CASE WS!WriteTemplate(h)
  <2>1. pc[h].id # None /\ WS!Hits(pc[h].id)
    BY <1>3 DEF WS!WriteTemplate
  <2>2. template' = [template EXCEPT !.owner = IF template.id = pc[h].id THEN @ ELSE pc[h].user,
                                     !.manifest = pc[h].manifest]
    BY <1>3, <2>1 DEF WS!WriteTemplate
  <2>3. template.id = pc[h].id
    BY <2>1 DEF WS!Hits
  <2> QED
    BY <1>1, <2>2, <2>3
<1>4. CASE WS!StoreCount(h)
  BY <1>1, <1>4 DEF WS!StoreCount, WS!WriteCount
<1> QED
  BY <1>2, <1>3, <1>4

LEMMA WorkspacesImply ==
    ASSUME WorkInv, LentInv
    PROVE  WS!TypeOK /\ WS!OwnIntegrations /\ WS!MissingIsUnbound /\ WS!CountedOnce
<1>1. ASSUME NEW u \in WS!Rows PROVE Sound(space[u]) /\ space[u].version <= requests + 1
  BY <1>1 DEF WS!Rows, WorkInv, RowOK
<1>2. requests \in 0..MaxRequests /\ MaxRequests \in Nat
  BY WorkspaceAssumption DEF WorkInv, WorkTypes
<1>3. WS!TypeOK
  <2>1. ASSUME NEW u \in WS!Rows
        PROVE  /\ space[u].widgets \in Widgets /\ space[u].version \in 1..(MaxRequests + 1)
               /\ space[u].made \in {"saved", "imported", "installed"}
               /\ space[u].missing \subseteq Provider
    BY <1>1, <1>2 DEF Sound, Row
  <2>2. template # None => /\ template.id = published /\ template.owner \in User
                           /\ template.manifest \in [Kind -> Provider \cup {Generic}]
    BY DEF WorkInv, TemplateOK
  <2> QED
    BY <2>1, <2>2 DEF WS!TypeOK, Widgets
<1>4. WS!OwnIntegrations
  BY DEF LentInv, WS!Rows, WS!OwnIntegrations
<1>5. WS!MissingIsUnbound
  <2>1. ASSUME NEW u \in WS!Rows PROVE Generic \notin space[u].missing
    BY <1>1, WorkspaceAssumption DEF Sound, Row
  <2> QED
    BY <1>1, <2>1 DEF Sound, WS!MissingIsUnbound
<1>6. WS!CountedOnce
  <2>1. SUFFICES ASSUME template # None
                 PROVE  template.count + missed[template.id] <= installs[template.id]
    BY DEF WS!CountedOnce
  <2>2. PICK i \in 1..MaxTemplate, n \in Nat : i = template.id /\ n = template.count
    BY <2>1 DEF WorkInv, TemplateOK
  <2>3. n + missed[i] + Cardinality(Counting(i)) <= installs[i]
    BY <2>1, <2>2 DEF WorkInv, CountOK
  <2>4. missed[i] \in Int /\ installs[i] \in Nat /\ Cardinality(Counting(i)) \in Nat
    BY CountingIs DEF WorkInv, WorkTypes
  <2>5. n + missed[i] <= installs[i]
    BY <2>3, <2>4
  <2> QED
    BY <2>2, <2>5
<1> QED
  BY <1>3, <1>4, <1>5, <1>6

-----------------------------------------------------------------------------
(* An add-on. *)

ChangeStep ==
    {"evict", "displace", "move", "upsert", "load", "register", "trash", "delete", "unregister"}

Change == [step : ChangeStep, v : Version, alone : BOOLEAN]
Testing == [step : {"get", "store"}, v : Version \ Broken, device : Device, connect : BOOLEAN]

PcOK(h) ==
    /\ pc[h] \in {AO!Idle} \cup Change \cup Testing
    /\ pc[h].step = "register" => pc[h].v \notin Broken

AddOnTypes ==
    /\ disk \subseteq Version /\ row \in Version \cup {None}
    /\ factory \in (Version \ Broken) \cup {None}
    /\ probe = None \/ (probe.device \in Device /\ probe.v \in Version \ Broken)
    /\ stored \subseteq Device \cap Up /\ clean \in BOOLEAN
    /\ DOMAIN pc = Handler
    /\ \A h \in Handler : PcOK(h)

\* A request that is alone is the only one that changes the add-on.
Apart ==
    \A g, h \in Handler : AO!Busy(g) /\ pc[g].alone /\ AO!Busy(h) => g = h

\* What a request that is alone has done so far.
Done(h) ==
    AO!Busy(h) /\ pc[h].alone =>
        /\ pc[h].step \in {"upsert", "load", "register"} => pc[h].v \in disk
        /\ pc[h].step \in {"load", "register"} => row = pc[h].v
        /\ pc[h].step = "unregister" => row = None

\* What it has left on the disk if nothing was wrong before.
Left(h) ==
    /\ pc[h].step \in {"evict", "trash"} => disk = {row} \ {None}
    /\ pc[h].step = "trash" => pc[h].v = row
    /\ pc[h].step = "displace" => disk \subseteq {pc[h].v}
    /\ pc[h].step = "move" => disk = {}
    /\ pc[h].step \in {"upsert", "load", "register"} => disk = {pc[h].v}
    /\ pc[h].step \in {"delete", "unregister"} => disk = {}

Serving ==
    AO!Quiet =>
        /\ settled = "complete" => factory = row /\ (row # None => row \in disk)
        /\ settled = "restarted" => factory = row \/ (factory = None /\ ~AO!Loads(row))

Tidy ==
    clean =>
        /\ \A h \in Handler : AO!Busy(h) => pc[h].alone /\ Left(h)
        /\ AO!Quiet => factory = row /\ disk = {row} \ {None} /\ (row = None => probe = None)

AddOnInv ==
    /\ AddOnTypes /\ Apart /\ Serving /\ Tidy
    /\ \A h \in Handler : Done(h)

-----------------------------------------------------------------------------
\* Request h, and no other, goes on.
LEMMA BusyIs ==
    ASSUME AddOnTypes, NEW h \in Handler
    PROVE  /\ AO!Busy(h) <=> pc[h].step \in ChangeStep
           /\ AO!Busy(h) <=> pc[h] \in Change
           /\ pc[h].step \in {"get", "store"} <=> pc[h] \in Testing
<1>1. PcOK(h)
  BY DEF AddOnTypes
<1> QED
  BY <1>1 DEF PcOK, AO!Busy, AO!Idle, Change, Testing, ChangeStep

LEMMA GoIs ==
    ASSUME AddOnTypes, NEW h \in Handler, AO!Busy(h), NEW s \in ChangeStep, AO!Go(h, s),
           s = "register" => pc[h].v \notin Broken
    PROVE  /\ Moves(h) /\ \A g \in Handler : PcOK(g)' /\ AO!Busy(h)'
           /\ pc'[h].step = s /\ pc'[h].v = pc[h].v /\ pc'[h].alone = pc[h].alone
<1> DEFINE q == [pc[h] EXCEPT !.step = s]
<1>1. pc[h] \in Change /\ DOMAIN pc = Handler /\ \A g \in Handler : PcOK(g)
  BY BusyIs DEF AddOnTypes
<1>2. q \in Change /\ q.step = s /\ q.v = pc[h].v /\ q.alone = pc[h].alone
  BY <1>1 DEF Change
<1>3. pc' = [pc EXCEPT ![h] = q]
  BY DEF AO!Go
<1> HIDE DEF q
<1>4. Moves(h) /\ pc'[h] = q
  BY <1>1, <1>3 DEF Moves
<1>5. \A g \in Handler : PcOK(g)'
  BY <1>1, <1>2, <1>4 DEF Moves, PcOK
<1>6. AO!Busy(h)'
  BY <1>2, <1>4 DEF AO!Busy, ChangeStep
<1> QED
  BY <1>2, <1>4, <1>5, <1>6

LEMMA StopIs ==
    ASSUME AddOnTypes, NEW h \in Handler, AO!Stop(h)
    PROVE  Moves(h) /\ \A g \in Handler : PcOK(g)' /\ ~AO!Busy(h)' /\ pc'[h] = AO!Idle
<1>1. pc' = [pc EXCEPT ![h] = AO!Idle] /\ DOMAIN pc = Handler /\ \A g \in Handler : PcOK(g)
  BY DEF AO!Stop, AddOnTypes
<1>2. Moves(h) /\ pc'[h] = AO!Idle
  BY <1>1 DEF Moves
<1>3. \A g \in Handler : PcOK(g)'
  BY <1>1, <1>2 DEF Moves, PcOK, AO!Idle
<1>4. ~AO!Busy(h)'
  BY <1>2 DEF AO!Busy, AO!Idle
<1> QED
  BY <1>2, <1>3, <1>4

\* A request goes on with its change.
LEMMA ChangeGoesOn ==
    ASSUME AddOnInv, NEW h \in Handler, AO!Busy(h), Moves(h), AO!Busy(h)',
           pc'[h].alone = pc[h].alone, UNCHANGED <<settled, clean>>,
           AddOnTypes', pc[h].alone => Done(h)', clean => Left(h)'
    PROVE  AddOnInv'
<1>1. \A g \in Handler \ {h} : (AO!Busy(g) <=> AO!Busy(g)') /\ pc'[g] = pc[g]
  BY DEF Moves, AO!Busy
<1>2. \A g \in Handler \ {h} : ~(AO!Busy(g) /\ pc[g].alone)
  BY DEF AddOnInv, Apart
<1>3. Apart'
  BY <1>1, <1>2 DEF AddOnInv, Apart
<1>4. Serving'
  BY DEF Serving, AO!Quiet
<1>5. \A g \in Handler : Done(g)'
  BY <1>1, <1>2 DEF Done
<1>6. clean => \A g \in Handler \ {h} : ~AO!Busy(g)
  BY <1>2 DEF AddOnInv, Tidy
<1>7. Tidy'
  BY <1>1, <1>6 DEF AddOnInv, Tidy, AO!Quiet
<1> QED
  BY <1>3, <1>4, <1>5, <1>7 DEF AddOnInv

\* A request ends its change.
LEMMA ChangeEnds ==
    ASSUME AddOnInv, NEW h \in Handler, AO!Busy(h), AO!Stop(h), AddOnTypes',
           settled' \in {"complete", "disturbed"},
           settled' = "complete" => factory' = row' /\ (row' # None => row' \in disk'),
           clean' => clean /\ factory' = row' /\ disk' = {row'} \ {None} /\ (row' = None => probe' = None)
    PROVE  AddOnInv'
<1>1. Moves(h) /\ ~AO!Busy(h)'
  BY StopIs DEF AddOnInv
<1>2. \A g \in Handler \ {h} : (AO!Busy(g) <=> AO!Busy(g)') /\ pc'[g] = pc[g]
  BY <1>1 DEF Moves, AO!Busy
<1>3. \A g \in Handler \ {h} : ~(AO!Busy(g) /\ pc[g].alone)
  BY DEF AddOnInv, Apart
<1>4. Apart'
  BY <1>1, <1>2, <1>3 DEF Apart
<1>5. Serving'
  BY DEF Serving
<1>6. \A g \in Handler : Done(g)'
  BY <1>1, <1>2, <1>3 DEF Done
<1>7. Tidy'
  BY <1>1, <1>2, <1>3 DEF AddOnInv, Tidy
<1> QED
  BY <1>4, <1>5, <1>6, <1>7 DEF AddOnInv

\* A step of the wizard.
LEMMA TestGoesOn ==
    ASSUME AddOnInv, NEW h \in Handler, ~AO!Busy(h), Moves(h), ~AO!Busy(h)',
           UNCHANGED <<disk, row, factory, settled>>, AddOnTypes',
           clean' => clean /\ (AO!Quiet /\ row = None => probe' = None)
    PROVE  AddOnInv'
<1>1. \A g \in Handler : (AO!Busy(g) <=> AO!Busy(g)') /\ (AO!Busy(g) => pc'[g] = pc[g])
  BY DEF Moves, AO!Busy
<1>2. Apart' /\ AO!Quiet' = AO!Quiet
  BY <1>1 DEF AddOnInv, Apart, AO!Quiet
<1>3. Serving'
  BY <1>2 DEF AddOnInv, Serving, AO!Loads
<1>4. \A g \in Handler : Done(g)'
  BY <1>1 DEF AddOnInv, Done
<1>5. Tidy'
  BY <1>1, <1>2 DEF AddOnInv, Tidy, Left
<1> QED
  BY <1>2, <1>3, <1>4, <1>5 DEF AddOnInv

\* A request begins to change the add-on.
LEMMA ChangeBegins ==
    ASSUME AddOnInv, NEW h \in Handler, NEW s \in {"evict", "trash"}, NEW v \in Version,
           AO!Begin(h, s, v), s = "trash" => v = row,
           UNCHANGED <<disk, row, factory, probe, stored, settled>>
    PROVE  AddOnInv'
<1>1. PICK free \in BOOLEAN : free = \A k \in Handler : ~AO!Busy(k)
  OBVIOUS
<1> DEFINE mine == [step |-> s, v |-> v, alone |-> free]
<1>2. /\ pc[h] = AO!Idle /\ clean' = (clean /\ free)
      /\ pc' = [g \in Handler |-> IF g = h THEN mine
                                 ELSE IF AO!Busy(g) THEN [pc[g] EXCEPT !.alone = FALSE] ELSE pc[g]]
  BY <1>1 DEF AO!Begin
<1>3. mine \in Change /\ mine.step = s /\ mine.v = v /\ mine.alone = free
  BY DEF Change, ChangeStep
<1> HIDE DEF mine
<1>4. pc'[h] = mine /\ AO!Busy(h)' /\ ~AO!Busy(h)
  BY <1>2, <1>3 DEF AO!Busy, AO!Idle
<1>5. ASSUME NEW g \in Handler \ {h}
      PROVE  /\ AO!Busy(g)' <=> AO!Busy(g)
             /\ AO!Busy(g) => ~pc'[g].alone
             /\ PcOK(g)'
  <2>1. CASE AO!Busy(g)
    <3>1. pc[g] \in Change /\ pc'[g] = [pc[g] EXCEPT !.alone = FALSE]
      BY <1>2, <1>5, <2>1, BusyIs DEF AddOnInv
    <3>2. pc'[g] \in Change /\ pc'[g].step = pc[g].step /\ ~pc'[g].alone /\ pc'[g].v = pc[g].v
      BY <3>1 DEF Change
    <3> QED
      BY <1>5, <2>1, <3>2 DEF AddOnInv, AddOnTypes, PcOK, AO!Busy
  <2>2. CASE ~AO!Busy(g)
    <3>1. pc'[g] = pc[g]
      BY <1>2, <1>5, <2>2
    <3> QED
      BY <1>5, <2>2, <3>1 DEF AddOnInv, AddOnTypes, PcOK, AO!Busy
  <2> QED
    BY <2>1, <2>2
<1>6. PcOK(h)'
  BY <1>3, <1>4 DEF PcOK
<1>7. AddOnTypes'
  BY <1>2, <1>5, <1>6 DEF AddOnInv, AddOnTypes
<1>8. Apart'
  BY <1>1, <1>3, <1>4, <1>5 DEF Apart
<1>9. Serving'
  BY <1>4 DEF Serving, AO!Quiet
<1>10. \A g \in Handler : Done(g)'
  BY <1>3, <1>4, <1>5 DEF Done
<1>11. Tidy'
  <2>1. ASSUME clean, free PROVE Left(h)'
    BY <1>1, <1>3, <1>4, <2>1 DEF AddOnInv, Tidy, Left, AO!Quiet
  <2> QED
    BY <1>1, <1>2, <1>3, <1>4, <1>5, <2>1 DEF Tidy, AO!Quiet
<1> QED
  BY <1>7, <1>8, <1>9, <1>10, <1>11 DEF AddOnInv

LEMMA InstallKeeps ==
    ASSUME AddOnInv, NEW h \in Handler, NEW v \in Version, AO!Install(h, v)
    PROVE  AddOnInv'
BY ChangeBegins DEF AO!Install

LEMMA UninstallKeeps ==
    ASSUME AddOnInv, NEW h \in Handler, AO!Uninstall(h)
    PROVE  AddOnInv'
<1>1. PICK v \in Version : v = row
  BY DEF AO!Uninstall, AddOnInv, AddOnTypes
<1> QED
  BY <1>1, ChangeBegins DEF AO!Uninstall

LEMMA InstallStepKeeps ==
    ASSUME AddOnInv, NEW h \in Handler,
           AO!Evict(h) \/ AO!Displace(h) \/ AO!Move(h) \/ AO!Upsert(h)
    PROVE  AddOnInv'
<1>1. AddOnTypes /\ PcOK(h) /\ Done(h)
  BY DEF AddOnInv, AddOnTypes
<1>2. AO!Busy(h) /\ pc[h] \in Change /\ pc[h].v \in Version
  <2>1. pc[h].step \in ChangeStep
    BY DEF AO!Evict, AO!Displace, AO!Move, AO!Upsert, ChangeStep
  <2> QED
    BY <1>1, <2>1, BusyIs DEF Change
<1>3. clean => pc[h].alone /\ Left(h)
  BY <1>2 DEF AddOnInv, Tidy
<1>4. CASE AO!Evict(h)
  <2>1. /\ pc[h].step = "evict" /\ disk' = disk \ ({row} \ {pc[h].v, None}) /\ AO!Go(h, "displace")
        /\ UNCHANGED <<row, factory, probe, stored, settled, clean>>
    BY <1>4 DEF AO!Evict, AO!Evicted
  <2>2. /\ Moves(h) /\ (\A g \in Handler : PcOK(g)') /\ AO!Busy(h)'
        /\ pc'[h].step = "displace" /\ pc'[h].v = pc[h].v /\ pc'[h].alone = pc[h].alone
    BY <1>1, <1>2, <2>1, GoIs DEF ChangeStep
  <2>3. AddOnTypes'
    BY <1>1, <2>1, <2>2 DEF AddOnTypes, Moves
  <2>4. Done(h)' /\ (clean => Left(h)')
    BY <1>1, <1>2, <1>3, <2>1, <2>2 DEF Done, Left
  <2> QED
    BY <1>2, <2>1, <2>2, <2>3, <2>4, ChangeGoesOn
<1>5. CASE AO!Displace(h)
  <2>1. /\ pc[h].step = "displace" /\ disk' = disk \ {pc[h].v} /\ AO!Go(h, "move")
        /\ UNCHANGED <<row, factory, probe, stored, settled, clean>>
    BY <1>5 DEF AO!Displace
  <2>2. /\ Moves(h) /\ (\A g \in Handler : PcOK(g)') /\ AO!Busy(h)'
        /\ pc'[h].step = "move" /\ pc'[h].v = pc[h].v /\ pc'[h].alone = pc[h].alone
    BY <1>1, <1>2, <2>1, GoIs DEF ChangeStep
  <2>3. AddOnTypes'
    BY <1>1, <2>1, <2>2 DEF AddOnTypes, Moves
  <2>4. Done(h)' /\ (clean => Left(h)')
    BY <1>1, <1>2, <1>3, <2>1, <2>2 DEF Done, Left
  <2> QED
    BY <1>2, <2>1, <2>2, <2>3, <2>4, ChangeGoesOn
<1>6. CASE AO!Move(h) /\ pc[h].v \in disk
  <2>1. /\ AO!Stop(h) /\ settled' = "disturbed" /\ clean' = FALSE
        /\ disk' = disk /\ UNCHANGED <<row, factory, probe, stored>>
    BY <1>6 DEF AO!Move
  <2>2. AddOnTypes'
    BY <1>1, <2>1, StopIs DEF AddOnTypes, Moves
  <2> QED
    BY <1>2, <2>1, <2>2, ChangeEnds
<1>7. CASE AO!Move(h) /\ pc[h].v \notin disk
  <2>1. /\ pc[h].step = "move" /\ disk' = disk \cup {pc[h].v} /\ AO!Go(h, "upsert")
        /\ UNCHANGED <<row, factory, probe, stored, settled, clean>>
    BY <1>7 DEF AO!Move
  <2>2. /\ Moves(h) /\ (\A g \in Handler : PcOK(g)') /\ AO!Busy(h)'
        /\ pc'[h].step = "upsert" /\ pc'[h].v = pc[h].v /\ pc'[h].alone = pc[h].alone
    BY <1>1, <1>2, <2>1, GoIs DEF ChangeStep
  <2>3. AddOnTypes'
    BY <1>1, <1>2, <2>1, <2>2 DEF AddOnTypes, Moves
  <2>4. Done(h)' /\ (clean => Left(h)')
    BY <1>1, <1>2, <1>3, <2>1, <2>2 DEF Done, Left
  <2> QED
    BY <1>2, <2>1, <2>2, <2>3, <2>4, ChangeGoesOn
<1>8. CASE AO!Upsert(h)
  <2>1. /\ pc[h].step = "upsert" /\ row' = pc[h].v /\ AO!Go(h, "load")
        /\ UNCHANGED <<disk, factory, probe, stored, settled, clean>>
    BY <1>8 DEF AO!Upsert
  <2>2. /\ Moves(h) /\ (\A g \in Handler : PcOK(g)') /\ AO!Busy(h)'
        /\ pc'[h].step = "load" /\ pc'[h].v = pc[h].v /\ pc'[h].alone = pc[h].alone
    BY <1>1, <1>2, <2>1, GoIs DEF ChangeStep
  <2>3. AddOnTypes'
    BY <1>1, <1>2, <2>1, <2>2 DEF AddOnTypes, Moves
  <2>4. (pc[h].alone => Done(h)') /\ (clean => Left(h)')
    BY <1>1, <1>2, <1>3, <2>1, <2>2 DEF Done, Left
  <2> QED
    BY <1>2, <2>1, <2>2, <2>3, <2>4, ChangeGoesOn
<1> QED
  BY <1>4, <1>5, <1>6, <1>7, <1>8

LEMMA LoadKeeps ==
    ASSUME AddOnInv, NEW h \in Handler, AO!Load(h)
    PROVE  AddOnInv'
<1>1. AddOnTypes /\ PcOK(h) /\ Done(h) /\ pc[h].step = "load"
  BY DEF AddOnInv, AddOnTypes, AO!Load
<1>2. AO!Busy(h) /\ pc[h] \in Change /\ pc[h].v \in Version
  BY <1>1, BusyIs DEF ChangeStep, Change
<1>3. clean => pc[h].alone /\ Left(h)
  BY <1>2 DEF AddOnInv, Tidy
<1>4. UNCHANGED <<disk, row, factory, probe, stored>>
  BY DEF AO!Load
<1>5. CASE AO!Loads(pc[h].v)
  <2>1. pc[h].v \notin Broken /\ AO!Go(h, "register") /\ UNCHANGED <<settled, clean>>
    BY <1>5 DEF AO!Load, AO!Loads
  <2>2. /\ Moves(h) /\ (\A g \in Handler : PcOK(g)') /\ AO!Busy(h)'
        /\ pc'[h].step = "register" /\ pc'[h].v = pc[h].v /\ pc'[h].alone = pc[h].alone
    BY <1>1, <1>2, <2>1, GoIs DEF ChangeStep
  <2>3. AddOnTypes'
    BY <1>1, <1>4, <2>1, <2>2 DEF AddOnTypes, Moves
  <2>4. (pc[h].alone => Done(h)') /\ (clean => Left(h)')
    BY <1>1, <1>2, <1>3, <1>4, <2>2 DEF Done, Left
  <2> QED
    BY <1>2, <2>1, <2>2, <2>3, <2>4, ChangeGoesOn
<1>6. CASE ~AO!Loads(pc[h].v)
  <2>1. AO!Stop(h) /\ settled' = "disturbed" /\ ~clean'
    BY <1>6 DEF AO!Load
  <2>2. AddOnTypes'
    BY <1>1, <1>4, <1>6, StopIs DEF AddOnTypes, Moves, AO!Load
  <2> QED
    BY <1>2, <2>1, <2>2, ChangeEnds
<1> QED
  BY <1>5, <1>6

LEMMA RegisterKeeps ==
    ASSUME AddOnInv, NEW h \in Handler, AO!Register(h)
    PROVE  AddOnInv'
<1>1. AddOnTypes /\ PcOK(h) /\ Done(h) /\ pc[h].step = "register"
  BY DEF AddOnInv, AddOnTypes, AO!Register
<1>2. AO!Busy(h) /\ pc[h].v \in Version \ Broken
  BY <1>1, BusyIs DEF ChangeStep, Change, PcOK
<1>3. clean => pc[h].alone /\ Left(h)
  BY <1>2 DEF AddOnInv, Tidy
<1>4. /\ UNCHANGED <<disk, row, probe, stored, clean>> /\ AO!Stop(h) /\ factory' = pc[h].v
      /\ settled' = IF pc[h].alone THEN "complete" ELSE "disturbed"
  BY DEF AO!Register, AO!Registered, AO!Complete
<1>5. pc[h].alone => row = pc[h].v /\ pc[h].v \in disk
  BY <1>1, <1>2 DEF Done
<1>6. AddOnTypes'
  BY <1>1, <1>2, <1>4, StopIs DEF AddOnTypes, Moves
<1>7. clean => disk = {row} \ {None} /\ row # None
  BY <1>1, <1>2, <1>3, <1>5, AddOnAssumption DEF Left
<1> QED
  BY <1>2, <1>3, <1>4, <1>5, <1>6, <1>7, ChangeEnds

LEMMA FailKeeps ==
    ASSUME AddOnInv, NEW h \in Handler, AO!Fail(h)
    PROVE  AddOnInv'
<1>1. AddOnTypes /\ pc[h].step \in ChangeStep
  BY DEF AddOnInv, AddOnTypes, AO!Fail, ChangeStep
<1>2. AO!Busy(h)
  BY <1>1, BusyIs
<1>3. /\ UNCHANGED <<disk, row, factory, probe, stored>> /\ AO!Stop(h)
      /\ settled' = "disturbed" /\ clean' = FALSE
  BY DEF AO!Fail, AO!Fault
<1>4. AddOnTypes'
  BY <1>1, <1>3, StopIs DEF AddOnTypes, Moves
<1> QED
  BY <1>2, <1>3, <1>4, ChangeEnds

LEMMA UninstallStepKeeps ==
    ASSUME AddOnInv, NEW h \in Handler, AO!Trash(h) \/ AO!DeleteRow(h) \/ AO!Unregister(h)
    PROVE  AddOnInv'
<1>1. AddOnTypes /\ PcOK(h) /\ Done(h) /\ pc[h].step \in ChangeStep
  BY DEF AddOnInv, AddOnTypes, AO!Trash, AO!DeleteRow, AO!Unregister, ChangeStep
<1>2. AO!Busy(h)
  BY <1>1, BusyIs
<1>3. clean => pc[h].alone /\ Left(h)
  BY <1>2 DEF AddOnInv, Tidy
<1>4. CASE AO!Trash(h)
  <2>1. /\ pc[h].step = "trash" /\ disk' = disk \ {pc[h].v} /\ AO!Go(h, "delete")
        /\ UNCHANGED <<row, factory, probe, stored, settled, clean>>
    BY <1>4 DEF AO!Trash
  <2>2. /\ Moves(h) /\ (\A g \in Handler : PcOK(g)') /\ AO!Busy(h)'
        /\ pc'[h].step = "delete" /\ pc'[h].v = pc[h].v /\ pc'[h].alone = pc[h].alone
    BY <1>1, <1>2, <2>1, GoIs DEF ChangeStep
  <2>3. AddOnTypes'
    BY <1>1, <2>1, <2>2 DEF AddOnTypes, Moves
  <2>4. Done(h)' /\ (clean => Left(h)')
    BY <1>1, <1>2, <1>3, <2>1, <2>2 DEF Done, Left
  <2> QED
    BY <1>2, <2>1, <2>2, <2>3, <2>4, ChangeGoesOn
<1>5. CASE AO!DeleteRow(h)
  <2>1. /\ pc[h].step = "delete" /\ row' = None /\ AO!Go(h, "unregister")
        /\ UNCHANGED <<disk, factory, probe, stored, settled, clean>>
    BY <1>5 DEF AO!DeleteRow
  <2>2. /\ Moves(h) /\ (\A g \in Handler : PcOK(g)') /\ AO!Busy(h)'
        /\ pc'[h].step = "unregister" /\ pc'[h].v = pc[h].v /\ pc'[h].alone = pc[h].alone
    BY <1>1, <1>2, <2>1, GoIs DEF ChangeStep
  <2>3. AddOnTypes'
    BY <1>1, <2>1, <2>2 DEF AddOnTypes, Moves
  <2>4. Done(h)' /\ (clean => Left(h)')
    BY <1>1, <1>2, <1>3, <2>1, <2>2 DEF Done, Left
  <2> QED
    BY <1>2, <2>1, <2>2, <2>3, <2>4, ChangeGoesOn
<1>6. CASE AO!Unregister(h)
  <2>1. /\ pc[h].step = "unregister" /\ factory' = None /\ probe' = None /\ AO!Stop(h)
        /\ settled' = IF pc[h].alone THEN "complete" ELSE "disturbed"
        /\ UNCHANGED <<disk, row, stored, clean>>
    BY <1>6 DEF AO!Unregister, AO!Unregistered, AO!Complete
  <2>2. AddOnTypes'
    BY <1>1, <2>1, StopIs DEF AddOnTypes, Moves
  <2>3. pc[h].alone => row = None
    BY <1>1, <1>2, <2>1 DEF Done
  <2>4. clean => disk = {}
    BY <1>3, <2>1 DEF Left
  <2> QED
    BY <1>2, <1>3, <2>1, <2>2, <2>3, <2>4, ChangeEnds
<1> QED
  BY <1>4, <1>5, <1>6

LEMMA WizardKeeps ==
    ASSUME AddOnInv, NEW h \in Handler, NEW d \in Device, NEW c \in BOOLEAN, AO!Wizard(h, d, c)
    PROVE  AddOnInv'
<1>1. PICK v \in Version \ Broken : v = factory
  BY DEF AO!Wizard, AddOnInv, AddOnTypes
<1> DEFINE q == [step |-> "get", v |-> v, device |-> d, connect |-> c]
<1>2. /\ pc[h] = AO!Idle /\ pc' = [pc EXCEPT ![h] = q]
      /\ UNCHANGED <<disk, row, factory, probe, stored, settled, clean>>
  BY <1>1 DEF AO!Wizard
<1>3. q \in Testing /\ q.step = "get"
  BY DEF Testing
<1> HIDE DEF q
<1>4. Moves(h) /\ pc'[h] = q
  BY <1>2 DEF AddOnInv, AddOnTypes, Moves
<1>5. ~AO!Busy(h) /\ ~AO!Busy(h)'
  BY <1>2, <1>3, <1>4 DEF AO!Busy, AO!Idle
<1>6. \A g \in Handler : PcOK(g)'
  BY <1>3, <1>4 DEF AddOnInv, AddOnTypes, Moves, PcOK
<1>7. AddOnTypes'
  BY <1>2, <1>4, <1>6 DEF AddOnInv, AddOnTypes, Moves
<1> QED
  BY <1>2, <1>4, <1>5, <1>7, TestGoesOn DEF AddOnInv, Tidy

LEMMA TestKeeps ==
    ASSUME AddOnInv, NEW h \in Handler, AO!Probe(h) \/ AO!Store(h)
    PROVE  AddOnInv'
<1>1. AddOnTypes /\ PcOK(h) /\ pc[h].step \in {"get", "store"}
  BY DEF AddOnInv, AddOnTypes, AO!Probe, AO!Store
<1>2. pc[h] \in Testing /\ ~AO!Busy(h)
  BY <1>1, BusyIs DEF ChangeStep
<1>3. pc[h].v \in Version \ Broken /\ pc[h].device \in Device
  BY <1>2 DEF Testing
<1>4. ASSUME AO!Go(h, "store") PROVE Moves(h) /\ ~AO!Busy(h)' /\ \A g \in Handler : PcOK(g)'
  <2> DEFINE q == [pc[h] EXCEPT !.step = "store"]
  <2>1. q \in Testing /\ q.step = "store" /\ pc' = [pc EXCEPT ![h] = q]
    BY <1>2, <1>4 DEF Testing, AO!Go
  <2> HIDE DEF q
  <2>2. Moves(h) /\ pc'[h] = q
    BY <1>1, <2>1 DEF AddOnTypes, Moves
  <2> QED
    BY <1>1, <2>1, <2>2 DEF AddOnTypes, Moves, PcOK, AO!Busy
<1>5. Moves(h) /\ ~AO!Busy(h)' /\ \A g \in Handler : PcOK(g)'
  BY <1>1, <1>4, StopIs DEF AO!Probe, AO!Store
<1>6. /\ UNCHANGED <<disk, row, factory, settled>>
      /\ stored' \subseteq Device \cap Up
  BY <1>1, <1>3 DEF AO!Probe, AO!Store, AO!Accepted, AddOnTypes
<1>7. /\ probe' = None \/ (probe'.device \in Device /\ probe'.v \in Version \ Broken)
      /\ (clean' = clean /\ probe' = probe) \/ clean' = (clean /\ factory = pc[h].v)
  BY <1>1, <1>3 DEF AO!Probe, AO!Store, AddOnTypes
<1>8. AddOnTypes'
  BY <1>1, <1>5, <1>6, <1>7 DEF AddOnTypes, Moves
<1>9. clean' => clean /\ (AO!Quiet /\ row = None => probe' = None)
  BY <1>3, <1>7, AddOnAssumption DEF AddOnInv, Tidy
<1> QED
  BY <1>2, <1>5, <1>6, <1>8, <1>9, TestGoesOn

LEMMA BootKeeps == AddOnInv /\ AO!Restart => AddOnInv'
<1> SUFFICES ASSUME AddOnInv, AO!Restart PROVE AddOnInv'
  OBVIOUS
<1>1. /\ factory' = AO!Booted /\ probe' = None /\ pc' = [h \in Handler |-> AO!Idle]
      /\ settled' = "restarted" /\ clean' = FALSE /\ UNCHANGED <<disk, row, stored>>
  BY DEF AO!Restart, AO!Fault
<1>2. \A h \in Handler : PcOK(h)' /\ ~AO!Busy(h)'
  BY <1>1 DEF PcOK, AO!Busy, AO!Idle
<1>3. AddOnTypes'
  BY <1>1, <1>2 DEF AddOnInv, AddOnTypes, AO!Booted, AO!Loads
<1>4. Serving'
  BY <1>1 DEF AddOnInv, Serving, AO!Booted, AO!Loads
<1> QED
  BY <1>1, <1>2, <1>3, <1>4 DEF AddOnInv, Apart, Tidy, Done

LEMMA InitAddOns == AO!Init => AddOnInv
<1> SUFFICES ASSUME AO!Init PROVE AddOnInv
  OBVIOUS
<1>1. \A h \in Handler : PcOK(h) /\ ~AO!Busy(h)
  BY DEF AO!Init, PcOK, AO!Busy, AO!Idle
<1> QED
  BY <1>1 DEF AO!Init, AddOnInv, AddOnTypes, Apart, Serving, Tidy, Done

LEMMA NextAddOns ==
    ASSUME AddOnInv, AO!Next
    PROVE  AddOnInv'
BY InstallKeeps, UninstallKeeps, InstallStepKeeps, LoadKeeps, RegisterKeeps, FailKeeps,
   UninstallStepKeeps, WizardKeeps, TestKeeps, BootKeeps DEF AO!Next

LEMMA AddOnsImply ==
    ASSUME AddOnInv
    PROVE  /\ AO!TypeOK /\ AO!InstalledIsServed /\ AO!RestartServes
           /\ AO!OneVersionOnDisk /\ AO!ClosedWhenUninstalled /\ AO!StoredAnswered
<1>1. AO!TypeOK
  BY AddOnAssumption DEF AddOnInv, AddOnTypes, AO!TypeOK
<1>2. AO!InstalledIsServed /\ AO!RestartServes
  BY DEF AddOnInv, Serving, AO!InstalledIsServed, AO!RestartServes
<1>3. AO!OneVersionOnDisk /\ AO!ClosedWhenUninstalled
  BY DEF AddOnInv, Tidy, AO!OneVersionOnDisk, AO!ClosedWhenUninstalled
<1> QED
  BY <1>1, <1>2, <1>3 DEF AddOnInv, AddOnTypes, AO!StoredAnswered

-----------------------------------------------------------------------------
(* The telemetry of an endpoint. *)

TeleTypes ==
    /\ log \in 0..MaxRecord
    /\ file \in (1..log) \cup {None}
    /\ pc \in [Thread -> TE!Step]
    /\ batch \in [Thread -> SUBSET (1..log)] /\ DOMAIN todo = Thread
    /\ last \in [Thread -> (1..log) \cup {None}]
    /\ \A t \in Thread : /\ todo[t] \in Seq((SUBSET (1..log)) \ {{}})
                         /\ pc[t] = "posting" <=> todo[t] # <<>>
    /\ sent \in [TE!Record -> 0..2] /\ \A r \in TE!Record : sent[r] > 0 => r <= log
    /\ given \subseteq 1..log /\ cut \subseteq 1..log /\ skipped \subseteq 1..log
    /\ overlapped \in BOOLEAN
    /\ faults \in [TE!Fault -> Nat]
    /\ faults["crash"] + faults["unsaved"] + faults["repeat"] + faults["refused"] <= MaxFaults

\* What a thread has read is an interval of the log.
Read(t) ==
    IF pc[t] \in {"read", "loaded", "emptied"}
    THEN \E m, n \in 1..log : m <= n /\ batch[t] = m..n
    ELSE batch[t] = {}

Queued(t, r) == \E k \in DOMAIN todo[t] : r \in todo[t][k]
Known(r) == sent[r] > 0 \/ r \in given \cup cut \cup skipped \/ \E t \in Thread : Queued(t, r)

\* What the cursor has passed, the one in the file or one that a thread holds.
Passed ==
    /\ file # None => \A r \in 1..file : Known(r)
    /\ \A t \in Thread : last[t] # None => \A r \in 1..last[t] : Known(r)

\* One thread collects at a time, and the cursor it holds is that of the file.
InTurns ==
    ~overlapped =>
        /\ \A t, u \in Thread : pc[t] # "idle" /\ pc[u] # "idle" => t = u
        /\ \A t \in Thread : /\ pc[t] = "loaded" => last[t] = file
                             /\ pc[t] = "emptied" => file = None

\* Nothing happened that may send a record twice.
Calm == ~overlapped /\ faults["repeat"] = 0 /\ faults["unsaved"] = 0

\* What was sent or is about to be sent lies behind every cursor there is, and
\* in the batch of a thread or behind it.
Out(r) == sent[r] > 0 \/ \E t \in Thread : Queued(t, r)
Behind(r) ==
    /\ file # None => r <= file
    /\ \A t \in Thread :
         /\ pc[t] \in {"read", "loaded", "emptied"} => \E b \in batch[t] : r <= b
         /\ pc[t] = "emptied" /\ last[t] # None => r <= last[t]

SentOnce ==
    Calm =>
        /\ \A r \in TE!Record : sent[r] <= 1
        /\ \A r \in TE!Record : Out(r) => Behind(r)
        /\ \A t \in Thread, r \in TE!Record : Queued(t, r) => sent[r] = 0
        /\ \A t \in Thread : \A k, l \in DOMAIN todo[t] :
              k # l => todo[t][k] \cap todo[t][l] = {}

\* There is a cursor, or a thread holds it, once there was one.
Started ==
    ~overlapped /\ faults["crash"] = 0 /\ faults["unsaved"] = 0 /\ skipped # {} =>
        file # None \/ \E t \in Thread : pc[t] = "emptied" /\ last[t] # None

TeleInv ==
    /\ TeleTypes /\ Passed /\ InTurns /\ SentOnce /\ Started
    /\ \A t \in Thread : Read(t)

-----------------------------------------------------------------------------
\* The rank of an element of a finite set of numbers tells it from the others,
\* and every rank up to the size of the set is taken.
LEMMA Ranks ==
    ASSUME NEW S \in SUBSET Nat, IsFiniteSet(S)
    PROVE  /\ \A r \in S : Cardinality({x \in S : x <= r}) \in 1..Cardinality(S)
           /\ \A i \in 1..Cardinality(S) : \E r \in S : Cardinality({x \in S : x <= r}) = i
<1> DEFINE U(r) == {x \in S : x <= r}
           f == [r \in S |-> Cardinality(U(r))]
           N == Cardinality(S)
<1>1. N \in Nat
  BY FS_CardinalityType
<1>2. \A r \in S : U(r) \in SUBSET S /\ r \in U(r)
  OBVIOUS
<1>3. \A r \in S : IsFiniteSet(U(r)) /\ Cardinality(U(r)) \in Nat /\ Cardinality(U(r)) <= N
  BY <1>2, FS_Subset, FS_CardinalityType
<1>4. ASSUME NEW r \in S PROVE Cardinality(U(r)) \in 1..N
  <2>1. Cardinality(U(r)) # 0
    BY <1>2, <1>3, FS_EmptySet
  <2> QED
    BY <1>1, <1>3, <2>1
<1>5. ASSUME NEW r \in S, NEW s \in S, r < s PROVE Cardinality(U(r)) # Cardinality(U(s))
  <2>1. \A x \in S : x <= r => x <= s
    BY <1>5
  <2>2. s <= s /\ ~(s <= r)
    BY <1>5
  <2>3. U(r) \in SUBSET U(s) /\ s \in U(s) /\ s \notin U(r)
    BY <2>1, <2>2
  <2> HIDE DEF U
  <2>4. IsFiniteSet(U(s))
    BY <1>3
  <2> QED
    BY <2>3, <2>4, FS_Subset
<1> HIDE DEF U
<1>6. f \in [S -> 1..N] /\ \A r \in S : f[r] = Cardinality(U(r))
  BY <1>4
<1>7. \A r, s \in S : f[r] = f[s] => r = s
  <2> SUFFICES ASSUME NEW r \in S, NEW s \in S, f[r] = f[s], r # s PROVE FALSE
    OBVIOUS
  <2>1. r < s \/ s < r
    OBVIOUS
  <2> QED
    BY <1>5, <1>6, <2>1
<1> HIDE DEF f
<1>8. f \in Injection(S, 1..N)
  BY <1>6, <1>7 DEF Injection, IsInjective
<1>9. IsFiniteSet(1..N) /\ Cardinality(1..N) = N
  BY <1>1, FS_Interval
<1>10. f \in Surjection(S, 1..N)
  BY <1>8, <1>9, FS_Injection
<1>11. \A i \in 1..N : \E r \in S : f[r] = i
  BY <1>10 DEF Surjection
<1>12. \A i \in 1..N : \E r \in S : Cardinality(U(r)) = i
  BY <1>6, <1>11
<1> QED
  BY <1>4, <1>12 DEF U

LEMMA SizesAlike == \A S : TE!Cardinality(S) = Cardinality(S)
BY DEF TE!Cardinality, Cardinality

\* The events of some records: each record is in one of them.
LEMMA EventsAre ==
    ASSUME NEW n \in Nat, NEW rs \in SUBSET (1..n)
    PROVE  LET q == TE!Events(rs) IN
           /\ q \in Seq((SUBSET (1..n)) \ {{}})
           /\ q = <<>> <=> rs = {}
           /\ \A r : r \in rs <=> \E k \in DOMAIN q : r \in q[k]
           /\ \A k, l \in DOMAIN q : k # l => q[k] \cap q[l] = {}
<1> DEFINE S == rs \ FailedLogon
           F == rs \cap FailedLogon
           rank(r) == TE!Cardinality({x \in S : x <= r})
           N == TE!Cardinality(S)
           g == [i \in 1..N |-> {r \in S : rank(r) = i}]
           p == IF F = {} THEN <<>> ELSE <<F>>
           q == TE!Events(rs)
           A == (SUBSET (1..n)) \ {{}}
<1>4. q = p \o g
  BY DEF TE!Events
<1> HIDE DEF g, p, q, A
<1>1. S \in SUBSET Nat /\ S \subseteq 1..n /\ F \subseteq 1..n /\ S \cup F = rs /\ S \cap F = {}
  <2> HIDE DEF rank, N
  <2>1. 1..n \subseteq Nat
    OBVIOUS
  <2>2. S \subseteq 1..n /\ F \subseteq 1..n
    OBVIOUS
  <2>3. S \cup F = rs /\ S \cap F = {}
    OBVIOUS
  <2> QED
    BY <2>1, <2>2, <2>3
<1>2. IsFiniteSet(S) /\ N \in Nat
  <2> HIDE DEF S
  <2>1. IsFiniteSet(1..n)
    BY FS_Interval
  <2>2. IsFiniteSet(S)
    BY <1>1, <2>1, FS_Subset
  <2> QED
    BY <2>2, FS_CardinalityType, SizesAlike
<1>3. /\ \A r \in S : rank(r) \in 1..N
      /\ \A i \in 1..N : \E r \in S : rank(r) = i
  <2> HIDE DEF S
  <2> DEFINE R(r) == Cardinality({x \in S : x <= r})
  <2>1. /\ \A r \in S : R(r) \in 1..Cardinality(S)
        /\ \A i \in 1..Cardinality(S) : \E r \in S : R(r) = i
    BY <1>1, <1>2, Ranks
  <2>2. \A r : rank(r) = R(r)
    BY SizesAlike
  <2>3. N = Cardinality(S)
    BY SizesAlike
  <2> HIDE DEF rank, R, N
  <2> QED
    BY <2>1, <2>2, <2>3
<1> HIDE DEF S, F, rank, N
<1>5. g \in Seq(A) /\ Len(g) = N /\ \A i \in 1..N : g[i] = {r \in S : rank(r) = i}
  <2>1. \A i \in 1..N : {r \in S : rank(r) = i} \in A
    BY <1>1, <1>3 DEF A
  <2>2. g \in [1..N -> A] /\ \A i \in 1..N : g[i] = {r \in S : rank(r) = i}
    BY <2>1 DEF g
  <2> QED
    BY <1>2, <2>2
<1>6. p \in Seq(A) /\ Len(p) \in {0, 1} /\ (Len(p) = 0 <=> F = {}) /\ (F # {} => p[1] = F)
  <2>1. CASE F = {}
    BY <2>1 DEF p
  <2>2. CASE F # {}
    <3>1. p = <<F>> /\ F \in A
      BY <1>1, <2>2 DEF p, A
    <3> QED
      BY <2>2, <3>1
  <2> QED
    BY <2>1, <2>2
<1>7. PICK m \in {0, 1} : m = Len(p)
  BY <1>6
<1>8. /\ q \in Seq(A) /\ Len(q) = m + N
      /\ \A k \in 1..(m + N) : q[k] = IF k <= m THEN p[k] ELSE g[k - m]
  <2>1. p \o g \in Seq(A) /\ Len(p \o g) = Len(p) + Len(g)
    BY <1>5, <1>6, ConcatProperties
  <2>2. \A k \in 1..(Len(p) + Len(g)) :
           (p \o g)[k] = IF k <= Len(p) THEN p[k] ELSE g[k - Len(p)]
    BY <1>5, <1>6, ConcatProperties
  <2> QED
    BY <1>4, <1>5, <1>7, <2>1, <2>2
<1>9. DOMAIN q = 1..(m + N)
  BY <1>8, LenProperties
<1>10. /\ \A k \in 1..(m + N) : k <= m => q[k] = F
       /\ \A k \in 1..(m + N) : k > m => k - m \in 1..N /\ q[k] = {r \in S : rank(r) = k - m}
  <2>1. \A k \in 1..(m + N) : k <= m => k = 1 /\ m = 1
    BY <1>2, <1>7
  <2>2. \A k \in 1..(m + N) : k > m => k - m \in 1..N
    BY <1>2, <1>7
  <2> QED
    BY <1>5, <1>6, <1>7, <1>8, <2>1, <2>2
<1>11. q = <<>> <=> rs = {}
  <2>1. q = <<>> <=> m + N = 0
    BY <1>2, <1>7, <1>8, EmptySeq
  <2>2. m + N = 0 <=> m = 0 /\ N = 0
    BY <1>2, <1>7
  <2>3. N = 0 <=> S = {}
    BY <1>2, FS_EmptySet, SizesAlike DEF N
  <2> QED
    BY <1>1, <1>6, <1>7, <2>1, <2>2, <2>3
<1>12. ASSUME NEW r PROVE r \in rs <=> \E k \in DOMAIN q : r \in q[k]
  <2>1. ASSUME r \in F PROVE \E k \in DOMAIN q : r \in q[k]
    <3>1. m = 1 /\ 1 \in 1..(m + N)
      BY <1>2, <1>6, <1>7, <2>1
    <3> QED
      BY <1>9, <1>10, <2>1, <3>1
  <2>2. ASSUME r \in S PROVE \E k \in DOMAIN q : r \in q[k]
    <3>1. PICK i \in 1..N : i = rank(r)
      BY <1>3, <2>2
    <3>2. m + i \in 1..(m + N) /\ m + i > m /\ (m + i) - m = i
      BY <1>2, <1>7
    <3>3. q[m + i] = {x \in S : rank(x) = i}
      BY <1>10, <3>2
    <3> QED
      BY <1>9, <2>2, <3>1, <3>2, <3>3
  <2>3. ASSUME NEW k \in 1..(m + N), r \in q[k] PROVE r \in rs
    BY <1>1, <1>7, <1>2, <1>10, <2>3
  <2> QED
    BY <1>1, <1>9, <2>1, <2>2, <2>3
<1>13. ASSUME NEW k \in DOMAIN q, NEW l \in DOMAIN q, k < l PROVE q[k] \cap q[l] = {}
  <2>1. k \in 1..(m + N) /\ l \in 1..(m + N) /\ l > m
    BY <1>2, <1>7, <1>9, <1>13
  <2>2. q[l] = {r \in S : rank(r) = l - m}
    BY <1>10, <2>1
  <2>3. CASE k <= m
    BY <1>1, <1>10, <2>1, <2>2, <2>3
  <2>4. CASE k > m
    <3>1. q[k] = {r \in S : rank(r) = k - m}
      BY <1>10, <2>1, <2>4
    <3>2. k - m # l - m
      BY <1>2, <1>7, <1>13, <2>1
    <3> QED
      BY <2>2, <3>1, <3>2
  <2> QED
    BY <1>2, <1>7, <2>1, <2>3, <2>4
<1>14. ASSUME NEW k \in DOMAIN q, NEW l \in DOMAIN q, k # l PROVE q[k] \cap q[l] = {}
  <2>1. k < l \/ l < k
    BY <1>2, <1>7, <1>9, <1>14
  <2>2. CASE k < l
    BY <1>13, <2>2
  <2>3. CASE l < k
    <3>1. q[l] \cap q[k] = {}
      BY <1>13, <2>3
    <3> QED
      BY <3>1
  <2> QED
    BY <2>1, <2>2, <2>3
<1> QED
  BY <1>8, <1>11, <1>12, <1>14 DEF q, A

LEMMA SeqGrows ==
    ASSUME NEW A, NEW B, A \subseteq B, NEW q \in Seq(A)
    PROVE  q \in Seq(B)
<1>1. Len(q) \in Nat /\ \A k \in 1..Len(q) : q[k] \in A
  BY LenProperties, ElementOfSeq
<1>2. q = [k \in 1..Len(q) |-> q[k]]
  BY LenProperties
<1>3. [k \in 1..Len(q) |-> q[k]] \in Seq(B)
  BY <1>1
<1> QED
  BY <1>2, <1>3

\* The threads that have nothing to post, and the records that wait.
LEMMA QueuedIs ==
    ASSUME TeleTypes, NEW t \in Thread
    PROVE  /\ todo[t] \in Seq((SUBSET (1..log)) \ {{}}) /\ DOMAIN todo[t] = 1..Len(todo[t])
           /\ Len(todo[t]) \in Nat
           /\ \A k \in DOMAIN todo[t] : todo[t][k] \in SUBSET (1..log)
           /\ \A r : Queued(t, r) => r \in 1..log /\ pc[t] = "posting"
<1>1. /\ todo[t] \in Seq((SUBSET (1..log)) \ {{}}) /\ DOMAIN todo[t] = 1..Len(todo[t])
      /\ Len(todo[t]) \in Nat
      /\ pc[t] = "posting" <=> todo[t] # <<>>
  BY LenProperties DEF TeleTypes
<1>2. \A k \in DOMAIN todo[t] : todo[t][k] \in SUBSET (1..log)
  BY <1>1, ElementOfSeq
<1>3. todo[t] = <<>> => DOMAIN todo[t] = {}
  OBVIOUS
<1> QED
  BY <1>1, <1>2, <1>3 DEF Queued

\* A step that leaves what is posted, and the history, alone.
LEMMA NothingPosted ==
    ASSUME UNCHANGED <<todo, sent, given, cut, skipped>>
    PROVE  /\ \A r : (Known(r)' <=> Known(r)) /\ (Out(r)' <=> Out(r))
           /\ \A t \in Thread, r \in TE!Record : Queued(t, r)' <=> Queued(t, r)
BY DEF Known, Out, Queued

LEMMA WriteRecordKeeps == TeleInv /\ TE!WriteRecord => TeleInv'
<1> SUFFICES ASSUME TeleInv, TE!WriteRecord PROVE TeleInv'
  OBVIOUS
<1>1. /\ log' = log + 1 /\ log < MaxRecord
      /\ UNCHANGED <<file, pc, batch, last, todo, sent, given, cut, skipped, overlapped, faults>>
  BY DEF TE!WriteRecord
<1>2. log \in Nat /\ log' \in 0..MaxRecord /\ 1..log \subseteq 1..log'
  BY <1>1, TelemetryAssumption DEF TeleInv, TeleTypes
<1>3. ASSUME NEW t \in Thread PROVE todo'[t] \in Seq((SUBSET (1..log')) \ {{}})
  <2>1. (SUBSET (1..log)) \ {{}} \subseteq (SUBSET (1..log')) \ {{}}
    BY <1>2
  <2>2. todo'[t] = todo[t] /\ todo[t] \in Seq((SUBSET (1..log)) \ {{}})
    BY <1>1 DEF TeleInv, TeleTypes
  <2> QED
    BY <2>1, <2>2, SeqGrows
<1>4. \A r \in TE!Record : sent'[r] > 0 => r <= log'
  <2>1. ASSUME NEW r \in TE!Record, sent'[r] > 0 PROVE r <= log'
    <3>1. r \in Nat /\ r <= log
      BY <1>1, <2>1 DEF TeleInv, TeleTypes, TE!Record
    <3> QED
      BY <1>1, <1>2, <3>1
  <2> QED
    BY <2>1
<1>5. TeleTypes'
  <2>1. /\ file' \in (1..log') \cup {None} /\ last' \in [Thread -> (1..log') \cup {None}]
        /\ batch' \in [Thread -> SUBSET (1..log')]
    BY <1>1, <1>2 DEF TeleInv, TeleTypes
  <2>2. given' \subseteq 1..log' /\ cut' \subseteq 1..log' /\ skipped' \subseteq 1..log'
    BY <1>1, <1>2 DEF TeleInv, TeleTypes
  <2> QED
    BY <1>1, <1>2, <1>3, <1>4, <2>1, <2>2 DEF TeleInv, TeleTypes
<1>6. ASSUME NEW t \in Thread PROVE Read(t)'
  BY <1>1, <1>2 DEF TeleInv, Read
<1>7. Passed' /\ InTurns' /\ Started'
  BY <1>1 DEF TeleInv, Passed, Known, Queued, InTurns, Started
<1>8. SentOnce'
  BY <1>1 DEF TeleInv, SentOnce, Calm, Out, Behind, Queued
<1> QED
  BY <1>5, <1>6, <1>7, <1>8 DEF TeleInv

LEMMA CollectKeeps ==
    ASSUME TeleInv, NEW t \in Thread, TE!Collect(t)
    PROVE  TeleInv'
<1>1. /\ pc[t] = "idle" /\ log > 0 /\ pc' = [pc EXCEPT ![t] = "read"]
      /\ batch' = [batch EXCEPT ![t] = TE!Newest]
      /\ overlapped' = (overlapped \/ \E u \in Thread : pc[u] # "idle")
      /\ UNCHANGED <<log, file, last, todo, sent, given, cut, skipped, faults>>
  BY DEF TE!Collect
<1>2. /\ DOMAIN batch' = Thread /\ batch'[t] = TE!Newest
      /\ \A u \in Thread \ {t} : batch'[u] = batch[u]
      /\ pc' \in [Thread -> TE!Step] /\ pc'[t] = "read"
      /\ \A u \in Thread \ {t} : pc'[u] = pc[u]
  BY <1>1 DEF TeleInv, TeleTypes, TE!Step
<1>3. log \in 1..log /\ \E m \in 1..log : m <= log /\ TE!Newest = m..log
  <2>1. log \in Nat \ {0} /\ Limit \in Nat \ {0}
    BY <1>1, TelemetryAssumption DEF TeleInv, TeleTypes
  <2> DEFINE m == IF log < Limit THEN 1 ELSE log + 1 - Limit
  <2>2. m \in 1..log /\ m <= log
    BY <2>1
  <2>3. \A r \in 1..log : r + Limit > log <=> r >= m
    BY <2>1
  <2>4. TE!Newest = m..log
    BY <2>1, <2>2, <2>3 DEF TE!Newest
  <2> QED
    BY <2>1, <2>2, <2>4
<1>4. TeleTypes'
  <2>1. overlapped' \in BOOLEAN
    BY <1>1
  <2>2. \A u \in Thread : pc'[u] = "posting" <=> pc[u] = "posting"
    BY <1>1, <1>2
  <2>3. batch' \in [Thread -> SUBSET (1..log)]
    <3>1. TE!Newest \in SUBSET (1..log)
      BY DEF TE!Newest
    <3> QED
      BY <1>1, <3>1 DEF TeleInv, TeleTypes
  <2> QED
    BY <1>1, <1>2, <2>1, <2>2, <2>3 DEF TeleInv, TeleTypes
<1>5. ASSUME NEW u \in Thread PROVE Read(u)'
  BY <1>1, <1>2, <1>3 DEF TeleInv, Read
<1>6. /\ \A r : (Known(r)' <=> Known(r)) /\ (Out(r)' <=> Out(r))
      /\ \A u \in Thread, r \in TE!Record : Queued(u, r)' <=> Queued(u, r)
  BY <1>1, NothingPosted
<1>7. Passed'
  BY <1>1, <1>6 DEF TeleInv, Passed
<1>8. ASSUME ~overlapped'
      PROVE  ~overlapped /\ \A u \in Thread \ {t} : pc'[u] = "idle"
  BY <1>1, <1>2, <1>8
<1>9. InTurns'
  <2> SUFFICES ASSUME ~overlapped' PROVE InTurns'
    BY DEF InTurns
  <2> QED
    BY <1>2, <1>8 DEF InTurns
<1>10. Started'
  BY <1>1, <1>2, <1>8 DEF TeleInv, Started
<1>11. SentOnce'
  <2> SUFFICES ASSUME Calm' PROVE SentOnce'
    BY DEF SentOnce
  <2>1. Calm /\ ~overlapped'
    BY <1>1, <1>8 DEF Calm
  <2>2. ASSUME NEW r \in TE!Record, Out(r)' PROVE Behind(r)'
    <3>1. Out(r) /\ Behind(r)
      BY <1>6, <2>1, <2>2 DEF TeleInv, SentOnce
    <3>2. r \in Nat /\ r <= log
      <4>1. ASSUME sent[r] > 0 PROVE r <= log
        BY <4>1 DEF TeleInv, TeleTypes
      <4>2. ASSUME NEW u \in Thread, Queued(u, r) PROVE r <= log
        BY <4>2, QueuedIs DEF TeleInv
      <4> QED
        BY <3>1, <4>1, <4>2 DEF Out, TE!Record
    <3>3. \E b \in batch'[t] : r <= b
      BY <1>2, <1>3, <3>2
    <3> QED
      BY <1>1, <1>2, <1>8, <2>1, <3>1, <3>3 DEF Behind
  <2>3. /\ \A r \in TE!Record : sent'[r] <= 1
        /\ \A u \in Thread, r \in TE!Record : Queued(u, r)' => sent'[r] = 0
        /\ \A u \in Thread : \A k, l \in DOMAIN todo'[u] :
              k # l => todo'[u][k] \cap todo'[u][l] = {}
    BY <1>1, <1>6, <2>1 DEF TeleInv, SentOnce
  <2> QED
    BY <2>2, <2>3 DEF SentOnce
<1> QED
  BY <1>4, <1>5, <1>7, <1>9, <1>10, <1>11 DEF TeleInv

LEMMA LoadCursorKeeps ==
    ASSUME TeleInv, NEW t \in Thread, TE!LoadCursor(t)
    PROVE  TeleInv'
<1>1. /\ pc[t] = "read" /\ pc' = [pc EXCEPT ![t] = "loaded"] /\ last' = [last EXCEPT ![t] = file]
      /\ UNCHANGED <<log, file, batch, todo, sent, given, cut, skipped, overlapped, faults>>
  BY DEF TE!LoadCursor
<1>2. /\ last' \in [Thread -> (1..log) \cup {None}] /\ last'[t] = file
      /\ \A u \in Thread \ {t} : last'[u] = last[u]
      /\ pc' \in [Thread -> TE!Step] /\ pc'[t] = "loaded"
      /\ \A u \in Thread \ {t} : pc'[u] = pc[u]
  BY <1>1 DEF TeleInv, TeleTypes, TE!Step
<1>3. TeleTypes'
  <2>1. \A u \in Thread : pc'[u] = "posting" <=> pc[u] = "posting"
    BY <1>1, <1>2
  <2> QED
    BY <1>1, <1>2, <2>1 DEF TeleInv, TeleTypes
<1>4. ASSUME NEW u \in Thread PROVE Read(u)'
  <2>1. Read(u)
    BY DEF TeleInv
  <2> QED
    BY <1>1, <1>2, <2>1 DEF Read
<1>5. /\ \A r : (Known(r)' <=> Known(r)) /\ (Out(r)' <=> Out(r))
      /\ \A u \in Thread, r \in TE!Record : Queued(u, r)' <=> Queued(u, r)
  BY <1>1, NothingPosted
<1>6. Passed'
  BY <1>1, <1>2, <1>5 DEF TeleInv, Passed
<1>7. InTurns'
  BY <1>1, <1>2 DEF TeleInv, InTurns
<1>8. Started'
  BY <1>1, <1>2 DEF TeleInv, Started
<1>9. SentOnce'
  <2> SUFFICES ASSUME Calm' PROVE SentOnce'
    BY DEF SentOnce
  <2>1. Calm
    BY <1>1 DEF Calm
  <2>2. ASSUME NEW r \in TE!Record, Out(r)' PROVE Behind(r)'
    <3>1. Behind(r)
      BY <1>5, <2>1, <2>2 DEF TeleInv, SentOnce
    <3> QED
      BY <1>1, <1>2, <3>1 DEF Behind
  <2>3. /\ \A r \in TE!Record : sent'[r] <= 1
        /\ \A u \in Thread, r \in TE!Record : Queued(u, r)' => sent'[r] = 0
        /\ \A u \in Thread : \A k, l \in DOMAIN todo'[u] :
              k # l => todo'[u][k] \cap todo'[u][l] = {}
    BY <1>1, <1>5, <2>1 DEF TeleInv, SentOnce
  <2> QED
    BY <2>2, <2>3 DEF SentOnce
<1> QED
  BY <1>3, <1>4, <1>6, <1>7, <1>8, <1>9 DEF TeleInv

LEMMA EmptyFileKeeps ==
    ASSUME TeleInv, NEW t \in Thread, TE!EmptyFile(t)
    PROVE  TeleInv'
<1>1. /\ pc[t] = "loaded" /\ pc' = [pc EXCEPT ![t] = "emptied"] /\ file' = None
      /\ UNCHANGED <<log, batch, last, todo, sent, given, cut, skipped, overlapped, faults>>
  BY DEF TE!EmptyFile
<1>2. /\ pc' \in [Thread -> TE!Step] /\ pc'[t] = "emptied"
      /\ \A u \in Thread \ {t} : pc'[u] = pc[u]
  BY <1>1 DEF TeleInv, TeleTypes, TE!Step
<1>3. TeleTypes'
  <2>1. \A u \in Thread : pc'[u] = "posting" <=> pc[u] = "posting"
    BY <1>1, <1>2
  <2> QED
    BY <1>1, <1>2, <2>1 DEF TeleInv, TeleTypes
<1>4. ASSUME NEW u \in Thread PROVE Read(u)'
  <2>1. Read(u)
    BY DEF TeleInv
  <2> QED
    BY <1>1, <1>2, <2>1 DEF Read
<1>5. /\ \A r : (Known(r)' <=> Known(r)) /\ (Out(r)' <=> Out(r))
      /\ \A u \in Thread, r \in TE!Record : Queued(u, r)' <=> Queued(u, r)
  BY <1>1, NothingPosted
<1>6. Passed'
  BY <1>1, <1>5 DEF TeleInv, Passed
<1>7. ASSUME ~overlapped' PROVE last[t] = file /\ \A u \in Thread \ {t} : pc[u] = "idle"
  BY <1>1, <1>7 DEF TeleInv, InTurns
<1>8. InTurns'
  <2> SUFFICES ASSUME ~overlapped' PROVE InTurns'
    BY DEF InTurns
  <2> QED
    BY <1>1, <1>2, <1>7 DEF InTurns
<1>9. Started'
  <2> SUFFICES ASSUME ~overlapped', Started, skipped # {},
                      faults["crash"] = 0, faults["unsaved"] = 0
               PROVE  \E u \in Thread : pc'[u] = "emptied" /\ last'[u] # None
    BY <1>1 DEF TeleInv, Started
  <2>1. file # None
    BY <1>1, <1>7 DEF Started
  <2> QED
    BY <1>1, <1>2, <1>7, <2>1
<1>10. SentOnce'
  <2> SUFFICES ASSUME Calm' PROVE SentOnce'
    BY DEF SentOnce
  <2>1. Calm /\ ~overlapped'
    BY <1>1 DEF Calm
  <2>2. ASSUME NEW r \in TE!Record, Out(r)' PROVE Behind(r)'
    <3>1. Behind(r)
      BY <1>5, <2>1, <2>2 DEF TeleInv, SentOnce
    <3> QED
      BY <1>1, <1>2, <1>7, <2>1, <3>1 DEF Behind
  <2>3. /\ \A r \in TE!Record : sent'[r] <= 1
        /\ \A u \in Thread, r \in TE!Record : Queued(u, r)' => sent'[r] = 0
        /\ \A u \in Thread : \A k, l \in DOMAIN todo'[u] :
              k # l => todo'[u][k] \cap todo'[u][l] = {}
    BY <1>1, <1>5, <2>1 DEF TeleInv, SentOnce
  <2> QED
    BY <2>2, <2>3 DEF SentOnce
<1> QED
  BY <1>3, <1>4, <1>6, <1>8, <1>9, <1>10 DEF TeleInv

LEMMA Within ==
    ASSUME NEW k \in Nat, NEW m \in 1..k, NEW n \in 1..k, m <= n
    PROVE  m..n \subseteq 1..k /\ n \in m..n /\ \A y \in m..n : n >= y
<1>1. m \in Int /\ n \in Int /\ 1 <= m /\ n \in 1..k
  OBVIOUS
<1>2. n \in m..n /\ \A y \in m..n : n >= y
  BY <1>1
<1> QED
  BY <1>1, <1>2

LEMMA CursorIs ==
    ASSUME TeleInv, NEW t \in Thread, pc[t] \in {"loaded", "emptied"}
    PROVE  \E m, n, c \in 1..log :
             /\ m <= n /\ batch[t] = m..n /\ TE!Min(batch[t]) = m
             /\ c = TE!Cursor(t) /\ n <= c
             /\ c = n \/ (last[t] # None /\ c = last[t])
<1>1. PICK m \in 1..log, n \in 1..log : m <= n /\ batch[t] = m..n
  BY DEF TeleInv, Read
<1>2. last[t] \in (1..log) \cup {None} /\ log \in Nat
  BY DEF TeleInv, TeleTypes
<1>3. TE!Min(m..n) = m
  <2>1. m \in m..n /\ \A y \in m..n : m <= y
    BY <1>1
  <2>2. \A x \in m..n : (\A y \in m..n : x <= y) => x = m
    BY <1>1, <2>1
  <2> QED
    BY <2>1, <2>2 DEF TE!Min
<1>4. ASSUME NEW S \in SUBSET (1..log), NEW x \in S, \A y \in S : x >= y
      PROVE  TE!Max(S) = x
  <2>1. \A z \in S : (\A y \in S : z >= y) => z = x
    BY <1>4
  <2> QED
    BY <1>4, <2>1 DEF TE!Max
<1>5. CASE last[t] = None
  <2>1. TE!Cursor(t) = TE!Max(m..n)
    <3>1. batch[t] \cup (IF last[t] = None THEN {} ELSE {last[t]}) = m..n
      BY <1>1, <1>5
    <3> QED
      BY <3>1 DEF TE!Cursor
  <2>2. m..n \in SUBSET (1..log) /\ n \in m..n /\ \A y \in m..n : n >= y
    BY <1>1, <1>2, Within
  <2> QED
    BY <1>1, <1>3, <1>4, <2>1, <2>2
<1>6. CASE last[t] # None
  <2>1. PICK l \in 1..log : l = last[t]
    BY <1>2, <1>6
  <2> DEFINE S == (m..n) \cup {l}
             c == IF l > n THEN l ELSE n
  <2>2. TE!Cursor(t) = TE!Max(S)
    <3>1. batch[t] \cup (IF last[t] = None THEN {} ELSE {last[t]}) = S
      BY <1>1, <1>6, <2>1
    <3> QED
      BY <3>1 DEF TE!Cursor
  <2>3. S \in SUBSET (1..log) /\ c \in S /\ \A y \in S : c >= y
    <3>1. (m..n) \subseteq 1..log /\ n \in m..n /\ \A y \in m..n : n >= y
      BY <1>1, <1>2, Within
    <3>2. \A y \in m..n : l > n => l >= y
      BY <1>1, <2>1, <3>1
    <3>3. l >= l /\ (~(l > n) => n >= l)
      BY <1>1, <2>1
    <3>4. S \in SUBSET (1..log) /\ c \in S
      BY <2>1, <3>1
    <3> QED
      BY <3>1, <3>2, <3>3, <3>4
  <2>4. TE!Max(S) = c
    <3> HIDE DEF S, c
    <3> QED
      BY <1>4, <2>3
  <2>5. c \in 1..log /\ n <= c /\ (c = n \/ c = l)
    BY <1>1, <2>1
  <2> QED
    BY <1>1, <1>3, <1>6, <2>1, <2>2, <2>4, <2>5
<1> QED
  BY <1>5, <1>6

Others(t) ==
    /\ pc' \in [Thread -> TE!Step] /\ DOMAIN todo' = Thread
    /\ \A u \in Thread \ {t} : pc'[u] = pc[u] /\ todo'[u] = todo[u]

\* A thread compares what it has read with the cursor it has.
LEMMA CompareIs ==
    ASSUME TeleInv, NEW t \in Thread, pc[t] \in {"loaded", "emptied"}, TE!Compare(t),
           UNCHANGED <<log, sent, given>>
    PROVE  \E c \in 1..log :
             /\ c = TE!Cursor(t) /\ \A b \in batch[t] : b \in 1..c
             /\ Others(t) /\ pc'[t] \in {"idle", "posting"}
             /\ todo'[t] \in Seq((SUBSET (1..log)) \ {{}})
             /\ pc'[t] = "posting" <=> todo'[t] # <<>>
             /\ cut' \subseteq 1..log /\ skipped' \subseteq 1..log
             /\ \A r : Known(r) => Known(r)'
             /\ \A r \in 1..c : Known(r)'
             /\ skipped' = skipped \/ last[t] = None
             /\ \A r \in TE!Record : Queued(t, r)' =>
                  last[t] # None /\ r > last[t] /\ r \in batch[t]
             /\ \A k, l \in DOMAIN todo'[t] : k # l => todo'[t][k] \cap todo'[t][l] = {}
<1>1. PICK m \in 1..log, n \in 1..log, c \in 1..log :
        /\ m <= n /\ batch[t] = m..n /\ TE!Min(batch[t]) = m
        /\ c = TE!Cursor(t) /\ n <= c
        /\ c = n \/ (last[t] # None /\ c = last[t])
  BY CursorIs
<1>2. /\ cut' = cut \cup {r \in TE!Record : r < m /\ (last[t] = None \/ r > last[t])}
      /\ last[t] = None => skipped' = skipped \cup batch[t] /\ todo' = todo
                           /\ pc' = [pc EXCEPT ![t] = "idle"]
      /\ last[t] # None => /\ todo' = [todo EXCEPT ![t] = TE!Events(TE!Fresh(t))]
                           /\ pc' = [pc EXCEPT ![t] = IF TE!Fresh(t) = {} THEN "idle" ELSE "posting"]
                           /\ skipped' = skipped
  BY <1>1 DEF TE!Compare
<1>3. /\ log \in Nat /\ 1..log \subseteq TE!Record
      /\ DOMAIN todo = Thread /\ todo[t] = <<>> /\ cut \subseteq 1..log /\ skipped \subseteq 1..log
      /\ pc \in [Thread -> TE!Step] /\ last[t] \in (1..log) \cup {None}
  <2>1. log \in Nat /\ log <= MaxRecord /\ MaxRecord \in Nat
    BY TelemetryAssumption DEF TeleInv, TeleTypes
  <2>2. 1..log \subseteq TE!Record
    BY <2>1 DEF TE!Record
  <2> QED
    BY <2>1, <2>2 DEF TeleInv, TeleTypes
<1>4. cut' \subseteq 1..log
  <2>1. \A r \in TE!Record : r < m => r \in 1..log
    BY <1>1, <1>3 DEF TE!Record
  <2> QED
    BY <1>2, <1>3, <2>1
<1>5. \A b \in batch[t] : b \in 1..c /\ b \in 1..log
  <2>1. m..n \subseteq 1..log /\ \A y \in m..n : n >= y
    BY <1>1, <1>3, Within
  <2>2. \A b \in m..n : b \in 1..c
    BY <1>1, <2>1
  <2> QED
    BY <1>1, <2>1, <2>2
<1>6. ASSUME NEW r \in 1..c, r < m, last[t] = None \/ r > last[t] PROVE Known(r)'
  <2>1. r \in cut'
    BY <1>1, <1>2, <1>3, <1>6
  <2> QED
    BY <2>1 DEF Known
<1>7. ASSUME NEW r \in 1..c, last[t] # None, ~(r > last[t]) PROVE Known(r)
  <2>1. r \in 1..last[t]
    BY <1>1, <1>3, <1>7
  <2> QED
    BY <1>7, <2>1 DEF TeleInv, Passed
<1>8. CASE last[t] = None
  <2>1. Others(t) /\ pc'[t] = "idle" /\ todo'[t] = <<>> /\ skipped' \subseteq 1..log
    BY <1>2, <1>3, <1>5, <1>8 DEF Others, TE!Step
  <2>2. ASSUME NEW r, Known(r) PROVE Known(r)'
    BY <1>2, <1>8, <2>2 DEF Known, Queued
  <2>3. ASSUME NEW r \in 1..c PROVE Known(r)'
    <3>1. r >= m => r \in batch[t]
      BY <1>1, <1>8
    <3>2. r \in batch[t] => Known(r)'
      BY <1>2, <1>8 DEF Known
    <3>3. r < m \/ r >= m
      BY <1>1
    <3> QED
      BY <1>6, <1>8, <3>1, <3>2, <3>3
  <2>4. \A r : ~Queued(t, r)'
    BY <2>1 DEF Queued
  <2> QED
    BY <1>1, <1>4, <1>5, <1>8, <2>1, <2>2, <2>3, <2>4
<1>9. CASE last[t] # None
  <2> DEFINE rs == TE!Fresh(t)
             q == TE!Events(rs)
  <2>1. rs \in SUBSET (1..log)
    BY <1>5 DEF TE!Fresh
  <2>2. /\ q \in Seq((SUBSET (1..log)) \ {{}})
        /\ q = <<>> <=> rs = {}
        /\ \A r : r \in rs <=> \E k \in DOMAIN q : r \in q[k]
        /\ \A k, l \in DOMAIN q : k # l => q[k] \cap q[l] = {}
    BY <1>3, <2>1, EventsAre
  <2>3. /\ todo' = [todo EXCEPT ![t] = q]
        /\ pc' = [pc EXCEPT ![t] = IF rs = {} THEN "idle" ELSE "posting"] /\ skipped' = skipped
    BY <1>2, <1>9
  <2>4. \A r : r \in rs <=> r \in batch[t] /\ r > last[t]
    BY DEF TE!Fresh
  <2> HIDE DEF rs, q
  <2>5. /\ Others(t) /\ todo'[t] = q /\ pc'[t] \in {"idle", "posting"}
        /\ pc'[t] = "posting" <=> q # <<>>
    BY <1>3, <2>2, <2>3 DEF Others, TE!Step
  <2>6. \A r : Queued(t, r)' <=> r \in rs
    BY <2>2, <2>5 DEF Queued
  <2>7. ASSUME NEW r, Known(r) PROVE Known(r)'
    <3>1. ASSUME NEW u \in Thread, Queued(u, r) PROVE Queued(u, r)'
      BY <1>3, <2>5, <3>1 DEF Queued, Others
    <3> QED
      BY <1>2, <2>3, <2>7, <3>1 DEF Known
  <2>8. ASSUME NEW r \in 1..c PROVE Known(r)'
    <3>1. r >= m /\ r > last[t] => r \in rs
      BY <1>1, <1>3, <1>9, <2>4
    <3>2. r \in rs => Known(r)'
      BY <2>6 DEF Known
    <3>3. r < m \/ r >= m
      BY <1>1
    <3> QED
      BY <1>6, <1>7, <1>9, <2>7, <3>1, <3>2, <3>3
  <2> QED
    BY <1>1, <1>3, <1>4, <1>5, <1>9, <2>2, <2>3, <2>4, <2>5, <2>6, <2>7, <2>8
<1> QED
  BY <1>8, <1>9

\* Whatever became of the file, the thread has compared and has forgotten what
\* it read.
LEMMA ComparedKeeps ==
    ASSUME TeleInv, NEW t \in Thread, pc[t] \in {"loaded", "emptied"}, TE!Compare(t),
           UNCHANGED <<log, sent, given, overlapped>>,
           batch' = [batch EXCEPT ![t] = {}], last' = [last EXCEPT ![t] = None],
           faults' \in [TE!Fault -> Nat],
           faults'["crash"] + faults'["unsaved"] + faults'["repeat"] + faults'["refused"] <= MaxFaults,
           file' \in {file, TE!Cursor(t)}
    PROVE  TeleTypes' /\ Passed' /\ InTurns' /\ \A u \in Thread : Read(u)'
<1>1. PICK c \in 1..log :
             /\ c = TE!Cursor(t)
             /\ Others(t) /\ pc'[t] \in {"idle", "posting"}
             /\ todo'[t] \in Seq((SUBSET (1..log)) \ {{}})
             /\ pc'[t] = "posting" <=> todo'[t] # <<>>
             /\ cut' \subseteq 1..log /\ skipped' \subseteq 1..log
             /\ \A r : Known(r) => Known(r)'
             /\ \A r \in 1..c : Known(r)'
  BY CompareIs
<1>2. /\ DOMAIN batch' = Thread /\ batch'[t] = {} /\ \A u \in Thread \ {t} : batch'[u] = batch[u]
      /\ last' \in [Thread -> (1..log) \cup {None}]
      /\ last'[t] = None /\ \A u \in Thread \ {t} : last'[u] = last[u]
  BY DEF TeleInv, TeleTypes
<1>3. file' \in (1..log) \cup {None}
  BY <1>1 DEF TeleInv, TeleTypes
<1>4. TeleTypes'
  BY <1>1, <1>2, <1>3 DEF TeleInv, TeleTypes, Others
<1>5. ASSUME NEW u \in Thread PROVE Read(u)'
  <2>1. Read(u)
    BY DEF TeleInv
  <2> QED
    BY <1>1, <1>2, <2>1 DEF Read, Others
<1>6. Passed'
  BY <1>1, <1>2 DEF TeleInv, Passed
<1>7. InTurns'
  <2> SUFFICES ASSUME ~overlapped' PROVE InTurns'
    BY DEF InTurns
  <2>1. \A u \in Thread \ {t} : pc'[u] = "idle"
    BY <1>1 DEF TeleInv, InTurns, Others
  <2> QED
    BY <1>1, <2>1 DEF InTurns
<1> QED
  BY <1>4, <1>5, <1>6, <1>7

LEMMA WriteCursorKeeps ==
    ASSUME TeleInv, NEW t \in Thread, TE!WriteCursor(t)
    PROVE  TeleInv'
<1>1. /\ pc[t] = "emptied" /\ file' = TE!Cursor(t) /\ TE!Compare(t)
      /\ batch' = [batch EXCEPT ![t] = {}] /\ last' = [last EXCEPT ![t] = None]
      /\ UNCHANGED <<log, sent, given, overlapped, faults>>
  BY DEF TE!WriteCursor
<1>2. TeleTypes' /\ Passed' /\ InTurns' /\ \A u \in Thread : Read(u)'
  <2>1. /\ faults' \in [TE!Fault -> Nat]
        /\ faults'["crash"] + faults'["unsaved"] + faults'["repeat"] + faults'["refused"] <= MaxFaults
    BY <1>1 DEF TeleInv, TeleTypes
  <2> QED
    BY <1>1, <2>1, ComparedKeeps
<1>3. PICK c \in 1..log :
             /\ c = file' /\ \A b \in batch[t] : b \in 1..c
             /\ Others(t) /\ pc'[t] \in {"idle", "posting"}
             /\ \A r \in TE!Record : Queued(t, r)' =>
                  last[t] # None /\ r > last[t] /\ r \in batch[t]
             /\ \A k, l \in DOMAIN todo'[t] : k # l => todo'[t][k] \cap todo'[t][l] = {}
  BY <1>1, CompareIs
<1>4. Started'
  <2>1. file' # None
    BY <1>3, TelemetryAssumption DEF TeleInv, TeleTypes
  <2> QED
    BY <2>1 DEF Started
<1>5. SentOnce'
  <2> SUFFICES ASSUME Calm' PROVE SentOnce'
    BY DEF SentOnce
  <2>1. Calm /\ ~overlapped
    BY <1>1 DEF Calm
  <2>2. \A u \in Thread \ {t} : pc[u] = "idle" /\ pc'[u] = "idle" /\ todo'[u] = todo[u]
    BY <1>1, <1>3, <2>1 DEF TeleInv, InTurns, Others
  <2>3. \A u \in Thread, r \in TE!Record : ~Queued(u, r)
    BY <1>1, <2>2, QueuedIs DEF TeleInv
  <2>4. ASSUME NEW u \in Thread, NEW r \in TE!Record, Queued(u, r)' PROVE u = t
    BY <2>2, <2>3, <2>4 DEF Queued
  <2>5. ASSUME NEW r \in TE!Record, sent[r] > 0
        PROVE  r \in 1..c /\ (last[t] # None => r <= last[t])
    <3>1. Behind(r)
      BY <2>1, <2>5 DEF TeleInv, SentOnce, Out
    <3>2. PICK b \in batch[t] : r <= b
      BY <1>1, <3>1 DEF Behind
    <3>3. b \in 1..c /\ r \in Nat \ {0}
      BY <1>3 DEF TE!Record
    <3>4. r \in 1..c
      BY <1>3, <3>2, <3>3
    <3> QED
      BY <1>1, <3>1, <3>4 DEF Behind
  <2>6. ASSUME NEW r \in TE!Record, Queued(t, r)' PROVE r \in 1..c /\ sent[r] = 0
    <3>1. r \in 1..c /\ last[t] # None /\ r > last[t]
      BY <1>3, <2>6
    <3>2. ~(r <= last[t])
      BY <3>1 DEF TeleInv, TeleTypes
    <3>3. sent[r] \in 0..2
      BY DEF TeleInv, TeleTypes
    <3> QED
      BY <2>5, <3>1, <3>2, <3>3
  <2>7. ASSUME NEW r \in TE!Record, Out(r)' PROVE Behind(r)'
    <3>1. r \in 1..c
      BY <1>1, <2>4, <2>5, <2>6, <2>7 DEF Out
    <3>2. r <= file'
      BY <1>3, <3>1
    <3> QED
      BY <1>3, <2>2, <3>2 DEF Behind
  <2>8. \A r \in TE!Record : sent'[r] <= 1
    BY <1>1, <2>1 DEF TeleInv, SentOnce
  <2>9. ASSUME NEW u \in Thread, NEW r \in TE!Record, Queued(u, r)' PROVE sent'[r] = 0
    BY <1>1, <2>4, <2>6, <2>9
  <2>10. ASSUME NEW u \in Thread
         PROVE  \A k, l \in DOMAIN todo'[u] : k # l => todo'[u][k] \cap todo'[u][l] = {}
    BY <1>3, <2>1, <2>2 DEF TeleInv, SentOnce
  <2> QED
    BY <2>7, <2>8, <2>9, <2>10 DEF SentOnce
<1> QED
  BY <1>2, <1>4, <1>5 DEF TeleInv

\* One more fault of a kind.
LEMMA FaultyIs ==
    ASSUME TeleTypes, NEW f \in TE!Fault, TE!Faulty(f)
    PROVE  /\ faults' \in [TE!Fault -> Nat] /\ faults'[f] > 0
           /\ faults'["crash"] + faults'["unsaved"] + faults'["repeat"] + faults'["refused"] <= MaxFaults
           /\ \A g \in TE!Fault : faults'[g] = 0 => faults[g] = 0
<1>1. /\ faults \in [TE!Fault -> Nat] /\ faults' = [faults EXCEPT ![f] = @ + 1]
      /\ faults["crash"] + faults["unsaved"] + faults["repeat"] + faults["refused"] < MaxFaults
  BY DEF TeleTypes, TE!Faulty
<1>2. /\ faults' \in [TE!Fault -> Nat] /\ faults'[f] = faults[f] + 1
      /\ \A g \in TE!Fault \ {f} : faults'[g] = faults[g]
  BY <1>1
<1>3. PICK a \in Nat, b \in Nat, c \in Nat, d \in Nat :
        a = faults["crash"] /\ b = faults["unsaved"] /\ c = faults["repeat"] /\ d = faults["refused"]
  BY <1>1 DEF TE!Fault
<1>4. a + b + c + d + 1 <= MaxFaults
  BY <1>1, <1>3, TelemetryAssumption
<1>5. \/ faults'["crash"] = a + 1 /\ faults'["unsaved"] = b /\ faults'["repeat"] = c /\ faults'["refused"] = d
      \/ faults'["crash"] = a /\ faults'["unsaved"] = b + 1 /\ faults'["repeat"] = c /\ faults'["refused"] = d
      \/ faults'["crash"] = a /\ faults'["unsaved"] = b /\ faults'["repeat"] = c + 1 /\ faults'["refused"] = d
      \/ faults'["crash"] = a /\ faults'["unsaved"] = b /\ faults'["repeat"] = c /\ faults'["refused"] = d + 1
  BY <1>2, <1>3 DEF TE!Fault
<1>6. faults'["crash"] + faults'["unsaved"] + faults'["repeat"] + faults'["refused"] <= MaxFaults
  BY <1>4, <1>5, TelemetryAssumption
<1>7. faults[f] \in Nat
  BY <1>1
<1>8. faults'[f] > 0
  BY <1>2, <1>7
<1>9. \A g \in TE!Fault : faults'[g] = 0 => faults[g] = 0
  BY <1>2, <1>8
<1> QED
  BY <1>2, <1>6, <1>8, <1>9

LEMMA UnsavedKeeps ==
    ASSUME TeleInv, NEW t \in Thread, TE!Unsaved(t)
    PROVE  TeleInv'
<1>1. /\ pc[t] = "loaded" /\ TE!Faulty("unsaved") /\ TE!Compare(t)
      /\ batch' = [batch EXCEPT ![t] = {}] /\ last' = [last EXCEPT ![t] = None]
      /\ UNCHANGED <<log, file, sent, given, overlapped>>
  BY DEF TE!Unsaved
<1>2. /\ faults' \in [TE!Fault -> Nat] /\ faults'["unsaved"] > 0
      /\ faults'["crash"] + faults'["unsaved"] + faults'["repeat"] + faults'["refused"] <= MaxFaults
  BY <1>1, FaultyIs DEF TeleInv, TE!Fault
<1>3. TeleTypes' /\ Passed' /\ InTurns' /\ \A u \in Thread : Read(u)'
  BY <1>1, <1>2, ComparedKeeps
<1>4. SentOnce' /\ Started'
  BY <1>2 DEF SentOnce, Started, Calm
<1> QED
  BY <1>3, <1>4 DEF TeleInv

\* The first event is gone, one way or another.
LEMMA PostedIs ==
    ASSUME TeleInv, NEW t \in Thread, pc[t] = "posting", TE!Posted(t)
    PROVE  \E e \in SUBSET (1..log) :
             /\ e = Head(todo[t]) /\ Others(t) /\ pc'[t] \in {"idle", "posting"}
             /\ \A r \in e : Queued(t, r)
             /\ \A r : Queued(t, r) => r \in e \/ Queued(t, r)'
             /\ \A r : Queued(t, r)' => Queued(t, r)
             /\ \A u \in Thread \ {t}, r \in TE!Record : Queued(u, r)' <=> Queued(u, r)
             /\ todo'[t] \in Seq((SUBSET (1..log)) \ {{}})
             /\ pc'[t] = "posting" <=> todo'[t] # <<>>
             /\ (\A k, l \in DOMAIN todo[t] : k # l => todo[t][k] \cap todo[t][l] = {}) =>
                  /\ \A r : Queued(t, r)' => r \notin e
                  /\ \A k, l \in DOMAIN todo'[t] : k # l => todo'[t][k] \cap todo'[t][l] = {}
<1> DEFINE q == todo[t]
           N == Len(q)
           A == (SUBSET (1..log)) \ {{}}
<1>1. /\ q \in Seq(A) /\ DOMAIN q = 1..N /\ N \in Nat /\ q # <<>>
      /\ todo' = [todo EXCEPT ![t] = Tail(q)]
      /\ pc' = [pc EXCEPT ![t] = IF N = 1 THEN "idle" ELSE pc[t]]
  BY QueuedIs DEF TeleInv, TeleTypes, TE!Posted
<1>2. /\ Tail(q) \in Seq(A) /\ Len(Tail(q)) = N - 1 /\ DOMAIN Tail(q) = 1..(N - 1)
      /\ \A k \in 1..(N - 1) : Tail(q)[k] = q[k + 1]
      /\ Head(q) = q[1] /\ N >= 1
  <2> HIDE DEF A
  <2> HIDE DEF q
  <2>1. Tail(q) \in Seq(A) /\ Len(Tail(q)) = N - 1 /\ \A k \in 1..(N - 1) : Tail(q)[k] = q[k + 1]
    BY <1>1, HeadTailProperties
  <2>2. N >= 1 /\ Head(q) = q[1]
    BY <1>1, EmptySeq
  <2>3. DOMAIN Tail(q) = 1..(N - 1)
    BY <2>1, LenProperties
  <2> QED
    BY <2>1, <2>2, <2>3
<1>3. PICK p \in Seq(A) : p = Tail(q)
  BY <1>2
<1>4. p = <<>> <=> N = 1
  <2>1. Len(p) = N - 1
    BY <1>2, <1>3
  <2>2. p = <<>> <=> Len(p) = 0
    BY EmptySeq
  <2> QED
    BY <1>1, <2>1, <2>2
<1>5. /\ todo'[t] = p /\ DOMAIN todo' = Thread /\ \A u \in Thread \ {t} : todo'[u] = todo[u]
      /\ pc' \in [Thread -> TE!Step] /\ pc'[t] = (IF N = 1 THEN "idle" ELSE "posting")
      /\ \A u \in Thread \ {t} : pc'[u] = pc[u]
  BY <1>1, <1>3 DEF TeleInv, TeleTypes, TE!Step
<1>6. q[1] \in SUBSET (1..log)
  BY <1>1, <1>2, QueuedIs DEF TeleInv
<1>7. DOMAIN p = 1..(N - 1) /\ \A k \in 1..(N - 1) : p[k] = q[k + 1] /\ k + 1 \in 1..N /\ k + 1 # 1
  BY <1>1, <1>2, <1>3
<1>8. \A k \in 1..N : k = 1 \/ (k - 1 \in 1..(N - 1) /\ (k - 1) + 1 = k)
  BY <1>1
<1>9. 1 \in 1..N
  BY <1>1, <1>2
<1> HIDE DEF N, A
<1>10. /\ \A r \in q[1] : Queued(t, r)
       /\ \A r : Queued(t, r)' => Queued(t, r)
  BY <1>1, <1>5, <1>7, <1>9 DEF Queued
<1>11. ASSUME NEW r, Queued(t, r) PROVE r \in q[1] \/ Queued(t, r)'
  <2>1. PICK k \in 1..N : r \in q[k]
    BY <1>1, <1>11 DEF Queued
  <2>2. CASE k = 1
    BY <2>1, <2>2
  <2>3. CASE k - 1 \in 1..(N - 1) /\ (k - 1) + 1 = k
    BY <1>5, <1>7, <2>1, <2>3 DEF Queued
  <2> QED
    BY <1>8, <2>2, <2>3
<1>12. ASSUME \A k, l \in DOMAIN q : k # l => q[k] \cap q[l] = {}
       PROVE  /\ \A r : Queued(t, r)' => r \notin q[1]
              /\ \A k, l \in DOMAIN p : k # l => p[k] \cap p[l] = {}
  <2>1. \A k \in 1..(N - 1) : p[k] \cap q[1] = {}
    BY <1>1, <1>7, <1>9, <1>12
  <2>2. ASSUME NEW k \in 1..(N - 1), NEW l \in 1..(N - 1), k # l PROVE p[k] \cap p[l] = {}
    <3>1. k + 1 # l + 1
      BY <2>2
    <3> QED
      BY <1>1, <1>7, <1>12, <3>1
  <2> QED
    BY <1>5, <1>7, <2>1, <2>2 DEF Queued
<1>13. \A u \in Thread \ {t}, r \in TE!Record : Queued(u, r)' <=> Queued(u, r)
  BY <1>5 DEF Queued
<1>14. Others(t) /\ pc'[t] \in {"idle", "posting"} /\ (pc'[t] = "posting" <=> p # <<>>)
  BY <1>4, <1>5 DEF Others
<1> HIDE DEF q
<1>15. todo'[t] \in Seq((SUBSET (1..log)) \ {{}})
  BY <1>5 DEF A
<1> QED
  BY <1>2, <1>5, <1>6, <1>10, <1>11, <1>12, <1>13, <1>14, <1>15 DEF q

\* What became of the event: it was received, once or twice, or given up.
LEMMA PostKeeps ==
    ASSUME TeleInv, NEW t \in Thread, NEW n \in {0, 1, 2}, pc[t] = "posting", TE!Posted(t),
           IF n = 0 THEN given' = given \cup Head(todo[t]) /\ sent' = sent
                    ELSE sent' = TE!Received(Head(todo[t]), n) /\ given' = given,
           faults' \in [TE!Fault -> Nat],
           faults'["crash"] + faults'["unsaved"] + faults'["repeat"] + faults'["refused"] <= MaxFaults,
           \A g \in TE!Fault : faults'[g] = 0 => faults[g] = 0,
           n = 2 => faults'["repeat"] > 0
    PROVE  TeleInv'
<1>1. PICK e \in SUBSET (1..log) :
             /\ e = Head(todo[t]) /\ Others(t) /\ pc'[t] \in {"idle", "posting"}
             /\ \A r \in e : Queued(t, r)
             /\ \A r : Queued(t, r) => r \in e \/ Queued(t, r)'
             /\ \A r : Queued(t, r)' => Queued(t, r)
             /\ \A u \in Thread \ {t}, r \in TE!Record : Queued(u, r)' <=> Queued(u, r)
             /\ todo'[t] \in Seq((SUBSET (1..log)) \ {{}})
             /\ pc'[t] = "posting" <=> todo'[t] # <<>>
             /\ (\A k, l \in DOMAIN todo[t] : k # l => todo[t][k] \cap todo[t][l] = {}) =>
                  /\ \A r : Queued(t, r)' => r \notin e
                  /\ \A k, l \in DOMAIN todo'[t] : k # l => todo'[t][k] \cap todo'[t][l] = {}
  BY PostedIs
<1>2. UNCHANGED <<log, file, batch, last, cut, skipped, overlapped>>
  BY DEF TE!Posted
<1>3. ASSUME NEW a \in 0..2, NEW i \in {1, 2}
      PROVE  TE!Min({2, a + i}) = IF a = 0 /\ i = 1 THEN 1 ELSE 2
  <2> DEFINE k == IF a = 0 /\ i = 1 THEN 1 ELSE 2
  <2>1. k \in {2, a + i} /\ \A y \in {2, a + i} : k <= y
    OBVIOUS
  <2>2. \A x \in {2, a + i} : (\A y \in {2, a + i} : x <= y) => x = k
    BY <2>1
  <2> HIDE DEF k
  <2>3. TE!Min({2, a + i}) = k
    BY <2>1, <2>2 DEF TE!Min
  <2> QED
    BY <2>3 DEF k
<1>4. /\ sent' \in [TE!Record -> 0..2]
      /\ \A r \in TE!Record : sent[r] > 0 => sent'[r] > 0
      /\ \A r \in TE!Record : r \notin e => sent'[r] = sent[r]
      /\ n # 0 => \A r \in TE!Record : r \in e => sent'[r] > 0
      /\ n < 2 => \A r \in TE!Record : r \in e /\ sent[r] = 0 => sent'[r] <= 1
  <2>1. sent \in [TE!Record -> 0..2]
    BY DEF TeleInv, TeleTypes
  <2>2. CASE n = 0
    BY <2>1, <2>2
  <2>3. CASE n \in {1, 2}
    <3>1. sent' = [r \in TE!Record |-> IF r \in e THEN TE!Min({2, sent[r] + n}) ELSE sent[r]]
      <4>1. n # 0 /\ sent' = TE!Received(e, n)
        BY <1>1, <2>3
      <4> QED
        BY <4>1 DEF TE!Received
    <3>2. \A r \in TE!Record : r \in e => sent'[r] = IF sent[r] = 0 /\ n = 1 THEN 1 ELSE 2
      BY <1>3, <2>1, <2>3, <3>1
    <3>3. \A r \in TE!Record : r \notin e => sent'[r] = sent[r]
      BY <3>1
    <3> QED
      BY <2>1, <2>3, <3>1, <3>2, <3>3
  <2> QED
    BY <2>2, <2>3
<1>5. given' \subseteq 1..log /\ given \subseteq given' /\ (n = 0 => e \subseteq given')
  BY <1>1 DEF TeleInv, TeleTypes
<1>6. ASSUME NEW r \in TE!Record PROVE (Out(r)' => Out(r)) /\ (Known(r) => Known(r)')
  <2>1. \A u \in Thread : Queued(u, r)' => Queued(u, r)
    BY <1>1
  <2>2. \A u \in Thread : Queued(u, r) => Queued(u, r)' \/ (u = t /\ r \in e)
    BY <1>1
  <2>3. r \in e => sent'[r] > 0 \/ r \in given'
    BY <1>4, <1>5
  <2>4. Out(r)' => Out(r)
    BY <1>1, <1>4, <2>1 DEF Out
  <2> QED
    BY <1>2, <1>4, <1>5, <2>2, <2>3, <2>4 DEF Known
<1>7. \A k \in 1..log : 1..k \subseteq TE!Record
  BY TelemetryAssumption DEF TeleInv, TeleTypes, TE!Record
<1>8. TeleTypes'
  <2>1. \A r \in TE!Record : sent'[r] > 0 => r <= log
    <3>1. ASSUME NEW r \in TE!Record, sent'[r] > 0, r \notin e PROVE r <= log
      BY <1>4, <3>1 DEF TeleInv, TeleTypes
    <3> QED
      BY <1>1, <3>1
  <2> QED
    BY <1>1, <1>2, <1>4, <1>5, <2>1 DEF TeleInv, TeleTypes, Others
<1>9. Passed'
  <2>1. file \in (1..log) \cup {None} /\ \A u \in Thread : last[u] \in (1..log) \cup {None}
    BY DEF TeleInv, TeleTypes
  <2>2. ASSUME NEW k \in 1..log, \A r \in 1..k : Known(r) PROVE \A r \in 1..k : Known(r)'
    BY <1>6, <1>7, <2>2
  <2> QED
    BY <1>2, <2>1, <2>2 DEF TeleInv, Passed
<1>10. ASSUME NEW u \in Thread PROVE Read(u)'
  <2>1. Read(u)
    BY DEF TeleInv
  <2> QED
    BY <1>1, <1>2, <2>1 DEF Read, Others
<1>11. InTurns'
  BY <1>1, <1>2 DEF TeleInv, InTurns, Others
<1>12. Started'
  <2> SUFFICES ASSUME ~overlapped', skipped' # {}, faults'["crash"] = 0, faults'["unsaved"] = 0
               PROVE  file' # None \/ \E u \in Thread : pc'[u] = "emptied" /\ last'[u] # None
    BY DEF Started
  <2>1. file # None \/ \E u \in Thread : pc[u] = "emptied" /\ last[u] # None
    BY <1>2 DEF TeleInv, Started, TE!Fault
  <2> QED
    BY <1>1, <1>2, <2>1 DEF Others
<1>13. SentOnce'
  <2> SUFFICES ASSUME Calm' PROVE SentOnce'
    BY DEF SentOnce
  <2>1. Calm /\ n < 2
    BY <1>2 DEF Calm, TE!Fault
  <2>2. \A u \in Thread \ {t} : pc[u] = "idle" /\ todo'[u] = todo[u]
    BY <1>1, <1>2, <2>1 DEF TeleInv, InTurns, Others, Calm
  <2>3. ASSUME NEW r \in TE!Record, Out(r)' PROVE Behind(r)'
    <3>1. Behind(r)
      BY <1>6, <2>1, <2>3 DEF TeleInv, SentOnce
    <3> QED
      BY <1>1, <1>2, <3>1 DEF Behind, Others
  <2>4. ASSUME NEW r \in TE!Record PROVE sent'[r] <= 1
    BY <1>1, <1>4, <2>1 DEF TeleInv, SentOnce
  <2>5. \A k, l \in DOMAIN todo[t] : k # l => todo[t][k] \cap todo[t][l] = {}
    BY <2>1 DEF TeleInv, SentOnce
  <2>6. ASSUME NEW u \in Thread, NEW r \in TE!Record, Queued(u, r)' PROVE sent'[r] = 0
    <3>1. u = t
      BY <1>1, <2>2, <2>6, QueuedIs DEF TeleInv
    <3>2. r \notin e /\ Queued(t, r)
      BY <1>1, <2>5, <2>6, <3>1
    <3> QED
      BY <1>4, <2>1, <3>2 DEF TeleInv, SentOnce
  <2>7. ASSUME NEW u \in Thread
        PROVE  \A k, l \in DOMAIN todo'[u] : k # l => todo'[u][k] \cap todo'[u][l] = {}
    BY <1>1, <2>1, <2>2, <2>5 DEF TeleInv, SentOnce
  <2> QED
    BY <2>3, <2>4, <2>6, <2>7 DEF SentOnce
<1> QED
  BY <1>8, <1>9, <1>10, <1>11, <1>12, <1>13 DEF TeleInv

LEMMA PostsKeep ==
    ASSUME TeleInv, NEW t \in Thread, TE!Post(t) \/ TE!PostRepeated(t) \/ TE!PostFails(t)
    PROVE  TeleInv'
<1>1. pc[t] = "posting" /\ TE!Posted(t)
  BY DEF TE!Post, TE!PostRepeated, TE!PostFails
<1>2. CASE TE!Post(t)
  <2>1. /\ faults' \in [TE!Fault -> Nat] /\ faults' = faults
        /\ faults'["crash"] + faults'["unsaved"] + faults'["repeat"] + faults'["refused"] <= MaxFaults
    BY <1>2 DEF TeleInv, TeleTypes, TE!Post
  <2>2. sent' = TE!Received(Head(todo[t]), 1) /\ given' = given
    BY <1>2 DEF TE!Post
  <2> DEFINE n == 1
  <2>3. /\ n \in {0, 1, 2} /\ n # 0 /\ n # 2 /\ sent' = TE!Received(Head(todo[t]), n)
    BY <2>2
  <2> HIDE DEF n
  <2> QED
    BY <1>1, <2>1, <2>2, <2>3, PostKeeps
<1>3. CASE TE!PostRepeated(t)
  <2>1. /\ faults' \in [TE!Fault -> Nat] /\ faults'["repeat"] > 0
        /\ faults'["crash"] + faults'["unsaved"] + faults'["repeat"] + faults'["refused"] <= MaxFaults
        /\ \A g \in TE!Fault : faults'[g] = 0 => faults[g] = 0
    BY <1>3, FaultyIs DEF TeleInv, TE!PostRepeated, TE!Fault
  <2>2. sent' = TE!Received(Head(todo[t]), 2) /\ given' = given
    BY <1>3 DEF TE!PostRepeated
  <2> DEFINE n == 2
  <2>3. n \in {0, 1, 2} /\ n # 0 /\ sent' = TE!Received(Head(todo[t]), n)
    BY <2>2
  <2> HIDE DEF n
  <2> QED
    BY <1>1, <2>1, <2>2, <2>3, PostKeeps
<1>4. CASE TE!PostFails(t)
  <2>1. /\ faults' \in [TE!Fault -> Nat]
        /\ faults'["crash"] + faults'["unsaved"] + faults'["repeat"] + faults'["refused"] <= MaxFaults
        /\ \A g \in TE!Fault : faults'[g] = 0 => faults[g] = 0
    BY <1>4, FaultyIs DEF TeleInv, TE!PostFails, TE!Fault
  <2>2. sent' = sent /\ given' = given \cup Head(todo[t])
    BY <1>4 DEF TE!PostFails
  <2> DEFINE n == 0
  <2>3. n \in {0, 1, 2} /\ n = 0 /\ n # 2
    OBVIOUS
  <2> HIDE DEF n
  <2> QED
    BY <1>1, <2>1, <2>2, <2>3, PostKeeps
<1> QED
  BY <1>2, <1>3, <1>4

LEMMA DaemonRestarts == TeleInv /\ TE!Restart => TeleInv'
<1> SUFFICES ASSUME TeleInv, TE!Restart PROVE TeleInv'
  OBVIOUS
<1>1. /\ TE!Faulty("crash")
      /\ given' = given \cup UNION {UNION TE!Range(todo[t]) : t \in Thread}
      /\ pc' = [t \in Thread |-> "idle"] /\ batch' = [t \in Thread |-> {}]
      /\ last' = [t \in Thread |-> None] /\ todo' = [t \in Thread |-> <<>>]
      /\ UNCHANGED <<log, file, sent, cut, skipped, overlapped>>
  BY DEF TE!Restart
<1>2. /\ faults' \in [TE!Fault -> Nat] /\ faults'["crash"] > 0
      /\ faults'["crash"] + faults'["unsaved"] + faults'["repeat"] + faults'["refused"] <= MaxFaults
      /\ \A g \in TE!Fault : faults'[g] = 0 => faults[g] = 0
  BY <1>1, FaultyIs DEF TeleInv, TE!Fault
<1>3. \A r : r \in given' <=> r \in given \/ \E t \in Thread : Queued(t, r)
  BY <1>1 DEF Queued, TE!Range
<1>4. given' \subseteq 1..log
  BY <1>3, QueuedIs DEF TeleInv, TeleTypes
<1>5. TeleTypes'
  <2>1. \A t \in Thread : /\ todo'[t] \in Seq((SUBSET (1..log)) \ {{}})
                          /\ pc'[t] = "posting" <=> todo'[t] # <<>>
    BY <1>1
  <2>2. pc' \in [Thread -> TE!Step] /\ last' \in [Thread -> (1..log) \cup {None}]
    BY <1>1 DEF TE!Step
  <2> QED
    BY <1>1, <1>2, <1>4, <2>1, <2>2 DEF TeleInv, TeleTypes
<1>6. \A t \in Thread : Read(t)' /\ last'[t] = None /\ pc'[t] = "idle" /\ DOMAIN todo'[t] = {}
  BY <1>1 DEF Read
<1>7. \A r : Known(r) => Known(r)'
  BY <1>1, <1>3 DEF Known
<1>8. Passed'
  BY <1>1, <1>6, <1>7 DEF TeleInv, Passed
<1>9. InTurns' /\ Started'
  BY <1>2, <1>6 DEF InTurns, Started
<1>10. SentOnce'
  <2> SUFFICES ASSUME Calm' PROVE SentOnce'
    BY DEF SentOnce
  <2>1. Calm
    BY <1>1, <1>2 DEF Calm, TE!Fault
  <2>2. \A r \in TE!Record : sent'[r] <= 1
    BY <1>1, <2>1 DEF TeleInv, SentOnce
  <2>3. \A t \in Thread : \A r : ~Queued(t, r)'
    BY <1>6 DEF Queued
  <2>4. \A r \in TE!Record : Out(r)' => Behind(r)'
    BY <1>1, <1>6, <2>1, <2>3 DEF TeleInv, SentOnce, Out, Behind
  <2> QED
    BY <1>6, <2>2, <2>3, <2>4 DEF SentOnce
<1> QED
  BY <1>5, <1>6, <1>8, <1>9, <1>10 DEF TeleInv

LEMMA InitTelemetry == TE!Init => TeleInv
<1> SUFFICES ASSUME TE!Init PROVE TeleInv
  OBVIOUS
<1>1. log = 0 /\ file = None /\ \A t \in Thread : pc[t] = "idle" /\ last[t] = None /\ todo[t] = <<>>
  BY DEF TE!Init
<1>2. TeleTypes
  <2>1. sent \in [TE!Record -> 0..2] /\ \A r \in TE!Record : sent[r] > 0 => r <= log
    BY DEF TE!Init
  <2>2. /\ faults \in [TE!Fault -> Nat]
        /\ faults["crash"] + faults["unsaved"] + faults["repeat"] + faults["refused"] <= MaxFaults
    BY TelemetryAssumption DEF TE!Init, TE!Fault
  <2>3. log \in 0..MaxRecord
    BY TelemetryAssumption DEF TE!Init
  <2>4. /\ batch \in [Thread -> SUBSET (1..log)] /\ last \in [Thread -> (1..log) \cup {None}]
        /\ DOMAIN todo = Thread /\ pc \in [Thread -> TE!Step]
    BY DEF TE!Init, TE!Step
  <2>5. \A t \in Thread : /\ todo[t] \in Seq((SUBSET (1..log)) \ {{}})
                          /\ pc[t] = "posting" <=> todo[t] # <<>>
    <3>1. <<>> \in Seq((SUBSET (1..log)) \ {{}})
      OBVIOUS
    <3> QED
      BY <1>1, <3>1
  <2>6. /\ file \in (1..log) \cup {None} /\ overlapped \in BOOLEAN
        /\ given \subseteq 1..log /\ cut \subseteq 1..log /\ skipped \subseteq 1..log
    BY DEF TE!Init
  <2> QED
    BY <2>1, <2>2, <2>3, <2>4, <2>5, <2>6 DEF TeleTypes
<1>3. \A t \in Thread : Read(t)
  BY DEF TE!Init, Read
<1>4. Passed /\ InTurns
  BY <1>1 DEF Passed, InTurns
<1>5. Started
  BY DEF TE!Init, Started
<1>6. SentOnce
  <2>1. \A r \in TE!Record : sent[r] = 0
    BY DEF TE!Init
  <2>2. \A t \in Thread : DOMAIN todo[t] = {}
    BY <1>1
  <2> QED
    BY <2>1, <2>2 DEF SentOnce, Out, Queued
<1> QED
  BY <1>2, <1>3, <1>4, <1>5, <1>6 DEF TeleInv

LEMMA NextTelemetry ==
    ASSUME TeleInv, TE!Next
    PROVE  TeleInv'
BY WriteRecordKeeps, CollectKeeps, LoadCursorKeeps, EmptyFileKeeps, WriteCursorKeeps, UnsavedKeeps,
   PostsKeep, DaemonRestarts DEF TE!Next

LEMMA TelemetryImplies ==
    ASSUME TeleInv
    PROVE  TE!TypeOK /\ TE!PassedIsAccounted /\ TE!RepeatedHasCause
<1>1. log \in Nat /\ 1..log \subseteq TE!Record
  BY TelemetryAssumption DEF TeleInv, TeleTypes, TE!Record
<1>2. TE!TypeOK
  <2>3. faults \in [TE!Fault -> 0..MaxFaults]
    <3>1. PICK a \in Nat, b \in Nat, c \in Nat, d \in Nat :
            a = faults["crash"] /\ b = faults["unsaved"] /\ c = faults["repeat"] /\ d = faults["refused"]
      BY DEF TeleInv, TeleTypes, TE!Fault
    <3>2. a + b + c + d <= MaxFaults
      BY <3>1 DEF TeleInv, TeleTypes
    <3>3. a \in 0..MaxFaults /\ b \in 0..MaxFaults /\ c \in 0..MaxFaults /\ d \in 0..MaxFaults
      BY <3>2, TelemetryAssumption
    <3>4. \A f \in TE!Fault : faults[f] \in 0..MaxFaults
      BY <3>1, <3>3 DEF TE!Fault
    <3> QED
      BY <3>4 DEF TeleInv, TeleTypes
  <2>4. UNION {given, cut, skipped} \subseteq 1..log
    BY DEF TeleInv, TeleTypes
  <2>5. file \in TE!Record \cup {None} /\ last \in [Thread -> TE!Record \cup {None}]
    BY <1>1 DEF TeleInv, TeleTypes
  <2>6. \A t \in Thread : (pc[t] = "posting") = (todo[t] # <<>>)
    BY DEF TeleInv, TeleTypes
  <2> QED
    BY <2>3, <2>4, <2>5, <2>6 DEF TeleInv, TeleTypes, TE!TypeOK
<1>3. TE!PassedIsAccounted
  <2>1. ASSUME NEW r, Known(r)
        PROVE  \/ sent[r] > 0 \/ r \in UNION {given, cut, skipped}
               \/ \E t \in Thread : r \in UNION TE!Range(todo[t])
    BY <2>1 DEF Known, Queued, TE!Range
  <2> QED
    BY <2>1 DEF TeleInv, Passed, TE!PassedIsAccounted
<1>4. TE!RepeatedHasCause
  <2>1. ASSUME Calm, NEW r \in TE!Record PROVE ~(sent[r] > 1)
    <3>1. sent[r] \in 0..2 /\ sent[r] <= 1
      BY <2>1 DEF TeleInv, TeleTypes, SentOnce
    <3> QED
      BY <3>1
  <2>2. faults["repeat"] \in Nat /\ faults["unsaved"] \in Nat
    BY DEF TeleInv, TeleTypes, TE!Fault
  <2> QED
    BY <2>1, <2>2 DEF Calm, TE!RepeatedHasCause
<1> QED
  BY <1>2, <1>3, <1>4

\* Records are passed over for want of a cursor only with a cause.
LEMMA StartsHaveCause ==
    ASSUME TeleInv, TE!Next
    PROVE  TE!StartHasCause
<1> SUFFICES ASSUME skipped' # skipped
             PROVE  skipped = {} \/ overlapped \/ faults["crash"] > 0 \/ faults'["unsaved"] > 0
  BY DEF TE!StartHasCause
<1>1. PICK t \in Thread : TE!WriteCursor(t) \/ TE!Unsaved(t)
  BY DEF TE!Next, TE!WriteRecord, TE!Collect, TE!LoadCursor, TE!EmptyFile, TE!Post,
         TE!PostRepeated, TE!PostFails, TE!Posted, TE!Restart
<1>2. CASE TE!Unsaved(t)
  BY <1>2, FaultyIs DEF TeleInv, TE!Fault, TE!Unsaved
<1>3. CASE TE!WriteCursor(t)
  <2>1. pc[t] = "emptied" /\ TE!Compare(t) /\ faults' = faults
    BY <1>3 DEF TE!WriteCursor
  <2>2. last[t] = None
    BY <2>1 DEF TE!Compare
  <2>3. ASSUME ~overlapped, faults["crash"] = 0, faults["unsaved"] = 0 PROVE skipped = {}
    <3>1. file = None /\ \A u \in Thread : pc[u] = "emptied" => u = t
      BY <2>1, <2>3 DEF TeleInv, InTurns
    <3> QED
      BY <2>2, <2>3, <3>1 DEF TeleInv, Started
  <2>4. faults["crash"] \in Nat /\ faults["unsaved"] \in Nat
    BY DEF TeleInv, TeleTypes, TE!Fault
  <2> QED
    BY <2>1, <2>3, <2>4
<1> QED
  BY <1>1, <1>2, <1>3

-----------------------------------------------------------------------------
(* The theorems. *)

\* The machine of a behaviour is chosen once.
LEMMA PartIsKept == [Next]_all => part' = part
BY DEF Next, all, OutOfAT, OutOfLG, OutOfRO, OutOfTE, OutOfWS, OutOfAO

\* ApprovalsAreHonoured, for any sessions, requests, ids and bounds: a tool that
\* writes runs only for a call that was itself granted, whatever ids the model
\* gives and wherever the stream of a request is cut; every call has its result
\* and every future its waiter unless a turn of the session was cut off; and the
\* audit log says nothing wrong of a call, and nothing of one that ran only where
\* the recorder failed or the turn was cut off in the tool (_run_locked_turn,
\* _await_approval, _invoke_tool, _record_tool_audit).
THEOREM TurnsHonourApprovals == Spec => []ApprovalsAreHonoured
<1> DEFINE I == part = "turn" => TurnInv /\ AuditInv
<1>1. Init => I
  BY InitTurn, InitAudit DEF Init, InitAT, InitLG, InitRO, InitTE, InitWS, InitAO
<1>2. I /\ [Next]_all => I'
  <2> SUFFICES ASSUME I, [Next]_all, part = "turn" PROVE TurnInv' /\ AuditInv'
    BY PartIsKept
  <2>1. CASE AT!Next
    BY <2>1, NextTurn, NextAudit
  <2>2. CASE UNCHANGED all
    <3>1. UNCHANGED <<stored, made, lock, turn, unanswered, pending, calls, granted, invoked,
                      audited, unrecorded, cut>>
      BY <2>2 DEF all
    <3>2. TurnTypes' /\ (AT!WriteIsGranted)'
      BY <3>1 DEF TurnInv, TurnTypes, AT!WriteIsGranted
    <3>3. StoreOK(stored, made)'
      BY <3>1 DEF TurnInv, StoreOK
    <3>4. \A s \in Session : Locked(s)' /\ Pending(s)' /\ \A i \in Id : Awaited(s, i)'
      BY <3>1 DEF TurnInv, Locked, Pending, Awaited
    <3>5. \A r \in Request : InTurn(r)'
      BY <3>1 DEF TurnInv, InTurn
    <3> QED
      BY <3>1, <3>2, <3>3, <3>4, <3>5, AuditStands DEF TurnInv
  <2> QED
    BY <2>1, <2>2 DEF Next
<1>3. I => ApprovalsAreHonoured
  BY TurnImplies DEF AuditInv, ApprovalsAreHonoured
<1> QED
  BY <1>1, <1>2, <1>3, PTL DEF Spec

\* LoginIsAccounted, for any handlers, accounts, windows and limits: as long as
\* no two threads were in the limiter at once, no max_attempts + 1 requests of an
\* address come through within a window, and who is refused has had as many
\* (AuthRateLimiter.allow); and in every interleaving of the threads, whatever
\* fails on the way, a session that a browser can use has its own record of
\* success (login, register).
THEOREM LoginsAreAccounted == Spec => []LoginIsAccounted
<1> DEFINE I == part = "login" => LoginIInv
<1>1. Init => I
  BY InitLogin DEF Init, InitAT, InitLG, InitRO, InitTE, InitWS, InitAO
<1>2. I /\ [Next]_all => I'
  <2> SUFFICES ASSUME I, [Next]_all, part = "login" PROVE LoginIInv'
    BY PartIsKept
  <2>1. CASE LG!Next
    BY <2>1, NextLogin
  <2>2. CASE UNCHANGED all
    <3>1. UNCHANGED <<now, bucket, handler, accounts, session, audit, cookies, tries, allowed, raced>>
      BY <2>2 DEF all
    <3>2. LoginInv'
      BY <3>1 DEF LoginIInv, LoginInv, LoginTypes, Underway, Distinct, Successes
    <3>3. ~raced' => Limited'
      BY <3>1 DEF LoginIInv, Limited, Judges
    <3> QED
      BY <3>2, <3>3 DEF LoginIInv
  <2> QED
    BY <2>1, <2>2 DEF Next
<1>3. I => LoginIsAccounted
  BY LoginImplies DEF LoginIsAccounted
<1> QED
  BY <1>1, <1>2, <1>3, PTL DEF Spec

\* RolesAreEarned, for any users, roles, permissions and handlers: no sequence
\* of overlapping edits hands out the wildcard, a role that no two handlers
\* edited at once has the permissions of one request (update_role), and nobody
\* has a permission before an admin of the identity provider has logged in
\* (resolve, require_permission).
THEOREM RolesAreAlwaysEarned == Spec => []RolesAreEarned
<1> DEFINE I == part = "roles" => RolesInv
<1>1. Init => I
  BY InitRoles DEF Init, InitAT, InitLG, InitRO, InitTE, InitWS, InitAO
<1>2. I /\ [Next]_all => I'
  <2> SUFFICES ASSUME I, [Next]_all, part = "roles" PROVE RolesInv'
    BY PartIsKept
  <2>1. CASE RO!Next
    BY <2>1, NextRoles
  <2>2. CASE UNCHANGED all
    <3>1. UNCHANGED <<claim, session, exists, grants, member, handler, edits, disturbed, rooted>>
      BY <2>2 DEF all
    <3> QED
      BY <3>1 DEF RolesInv, RoleTypes, RoleOK, Asks, Undisturbed, Unrooted
  <2> QED
    BY <2>1, <2>2 DEF Next
<1>3. I => RolesAreEarned
  BY RolesImply DEF RolesAreEarned
<1> QED
  BY <1>1, <1>2, <1>3, PTL DEF Spec
\* The invariant of the workspaces, of which two theorems speak.
LEMMA WorkAlways == Spec => [](part = "workspaces" => WorkInv /\ LentInv)
<1> DEFINE I == part = "workspaces" => WorkInv /\ LentInv
<1>1. Init => I
  BY InitWorkspaces, InitLent DEF Init, InitAT, InitLG, InitRO, InitTE, InitWS, InitAO
<1>2. I /\ [Next]_all => I'
  <2> SUFFICES ASSUME I, [Next]_all, part = "workspaces" PROVE WorkInv' /\ LentInv'
    BY PartIsKept
  <2>1. CASE WS!Next
    BY <2>1, NextWorkspaces, NextLent
  <2>2. CASE UNCHANGED all
    <3>1. UNCHANGED <<owned, space, template, published, installs, missed, lent, pc, requests>>
      BY <2>2 DEF all
    <3>2. WorkTypes' /\ TemplateOK'
      BY <3>1 DEF WorkInv, WorkTypes, TemplateOK
    <3>3. \A i \in 1..MaxTemplate : CountOK(i)'
      BY <3>1 DEF WorkInv, CountOK, Counting
    <3>4. /\ \A u \in User : RowOK(u)'
          /\ \A h \in Handler : Holds(h)'
      BY <3>1 DEF WorkInv, RowOK, Holds
    <3> QED
      BY <3>1, <3>2, <3>3, <3>4 DEF WorkInv, LentInv
  <2> QED
    BY <2>1, <2>2 DEF Next
<1> QED
  BY <1>1, <1>2, PTL DEF Spec

\* WorkspacesAreOwn, for any users, providers, kinds, handlers and bounds: in
\* every interleaving of the requests a widget is bound to an integration of
\* another user only if the user of the workspace saved that binding himself
\* (update_workspace, apply_default_bindings, manifest_to_widgets), an untouched
\* installation lists a provider as missing exactly when its widget is unbound,
\* and no install is counted twice (increment_template_install).
THEOREM WorkspacesStayOwn == Spec => []WorkspacesAreOwn
<1>1. (part = "workspaces" => WorkInv /\ LentInv) => WorkspacesAreOwn
  BY WorkspacesImply DEF WorkspacesAreOwn
<1> QED
  BY <1>1, WorkAlways, PTL

LEMMA TeleAlways == Spec => [](part = "telemetry" => TeleInv)
<1> DEFINE I == part = "telemetry" => TeleInv
<1>1. Init => I
  BY InitTelemetry DEF Init, InitAT, InitLG, InitRO, InitTE, InitWS, InitAO
<1>2. I /\ [Next]_all => I'
  <2> SUFFICES ASSUME I, [Next]_all, part = "telemetry" PROVE TeleInv'
    BY PartIsKept
  <2>1. CASE TE!Next
    BY <2>1, NextTelemetry
  <2>2. CASE UNCHANGED all
    <3>1. UNCHANGED <<log, file, pc, batch, last, todo, sent, given, cut, skipped, overlapped, faults>>
      BY <2>2 DEF all
    <3>2. TeleTypes' /\ Passed' /\ InTurns' /\ Started'
      BY <3>1 DEF TeleInv, TeleTypes, Passed, Known, Queued, InTurns, Started
    <3>3. SentOnce' /\ \A t \in Thread : Read(t)'
      BY <3>1 DEF TeleInv, SentOnce, Calm, Out, Behind, Queued, Read
    <3> QED
      BY <3>2, <3>3 DEF TeleInv
  <2> QED
    BY <2>1, <2>2 DEF Next
<1> QED
  BY <1>1, <1>2, PTL DEF Spec

\* TelemetryIsAccounted, for any threads, limit, log and faults: what the cursor
\* has passed was received, is about to be posted, or was given up in a way the
\* code knows of, wherever a daemon dies or its threads interleave (collect_now,
\* save_state); and the BFF has a record twice only after a repeated request, an
\* unwritable file or two collections at once.
THEOREM TelemetryIsAlwaysAccounted == Spec => []TelemetryIsAccounted
<1>1. (part = "telemetry" => TeleInv) => TelemetryIsAccounted
  BY TelemetryImplies DEF TelemetryIsAccounted
<1> QED
  BY <1>1, TeleAlways, PTL

\* StepsHaveCause, for any constants: once there was a cursor, no step passes
\* records over for want of one unless two threads collect at once, the daemon
\* died or the file could not be written (load_state); and no step hands the
\* slug of a template to another user (publish_template).
THEOREM StepsAlwaysHaveCause == Spec => StepsHaveCause
<1> DEFINE I == (part = "telemetry" => TeleInv) /\ (part = "workspaces" => WorkInv)
           A == /\ part = "telemetry" => TE!StartHasCause
                /\ part = "workspaces" => WS!OwnerKept
<1>1. Spec => []I
  BY WorkAlways, TeleAlways, PTL
<1>2. I /\ Next => A
  BY StartsHaveCause, OwnersAreKept DEF Next
<1>3. I /\ [Next]_all => [A]_all
  BY <1>2
<1> QED
  BY <1>1, <1>3, PTL DEF Spec, StepsHaveCause

\* AddOnsAreServed, for any versions, devices and handlers: whatever overlaps
\* or fails, a complete installation is served also after a restart
\* (install_remote_addon, bootstrap) and only integrations whose own device
\* answered are stored (connect); and of requests that did not overlap and did
\* not fail one version stays on the disk, and no connector in the cache.
THEOREM AddOnsAreAlwaysServed == Spec => []AddOnsAreServed
<1> DEFINE I == part = "addons" => AddOnInv
<1>1. Init => I
  BY InitAddOns DEF Init, InitAT, InitLG, InitRO, InitTE, InitWS, InitAO
<1>2. I /\ [Next]_all => I'
  <2> SUFFICES ASSUME I, [Next]_all, part = "addons" PROVE AddOnInv'
    BY PartIsKept
  <2>1. CASE AO!Next
    BY <2>1, NextAddOns
  <2>2. CASE UNCHANGED all
    <3>1. UNCHANGED <<disk, row, factory, probe, stored, pc, answer, settled, clean, requests,
                      faults>>
      BY <2>2 DEF all
    <3>2. AddOnTypes' /\ Apart'
      BY <3>1 DEF AddOnInv, AddOnTypes, PcOK, Apart, AO!Busy
    <3> QED
      BY <3>1, <3>2 DEF AddOnInv, Serving, Tidy, Done, Left, AO!Busy, AO!Quiet, AO!Loads, AO!Booted
  <2> QED
    BY <2>1, <2>2 DEF Next
<1>3. I => AddOnsAreServed
  BY AddOnsImply DEF AddOnsAreServed
<1> QED
  BY <1>1, <1>2, <1>3, PTL DEF Spec
=============================================================================
