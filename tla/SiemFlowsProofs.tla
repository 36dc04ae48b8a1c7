---------------------------- MODULE SiemFlowsProofs ----------------------------
(***************************************************************************)
(* Theorems about SiemFlows, for any flows, ports, windows and thresholds. *)
(*                                                                         *)
(* All of them hold for any number of request threads, any order of the    *)
(* records' times and any limits of what is read: what is stored is well   *)
(* formed, every attack that was recognised is ticketed, no thread opens a *)
(* second incident about a flood that it could know of, and a scan is      *)
(* noticed, and reported once per window, by the rows that were there to   *)
(* be read.                                                                *)
(***************************************************************************)
EXTENDS SiemFlows, FiniteSetTheorems, SequenceTheorems, TLAPS

-----------------------------------------------------------------------------
(* The invariant for any number of threads. *)

\* What a record can have become.
EventOK(e) ==
    /\ e \in Event
    /\ e.kind = "other" => e.attack = "none"
    /\ e.kind = "denied" => e.attack \in {"none", "denied scan"}
    /\ e.kind = "forwarded" => e.attack # "denied scan"
    /\ e.attack = "flood" => e.port \in HttpPort

EventsOK(evs) == evs \in Seq(Event) /\ \A i \in DOMAIN evs : EventOK(evs[i])

Serving == [pc : Pc, event : Event, row : 0..MaxEvents, known : Nat]

\* Thread t of th knows of its event what its enrichment needs; one that looks
\* for a rule has its event stored.
ThreadOK(evs, th, t) ==
    /\ EventOK(th[t].event)
    /\ th[t].pc \in {"scan", "ports"} => th[t].event.kind # "other" /\ th[t].event.attack = "none"
    /\ th[t].pc \in {"flood", "connections"} =>
         /\ th[t].event.kind = "forwarded" /\ th[t].event.port \in HttpPort
         /\ th[t].event.attack = "none"
    /\ th[t].pc = "rules" => th[t].event.attack = "flood"
    /\ th[t].pc \in {"rules", "incident"} =>
         /\ th[t].event.attack # "none"
         /\ th[t].row \in DOMAIN evs /\ evs[th[t].row] = th[t].event
    /\ th[t].pc \notin {"rules", "incident"} => th[t].row = 0

\* There is an incident in inc about the attack in row i.
Ticketed(evs, inc, i) ==
    \E k \in DOMAIN inc :
        /\ inc[k].attack = evs[i].attack
        /\ inc[k].flow = evs[i].flow
        /\ evs[i].attack = "flood" => inc[k].port = evs[i].port
        /\ evs[i].attack # "flood" => inc[k].row = i

\* Every attack is ticketed, or a thread of th has it in hand.
InHand(evs, inc, th) ==
    \A i \in DOMAIN evs :
        evs[i].attack # "none" /\ (\A t \in Thread : th[t].row # i) => Ticketed(evs, inc, i)

TInv ==
    /\ EventsOK(events)
    /\ incidents \in Seq(Incident) /\ \A k \in DOMAIN incidents : incidents[k].attack # "none"
    /\ clock \in 0..MaxTime
    /\ thread \in [Thread -> Serving] /\ \A t \in Thread : ThreadOK(events, thread, t)
    /\ InHand(events, incidents, thread)
    /\ Len(events) + Cardinality(Busy) <= MaxEvents

LEMMA IdleIs == Idle \in Serving /\ Idle.pc = "idle" /\ Idle.row = 0 /\ EventOK(Idle.event)
<1>1. (CHOOSE f \in Flow : TRUE) \in Flow /\ (CHOOSE p \in Port : TRUE) \in Port
  BY FlowAssumption
<1>2. 0 \in 0..MaxTime /\ 0 \in 0..MaxEvents
  BY FlowAssumption
<1> QED
  BY <1>1, <1>2 DEF Idle, Serving, EventOK, Event, Kind, Attack, Pc

LEMMA InitT == Init => TInv
<1> SUFFICES ASSUME Init PROVE TInv
  OBVIOUS
<1>1. EventsOK(events) /\ Len(events) = 0 /\ DOMAIN events = {}
  <2>1. events \in Seq(Event) /\ events = <<>> /\ DOMAIN events = {} /\ Len(events) = 0
    BY EmptySeq DEF Init
  <2> QED
    BY <2>1 DEF EventsOK
<1>2. incidents \in Seq(Incident) /\ DOMAIN incidents = {}
  BY EmptySeq DEF Init
<1>3. clock \in 0..MaxTime
  BY FlowAssumption DEF Init
<1>4. \A t \in Thread : thread[t] = Idle
  BY DEF Init
<1>5. thread \in [Thread -> Serving] /\ \A t \in Thread : ThreadOK(events, thread, t)
  BY <1>4, IdleIs DEF Init, ThreadOK
<1>6. Busy = {}
  BY <1>4, IdleIs DEF Busy
<1>7. Cardinality(Busy) = 0
  BY <1>6, FS_EmptySet
<1>8. Len(events) + Cardinality(Busy) <= MaxEvents
  BY <1>1, <1>7, FlowAssumption
<1> QED
  BY <1>1, <1>2, <1>3, <1>5, <1>8 DEF TInv, InHand

-----------------------------------------------------------------------------
(* Steps of a thread. *)

LEMMA BusyCount ==
    /\ IsFiniteSet(Busy) /\ Cardinality(Busy) \in Nat
    /\ \A t \in Busy : /\ Cardinality(Busy \ {t}) = Cardinality(Busy) - 1
    /\ \A t : t \notin Busy => Cardinality(Busy \cup {t}) = Cardinality(Busy) + 1
<1>1. IsFiniteSet(Thread) /\ Busy \subseteq Thread
  BY FlowAssumption DEF Busy
<1>2. IsFiniteSet(Busy)
  BY <1>1, FS_Subset
<1> QED
  BY <1>2, FS_CardinalityType, FS_RemoveElement, FS_AddElement

\* A step of thread t from pc p to pc p2, the others as they are.
Moves(t, p, p2) ==
    /\ t \in Thread /\ At(t, p)
    /\ thread' \in [Thread -> Serving]
    /\ \A u \in Thread \ {t} : thread'[u] = thread[u]
    /\ thread'[t].pc = p2

LEMMA BusyMoves ==
    ASSUME NEW t, NEW p, NEW p2, Moves(t, p, p2)
    PROVE  LET q == Pc \ {"idle", "rules", "incident"} IN
           /\ p \in q /\ p2 \in q => Busy' = Busy
           /\ p \notin q /\ p2 \notin q => Busy' = Busy
           /\ p \in q /\ p2 \notin q => t \in Busy /\ Busy' = Busy \ {t}
           /\ p \notin q /\ p2 \in q => t \notin Busy /\ Busy' = Busy \cup {t}
BY DEF Moves, Busy, At

LEMMA GotoIs ==
    ASSUME TInv, NEW t \in Thread, NEW p, At(t, p), NEW p2, p2 \in Pc, Goto(t, p2)
    PROVE  /\ Moves(t, p, p2)
           /\ thread'[t].event = thread[t].event /\ thread'[t].row = thread[t].row
BY DEF TInv, Goto, Moves, Serving

LEMMA StopIs ==
    ASSUME TInv, NEW t \in Thread, NEW p, At(t, p), Stop(t)
    PROVE  Moves(t, p, "idle") /\ thread'[t] = Idle
BY IdleIs DEF TInv, Stop, Moves

LEMMA BecomesIs ==
    ASSUME TInv, NEW t \in Thread, NEW p, At(t, p), NEW e \in Event, NEW p2 \in Pc, Becomes(t, e, p2)
    PROVE  /\ Moves(t, p, p2)
           /\ thread'[t].event = e /\ thread'[t].row = thread[t].row
<1> DEFINE a == [thread EXCEPT ![t].event = e]
           b == [a EXCEPT ![t].pc = p2]
<1>1. thread' = b
  BY DEF Becomes
<1>2. /\ a \in [Thread -> Serving] /\ a[t].event = e /\ a[t].row = thread[t].row
      /\ \A u \in Thread \ {t} : a[u] = thread[u]
  BY DEF TInv, Serving
<1> HIDE DEF a
<1>3. /\ b \in [Thread -> Serving] /\ b[t].event = e /\ b[t].row = thread[t].row /\ b[t].pc = p2
      /\ \A u \in Thread \ {t} : b[u] = thread[u]
  BY <1>2 DEF Serving
<1> HIDE DEF b
<1> QED
  BY <1>1, <1>3 DEF Moves

\* A step that leaves the tables alone keeps the invariant if it leaves its
\* thread in order, and the rows that are in hand.
LEMMA ThreadStep ==
    ASSUME TInv, NEW t, NEW p, NEW p2, Moves(t, p, p2),
           UNCHANGED <<events, incidents>>, clock' \in 0..MaxTime,
           ThreadOK(events', thread', t),
           thread'[t].row = thread[t].row,
           Len(events) + Cardinality(Busy') <= MaxEvents
    PROVE  TInv'
<1>1. ASSUME NEW u \in Thread PROVE ThreadOK(events', thread', u)
  <2>1. CASE u = t
    BY <2>1
  <2>2. CASE u # t
    BY <2>2 DEF TInv, Moves, ThreadOK
  <2> QED
    BY <2>1, <2>2
<1>2. \A u \in Thread : thread'[u].row = thread[u].row
  BY DEF Moves
<1>3. InHand(events', incidents', thread')
  BY <1>2 DEF TInv, InHand
<1> QED
  BY <1>1, <1>3 DEF TInv, Moves

\* What thread t is doing afterwards, action by action.
LEMMA ReceiveIs ==
    ASSUME TInv, NEW t \in Thread, Receive(t)
    PROVE  LET e == thread'[t].event IN
           /\ Moves(t, "idle", FirstStep(e)) /\ thread'[t].row = thread[t].row
           /\ EventOK(e) /\ e.attack = "none" /\ e.read = 0
           /\ clock' \in 0..MaxTime
           /\ Len(events) + Cardinality(Busy) < MaxEvents
           /\ UNCHANGED <<events, incidents>>
<1>1. PICK r \in Traffic, now \in (IF InOrder THEN clock ELSE 0)..MaxTime :
         LET e == [flow |-> r.flow, port |-> r.port, kind |-> r.kind,
                   time |-> now, attack |-> "none", read |-> 0]
         IN  /\ Becomes(t, e, FirstStep(e))
             /\ clock' = IF now > clock THEN now ELSE clock
  BY DEF Receive
<1> DEFINE e == [flow |-> r.flow, port |-> r.port, kind |-> r.kind,
                 time |-> now, attack |-> "none", read |-> 0]
<1>2. clock \in 0..MaxTime /\ MaxTime \in Nat /\ InOrder \in BOOLEAN
  BY FlowAssumption DEF TInv
<1>3. now \in 0..MaxTime
  BY <1>2
<1>4. EventOK(e) /\ e.attack = "none" /\ e.read = 0 /\ FirstStep(e) \in Pc
  BY <1>3, FlowAssumption DEF EventOK, Event, Attack, Kind, FirstStep, Pc
<1>5. Becomes(t, e, FirstStep(e)) /\ clock' = IF now > clock THEN now ELSE clock
  BY <1>1
<1> HIDE DEF e
<1>6. e \in Event /\ At(t, "idle")
  BY <1>4 DEF EventOK, Receive
<1>7. Moves(t, "idle", FirstStep(e)) /\ thread'[t].event = e /\ thread'[t].row = thread[t].row
  BY <1>4, <1>5, <1>6, BecomesIs
<1>8. clock' \in 0..MaxTime
  BY <1>2, <1>3, <1>5
<1>9. Len(events) + Cardinality(Busy) < MaxEvents /\ UNCHANGED <<events, incidents>>
  BY DEF Receive
<1> QED
  BY <1>4, <1>7, <1>8, <1>9

\* What a thread makes of its event is an event.
LEMMA LabelIs ==
    ASSUME NEW e \in Event
    PROVE  /\ \A x \in Attack : LET f == [e EXCEPT !.attack = x] IN
                /\ f \in Event /\ f.attack = x /\ f.read = e.read
                /\ f.flow = e.flow /\ f.port = e.port /\ f.kind = e.kind /\ f.time = e.time
           /\ \A n \in 0..MaxEvents : LET f == [e EXCEPT !.read = n] IN
                /\ f \in Event /\ f.attack = e.attack /\ f.read = n
                /\ f.flow = e.flow /\ f.port = e.port /\ f.kind = e.kind /\ f.time = e.time
BY DEF Event

LEMMA TableLength == TInv => Len(events) \in 0..MaxEvents /\ DOMAIN events = 1..Len(events)
<1> SUFFICES ASSUME TInv PROVE Len(events) \in 0..MaxEvents /\ DOMAIN events = 1..Len(events)
  OBVIOUS
<1>1. Len(events) \in Nat /\ DOMAIN events = 1..Len(events)
  BY LenProperties DEF TInv, EventsOK
<1>2. Cardinality(Busy) \in Nat /\ Len(events) + Cardinality(Busy) <= MaxEvents /\ MaxEvents \in Nat
  BY BusyCount, FlowAssumption DEF TInv
<1> QED
  BY <1>1, <1>2

LEMMA CheckScanIs ==
    ASSUME TInv, NEW t \in Thread, CheckScan(t)
    PROVE  LET e == thread[t].event IN
           \E p \in Pc :
             /\ p = IF ScanSeen(e, ScanAttack(e)) THEN AfterScan(e) ELSE "ports"
             /\ Moves(t, "scan", p)
             /\ thread'[t].event = [e EXCEPT !.read = Len(events)] /\ thread'[t].event \in Event
             /\ thread'[t].row = thread[t].row
             /\ UNCHANGED <<events, incidents, clock>>
<1> DEFINE e == thread[t].event
           f == [e EXCEPT !.read = Len(events)]
           p == IF ScanSeen(e, ScanAttack(e)) THEN AfterScan(e) ELSE "ports"
<1>1. At(t, "scan") /\ Becomes(t, f, p) /\ UNCHANGED <<events, incidents, clock>>
  BY DEF CheckScan, Mine
<1>2. p \in Pc
  BY DEF AfterScan, Pc
<1>3. e \in Event
  BY DEF TInv, Serving
<1>4. f \in Event
  BY <1>3, TableLength, LabelIs
<1> HIDE DEF p, f
<1>5. Moves(t, "scan", p) /\ thread'[t].event = f /\ thread'[t].row = thread[t].row
  BY <1>1, <1>2, <1>4, BecomesIs
<1> QED
  BY <1>1, <1>2, <1>4, <1>5 DEF p, f

LEMMA CountPortsIs ==
    ASSUME TInv, NEW t \in Thread, CountPorts(t)
    PROVE  LET e == thread[t].event IN
           /\ \/ /\ Cardinality(Ports(e)) >= MinPorts
                 /\ Moves(t, "ports", "store")
                 /\ thread'[t].event = [e EXCEPT !.attack = ScanAttack(e)]
              \/ /\ ~(Cardinality(Ports(e)) >= MinPorts)
                 /\ Moves(t, "ports", AfterScan(e))
                 /\ thread'[t].event = [e EXCEPT !.read = Len(events)]
           /\ thread'[t].event \in Event /\ thread'[t].row = thread[t].row
           /\ UNCHANGED <<events, incidents, clock>>
<1> DEFINE e == thread[t].event
           f == [e EXCEPT !.attack = ScanAttack(e)]
           g == [e EXCEPT !.read = Len(events)]
<1>1. At(t, "ports") /\ UNCHANGED <<events, incidents, clock>>
  BY DEF CountPorts
<1>2. e \in Event /\ ScanAttack(e) \in Attack /\ AfterScan(e) \in Pc /\ "store" \in Pc
  BY DEF TInv, Serving, ScanAttack, Attack, AfterScan, Pc
<1>3. f \in Event /\ g \in Event
  BY <1>2, TableLength, LabelIs
<1>4. \/ Cardinality(Ports(e)) >= MinPorts /\ Becomes(t, f, "store")
      \/ ~(Cardinality(Ports(e)) >= MinPorts) /\ Becomes(t, g, AfterScan(e))
  BY DEF CountPorts, Mine
<1> HIDE DEF f, g
<1>5. CASE Cardinality(Ports(e)) >= MinPorts /\ Becomes(t, f, "store")
  <2>1. Moves(t, "ports", "store") /\ thread'[t].event = f /\ thread'[t].row = thread[t].row
    BY <1>1, <1>2, <1>3, <1>5, BecomesIs
  <2> QED
    BY <1>1, <1>3, <1>5, <2>1 DEF f
<1>6. CASE ~(Cardinality(Ports(e)) >= MinPorts) /\ Becomes(t, g, AfterScan(e))
  <2>1. Moves(t, "ports", AfterScan(e)) /\ thread'[t].event = g /\ thread'[t].row = thread[t].row
    BY <1>1, <1>2, <1>3, <1>6, BecomesIs
  <2> QED
    BY <1>1, <1>3, <1>6, <2>1 DEF g
<1> QED
  BY <1>4, <1>5, <1>6

LEMMA CountConnectionsIs ==
    ASSUME TInv, NEW t \in Thread, CountConnections(t)
    PROVE  LET e == thread[t].event IN
           /\ Moves(t, "connections", "store")
           /\ thread'[t].event \in {e, [e EXCEPT !.attack = "flood"]} /\ thread'[t].event \in Event
           /\ thread'[t].row = thread[t].row
           /\ UNCHANGED <<events, incidents, clock>>
<1> DEFINE e == thread[t].event
           f == [e EXCEPT !.attack = "flood"]
<1>1. At(t, "connections") /\ UNCHANGED <<events, incidents, clock>>
  BY DEF CountConnections
<1>2. Becomes(t, f, "store") \/ Goto(t, "store")
  BY DEF CountConnections, Mine
<1>3. e \in Event /\ "flood" \in Attack /\ "store" \in Pc
  BY DEF TInv, Serving, Attack, Pc
<1>4. f \in Event
  BY <1>3, LabelIs
<1> HIDE DEF f
<1>5. CASE Becomes(t, f, "store")
  <2>1. Moves(t, "connections", "store") /\ thread'[t].event = f /\ thread'[t].row = thread[t].row
    BY <1>1, <1>3, <1>4, <1>5, BecomesIs
  <2> QED
    BY <1>1, <1>4, <2>1 DEF f
<1>6. CASE Goto(t, "store")
  <2>1. Moves(t, "connections", "store") /\ thread'[t].event = e /\ thread'[t].row = thread[t].row
    BY <1>1, <1>3, <1>6, GotoIs
  <2> QED
    BY <1>1, <1>3, <2>1
<1> QED
  BY <1>2, <1>5, <1>6

\* The row that the next stored event gets, and what the thread does then.
LEMMA StoreEventIs ==
    ASSUME TInv, NEW t \in Thread, StoreEvent(t)
    PROVE  LET n == Len(events) + 1
               e == thread[t].event IN
           /\ n \in 1..MaxEvents
           /\ EventsOK(events') /\ Len(events') = n /\ DOMAIN events' = 1..n
           /\ events'[n] = e /\ \A i \in DOMAIN events : i \in 1..(n - 1) /\ events'[i] = events[i]
           /\ Busy' = Busy \ {t} /\ t \in Busy
           /\ Len(events') + Cardinality(Busy') <= MaxEvents
           /\ \/ e.attack = "none" /\ Moves(t, "store", "idle") /\ thread'[t] = Idle
              \/ /\ e.attack # "none" /\ Moves(t, "store", AfterStore(e))
                 /\ thread'[t].event = e /\ thread'[t].row = n
           /\ UNCHANGED <<incidents, clock>>
<1> DEFINE n == Len(events) + 1
           e == thread[t].event
           es == Append(events, e)
<1>1. At(t, "store") /\ events' = es /\ UNCHANGED <<incidents, clock>>
  BY DEF StoreEvent, Mine
<1>2. EventOK(e) /\ e \in Event /\ events \in Seq(Event)
  BY DEF TInv, ThreadOK, EventOK, EventsOK
<1> HIDE DEF e
<1>3. Len(events) \in Nat /\ DOMAIN events = 1..Len(events)
  BY <1>2, LenProperties
<1>4. /\ es \in Seq(Event) /\ Len(es) = n
      /\ \A i \in 1..Len(events) : es[i] = events[i]
      /\ es[n] = e
  BY <1>2, AppendProperties
<1>5. DOMAIN es = 1..n
  BY <1>4, LenProperties
<1> HIDE DEF es
<1>6. EventsOK(es)
  <2>1. ASSUME NEW i \in 1..n PROVE EventOK(es[i])
    <3>1. CASE i \in 1..Len(events)
      BY <1>3, <1>4, <3>1 DEF TInv, EventsOK
    <3>2. CASE i = n
      BY <1>2, <1>4, <3>2
    <3> QED
      BY <1>3, <3>1, <3>2
  <2> QED
    BY <1>4, <1>5, <2>1 DEF EventsOK
<1>7. t \in Busy /\ Cardinality(Busy) \in Nat /\ Cardinality(Busy \ {t}) = Cardinality(Busy) - 1
  BY <1>1, BusyCount DEF Busy, At, Pc
<1>8. n + (Cardinality(Busy) - 1) <= MaxEvents /\ n \in 1..MaxEvents
  <2>1. Cardinality(Busy \ {t}) \in Nat
    <3>1. IsFiniteSet(Busy \ {t})
      BY BusyCount, FS_RemoveElement
    <3> QED
      BY <3>1, FS_CardinalityType
  <2>2. Len(events) + Cardinality(Busy) <= MaxEvents /\ MaxEvents \in Nat
    BY FlowAssumption DEF TInv
  <2> QED
    BY <1>3, <1>7, <2>1, <2>2
<1>9. CASE e.attack = "none"
  <2>1. Stop(t)
    BY <1>9 DEF StoreEvent, Mine, e
  <2>2. Moves(t, "store", "idle") /\ thread'[t] = Idle
    BY <1>1, <2>1, StopIs
  <2>3. Busy' = Busy \ {t}
    BY <2>2, BusyMoves DEF Pc
  <2> QED
    BY <1>1, <1>3, <1>4, <1>5, <1>6, <1>7, <1>8, <1>9, <2>2, <2>3 DEF e
<1>10. CASE e.attack # "none"
  <2> DEFINE p == AfterStore(e)
             a == [thread EXCEPT ![t].pc = p]
             b == [a EXCEPT ![t].row = n]
  <2>1. thread' = b
    BY <1>10 DEF StoreEvent, Mine, e
  <2>0. p \in Pc /\ p \in {"rules", "incident"}
    BY DEF AfterStore, Pc
  <2> HIDE DEF p
  <2>2. /\ a \in [Thread -> Serving] /\ a[t].event = e /\ a[t].pc = p
        /\ \A u \in Thread \ {t} : a[u] = thread[u]
    BY <2>0 DEF TInv, Serving, e
  <2> HIDE DEF a
  <2>3. n \in 0..MaxEvents
    BY <1>8
  <2> HIDE DEF n
  <2>4. /\ b \in [Thread -> Serving] /\ b[t].event = e /\ b[t].pc = p /\ b[t].row = n
        /\ \A u \in Thread \ {t} : b[u] = thread[u]
    BY <2>2, <2>3 DEF Serving
  <2> HIDE DEF b
  <2>5. Moves(t, "store", p)
    BY <1>1, <2>1, <2>4 DEF Moves
  <2>6. Busy' = Busy \ {t}
    BY <2>0, <2>5, BusyMoves DEF Pc
  <2>7. thread'[t].event = e /\ thread'[t].row = n
    BY <2>1, <2>4
  <2> USE DEF n
  <2> QED
    BY <1>1, <1>3, <1>4, <1>5, <1>6, <1>7, <1>8, <1>10, <2>5, <2>6, <2>7 DEF e, p
<1> QED
  BY <1>9, <1>10

LEMMA StoreEventKeeps ==
    ASSUME TInv, NEW t \in Thread, StoreEvent(t)
    PROVE  TInv'
<1> DEFINE n == Len(events) + 1
           e == thread[t].event
<1>1. /\ n \in 1..MaxEvents
      /\ EventsOK(events') /\ DOMAIN events' = 1..n
      /\ events'[n] = e /\ \A i \in DOMAIN events : i \in 1..(n - 1) /\ events'[i] = events[i]
      /\ Len(events') + Cardinality(Busy') <= MaxEvents
      /\ \/ e.attack = "none" /\ Moves(t, "store", "idle") /\ thread'[t] = Idle
         \/ /\ e.attack # "none" /\ Moves(t, "store", AfterStore(e))
            /\ thread'[t].event = e /\ thread'[t].row = n
      /\ UNCHANGED <<incidents, clock>>
  BY StoreEventIs
<1>2. DOMAIN events = 1..(n - 1) /\ n - 1 \in Nat
  <2>1. Len(events) \in Nat /\ DOMAIN events = 1..Len(events)
    BY LenProperties DEF TInv, EventsOK
  <2> QED
    BY <2>1
<1>3. EventOK(e) /\ thread[t].row = 0
  BY DEF TInv, ThreadOK, StoreEvent, At
<1> HIDE DEF n, e
<1>4. ASSUME NEW u \in Thread PROVE ThreadOK(events', thread', u)
  <2>1. CASE u = t /\ e.attack = "none"
    <3>1. thread'[t] = Idle
      BY <1>1, <2>1
    <3> QED
      BY <2>1, <3>1, IdleIs DEF ThreadOK
  <2>2. CASE u = t /\ e.attack # "none"
    <3>1. /\ thread'[t].pc \in {"rules", "incident"} /\ (thread'[t].pc = "rules" => e.attack = "flood")
          /\ thread'[t].event = e /\ thread'[t].row = n
      BY <1>1, <2>2 DEF Moves, AfterStore
    <3>2. n \in DOMAIN events' /\ events'[n] = e
      BY <1>1
    <3> QED
      BY <1>3, <2>2, <3>1, <3>2 DEF ThreadOK
  <2>3. CASE u # t
    <3>1. thread'[u] = thread[u] /\ ThreadOK(events, thread, u)
      BY <1>1, <2>3 DEF TInv, Moves
    <3>2. \A i \in DOMAIN events : i \in DOMAIN events' /\ events'[i] = events[i]
      BY <1>1, <1>2
    <3> QED
      BY <3>1, <3>2 DEF ThreadOK
  <2> QED
    BY <2>1, <2>2, <2>3
<1>5. InHand(events', incidents', thread')
  <2> SUFFICES ASSUME NEW i \in 1..n, events'[i].attack # "none", \A u \in Thread : thread'[u].row # i
               PROVE  Ticketed(events', incidents', i)
    BY <1>1 DEF InHand
  <2>1. i # n
    <3>1. ASSUME i = n PROVE FALSE
      <4>1. e.attack # "none"
        BY <1>1, <3>1
      <4>2. thread'[t].row = n
        BY <1>1, <4>1
      <4> QED
        BY <3>1, <4>2
    <3> QED
      BY <3>1
  <2>2. i \in DOMAIN events
    BY <1>1, <1>2, <2>1
  <2>3. events'[i] = events[i]
    BY <1>1, <2>2
  <2>4. ASSUME NEW u \in Thread PROVE thread[u].row # i
    <3>1. CASE u = t
      BY <1>2, <1>3, <2>2, <3>1
    <3>2. CASE u # t
      BY <1>1, <3>2 DEF Moves
    <3> QED
      BY <3>1, <3>2
  <2>5. Ticketed(events, incidents, i)
    BY <2>2, <2>3, <2>4 DEF TInv, InHand
  <2> QED
    BY <1>1, <2>3, <2>5 DEF Ticketed
<1> QED
  BY <1>1, <1>4, <1>5 DEF TInv, Moves

LEMMA MatchRulesIs ==
    ASSUME TInv, NEW t \in Thread, MatchRules(t)
    PROVE  LET e == thread[t].event IN
           /\ \/ OpenDuplicate(e) /\ Moves(t, "rules", "idle") /\ thread'[t] = Idle
              \/ /\ ~OpenDuplicate(e) /\ Moves(t, "rules", "incident")
                 /\ thread'[t].event = e /\ thread'[t].row = thread[t].row
                 /\ thread'[t].known = Len(incidents)
           /\ UNCHANGED <<events, incidents, clock>>
<1>1. At(t, "rules") /\ UNCHANGED <<events, incidents, clock>>
  BY DEF MatchRules
<1>2. CASE OpenDuplicate(Mine(t))
  <2>1. Stop(t)
    BY <1>2 DEF MatchRules
  <2> QED
    BY <1>1, <1>2, <2>1, StopIs DEF Mine
<1>3. CASE ~OpenDuplicate(Mine(t))
  <2> DEFINE n == Len(incidents)
             a == [thread EXCEPT ![t].pc = "incident"]
             b == [a EXCEPT ![t].known = n]
  <2>1. thread' = b
    BY <1>3 DEF MatchRules
  <2>2. n \in Nat
    BY LenProperties DEF TInv
  <2> HIDE DEF n
  <2>3. /\ a \in [Thread -> Serving] /\ a[t].event = thread[t].event /\ a[t].row = thread[t].row
        /\ a[t].pc = "incident" /\ \A u \in Thread \ {t} : a[u] = thread[u]
    BY DEF TInv, Serving, Pc
  <2> HIDE DEF a
  <2>4. /\ b \in [Thread -> Serving] /\ b[t].event = thread[t].event /\ b[t].row = thread[t].row
        /\ b[t].pc = "incident" /\ b[t].known = n /\ \A u \in Thread \ {t} : b[u] = thread[u]
    BY <2>2, <2>3 DEF Serving
  <2> HIDE DEF b
  <2> QED
    BY <1>1, <1>3, <2>1, <2>4 DEF Moves, Mine, n
<1> QED
  BY <1>2, <1>3

LEMMA MatchRulesKeeps ==
    ASSUME TInv, NEW t \in Thread, MatchRules(t)
    PROVE  TInv'
<1>1. At(t, "rules") /\ UNCHANGED <<events, incidents, clock>>
  BY DEF MatchRules
<1>2. /\ ThreadOK(events, thread, t)
      /\ Mine(t).attack # "none" /\ thread[t].row \in DOMAIN events
      /\ events[thread[t].row] = Mine(t)
  BY <1>1 DEF TInv, ThreadOK, At, Mine
<1>3. CASE OpenDuplicate(Mine(t))
  <2>2. Moves(t, "rules", "idle") /\ thread'[t] = Idle
    BY <1>3, MatchRulesIs DEF Mine
  <2>3. Busy' = Busy
    BY <2>2, BusyMoves
  <2>4. ASSUME NEW u \in Thread PROVE ThreadOK(events', thread', u)
    <3>1. CASE u = t
      BY <2>2, <3>1, IdleIs DEF ThreadOK
    <3>2. CASE u # t
      BY <1>1, <2>2, <3>2 DEF TInv, Moves, ThreadOK
    <3> QED
      BY <3>1, <3>2
  <2>5. Ticketed(events, incidents, thread[t].row)
    BY <1>2, <1>3 DEF OpenDuplicate, Ticketed
  <2>6. InHand(events', incidents', thread')
    <3> SUFFICES ASSUME NEW i \in DOMAIN events, events[i].attack # "none",
                        \A u \in Thread : thread'[u].row # i
                 PROVE  Ticketed(events, incidents, i)
      BY <1>1 DEF InHand, Ticketed
    <3>1. CASE thread[t].row = i
      BY <2>5, <3>1
    <3>2. CASE thread[t].row # i
      <4>1. \A u \in Thread : thread[u].row # i
        BY <2>2, <3>2 DEF Moves
      <4> QED
        BY <4>1 DEF TInv, InHand
    <3> QED
      BY <3>1, <3>2
  <2> QED
    BY <1>1, <2>2, <2>3, <2>4, <2>6 DEF TInv, Moves
<1>4. CASE ~OpenDuplicate(Mine(t))
  <2>2. /\ Moves(t, "rules", "incident")
        /\ thread'[t].event = thread[t].event /\ thread'[t].row = thread[t].row
    BY <1>4, MatchRulesIs DEF Mine
  <2>3. Busy' = Busy
    BY <2>2, BusyMoves
  <2>4. ThreadOK(events', thread', t)
    BY <1>1, <1>2, <2>2 DEF Moves, ThreadOK, At, Mine
  <2> QED
    BY <1>1, <2>2, <2>3, <2>4, ThreadStep DEF TInv
<1> QED
  BY <1>3, <1>4

\* The incident about the row that the thread has in hand is there.
LEMMA OpenIncidentIs ==
    ASSUME TInv, NEW t \in Thread, OpenIncident(t)
    PROVE  LET n == Len(incidents) + 1
               e == thread[t].event IN
           /\ Moves(t, "incident", "idle") /\ thread'[t] = Idle
           /\ e.attack # "none" /\ thread[t].row \in DOMAIN events /\ events[thread[t].row] = e
           /\ incidents' \in Seq(Incident) /\ DOMAIN incidents' = 1..n
           /\ DOMAIN incidents = 1..(n - 1) /\ n \in Nat \ {0}
           /\ \A k \in DOMAIN incidents : incidents'[k] = incidents[k]
           /\ incidents'[n] = [flow |-> e.flow, port |-> e.port, attack |-> e.attack,
                               row |-> thread[t].row, open |-> TRUE,
                               known |-> thread[t].known, reopened |-> FALSE]
           /\ UNCHANGED <<events, clock>>
<1> DEFINE n == Len(incidents) + 1
           e == thread[t].event
           r == thread[t].row
           x == [flow |-> e.flow, port |-> e.port, attack |-> e.attack, row |-> r, open |-> TRUE,
                 known |-> thread[t].known, reopened |-> FALSE]
           is == Append(incidents, x)
<1>1. At(t, "incident") /\ incidents' = is /\ Stop(t) /\ UNCHANGED <<events, clock>>
  BY DEF OpenIncident, Mine
<1>2. e.attack # "none" /\ r \in DOMAIN events /\ events[r] = e /\ e \in Event
  BY <1>1 DEF TInv, ThreadOK, At, EventOK
<1>3. r \in 1..MaxEvents
  <2>1. events \in Seq(Event) /\ DOMAIN events = 1..Len(events) /\ Len(events) \in Nat
    BY LenProperties DEF TInv, EventsOK
  <2>2. Len(events) <= MaxEvents
    <3>1. Cardinality(Busy) \in Nat /\ Len(events) + Cardinality(Busy) <= MaxEvents
      BY BusyCount DEF TInv
    <3> QED
      BY <2>1, <3>1, FlowAssumption
  <2> QED
    BY <1>2, <2>1, <2>2, FlowAssumption
<1>4. x \in Incident
  <2>1. thread[t].known \in Nat
    BY DEF TInv, Serving
  <2> QED
    BY <1>2, <1>3, <2>1 DEF Incident, Event
<1>5. Moves(t, "incident", "idle") /\ thread'[t] = Idle
  BY <1>1, StopIs
<1>6. incidents \in Seq(Incident) /\ Len(incidents) \in Nat /\ DOMAIN incidents = 1..Len(incidents)
  BY LenProperties DEF TInv
<1> HIDE DEF x
<1>7. /\ is \in Seq(Incident) /\ Len(is) = n
      /\ \A k \in 1..Len(incidents) : is[k] = incidents[k]
      /\ is[n] = x
  BY <1>4, <1>6, AppendProperties
<1>8. DOMAIN is = 1..n
  BY <1>7, LenProperties
<1> HIDE DEF is
<1> QED
  BY <1>1, <1>2, <1>5, <1>6, <1>7, <1>8 DEF x

LEMMA OpenIncidentKeeps ==
    ASSUME TInv, NEW t \in Thread, OpenIncident(t)
    PROVE  TInv'
<1> DEFINE n == Len(incidents) + 1
           e == thread[t].event
           r == thread[t].row
<1>1. /\ Moves(t, "incident", "idle") /\ thread'[t] = Idle
      /\ e.attack # "none" /\ r \in DOMAIN events /\ events[r] = e
      /\ incidents' \in Seq(Incident) /\ DOMAIN incidents' = 1..n
      /\ DOMAIN incidents = 1..(n - 1) /\ n \in Nat \ {0}
      /\ \A k \in DOMAIN incidents : incidents'[k] = incidents[k]
      /\ incidents'[n] = [flow |-> e.flow, port |-> e.port, attack |-> e.attack,
                          row |-> r, open |-> TRUE, known |-> thread[t].known, reopened |-> FALSE]
      /\ UNCHANGED <<events, clock>>
  BY OpenIncidentIs
<1> HIDE DEF n, e, r
<1>2. \A k \in DOMAIN incidents' : incidents'[k].attack # "none"
  <2>1. \A k \in DOMAIN incidents' : k \in DOMAIN incidents \/ k = n
    BY <1>1
  <2> QED
    BY <1>1, <2>1 DEF TInv
<1>3. ASSUME NEW u \in Thread PROVE ThreadOK(events', thread', u)
  <2>1. CASE u = t
    BY <1>1, <2>1, IdleIs DEF ThreadOK
  <2>2. CASE u # t
    BY <1>1, <2>2 DEF TInv, Moves, ThreadOK
  <2> QED
    BY <2>1, <2>2
<1>4. InHand(events', incidents', thread')
  <2> SUFFICES ASSUME NEW i \in DOMAIN events, events[i].attack # "none",
                      \A u \in Thread : thread'[u].row # i
               PROVE  Ticketed(events', incidents', i)
    BY <1>1 DEF InHand
  <2>1. CASE r = i
    <3>1. n \in DOMAIN incidents' /\ events'[i] = e
      BY <1>1, <2>1
    <3> QED
      BY <1>1, <2>1, <3>1 DEF Ticketed
  <2>2. CASE r # i
    <3>1. \A u \in Thread : thread[u].row # i
      BY <1>1, <2>2 DEF Moves, r
    <3>2. Ticketed(events, incidents, i)
      BY <3>1 DEF TInv, InHand
    <3>3. \A k \in DOMAIN incidents : k \in DOMAIN incidents'
      BY <1>1
    <3> QED
      BY <1>1, <3>2, <3>3 DEF Ticketed
  <2> QED
    BY <2>1, <2>2
<1>5. Busy' = Busy
  BY <1>1, BusyMoves
<1> QED
  BY <1>1, <1>2, <1>3, <1>4, <1>5 DEF TInv, Moves

\* What a change of status leaves of the incidents.
LEMMA SetStatusIs ==
    ASSUME TInv, NEW k \in DOMAIN incidents, SetStatus(k)
    PROVE  /\ incidents' \in Seq(Incident) /\ DOMAIN incidents' = DOMAIN incidents
           /\ \A j \in DOMAIN incidents :
                /\ incidents'[j].flow = incidents[j].flow /\ incidents'[j].port = incidents[j].port
                /\ incidents'[j].attack = incidents[j].attack /\ incidents'[j].row = incidents[j].row
                /\ incidents'[j].known = incidents[j].known
                /\ incidents[j].reopened => incidents'[j].reopened
                /\ incidents'[j].open => incidents[j].open \/ incidents'[j].reopened
           /\ UNCHANGED <<events, clock, thread>>
<1> DEFINE x == [incidents[k] EXCEPT !.open = ~incidents[k].open,
                                     !.reopened = incidents[k].reopened \/ ~incidents[k].open]
<1>1. incidents' = [incidents EXCEPT ![k] = x] /\ UNCHANGED <<events, clock, thread>>
  BY DEF SetStatus
<1>2. /\ Len(incidents) \in Nat /\ DOMAIN incidents = 1..Len(incidents)
      /\ \A j \in DOMAIN incidents : incidents[j] \in Incident
  BY LenProperties, ElementOfSeq DEF TInv
<1>3. /\ x \in Incident
      /\ x.flow = incidents[k].flow /\ x.port = incidents[k].port
      /\ x.attack = incidents[k].attack /\ x.row = incidents[k].row
      /\ x.known = incidents[k].known
      /\ incidents[k].reopened => x.reopened
      /\ x.open => incidents[k].open \/ x.reopened
  BY <1>2 DEF Incident
<1> HIDE DEF x
<1>4. ASSUME NEW j \in DOMAIN incidents
      PROVE  /\ incidents'[j] \in Incident
             /\ incidents'[j].flow = incidents[j].flow /\ incidents'[j].port = incidents[j].port
             /\ incidents'[j].attack = incidents[j].attack /\ incidents'[j].row = incidents[j].row
             /\ incidents'[j].known = incidents[j].known
             /\ incidents[j].reopened => incidents'[j].reopened
             /\ incidents'[j].open => incidents[j].open \/ incidents'[j].reopened
  <2>1. CASE j = k
    <3>1. incidents'[j] = x
      BY <1>1, <2>1
    <3> QED
      BY <1>3, <2>1, <3>1
  <2>2. CASE j # k
    <3>1. incidents'[j] = incidents[j]
      BY <1>1, <2>2
    <3> QED
      BY <1>2, <3>1
  <2> QED
    BY <2>1, <2>2
<1>5. incidents' \in Seq(Incident)
  <2>1. incidents' = [j \in 1..Len(incidents) |-> incidents'[j]]
    BY <1>1, <1>2
  <2>2. \A j \in 1..Len(incidents) : incidents'[j] \in Incident
    BY <1>2, <1>4
  <2>3. incidents' \in [1..Len(incidents) -> Incident]
    BY <2>1, <2>2
  <2> QED
    BY <1>2, <2>3, SeqDef
<1> QED
  BY <1>1, <1>4, <1>5

LEMMA SetStatusKeeps ==
    ASSUME TInv, NEW k \in DOMAIN incidents, SetStatus(k)
    PROVE  TInv'
<1>1. /\ incidents' \in Seq(Incident) /\ DOMAIN incidents' = DOMAIN incidents
      /\ \A j \in DOMAIN incidents :
           /\ incidents'[j].flow = incidents[j].flow /\ incidents'[j].port = incidents[j].port
           /\ incidents'[j].attack = incidents[j].attack /\ incidents'[j].row = incidents[j].row
      /\ UNCHANGED <<events, clock, thread>>
  BY SetStatusIs
<1>2. InHand(events', incidents', thread')
  BY <1>1 DEF TInv, InHand, Ticketed
<1>3. Busy' = Busy
  BY <1>1 DEF Busy
<1>4. \A t \in Thread : ThreadOK(events', thread', t)
  BY <1>1 DEF TInv, ThreadOK
<1> QED
  BY <1>1, <1>2, <1>3, <1>4 DEF TInv

\* The records that are being served stay within the bound.
LEMMA StillBusy ==
    ASSUME TInv, NEW t, NEW p, NEW p2, Moves(t, p, p2), UNCHANGED events,
           {p, p2} \subseteq Pc \ {"idle", "rules", "incident"}
    PROVE  Len(events) + Cardinality(Busy') <= MaxEvents
BY BusyMoves DEF TInv

LEMMA ReceiveKeeps ==
    ASSUME TInv, NEW t \in Thread, Receive(t)
    PROVE  TInv'
<1> DEFINE e == thread'[t].event
<1>1. /\ Moves(t, "idle", FirstStep(e)) /\ thread'[t].row = thread[t].row
      /\ EventOK(e) /\ e.attack = "none" /\ clock' \in 0..MaxTime
      /\ Len(events) + Cardinality(Busy) < MaxEvents
      /\ UNCHANGED <<events, incidents>>
  BY ReceiveIs
<1>2. thread[t].row = 0
  BY DEF Receive, At, TInv, ThreadOK
<1>3. FirstStep(e) \in {"store", "scan"}
  BY DEF FirstStep
<1>4. FirstStep(e) = "scan" => e.kind # "other"
  BY DEF FirstStep
<1>5. t \notin Busy /\ Busy' = Busy \cup {t}
  BY <1>1, <1>3, BusyMoves DEF Pc
<1>6. Len(events) + Cardinality(Busy') <= MaxEvents
  <2>1. Cardinality(Busy') = Cardinality(Busy) + 1 /\ Cardinality(Busy) \in Nat
    BY <1>5, BusyCount
  <2>2. Len(events) \in Nat
    BY LenProperties DEF TInv, EventsOK
  <2> QED
    BY <1>1, <2>1, <2>2, FlowAssumption
<1>7. ThreadOK(events', thread', t)
  BY <1>1, <1>2, <1>3, <1>4 DEF ThreadOK, Moves
<1> QED
  BY <1>1, <1>6, <1>7, ThreadStep

LEMMA AfterScanIs ==
    ASSUME NEW e, e.kind # "other"
    PROVE  /\ AfterScan(e) \in {"flood", "store"} /\ AfterScan(e) \in Pc
           /\ AfterScan(e) = "flood" => e.kind = "forwarded" /\ e.port \in HttpPort
BY DEF AfterScan, Pc

LEMMA CheckScanKeeps ==
    ASSUME TInv, NEW t \in Thread, CheckScan(t)
    PROVE  TInv'
<1> DEFINE e == thread[t].event
           f == [e EXCEPT !.read = Len(events)]
<1>1. /\ thread[t].pc = "scan" /\ EventOK(e) /\ e.kind # "other" /\ e.attack = "none"
      /\ thread[t].row = 0
  BY DEF CheckScan, At, TInv, ThreadOK
<1>2. PICK p \in Pc :
        /\ p = IF ScanSeen(e, ScanAttack(e)) THEN AfterScan(e) ELSE "ports"
        /\ Moves(t, "scan", p) /\ thread'[t].event = f /\ thread'[t].row = thread[t].row
        /\ UNCHANGED <<events, incidents, clock>>
  BY CheckScanIs
<1>3. /\ p \in {"flood", "store", "ports"}
      /\ p = "flood" => e.kind = "forwarded" /\ e.port \in HttpPort
  BY <1>1, <1>2, AfterScanIs
<1>4. /\ f \in Event /\ f.attack = e.attack /\ f.port = e.port /\ f.kind = e.kind
  BY <1>1, TableLength, LabelIs DEF EventOK
<1> HIDE DEF e, f
<1>5. EventOK(f)
  BY <1>1, <1>4 DEF EventOK
<1>6. ThreadOK(events', thread', t)
  BY <1>1, <1>2, <1>3, <1>4, <1>5 DEF ThreadOK, Moves
<1>7. Len(events) + Cardinality(Busy') <= MaxEvents
  BY <1>2, <1>3, StillBusy DEF Pc
<1> QED
  BY <1>2, <1>6, <1>7, ThreadStep DEF TInv

LEMMA CountPortsKeeps ==
    ASSUME TInv, NEW t \in Thread, CountPorts(t)
    PROVE  TInv'
<1> DEFINE e == thread[t].event
           f == [e EXCEPT !.attack = ScanAttack(e)]
           g == [e EXCEPT !.read = Len(events)]
<1>1. /\ thread[t].pc = "ports" /\ e.kind # "other" /\ e.attack = "none" /\ EventOK(e)
      /\ thread[t].row = 0
  BY DEF CountPorts, At, TInv, ThreadOK
<1>2. /\ \/ Moves(t, "ports", "store") /\ thread'[t].event = f
         \/ Moves(t, "ports", AfterScan(e)) /\ thread'[t].event = g
      /\ thread'[t].row = thread[t].row /\ UNCHANGED <<events, incidents, clock>>
  BY CountPortsIs
<1>3. /\ f \in Event /\ f.kind = e.kind /\ f.port = e.port
      /\ f.attack = IF e.kind = "denied" THEN "denied scan" ELSE "allowed scan"
  <2>1. ScanAttack(e) \in Attack
    BY DEF ScanAttack, Attack
  <2> QED
    BY <1>1, <2>1, LabelIs DEF EventOK, ScanAttack
<1>4. g \in Event /\ g.kind = e.kind /\ g.port = e.port /\ g.attack = "none"
  BY <1>1, TableLength, LabelIs DEF EventOK
<1>5. /\ AfterScan(e) \in {"flood", "store"}
      /\ AfterScan(e) = "flood" => e.kind = "forwarded" /\ e.port \in HttpPort
  BY <1>1, AfterScanIs
<1> HIDE DEF e, f, g
<1>6. EventOK(f) /\ EventOK(g)
  BY <1>1, <1>3, <1>4 DEF EventOK
<1>7. ThreadOK(events', thread', t)
  BY <1>1, <1>2, <1>4, <1>5, <1>6 DEF ThreadOK, Moves
<1>8. Len(events) + Cardinality(Busy') <= MaxEvents
  BY <1>2, <1>5, StillBusy DEF Pc
<1> QED
  BY <1>2, <1>7, <1>8, ThreadStep DEF TInv

LEMMA CheckFloodIs ==
    ASSUME TInv, NEW t \in Thread, CheckFlood(t)
    PROVE  \E p \in {"store", "connections"} :
             /\ Moves(t, "flood", p)
             /\ thread'[t].event = thread[t].event /\ thread'[t].row = thread[t].row
             /\ UNCHANGED <<events, incidents, clock>>
<1> DEFINE p == IF FloodSeen(Mine(t)) THEN "store" ELSE "connections"
<1>1. At(t, "flood") /\ Goto(t, p) /\ UNCHANGED <<events, incidents, clock>>
  BY DEF CheckFlood
<1>2. p \in {"store", "connections"} /\ p \in Pc
  BY DEF Pc
<1> HIDE DEF p
<1> QED
  BY <1>1, <1>2, GotoIs

LEMMA CheckFloodKeeps ==
    ASSUME TInv, NEW t \in Thread, CheckFlood(t)
    PROVE  TInv'
<1>1. PICK p \in {"store", "connections"} :
        /\ Moves(t, "flood", p)
        /\ thread'[t].event = thread[t].event /\ thread'[t].row = thread[t].row
        /\ UNCHANGED <<events, incidents, clock>>
  BY CheckFloodIs
<1>2. thread[t].pc = "flood" /\ ThreadOK(events, thread, t)
  BY <1>1 DEF Moves, At, TInv
<1>3. ThreadOK(events', thread', t)
  BY <1>1, <1>2 DEF ThreadOK, Moves
<1>4. Len(events) + Cardinality(Busy') <= MaxEvents
  BY <1>1, StillBusy DEF Pc
<1> QED
  BY <1>1, <1>3, <1>4, ThreadStep DEF TInv

LEMMA CountConnectionsKeeps ==
    ASSUME TInv, NEW t \in Thread, CountConnections(t)
    PROVE  TInv'
<1> DEFINE e == thread[t].event
           f == [e EXCEPT !.attack = "flood"]
<1>1. /\ thread[t].pc = "connections"
      /\ e.kind = "forwarded" /\ e.port \in HttpPort /\ e.attack = "none" /\ EventOK(e)
      /\ thread[t].row = 0
  BY DEF CountConnections, At, TInv, ThreadOK
<1>2. /\ Moves(t, "connections", "store")
      /\ thread'[t].row = thread[t].row /\ UNCHANGED <<events, incidents, clock>>
      /\ thread'[t].event \in {e, f}
  BY CountConnectionsIs
<1>3. f \in Event /\ f.kind = "forwarded" /\ f.port \in HttpPort /\ f.attack = "flood"
  BY <1>1, LabelIs DEF EventOK, Attack
<1> HIDE DEF e, f
<1>4. EventOK(thread'[t].event)
  BY <1>1, <1>2, <1>3 DEF EventOK
<1>5. ThreadOK(events', thread', t)
  BY <1>1, <1>2, <1>4 DEF ThreadOK, Moves
<1>6. Len(events) + Cardinality(Busy') <= MaxEvents
  BY <1>2, StillBusy DEF Pc
<1> QED
  BY <1>2, <1>5, <1>6, ThreadStep DEF TInv

LEMMA NextT == TInv /\ [Next]_vars => TInv'
<1> SUFFICES ASSUME TInv, [Next]_vars PROVE TInv'
  OBVIOUS
<1>1. ASSUME NEW t \in Thread, Ingest(t) PROVE TInv'
  BY <1>1, ReceiveKeeps, CheckScanKeeps, CountPortsKeeps, CheckFloodKeeps,
     CountConnectionsKeeps, StoreEventKeeps, MatchRulesKeeps, OpenIncidentKeeps DEF Ingest
<1>2. ASSUME NEW k \in DOMAIN incidents, SetStatus(k) PROVE TInv'
  BY <1>2, SetStatusKeeps
<1>3. CASE UNCHANGED vars
  BY <1>3 DEF vars, TInv, Busy
<1> QED
  BY <1>1, <1>2, <1>3 DEF Next

LEMMA Invariant == Spec => []TInv
BY InitT, NextT, PTL DEF Spec

\* For any number of threads: a record is stored only as what its kind can
\* become, and an incident only for an attack.
THEOREM TypeCorrect == Spec => []TypeOK
<1>1. TInv => TypeOK
  <2> SUFFICES ASSUME TInv PROVE TypeOK
    OBVIOUS
  <2> QED
    BY DEF TInv, EventsOK, EventOK, TypeOK, Serving
<1> QED
  BY <1>1, Invariant, PTL

\* For any number of threads, and whatever analysts close and reopen: once its
\* thread is done, an event that was taken for an attack has its incident.
THEOREM AttacksAreTicketed == Spec => []AttackIsTicketed
<1>1. TInv => AttackIsTicketed
  BY DEF TInv, InHand, Ticketed, AttackIsTicketed
<1> QED
  BY <1>1, Invariant, PTL

-----------------------------------------------------------------------------
(* What the threads read of the incidents. *)

\* A flood incident of e's flow and port that is open and never was reopened.
Standing(x, e) ==
    /\ x.attack = "flood" /\ x.open /\ ~x.reopened
    /\ x.flow = e.flow /\ x.port = e.port

\* A thread that is about to open a flood's incident looked at some of those in
\* inc, and none of them stands.
Looked(inc, x) ==
    x.pc = "incident" /\ x.event.attack = "flood" =>
      /\ x.known <= Len(inc)
      /\ \A k \in DOMAIN inc : k <= x.known => ~Standing(inc[k], x.event)

\* Nor does one of those that the thread of an incident looked at: only
\* reopening makes one open again.
FloodInv ==
    /\ \A l \in DOMAIN incidents, k \in DOMAIN incidents :
         k < l /\ incidents[l].attack = "flood" /\ k <= incidents[l].known =>
           ~Standing(incidents[k], incidents[l])
    /\ \A t \in Thread : Looked(incidents, thread[t])

\* A thread that is not about to open an incident has claimed nothing.
LEMMA FloodThread ==
    ASSUME FloodInv, UNCHANGED incidents, NEW t, NEW p, NEW p2, Moves(t, p, p2), p2 # "incident"
    PROVE  FloodInv'
<1>1. ASSUME NEW u \in Thread PROVE Looked(incidents, thread'[u])
  <2>1. CASE u = t
    BY <2>1 DEF Moves, Looked
  <2>2. CASE u # t
    BY <2>2 DEF Moves, FloodInv
  <2> QED
    BY <2>1, <2>2
<1> QED
  BY <1>1 DEF FloodInv

LEMMA MatchRulesKeepsFlood ==
    ASSUME TInv, FloodInv, NEW t \in Thread, MatchRules(t)
    PROVE  FloodInv'
<1> DEFINE e == thread[t].event
<1>1. CASE OpenDuplicate(e)
  <2>1. Moves(t, "rules", "idle") /\ UNCHANGED incidents
    BY <1>1, MatchRulesIs
  <2> QED
    BY <2>1, FloodThread
<1>2. CASE ~OpenDuplicate(e)
  <2>1. /\ Moves(t, "rules", "incident") /\ thread'[t].event = e
        /\ thread'[t].known = Len(incidents) /\ UNCHANGED incidents
    BY <1>2, MatchRulesIs
  <2>2. e.attack = "flood" => \A k \in DOMAIN incidents : ~Standing(incidents[k], e)
    BY <1>2 DEF OpenDuplicate, Standing
  <2>3. Len(incidents) \in Nat
    BY LenProperties DEF TInv
  <2>4. ASSUME NEW u \in Thread PROVE Looked(incidents, thread'[u])
    <3>1. CASE u = t
      BY <2>1, <2>2, <2>3, <3>1 DEF Looked
    <3>2. CASE u # t
      BY <2>1, <3>2 DEF Moves, FloodInv
    <3> QED
      BY <3>1, <3>2
  <2> QED
    BY <2>1, <2>4 DEF FloodInv
<1> QED
  BY <1>1, <1>2

LEMMA OpenIncidentKeepsFlood ==
    ASSUME TInv, FloodInv, NEW t \in Thread, OpenIncident(t)
    PROVE  FloodInv'
<1> DEFINE n == Len(incidents) + 1
           e == thread[t].event
           m == thread[t].known
<1>1. /\ Moves(t, "incident", "idle")
      /\ DOMAIN incidents' = 1..n /\ DOMAIN incidents = 1..(n - 1) /\ n \in Nat \ {0}
      /\ \A k \in DOMAIN incidents : incidents'[k] = incidents[k]
      /\ incidents'[n] = [flow |-> e.flow, port |-> e.port, attack |-> e.attack,
                          row |-> thread[t].row, open |-> TRUE, known |-> m, reopened |-> FALSE]
  BY OpenIncidentIs
<1>2. /\ thread[t].pc = "incident" /\ Looked(incidents, thread[t])
      /\ Len(incidents) \in Nat /\ Len(incidents) = n - 1 /\ Len(incidents') = n
  <2>1. incidents \in Seq(Incident) /\ incidents' \in Seq(Incident)
    BY OpenIncidentIs DEF TInv
  <2>2. Len(incidents) \in Nat /\ Len(incidents') \in Nat /\ DOMAIN incidents' = 1..Len(incidents')
    BY <2>1, LenProperties
  <2> QED
    BY <1>1, <2>2 DEF FloodInv, Moves, At
<1>3. e.attack = "flood" => \A k \in DOMAIN incidents : k <= m => ~Standing(incidents[k], e)
  BY <1>2 DEF Looked
<1>4. /\ incidents'[n].attack = e.attack /\ incidents'[n].known = m
      /\ incidents'[n].flow = e.flow /\ incidents'[n].port = e.port
  BY <1>1
<1> HIDE DEF n, m, e
<1>5. \A k \in DOMAIN incidents' : k \in DOMAIN incidents \/ k = n
  BY <1>1
<1>6. ASSUME NEW l \in DOMAIN incidents', NEW k \in DOMAIN incidents', k < l,
             incidents'[l].attack = "flood", k <= incidents'[l].known
      PROVE  ~Standing(incidents'[k], incidents'[l])
  <2>1. k \in DOMAIN incidents
    BY <1>1, <1>5, <1>6
  <2>2. CASE l = n
    BY <1>1, <1>3, <1>4, <1>6, <2>1, <2>2 DEF Standing
  <2>3. CASE l \in DOMAIN incidents
    BY <1>1, <1>6, <2>1, <2>3 DEF FloodInv
  <2> QED
    BY <1>5, <2>2, <2>3
<1>7. ASSUME NEW u \in Thread, thread'[u].pc = "incident", thread'[u].event.attack = "flood"
      PROVE  /\ thread'[u].known <= n
             /\ \A k \in DOMAIN incidents' : k <= thread'[u].known => ~Standing(incidents'[k], thread'[u].event)
  <2>1. thread'[u] = thread[u] /\ thread[u].pc = "incident"
    BY <1>1, <1>7 DEF Moves
  <2>2. thread[u].known \in Nat /\ thread[u].known <= n - 1 /\ Looked(incidents, thread[u])
    BY <1>2, <1>7, <2>1 DEF FloodInv, Looked, TInv, Serving
  <2>3. \A k \in DOMAIN incidents' : k <= thread[u].known => k \in DOMAIN incidents
    BY <1>1, <1>5, <2>2
  <2> QED
    BY <1>1, <1>7, <2>1, <2>2, <2>3 DEF Looked
<1>8. \A u \in Thread : Looked(incidents', thread'[u])
  BY <1>2, <1>7 DEF Looked
<1> QED
  BY <1>6, <1>8 DEF FloodInv

LEMMA SetStatusKeepsFlood ==
    ASSUME TInv, FloodInv, NEW j \in DOMAIN incidents, SetStatus(j)
    PROVE  FloodInv'
<1>1. /\ incidents' \in Seq(Incident) /\ DOMAIN incidents' = DOMAIN incidents /\ thread' = thread
      /\ \A k \in DOMAIN incidents :
           /\ incidents'[k].flow = incidents[k].flow /\ incidents'[k].port = incidents[k].port
           /\ incidents'[k].attack = incidents[k].attack /\ incidents'[k].known = incidents[k].known
           /\ incidents[k].reopened => incidents'[k].reopened
           /\ incidents'[k].open => incidents[k].open \/ incidents'[k].reopened
  BY SetStatusIs
<1>2. Len(incidents') = Len(incidents)
  BY <1>1, LenProperties DEF TInv
<1>3. ASSUME NEW k \in DOMAIN incidents, NEW e, NEW f, f.flow = e.flow, f.port = e.port, ~Standing(incidents[k], e)
      PROVE  ~Standing(incidents'[k], f)
  BY <1>1, <1>3 DEF Standing
<1>4. \A l, k \in DOMAIN incidents' :
         k < l /\ incidents'[l].attack = "flood" /\ k <= incidents'[l].known =>
           ~Standing(incidents'[k], incidents'[l])
  BY <1>1, <1>3 DEF FloodInv
<1>5. \A t \in Thread : Looked(incidents', thread[t])
  BY <1>1, <1>2, <1>3 DEF FloodInv, Looked
<1> QED
  BY <1>1, <1>4, <1>5 DEF FloodInv

LEMMA StoreEventKeepsFlood ==
    ASSUME TInv, FloodInv, NEW t \in Thread, StoreEvent(t)
    PROVE  FloodInv'
<1> DEFINE e == thread[t].event
<1>1. /\ \/ Moves(t, "store", "idle")
         \/ Moves(t, "store", AfterStore(e)) /\ thread'[t].event = e
      /\ UNCHANGED incidents
  BY StoreEventIs
<1>2. Looked(incidents, thread'[t])
  BY <1>1 DEF Moves, AfterStore, Looked
<1>3. \A u \in Thread \ {t} : thread'[u] = thread[u]
  BY <1>1 DEF Moves
<1>4. \A u \in Thread : Looked(incidents, thread'[u])
  BY <1>2, <1>3 DEF FloodInv
<1> QED
  BY <1>1, <1>4 DEF FloodInv

LEMMA NextFlood == TInv /\ FloodInv /\ [Next]_vars => FloodInv'
<1> SUFFICES ASSUME TInv, FloodInv, [Next]_vars PROVE FloodInv'
  OBVIOUS
<1>1. ASSUME NEW t \in Thread, Receive(t) PROVE FloodInv'
  <2>1. FirstStep(thread'[t].event) # "incident"
    BY DEF FirstStep
  <2> QED
    BY <1>1, <2>1, ReceiveIs, FloodThread
<1>2. ASSUME NEW t \in Thread, CheckScan(t) \/ CountPorts(t) PROVE FloodInv'
  <2>1. AfterScan(thread[t].event) # "incident"
    BY DEF AfterScan
  <2> QED
    BY <1>2, <2>1, CheckScanIs, CountPortsIs, FloodThread
<1>3. ASSUME NEW t \in Thread, CheckFlood(t) \/ CountConnections(t) PROVE FloodInv'
  BY <1>3, CheckFloodIs, CountConnectionsIs, FloodThread
<1>4. ASSUME NEW k \in DOMAIN incidents, SetStatus(k) PROVE FloodInv'
  BY <1>4, SetStatusKeepsFlood
<1>5. CASE UNCHANGED vars
  BY <1>5 DEF vars, FloodInv
<1> QED
  BY <1>1, <1>2, <1>3, <1>4, <1>5, StoreEventKeepsFlood, MatchRulesKeepsFlood,
     OpenIncidentKeepsFlood DEF Next, Ingest

\* For any number of threads, and whatever analysts close and reopen: of two
\* open incidents about one flood, the later one's thread looked for a duplicate
\* before the earlier one was stored, or an analyst reopened the earlier one.
THEOREM FloodsAreOpenOnce == Spec => []OneOpenFlood
<1>1. Init => FloodInv
  <2> SUFFICES ASSUME Init PROVE FloodInv
    OBVIOUS
  <2>1. DOMAIN incidents = {} /\ \A t \in Thread : thread[t].pc = "idle"
    BY EmptySeq, IdleIs DEF Init
  <2> QED
    BY <2>1 DEF FloodInv, Looked
<1>2. TInv /\ FloodInv /\ [Next]_vars => FloodInv'
  BY NextFlood
<1>3. TInv /\ FloodInv => OneOpenFlood
  <2> SUFFICES ASSUME TInv, FloodInv, NEW k \in DOMAIN incidents, NEW l \in DOMAIN incidents, k < l,
                      incidents[k].attack = "flood", incidents[l].attack = "flood",
                      incidents[k].open, incidents[k].flow = incidents[l].flow,
                      incidents[k].port = incidents[l].port
               PROVE  incidents[l].known < k \/ incidents[k].reopened
    BY DEF OneOpenFlood
  <2>1. k \in Nat /\ incidents[l].known \in Nat
    <3>1. DOMAIN incidents = 1..Len(incidents) /\ Len(incidents) \in Nat /\ incidents[l] \in Incident
      BY LenProperties, ElementOfSeq DEF TInv
    <3> QED
      BY <3>1 DEF Incident
  <2> QED
    BY <2>1 DEF FloodInv, Standing
<1> QED
  BY <1>1, <1>2, <1>3, Invariant, PTL DEF Spec

-----------------------------------------------------------------------------
(* What the threads read of the events: rows are never changed, so what a    *)
(* thread read of evs is so of every longer table.                            *)

IsScan(e) == e.attack \in {"allowed scan", "denied scan"}

\* A scan event of e's flow and kind lies within the window before e.
Reports(x, e) == x.attack = ScanAttack(e) /\ x.flow = e.flow /\ Within(x, e, Window)

Reported(evs, e, n) == \E j \in 1..n : Reports(evs[j], e)

\* The rows up to n that follow row i under a type.
Later(evs, type, i, n) == {k \in (i + 1)..n : Type(evs[k]) = type}

\* Of the rows that the check of e could see, none is a report.
Unseen(evs, e) ==
    \A i \in 1..e.read :
        Reports(evs[i], e) => MarkerLimit <= Cardinality(Later(evs, "network.scan", i, e.read))

Trying(evs, e) ==
    {k \in 1..e.read : /\ evs[k].flow = e.flow /\ evs[k].kind = e.kind
                       /\ evs[k].attack # "flood"
                       /\ Within(evs[k], e, Window)
                       /\ Cardinality(Later(evs, PlainType(e), k, e.read)) < EventLimit}

TriedIn(evs, e) == {e.port} \cup {evs[k].port : k \in Trying(evs, e)}

\* The enrichment of e, which had n rows before it, has its answer: e is a scan
\* and none was seen, or one is reported, or too few ports were tried.
Settled(evs, e, n) ==
    /\ e.read \in 0..n
    /\ IsScan(e) => Unseen(evs, e)
    /\ ~IsScan(e) /\ e.kind # "other" =>
         Reported(evs, e, n) \/ ~(Cardinality(TriedIn(evs, e)) >= MinPorts)

Answered(evs, x) ==
    /\ x.pc = "ports" => x.event.read \in 0..Len(evs) /\ Unseen(evs, x.event)
    /\ x.pc \in {"flood", "connections", "store"} => Settled(evs, x.event, Len(evs))

ScanInv ==
    /\ \A i \in DOMAIN events : Settled(events, events[i], i - 1)
    /\ \A t \in Thread : Answered(events, thread[t])

\* evs2 has the rows of evs, and more of them perhaps.
Extends(evs2, evs) ==
    /\ Len(evs) \in Nat /\ Len(evs2) \in Nat /\ Len(evs) <= Len(evs2)
    /\ \A i \in 1..Len(evs) : evs2[i] = evs[i]

LEMMA ReadStands ==
    ASSUME NEW evs, NEW evs2, Extends(evs2, evs), NEW e, e.read \in 0..Len(evs)
    PROVE  /\ TriedIn(evs2, e) = TriedIn(evs, e)
           /\ Unseen(evs, e) => Unseen(evs2, e)
<1>1. \A k \in 1..e.read : k \in 1..Len(evs) /\ evs2[k] = evs[k]
  BY DEF Extends
<1>2. ASSUME NEW type, NEW i \in 1..e.read PROVE Later(evs2, type, i, e.read) = Later(evs, type, i, e.read)
  <2>1. \A k \in (i + 1)..e.read : k \in 1..e.read
    BY DEF Extends
  <2> QED
    BY <1>1, <2>1 DEF Later
<1>3. Trying(evs2, e) = Trying(evs, e)
  BY <1>1, <1>2 DEF Trying
<1>4. \A k \in Trying(evs, e) : evs2[k] = evs[k]
  BY <1>1 DEF Trying
<1> QED
  BY <1>1, <1>2, <1>3, <1>4 DEF TriedIn, Unseen

LEMMA SettledStands ==
    ASSUME NEW evs, NEW evs2, Extends(evs2, evs), NEW e, NEW n \in 0..Len(evs),
           NEW m \in 0..Len(evs2), n <= m, Settled(evs, e, n)
    PROVE  Settled(evs2, e, m)
<1>1. e.read \in 0..Len(evs) /\ e.read \in 0..m
  BY DEF Settled, Extends
<1>2. TriedIn(evs2, e) = TriedIn(evs, e) /\ (Unseen(evs, e) => Unseen(evs2, e))
  BY <1>1, ReadStands
<1>3. Reported(evs, e, n) => Reported(evs2, e, m)
  <2>1. \A j \in 1..n : j \in 1..m /\ evs2[j] = evs[j]
    BY DEF Extends
  <2> QED
    BY <2>1 DEF Reported
<1> QED
  BY <1>1, <1>2, <1>3 DEF Settled

\* Only the port, the flow, the kind, the time and the read of an event matter.
Alike(f, e) ==
    f.flow = e.flow /\ f.port = e.port /\ f.kind = e.kind /\ f.time = e.time

LEMMA AlikeRead ==
    ASSUME NEW evs, NEW e, NEW f, Alike(f, e)
    PROVE  /\ ScanAttack(f) = ScanAttack(e)
           /\ \A x : Reports(x, f) <=> Reports(x, e)
           /\ \A n : Reported(evs, f, n) <=> Reported(evs, e, n)
           /\ f.read = e.read =>
                TriedIn(evs, f) = TriedIn(evs, e) /\ (Unseen(evs, f) <=> Unseen(evs, e))
<1>1. ScanAttack(f) = ScanAttack(e) /\ PlainType(f) = PlainType(e)
  BY DEF Alike, ScanAttack, PlainType
<1>2. \A x : Within(x, f, Window) <=> Within(x, e, Window)
  BY DEF Alike, Within
<1>3. \A x : Reports(x, f) <=> Reports(x, e)
  BY <1>1, <1>2 DEF Alike, Reports
<1>4. ASSUME f.read = e.read PROVE TriedIn(evs, f) = TriedIn(evs, e)
  <2>1. Trying(evs, f) = Trying(evs, e)
    BY <1>1, <1>2, <1>4 DEF Trying, Alike
  <2> QED
    BY <2>1 DEF TriedIn, Alike
<1>5. ASSUME f.read = e.read PROVE Unseen(evs, f) <=> Unseen(evs, e)
  BY <1>3, <1>5 DEF Unseen
<1> QED
  BY <1>1, <1>3, <1>4, <1>5 DEF Reported

\* A scan is stored under a type of its own, and so is ordinary traffic.
LEMMA TypeIs ==
    ASSUME NEW x
    PROVE  /\ Type(x) = "network.scan" <=> IsScan(x)
           /\ x.attack = "none" => Type(x) = PlainType(x)
<1>1. CASE IsScan(x)
  BY <1>1 DEF Type, IsScan
<1>2. CASE x.attack = "flood"
  BY <1>2 DEF Type, IsScan
<1>3. CASE ~IsScan(x) /\ x.attack # "flood" /\ x.kind = "denied"
  BY <1>3 DEF Type, IsScan, PlainType
<1>4. CASE ~IsScan(x) /\ x.attack # "flood" /\ x.kind # "denied"
  BY <1>4 DEF Type, IsScan, PlainType
<1> QED
  BY <1>1, <1>2, <1>3, <1>4

\* A scan is one of its kind.
LEMMA ScanIs ==
    ASSUME NEW x, EventOK(x), IsScan(x)
    PROVE  x.attack = ScanAttack(x)
BY DEF EventOK, Event, Kind, IsScan, ScanAttack

\* A row is among the latest of its type while few follow it.
LEMMA LatestIs ==
    ASSUME TInv, NEW type, NEW n
    PROVE  \A i \in DOMAIN events :
             i \in Latest(type, n) <=>
               Type(events[i]) = type /\ Cardinality(Later(events, type, i, Len(events))) < n
<1> DEFINE N == Len(events)
<1>1. N \in Nat /\ DOMAIN events = 1..N
  <2>1. N \in 0..MaxEvents /\ DOMAIN events = 1..N /\ MaxEvents \in Nat
    BY TableLength, FlowAssumption
  <2> QED
    BY <2>1
<1> DEFINE I == {i \in DOMAIN events : Type(events[i]) = type}
<1> HIDE DEF N
<1>2. ASSUME NEW i \in DOMAIN events PROVE {j \in I : j > i} = Later(events, type, i, N)
  <2>1. \A j : j \in DOMAIN events /\ j > i <=> j \in (i + 1)..N
    BY <1>1
  <2> QED
    BY <2>1 DEF Later
<1>3. Latest(type, n) = {i \in I : Cardinality({j \in I : j > i}) < n}
  BY DEF Latest
<1> QED
  BY <1>2, <1>3 DEF N

\* The suppression: a report is seen, or none can be.
LEMMA CheckIs ==
    ASSUME TInv, NEW e, NEW f, Alike(f, e), f.read = Len(events)
    PROVE  /\ ScanSeen(e, ScanAttack(e)) => Reported(events, f, Len(events))
           /\ ~ScanSeen(e, ScanAttack(e)) => Unseen(events, f)
<1>1. Len(events) \in Nat /\ DOMAIN events = 1..Len(events)
  BY LenProperties DEF TInv, EventsOK
<1>2. \A i \in DOMAIN events :
        i \in Latest("network.scan", MarkerLimit) <=>
          Type(events[i]) = "network.scan"
          /\ Cardinality(Later(events, "network.scan", i, Len(events))) < MarkerLimit
  BY LatestIs
<1>3. Latest("network.scan", MarkerLimit) \subseteq DOMAIN events
  BY DEF Latest
<1>4. \A x : Reports(x, e) <=> Reports(x, f)
  BY AlikeRead
<1>5. ScanSeen(e, ScanAttack(e)) <=> \E i \in Latest("network.scan", MarkerLimit) : Reports(events[i], f)
  BY <1>4 DEF ScanSeen, Reports
<1>6. ASSUME NEW i \in DOMAIN events, Reports(events[i], f) PROVE Type(events[i]) = "network.scan"
  <2>1. IsScan(events[i])
    BY <1>6 DEF Reports, ScanAttack, IsScan
  <2> QED
    BY <2>1, TypeIs
<1>7. ASSUME NEW i \in DOMAIN events
      PROVE  LET c == Cardinality(Later(events, "network.scan", i, Len(events))) IN
             c < MarkerLimit \/ MarkerLimit <= c
  <2> DEFINE L == Later(events, "network.scan", i, Len(events))
  <2>0. i \in Nat /\ i + 1 \in Int /\ Len(events) \in Int
    BY <1>1
  <2>1. L \subseteq (i + 1)..Len(events) /\ IsFiniteSet((i + 1)..Len(events))
    BY <2>0, FS_Interval DEF Later
  <2>2. Cardinality(L) \in Nat
    BY <2>1, FS_Subset, FS_CardinalityType
  <2> QED
    BY <2>2, FlowAssumption
<1> QED
  BY <1>1, <1>2, <1>3, <1>5, <1>6, <1>7 DEF Reported, Unseen

\* The count: too few ports, unless one that was tried belongs to a report.
LEMMA CountIs ==
    ASSUME TInv, NEW e \in Event, e.kind # "other", NEW f, Alike(f, e), f.read = Len(events),
           ~(Cardinality(Ports(e)) >= MinPorts)
    PROVE  Reported(events, f, Len(events)) \/ ~(Cardinality(TriedIn(events, f)) >= MinPorts)
<1>1. Len(events) \in Nat /\ DOMAIN events = 1..Len(events)
  BY LenProperties DEF TInv, EventsOK
<1> SUFFICES ASSUME ~Reported(events, f, Len(events))
             PROVE  ~(Cardinality(TriedIn(events, f)) >= MinPorts)
  OBVIOUS
<1>2. ASSUME NEW k \in Trying(events, f) PROVE k \in Earlier(e)
  <2>1. /\ k \in DOMAIN events /\ events[k].flow = e.flow /\ events[k].kind = e.kind
        /\ events[k].attack # "flood" /\ Within(events[k], e, Window)
        /\ Cardinality(Later(events, PlainType(e), k, Len(events))) < EventLimit
    BY <1>1 DEF Trying, Alike, Within, PlainType
  <2>2. EventOK(events[k]) /\ ScanAttack(events[k]) = ScanAttack(e) /\ PlainType(events[k]) = PlainType(e)
    BY <2>1 DEF TInv, EventsOK, ScanAttack, PlainType
  <2>3. ~IsScan(events[k])
    <3>1. ASSUME IsScan(events[k]) PROVE FALSE
      <4>1. Reports(events[k], e)
        BY <2>1, <2>2, <3>1, ScanIs DEF Reports
      <4>2. Reports(events[k], f)
        BY <4>1, AlikeRead
      <4> QED
        BY <1>1, <2>1, <4>2 DEF Reported
    <3> QED
      BY <3>1
  <2>4. events[k].attack = "none"
    BY <2>1, <2>2, <2>3 DEF IsScan, EventOK, Event, Attack
  <2>5. Type(events[k]) = PlainType(e)
    BY <2>2, <2>4, TypeIs
  <2>6. k \in Latest(PlainType(e), EventLimit)
    BY <2>1, <2>5, LatestIs
  <2> QED
    BY <2>1, <2>6 DEF Earlier
<1>3. TriedIn(events, f) \subseteq Ports(e)
  BY <1>2 DEF TriedIn, Ports, Alike
<1>4. IsFiniteSet(Ports(e))
  <2>1. Earlier(e) \subseteq 1..Len(events) /\ IsFiniteSet(1..Len(events))
    <3>1. 1 \in Int /\ Len(events) \in Int
      BY <1>1
    <3> QED
      BY <1>1, <3>1, FS_Interval DEF Earlier, Latest
  <2>2. IsFiniteSet(Earlier(e))
    BY <2>1, FS_Subset
  <2> DEFINE S == {events[i].port : i \in Earlier(e)}
             g == [i \in Earlier(e) |-> events[i].port]
  <2>3. g \in Surjection(Earlier(e), S)
    BY DEF Surjection
  <2>4. IsFiniteSet(S)
    BY <2>2, <2>3, FS_Surjection
  <2>5. Ports(e) = S \cup {e.port}
    BY DEF Ports
  <2> HIDE DEF S
  <2> QED
    BY <2>4, <2>5, FS_AddElement
<1>5. /\ Cardinality(TriedIn(events, f)) \in Nat /\ Cardinality(Ports(e)) \in Nat
      /\ Cardinality(TriedIn(events, f)) <= Cardinality(Ports(e))
  BY <1>3, <1>4, FS_Subset, FS_CardinalityType
<1> QED
  BY <1>5, FlowAssumption

\* A step that stores nothing keeps the invariant if its thread has its answer.
LEMMA QuietStep ==
    ASSUME ScanInv, UNCHANGED events, NEW t, NEW p, NEW p2, Moves(t, p, p2),
           Answered(events, thread'[t])
    PROVE  ScanInv'
<1>1. \A u \in Thread : Answered(events, thread'[u])
  BY DEF Moves, ScanInv
<1> QED
  BY <1>1 DEF ScanInv

LEMMA NoAnswer ==
    ASSUME NEW evs, NEW x, x.pc \in {"idle", "scan", "rules", "incident"}
    PROVE  Answered(evs, x)
BY DEF Answered

LEMMA ReceiveKeepsScan ==
    ASSUME TInv, ScanInv, NEW t \in Thread, Receive(t)
    PROVE  ScanInv'
<1> DEFINE e == thread'[t].event
<1>1. /\ Moves(t, "idle", FirstStep(e)) /\ e.attack = "none" /\ e.read = 0
      /\ UNCHANGED events
  BY ReceiveIs
<1>2. Len(events) \in Nat
  BY LenProperties DEF TInv, EventsOK
<1>3. CASE e.kind = "other"
  <2>1. Settled(events, e, Len(events))
    BY <1>1, <1>2, <1>3 DEF Settled, IsScan
  <2>2. thread'[t].pc = "store"
    BY <1>1, <1>3 DEF Moves, FirstStep
  <2> QED
    BY <1>1, <2>1, <2>2, QuietStep DEF Answered
<1>4. CASE e.kind # "other"
  <2>1. thread'[t].pc = "scan"
    BY <1>1, <1>4 DEF Moves, FirstStep
  <2> QED
    BY <1>1, <2>1, QuietStep, NoAnswer
<1> QED
  BY <1>3, <1>4

LEMMA CheckScanKeepsScan ==
    ASSUME TInv, ScanInv, NEW t \in Thread, CheckScan(t)
    PROVE  ScanInv'
<1> DEFINE e == thread[t].event
           f == [e EXCEPT !.read = Len(events)]
<1>1. PICK p \in Pc :
        /\ p = IF ScanSeen(e, ScanAttack(e)) THEN AfterScan(e) ELSE "ports"
        /\ Moves(t, "scan", p) /\ thread'[t].event = f /\ UNCHANGED events
  BY CheckScanIs
<1>2. e \in Event /\ e.attack = "none"
  BY DEF CheckScan, At, TInv, ThreadOK, EventOK
<1>3. Alike(f, e) /\ f.attack = "none" /\ f.read = Len(events)
  BY <1>2, TableLength, LabelIs DEF Alike
<1>4. Len(events) \in Nat
  BY LenProperties DEF TInv, EventsOK
<1> HIDE DEF e, f
<1>5. thread'[t].pc = p
  BY <1>1 DEF Moves
<1>6. CASE ScanSeen(e, ScanAttack(e))
  <2>1. Settled(events, f, Len(events))
    BY <1>3, <1>4, <1>6, CheckIs DEF Settled, IsScan
  <2>2. p \in {"flood", "store"}
    BY <1>1, <1>6 DEF AfterScan
  <2>3. Answered(events, thread'[t])
    BY <1>1, <1>5, <2>1, <2>2 DEF Answered
  <2> QED
    BY <1>1, <2>3, QuietStep
<1>7. CASE ~ScanSeen(e, ScanAttack(e))
  <2>1. Unseen(events, f) /\ f.read \in 0..Len(events)
    BY <1>3, <1>4, <1>7, CheckIs
  <2>2. Answered(events, thread'[t])
    BY <1>1, <1>5, <1>7, <2>1 DEF Answered
  <2> QED
    BY <1>1, <2>2, QuietStep
<1> QED
  BY <1>6, <1>7

LEMMA CountPortsKeepsScan ==
    ASSUME TInv, ScanInv, NEW t \in Thread, CountPorts(t)
    PROVE  ScanInv'
<1> DEFINE e == thread[t].event
           f == [e EXCEPT !.attack = ScanAttack(e)]
           g == [e EXCEPT !.read = Len(events)]
<1>1. /\ \/ Moves(t, "ports", "store") /\ thread'[t].event = f
         \/ /\ Moves(t, "ports", AfterScan(e)) /\ thread'[t].event = g
            /\ ~(Cardinality(Ports(e)) >= MinPorts)
      /\ UNCHANGED events
  BY CountPortsIs
<1>2. e \in Event /\ e.attack = "none" /\ e.kind # "other"
      /\ e.read \in 0..Len(events) /\ Unseen(events, e)
  BY DEF CountPorts, At, TInv, ThreadOK, EventOK, ScanInv, Answered
<1>3. Alike(f, e) /\ f.read = e.read /\ IsScan(f)
  <2>1. ScanAttack(e) \in Attack /\ ScanAttack(e) \in {"allowed scan", "denied scan"}
    BY DEF ScanAttack, Attack
  <2> QED
    BY <1>2, <2>1, LabelIs DEF Alike, IsScan
<1>4. Alike(g, e) /\ g.attack = "none" /\ g.read = Len(events)
  BY <1>2, TableLength, LabelIs DEF Alike
<1>5. Len(events) \in Nat
  BY LenProperties DEF TInv, EventsOK
<1> HIDE DEF e, f, g
<1>6. CASE Moves(t, "ports", "store") /\ thread'[t].event = f
  <2>1. Unseen(events, f)
    BY <1>2, <1>3, AlikeRead
  <2>2. Settled(events, f, Len(events))
    BY <1>2, <1>3, <2>1 DEF Settled
  <2>3. Answered(events, thread'[t])
    BY <1>6, <2>2 DEF Moves, Answered
  <2> QED
    BY <1>1, <1>6, <2>3, QuietStep
<1>7. CASE /\ Moves(t, "ports", AfterScan(e)) /\ thread'[t].event = g
           /\ ~(Cardinality(Ports(e)) >= MinPorts)
  <2>1. Reported(events, g, Len(events)) \/ ~(Cardinality(TriedIn(events, g)) >= MinPorts)
    BY <1>2, <1>4, <1>7, CountIs
  <2>2. Settled(events, g, Len(events))
    BY <1>4, <1>5, <2>1 DEF Settled, IsScan
  <2>3. AfterScan(e) # "ports"
    BY DEF AfterScan
  <2>4. Answered(events, thread'[t])
    BY <1>7, <2>2, <2>3 DEF Moves, Answered
  <2> QED
    BY <1>1, <1>7, <2>4, QuietStep
<1> QED
  BY <1>1, <1>6, <1>7

LEMMA FloodStepsKeepScan ==
    ASSUME TInv, ScanInv, NEW t \in Thread, CheckFlood(t) \/ CountConnections(t)
    PROVE  ScanInv'
<1> DEFINE e == thread[t].event
           f == [e EXCEPT !.attack = "flood"]
<1>1. PICK p \in {"flood", "connections"}, p2 \in {"store", "connections"} :
        Moves(t, p, p2) /\ thread'[t].event \in {e, f} /\ UNCHANGED events
  <2>1. CASE CheckFlood(t)
    BY <2>1, CheckFloodIs
  <2>2. CASE CountConnections(t)
    BY <2>2, CountConnectionsIs
  <2> QED
    BY <2>1, <2>2
<1>2. /\ e \in Event /\ e.attack = "none" /\ e.kind # "other"
      /\ Settled(events, e, Len(events))
  BY DEF CheckFlood, CountConnections, At, TInv, ThreadOK, EventOK, ScanInv, Answered
<1>3. Alike(f, e) /\ f.read = e.read /\ f.attack = "flood"
  BY <1>2, LabelIs DEF Alike, Attack
<1> HIDE DEF e, f
<1>4. Settled(events, f, Len(events))
  <2>1. TriedIn(events, f) = TriedIn(events, e)
        /\ (Reported(events, f, Len(events)) <=> Reported(events, e, Len(events)))
    BY <1>3, AlikeRead
  <2> QED
    BY <1>2, <1>3, <2>1 DEF Settled, IsScan, Alike
<1>5. Answered(events, thread'[t])
  BY <1>1, <1>2, <1>4 DEF Moves, Answered
<1> QED
  BY <1>1, <1>5, QuietStep

LEMMA StoreEventKeepsScan ==
    ASSUME TInv, ScanInv, NEW t \in Thread, StoreEvent(t)
    PROVE  ScanInv'
<1> DEFINE n == Len(events) + 1
           e == thread[t].event
<1>1. /\ Len(events') = n /\ DOMAIN events' = 1..n
      /\ events'[n] = e /\ \A i \in DOMAIN events : events'[i] = events[i]
      /\ thread'[t].pc \in {"idle", "rules", "incident"}
      /\ \A u \in Thread \ {t} : thread'[u] = thread[u]
  BY StoreEventIs DEF Moves, AfterStore
<1>2. DOMAIN events = 1..(n - 1) /\ n - 1 \in Nat /\ n \in Nat /\ Len(events) = n - 1
  <2>1. Len(events) \in Nat /\ DOMAIN events = 1..Len(events)
    BY LenProperties DEF TInv, EventsOK
  <2> QED
    BY <2>1
<1>3. Extends(events', events)
  BY <1>1, <1>2 DEF Extends
<1>4. Settled(events, e, n - 1)
  BY <1>2 DEF ScanInv, StoreEvent, At, Answered
<1> HIDE DEF n, e
<1>5. ASSUME NEW i \in DOMAIN events' PROVE Settled(events', events'[i], i - 1)
  <2>1. CASE i \in DOMAIN events
    <3>1. Settled(events, events[i], i - 1) /\ i - 1 \in 0..Len(events) /\ i - 1 \in 0..Len(events')
      BY <1>1, <1>2, <2>1 DEF ScanInv
    <3> QED
      BY <1>1, <1>3, <2>1, <3>1, SettledStands
  <2>2. CASE i = n
    <3>1. n - 1 \in 0..Len(events) /\ n - 1 \in 0..Len(events') /\ n - 1 <= n - 1
      BY <1>1, <1>2
    <3> QED
      BY <1>1, <1>3, <1>4, <2>2, <3>1, SettledStands
  <2> QED
    BY <1>1, <1>2, <2>1, <2>2
<1>6. ASSUME NEW u \in Thread PROVE Answered(events', thread'[u])
  <2>1. CASE u = t
    BY <1>1, <2>1, NoAnswer
  <2>2. CASE u # t
    <3> DEFINE x == thread[u]
    <3>1. thread'[u] = x /\ Answered(events, x)
      BY <1>1, <2>2 DEF ScanInv
    <3> HIDE DEF x
    <3>2. Len(events) \in 0..Len(events) /\ Len(events') \in 0..Len(events') /\ Len(events) <= Len(events')
      BY <1>1, <1>2
    <3>3. x.pc = "ports" => x.event.read \in 0..Len(events') /\ Unseen(events', x.event)
      <4>1. CASE x.pc = "ports"
        <5>1. x.event.read \in 0..Len(events) /\ Unseen(events, x.event)
          BY <3>1, <4>1 DEF Answered
        <5> QED
          BY <1>1, <1>2, <1>3, <5>1, ReadStands
      <4> QED
        BY <4>1
    <3>4. x.pc \in {"flood", "connections", "store"} => Settled(events', x.event, Len(events'))
      BY <1>3, <3>1, <3>2, SettledStands DEF Answered
    <3> QED
      BY <3>1, <3>3, <3>4 DEF Answered
  <2> QED
    BY <2>1, <2>2
<1> QED
  BY <1>5, <1>6 DEF ScanInv

LEMMA NextScan == TInv /\ ScanInv /\ [Next]_vars => ScanInv'
<1> SUFFICES ASSUME TInv, ScanInv, [Next]_vars PROVE ScanInv'
  OBVIOUS
<1>1. ASSUME NEW t \in Thread, MatchRules(t) \/ OpenIncident(t) PROVE ScanInv'
  <2>1. PICK p \in {"rules", "incident"}, p2 \in {"idle", "incident"} : Moves(t, p, p2) /\ UNCHANGED events
    <3>1. CASE MatchRules(t)
      BY <3>1, MatchRulesIs
    <3>2. CASE OpenIncident(t)
      BY <3>2, OpenIncidentIs
    <3> QED
      BY <1>1, <3>1, <3>2
  <2>2. Answered(events, thread'[t])
    BY <2>1, NoAnswer DEF Moves
  <2> QED
    BY <2>1, <2>2, QuietStep
<1>2. ASSUME NEW k \in DOMAIN incidents, SetStatus(k) PROVE ScanInv'
  BY <1>2, SetStatusIs DEF ScanInv
<1>3. CASE UNCHANGED vars
  BY <1>3 DEF vars, ScanInv
<1> QED
  BY <1>1, <1>2, <1>3, ReceiveKeepsScan, CheckScanKeepsScan, CountPortsKeepsScan,
     FloodStepsKeepScan, StoreEventKeepsScan DEF Next, Ingest

LEMMA ScanInvariant == Spec => []ScanInv
<1>1. Init => ScanInv
  <2> SUFFICES ASSUME Init PROVE ScanInv
    OBVIOUS
  <2>1. DOMAIN events = {} /\ \A t \in Thread : thread[t].pc = "idle"
    BY EmptySeq, IdleIs DEF Init
  <2> QED
    BY <2>1, NoAnswer DEF ScanInv
<1> QED
  BY <1>1, NextScan, Invariant, PTL DEF Spec

\* For any number of threads, any order of the records' times and any limits:
\* two scan events of a flow lie a window apart, unless the later one's record
\* is the older, or its check could not see the earlier one, which was stored
\* after it or lay behind MarkerLimit others.
THEOREM ScansAreReportedOnce == Spec => []ScansAreApart
<1>1. TInv /\ ScanInv => ScansAreApart
  <2> SUFFICES ASSUME TInv, ScanInv, NEW i \in DOMAIN events, NEW j \in DOMAIN events, i < j,
                      IsScan(events[i]), events[j].attack = events[i].attack,
                      events[j].flow = events[i].flow
               PROVE  \/ events[j].time > events[i].time + Window
                      \/ events[j].time < events[i].time
                      \/ events[j].read < i
                      \/ MarkerLimit <= Cardinality(Later(events, "network.scan", i, events[j].read))
    BY DEF ScansAreApart, IsScan, Later
  <2> DEFINE e == events[j]
  <2>1. EventOK(e) /\ IsScan(e) /\ events[i].time \in Int /\ e.time \in Int
    <3>1. EventOK(events[i]) /\ EventOK(e)
      BY DEF TInv, EventsOK
    <3>2. events[i].time \in 0..MaxTime /\ e.time \in 0..MaxTime
      BY <3>1 DEF EventOK, Event
    <3>3. IsScan(e)
      BY DEF IsScan
    <3> HIDE DEF e
    <3> QED
      BY <3>1, <3>2, <3>3, FlowAssumption
  <2>2. e.read \in Nat /\ Unseen(events, e)
    BY <2>1 DEF ScanInv, Settled
  <2>3. i \in Nat \ {0}
    BY LenProperties DEF TInv, EventsOK
  <2>4. e.attack = ScanAttack(e)
    BY <2>1, ScanIs
  <2>5. CASE i \in 1..e.read /\ Within(events[i], e, Window)
    <3>1. Reports(events[i], e)
      BY <2>4, <2>5 DEF Reports
    <3> QED
      BY <2>2, <2>5, <3>1 DEF Unseen
  <2>6. CASE i \notin 1..e.read
    BY <2>2, <2>3, <2>6
  <2>7. CASE ~Within(events[i], e, Window)
    BY <2>1, <2>7, FlowAssumption DEF Within
  <2> QED
    BY <2>5, <2>6, <2>7
<1> QED
  BY <1>1, Invariant, ScanInvariant, PTL

\* For any number of threads, any order of the records' times and any limits:
\* whoever tried MinPorts ports within the window, by the rows that the count
\* could see, has a scan event in that window by then.
THEOREM ScansAreNoticed == Spec => []ScanIsNoticed
<1>1. TInv /\ ScanInv => ScanIsNoticed
  <2> SUFFICES ASSUME TInv, ScanInv, NEW i \in DOMAIN events, events[i].kind # "other",
                      Cardinality(Tried(events[i])) >= MinPorts
               PROVE  \E j \in 1..i : /\ events[j].attack = ScanAttack(events[i])
                                      /\ events[j].flow = events[i].flow
                                      /\ Within(events[j], events[i], Window)
    BY DEF ScanIsNoticed
  <2> DEFINE e == events[i]
  <2>1. Tried(e) = TriedIn(events, e)
    BY DEF Tried, TriedIn, Trying, Later
  <2>2. EventOK(e) /\ e.time \in Int /\ i \in Nat \ {0}
    <3>1. EventOK(e) /\ i \in 1..Len(events) /\ Len(events) \in Nat
      BY LenProperties DEF TInv, EventsOK
    <3>2. e.time \in 0..MaxTime
      BY <3>1 DEF EventOK, Event
    <3> HIDE DEF e
    <3> QED
      BY <3>1, <3>2, FlowAssumption
  <2>3. Settled(events, e, i - 1)
    BY DEF ScanInv
  <2>4. CASE IsScan(e)
    <3>1. Within(e, e, Window)
      BY <2>2, FlowAssumption DEF Within
    <3> QED
      BY <2>2, <2>4, <3>1, ScanIs
  <2>5. CASE ~IsScan(e)
    <3>1. Reported(events, e, i - 1)
      BY <2>1, <2>3, <2>5 DEF Settled
    <3>2. \A j \in 1..(i - 1) : j \in 1..i
      BY <2>2
    <3> QED
      BY <3>1, <3>2 DEF Reported, Reports
  <2> QED
    BY <2>4, <2>5
<1> QED
  BY <1>1, Invariant, ScanInvariant, PTL
=============================================================================
