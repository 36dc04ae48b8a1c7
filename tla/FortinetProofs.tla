---------------------------- MODULE FortinetProofs ----------------------------
(***************************************************************************)
(* Theorems about the machines of MCFortinet, for any threads, blocks,     *)
(* collectors, tickets and bounds.  A machine is one behaviour of the      *)
(* whole: `part' never changes, and the others stand still.                *)
(***************************************************************************)
EXTENDS MCFortinet, Integers, SequenceTheorems, FiniteSetTheorems,
        WellFoundedInduction, TLAPS

-----------------------------------------------------------------------------
(* The page and what it is told. *)

\* An event about tickets of m; one that the page shows is about one ticket.
Message(m) ==
    {e \in RF!Event : e.about \subseteq m /\ (e.type = "incident" => \E t \in m : e.about = {t})}

\* Some event of q is about t.
Tells(q, t) == \E k \in DOMAIN q : t \in q[k].about

\* A request for the list is under way that will bring t.
Asked(t) ==
    \E p \in {"list", "again"} : fetch[p] # None /\ (fetch[p] = RF!Sent \/ t \in fetch[p].found)

Coming(t) == (\E h \in Handler : Tells(thread[h], t)) \/ Tells(queue, t) \/ Asked(t)

FeedTypes ==
    /\ tickets \subseteq made /\ made \subseteq Ticket
    /\ thread \in [Handler -> Seq(Message(made))]
    /\ stream \in {"closed", "greeted", "open"}
    /\ subscribed \in BOOLEAN /\ (subscribed => stream = "open")
    /\ queue \in Seq(Message(made)) /\ Len(queue) <= QueueSize
    /\ \A k \in DOMAIN queue : queue[k].mine
    /\ queue # <<>> => stream = "open"
    /\ list \subseteq made /\ (cache # None => cache \subseteq list)
    /\ fetch \in [RF!Purpose -> RF!Fetch]
    /\ \A p \in RF!Purpose : fetch[p] # None => fetch[p].found \subseteq made

\* What was announced once is known.
Toasted == toasts \in [Ticket -> 0..1] /\ \A t \in Ticket : toasts[t] = 1 => t \in known

FeedInv ==
    /\ FeedTypes /\ Toasted
    /\ \A t \in tickets : t \in list \/ Coming(t) \/ t \in missed

-----------------------------------------------------------------------------
LEMMA MessagesGrow ==
    ASSUME NEW m, NEW n, m \subseteq n
    PROVE  /\ Message(m) \subseteq Message(n)
           /\ \A q \in Seq(Message(m)) : q \in Seq(Message(n))
<1>1. Message(m) \subseteq Message(n)
  BY DEF Message
<1> QED
  BY <1>1

\* The events of a queue after one was added, and after the first was taken.
LEMMA TellsAppended ==
    ASSUME NEW m, NEW q \in Seq(Message(m)), NEW e \in Message(m), NEW t
    PROVE  Tells(Append(q, e), t) <=> Tells(q, t) \/ t \in e.about
<1> DEFINE s == Append(q, e)
<1>1. /\ Len(s) = Len(q) + 1 /\ s[Len(q) + 1] = e /\ DOMAIN s = 1..(Len(q) + 1)
      /\ \A k \in 1..Len(q) : s[k] = q[k]
  BY AppendProperties
<1>2. Len(q) \in Nat /\ DOMAIN q = 1..Len(q)
  OBVIOUS
<1> HIDE DEF s
<1>3. 1..(Len(q) + 1) = 1..Len(q) \cup {Len(q) + 1}
  BY <1>2
<1>4. Tells(s, t) <=> Tells(q, t) \/ t \in e.about
  BY <1>1, <1>2, <1>3 DEF Tells
<1> QED
  BY <1>4 DEF s

LEMMA TellsTaken ==
    ASSUME NEW m, NEW q \in Seq(Message(m)), q # <<>>, NEW t
    PROVE  /\ Tells(q, t) <=> Tells(Tail(q), t) \/ t \in Head(q).about
           /\ Head(q) \in Message(m) /\ Tail(q) \in Seq(Message(m))
           /\ Len(Tail(q)) = Len(q) - 1
           /\ \A k \in DOMAIN Tail(q) : \E l \in DOMAIN q : Tail(q)[k] = q[l]
           /\ Head(q) = q[1] /\ 1 \in DOMAIN q
<1> DEFINE s == Tail(q)
<1>1. /\ s \in Seq(Message(m)) /\ Len(s) = Len(q) - 1 /\ \A k \in 1..Len(s) : s[k] = q[k + 1]
      /\ Head(q) = q[1] /\ Len(q) \in Nat \ {0}
  BY HeadTailProperties, EmptySeq
<1>2. DOMAIN s = 1..Len(s) /\ DOMAIN q = 1..Len(q) /\ Head(q) \in Message(m)
  BY <1>1
<1> HIDE DEF s
<1>3. \A k \in DOMAIN s : k + 1 \in DOMAIN q /\ s[k] = q[k + 1]
  BY <1>1, <1>2
<1>4. \A l \in DOMAIN q : l = 1 \/ (l - 1 \in DOMAIN s /\ s[l - 1] = q[l])
  BY <1>1, <1>2
<1>5. 1 \in DOMAIN q
  BY <1>1, <1>2
<1>6. Tells(q, t) <=> Tells(s, t) \/ t \in Head(q).about
  BY <1>1, <1>3, <1>4, <1>5 DEF Tells
<1> QED
  BY <1>1, <1>2, <1>3, <1>5, <1>6 DEF s

LEMMA AskIs ==
    /\ RF!Sent \in RF!Fetch /\ RF!Sent # None /\ RF!Sent.found = {} /\ RF!Sent.at = "sent"
    /\ {"list", "again"} \subseteq RF!Purpose
BY FeedAssumption DEF RF!Sent, RF!Fetch, RF!Purpose

-----------------------------------------------------------------------------
LEMMA IngestKeeps ==
    ASSUME FeedInv, NEW h \in Handler, NEW t \in Ticket, RF!Ingest(h, t)
    PROVE  FeedInv'
<1>1. PICK events \in {RF!BySyslog(t), RF!ByWebhook(t), RF!ByPoller(t)} :
        thread' = [thread EXCEPT ![h] = events]
  BY DEF RF!Ingest
<1>2. /\ thread[h] = <<>> /\ made' = made \cup {t} /\ tickets' = tickets \cup {t}
      /\ UNCHANGED <<stream, subscribed, queue, list, cache, fetch, known, toasts, missed>>
  BY DEF RF!Ingest, RF!page
<1>3. events \in Seq(Message(made')) /\ Tells(events, t)
  <2> DEFINE e == RF!Incident(t)
             f == [e EXCEPT !.type = "polled"]
  <2>0. (t \in Ticket) = TRUE
    OBVIOUS
  <2>1. e = [type |-> "incident", about |-> {t}, mine |-> TRUE]
    BY <2>0, Zenon DEF RF!Incident
  <2>2. \A r \in RF!Event : LET q == [r EXCEPT !.type = "polled"] IN
            q \in RF!Event /\ q.about = r.about /\ q.type = "polled"
    BY DEF RF!Event
  <2>3. {t} \in SUBSET Ticket /\ {t} \subseteq made' /\ t \in made'
    BY <1>2
  <2> HIDE DEF e
  <2>4. e \in RF!Event /\ f \in RF!Event /\ e.about = {t} /\ f.about = {t} /\ f.type = "polled"
    <3>1. e \in RF!Event /\ e.about = {t}
      BY <2>1, <2>3 DEF RF!Event
    <3> QED
      BY <2>2, <3>1
  <2> HIDE DEF f
  <2>5. e \in Message(made') /\ f \in Message(made') /\ t \in e.about /\ t \in f.about
    BY <2>3, <2>4 DEF Message
  <2>6. events = <<e, e>> \/ events = <<e>> \/ events = <<f>>
    BY <1>1 DEF e, f, RF!BySyslog, RF!ByWebhook, RF!ByPoller
  <2>7. CASE events = <<e, e>>
    BY <2>5, <2>7 DEF Tells
  <2>8. CASE events = <<e>>
    BY <2>5, <2>8 DEF Tells
  <2>9. CASE events = <<f>>
    BY <2>5, <2>9 DEF Tells
  <2> QED
    BY <2>6, <2>7, <2>8, <2>9
<1>4. made \subseteq made'
  BY <1>2
<1>5. FeedTypes'
  <2>1. \A g \in Handler : thread[g] \in Seq(Message(made')) /\ queue \in Seq(Message(made'))
    BY <1>4, MessagesGrow DEF FeedInv, FeedTypes
  <2>2. thread' \in [Handler -> Seq(Message(made'))]
    BY <1>1, <1>3, <2>1 DEF FeedInv, FeedTypes
  <2>3. queue' \in Seq(Message(made'))
    BY <1>2, <2>1
  <2> QED
    BY <1>2, <2>2, <2>3 DEF FeedInv, FeedTypes
<1>6. Toasted'
  BY <1>2 DEF FeedInv, Toasted
<1>7. \A u : Coming(u) => Coming(u)'
  <2>1. \A g \in Handler : g # h => thread'[g] = thread[g]
    BY <1>1 DEF FeedInv, FeedTypes
  <2>2. \A u : ~Tells(thread[h], u)
    BY <1>2 DEF Tells
  <2> QED
    BY <1>2, <2>1, <2>2 DEF Coming, Tells, Asked
<1>8. Coming(t)'
  BY <1>1, <1>3 DEF Coming, Tells, FeedInv, FeedTypes
<1> QED
  BY <1>2, <1>5, <1>6, <1>7, <1>8 DEF FeedInv

LEMMA StoreUntoldKeeps ==
    ASSUME FeedInv, NEW t \in Ticket, RF!StoreUntold(t)
    PROVE  FeedInv'
<1>1. /\ made' = made \cup {t} /\ tickets' = tickets \cup {t} /\ missed' = missed \cup {t}
      /\ UNCHANGED <<thread, stream, subscribed, queue, list, cache, fetch, known, toasts>>
  BY DEF RF!StoreUntold, RF!page
<1>2. FeedTypes'
  <2>1. made \subseteq made'
    BY <1>1
  <2>2. /\ thread \in [Handler -> Seq(Message(made))] /\ queue \in Seq(Message(made))
        /\ thread' = thread /\ queue' = queue
    BY <1>1 DEF FeedInv, FeedTypes
  <2>3. queue' \in Seq(Message(made'))
    BY <2>1, <2>2, MessagesGrow
  <2>4. thread' \in [Handler -> Seq(Message(made'))]
    BY <2>1, <2>2, MessagesGrow
  <2> QED
    BY <1>1, <2>3, <2>4 DEF FeedInv, FeedTypes
<1> QED
  BY <1>1, <1>2 DEF FeedInv, Toasted, Coming, Tells, Asked

LEMMA WipeKeeps ==
    ASSUME FeedInv, NEW h \in Handler, NEW mine \in BOOLEAN, RF!Wipe(h, mine)
    PROVE  FeedInv'
<1> DEFINE e == [type |-> "reset", about |-> {}, mine |-> mine]
<1>1. /\ tickets' = {} /\ thread' = [thread EXCEPT ![h] = <<e>>]
      /\ UNCHANGED <<made, stream, subscribed, queue, list, cache, fetch, known, toasts, missed>>
  BY DEF RF!Wipe, RF!page
<1>2. e \in Message(made)
  BY DEF Message, RF!Event
<1> HIDE DEF e
<1>3. thread' \in [Handler -> Seq(Message(made))]
  BY <1>1, <1>2 DEF FeedInv, FeedTypes
<1> QED
  BY <1>1, <1>3 DEF FeedInv, FeedTypes, Toasted

LEMMA PublishKeeps ==
    ASSUME FeedInv, NEW h \in Handler, RF!Publish(h)
    PROVE  FeedInv'
<1> DEFINE e == Head(thread[h])
<1>1. /\ thread[h] # <<>> /\ thread' = [thread EXCEPT ![h] = Tail(@)]
      /\ UNCHANGED <<tickets, made, stream, list, cache, fetch, known, toasts>>
      /\ \/ /\ subscribed /\ e.mine /\ RF!Room(queue) /\ queue' = Append(queue, e)
            /\ UNCHANGED <<subscribed, missed>>
         \/ /\ missed' = missed \cup e.about /\ subscribed' = (subscribed /\ ~e.mine)
            /\ UNCHANGED queue
  BY DEF RF!Publish, RF!page
<1>2. thread[h] \in Seq(Message(made))
  BY DEF FeedInv, FeedTypes
<1>3. /\ e \in Message(made) /\ Tail(thread[h]) \in Seq(Message(made))
      /\ \A t : Tells(thread[h], t) <=> Tells(Tail(thread[h]), t) \/ t \in e.about
  BY <1>1, <1>2, TellsTaken
<1> HIDE DEF e
<1>4. thread' \in [Handler -> Seq(Message(made))]
  BY <1>1, <1>3 DEF FeedInv, FeedTypes
<1>5. /\ queue' \in Seq(Message(made)) /\ Len(queue') <= QueueSize
      /\ \A k \in DOMAIN queue' : queue'[k].mine
      /\ subscribed' \in BOOLEAN /\ (subscribed' => stream' = "open")
      /\ queue' # <<>> => stream' = "open"
      /\ \A t : Tells(queue, t) => Tells(queue, t)'
      /\ \A t \in e.about : Tells(queue, t)' \/ t \in missed'
      /\ missed \subseteq missed'
  <2>1. CASE /\ missed' = missed \cup e.about /\ subscribed' = (subscribed /\ ~e.mine)
             /\ UNCHANGED queue
    <3>1. subscribed' \in BOOLEAN /\ (subscribed' => stream' = "open")
      BY <1>1, <2>1 DEF FeedInv, FeedTypes
    <3>2. /\ queue \in Seq(Message(made)) /\ Len(queue) <= QueueSize
          /\ \A k \in DOMAIN queue : queue[k].mine
          /\ queue # <<>> => stream = "open"
      BY DEF FeedInv, FeedTypes
    <3>3. queue' = queue /\ stream' = stream
      BY <1>1, <2>1
    <3>4. \A t : Tells(queue, t) => Tells(queue, t)'
      BY <3>3 DEF Tells
    <3>5. e.about \subseteq missed' /\ missed \subseteq missed'
      BY <2>1
    <3> QED
      BY <3>1, <3>2, <3>3, <3>4, <3>5
  <2>2. CASE /\ subscribed /\ e.mine /\ RF!Room(queue) /\ queue' = Append(queue, e)
             /\ UNCHANGED <<subscribed, missed>>
    <3>1. /\ queue \in Seq(Message(made)) /\ Len(queue) \in Nat /\ DOMAIN queue = 1..Len(queue)
          /\ stream = "open"
      BY <2>2 DEF FeedInv, FeedTypes
    <3>2. /\ queue' \in Seq(Message(made)) /\ Len(queue') = Len(queue) + 1
          /\ DOMAIN queue' = 1..(Len(queue) + 1) /\ queue'[Len(queue) + 1] = e
          /\ \A k \in 1..Len(queue) : queue'[k] = queue[k]
      BY <1>3, <2>2, <3>1, AppendProperties
    <3>3. Len(queue') <= QueueSize
      BY <2>2, <3>1, <3>2, FeedAssumption DEF RF!Room
    <3>4. \A k \in DOMAIN queue' : queue'[k].mine
      <4>1. 1..(Len(queue) + 1) = 1..Len(queue) \cup {Len(queue) + 1}
        BY <3>1
      <4> QED
        BY <2>2, <3>1, <3>2, <4>1 DEF FeedInv, FeedTypes
    <3>5. \A t : Tells(Append(queue, e), t) <=> Tells(queue, t) \/ t \in e.about
      BY <1>3, <3>1, TellsAppended
    <3>6. \A t : Tells(queue, t)' <=> Tells(queue, t) \/ t \in e.about
      BY <2>2, <3>5 DEF Tells
    <3> QED
      BY <1>1, <2>2, <3>1, <3>2, <3>3, <3>4, <3>6 DEF FeedInv, FeedTypes
  <2> QED
    BY <1>1, <2>1, <2>2
<1>6. FeedTypes'
  BY <1>1, <1>4, <1>5 DEF FeedInv, FeedTypes
<1>7. \A t : Coming(t) => Coming(t)' \/ t \in missed'
  <2>1. thread'[h] = Tail(thread[h]) /\ \A g \in Handler : g # h => thread'[g] = thread[g]
    BY <1>1 DEF FeedInv, FeedTypes
  <2>2. \A t : Tells(thread[h], t) => Tells(thread'[h], t) \/ t \in e.about
    BY <1>3, <2>1
  <2>3. \A t : \A g \in Handler : Tells(thread[g], t) => Tells(thread'[g], t) \/ t \in e.about
    BY <2>1, <2>2
  <2>4. \A t : Tells(queue, t) => Tells(queue', t)
    BY <1>5 DEF Tells
  <2>5. \A t \in e.about : Tells(queue', t) \/ t \in missed'
    BY <1>5 DEF Tells
  <2> SUFFICES ASSUME NEW t, Coming(t) PROVE Coming(t)' \/ t \in missed'
    OBVIOUS
  <2>6. Asked(t) => Asked(t)'
    BY <1>1 DEF Asked
  <2>7. ASSUME NEW g \in Handler, Tells(thread[g], t) PROVE Coming(t)' \/ t \in missed'
    <3>1. CASE t \in e.about
      BY <2>5, <3>1 DEF Coming, Tells
    <3>2. CASE Tells(thread'[g], t)
      BY <3>2 DEF Coming, Tells
    <3> QED
      BY <2>3, <2>7, <3>1, <3>2
  <2>8. Tells(queue, t) => Coming(t)'
    BY <2>4 DEF Coming, Tells
  <2> QED
    BY <2>6, <2>7, <2>8 DEF Coming
<1> QED
  BY <1>1, <1>5, <1>6, <1>7 DEF FeedInv, Toasted

LEMMA StreamKeeps ==
    ASSUME FeedInv, RF!Greet \/ RF!Subscribe \/ RF!Cut
    PROVE  FeedInv'
<1>1. UNCHANGED <<tickets, made, thread, list, cache, fetch, known, toasts>>
  BY DEF RF!Greet, RF!Subscribe, RF!Cut, RF!page
<1>2. Toasted'
  BY <1>1 DEF FeedInv, Toasted
<1>3. CASE RF!Greet \/ RF!Subscribe
  <2>1. UNCHANGED <<queue, missed>>
    BY <1>3 DEF RF!Greet, RF!Subscribe, RF!page
  <2>2. /\ stream' \in {"closed", "greeted", "open"} /\ subscribed' \in BOOLEAN
        /\ (subscribed' => stream' = "open") /\ (queue' # <<>> => stream' = "open")
    <3>1. CASE RF!Greet
      BY <2>1, <3>1 DEF FeedInv, FeedTypes, RF!Greet
    <3>2. CASE RF!Subscribe
      BY <2>1, <3>2 DEF FeedInv, FeedTypes, RF!Subscribe
    <3> QED
      BY <1>3, <3>1, <3>2
  <2>3. FeedTypes'
    BY <1>1, <2>1, <2>2 DEF FeedInv, FeedTypes
  <2> QED
    BY <1>1, <1>2, <2>1, <2>3 DEF FeedInv, Coming, Tells, Asked
<1>4. CASE RF!Cut
  <2>1. /\ stream' = "closed" /\ subscribed' = FALSE /\ queue' = <<>>
        /\ missed' = missed \cup UNION {e.about : e \in RF!Range(queue)}
    BY <1>4 DEF RF!Cut
  <2>2. <<>> \in Seq(Message(made)) /\ Len(<<>>) = 0 /\ DOMAIN <<>> = {}
    OBVIOUS
  <2>3. FeedTypes'
    <3>1. queue' \in Seq(Message(made')) /\ Len(queue') <= QueueSize /\ DOMAIN queue' = {}
      BY <1>1, <2>1, <2>2, FeedAssumption
    <3> QED
      BY <1>1, <2>1, <3>1 DEF FeedInv, FeedTypes
  <2>4. \A t : Tells(queue, t) => t \in missed'
    BY <2>1 DEF Tells, RF!Range
  <2>5. \A t : Coming(t) => Coming(t)' \/ t \in missed'
    BY <1>1, <2>4 DEF Coming, Tells, Asked
  <2> QED
    BY <1>1, <1>2, <2>1, <2>3, <2>5 DEF FeedInv
<1> QED
  BY <1>3, <1>4

LEMMA DeliverKeeps ==
    ASSUME FeedInv, RF!Deliver
    PROVE  FeedInv'
<1> DEFINE e == Head(queue)
<1>1. /\ stream = "open" /\ queue # <<>> /\ queue' = Tail(queue)
      /\ IF e.type = "incident" THEN RF!ShowTicket(e) ELSE RF!AskAgain(e)
      /\ UNCHANGED <<tickets, made, thread, stream, subscribed>>
  BY DEF RF!Deliver
<1>2. queue \in Seq(Message(made))
  BY DEF FeedInv, FeedTypes
<1>3. /\ e \in Message(made) /\ queue' \in Seq(Message(made)) /\ Len(queue') = Len(queue) - 1
      /\ \A k \in DOMAIN queue' : \E l \in DOMAIN queue : queue'[k] = queue[l]
      /\ \A t : Tells(queue, t) <=> Tells(queue', t) \/ t \in e.about
  BY <1>1, <1>2, TellsTaken
<1> HIDE DEF e
<1>4. Len(queue') <= QueueSize /\ \A k \in DOMAIN queue' : queue'[k].mine
  <2>1. Len(queue) \in Nat /\ Len(queue) <= QueueSize /\ QueueSize \in Nat
    BY <1>2, FeedAssumption DEF FeedInv, FeedTypes
  <2> QED
    BY <1>3, <2>1 DEF FeedInv, FeedTypes
<1>5. \A t : (\E h \in Handler : Tells(thread[h], t)) => \E h \in Handler : Tells(thread'[h], t)
  BY <1>1
<1>6. CASE e.type = "incident"
  <2>1. PICK t \in made : e.about = {t}
    BY <1>3, <1>6 DEF Message
  <2> DEFINE cached == (IF cache = None THEN {} ELSE cache) \cup e.about
  <2>2. /\ cache' = cached /\ list' = cached
        /\ missed' = IF cache = list THEN missed ELSE missed \cup (list \ cached)
        /\ toasts' = IF ready /\ t \notin known THEN [toasts EXCEPT ![t] = @ + 1] ELSE toasts
        /\ known' = known \cup {t} /\ fetch' = fetch
    BY <1>1, <1>6, <2>1 DEF RF!ShowTicket, RF!Announced, RF!Heard
  <2>3. list' \subseteq made /\ cache' = list' /\ t \in list'
    BY <2>1, <2>2 DEF FeedInv, FeedTypes
  <2>4. \A u \in list : u \in list' \/ u \in missed'
    <3>1. CASE cache = list /\ cache # None
      <4>1. list \subseteq cached
        BY <3>1
      <4> QED
        BY <2>2, <4>1
    <3>2. CASE cache = list /\ cache = None
      <4>1. list # None
        BY FeedAssumption DEF FeedInv, FeedTypes
      <4> QED
        BY <3>2, <4>1
    <3>3. CASE cache # list
      BY <2>2, <3>3
    <3> QED
      BY <3>1, <3>2, <3>3
  <2>5. missed \subseteq missed'
    BY <2>2
  <2> HIDE DEF cached
  <2>6. FeedTypes'
    BY <1>1, <1>3, <1>4, <2>2, <2>3 DEF FeedInv, FeedTypes
  <2>7. Toasted'
    <3>1. t \in Ticket /\ toasts \in [Ticket -> 0..1] /\ \A u \in Ticket : toasts[u] = 1 => u \in known
      BY <2>1 DEF FeedInv, FeedTypes, Toasted
    <3>2. CASE ready /\ t \notin known
      <4>1. toasts[t] = 0
        BY <3>1, <3>2
      <4>2. toasts' = [toasts EXCEPT ![t] = 1]
        BY <2>2, <3>2, <4>1
      <4> QED
        BY <2>2, <3>1, <4>2 DEF Toasted
    <3>3. CASE ~(ready /\ t \notin known)
      BY <2>2, <3>1, <3>3 DEF Toasted
    <3> QED
      BY <3>2, <3>3
  <2>8. \A u : Coming(u) => Coming(u)' \/ u \in list'
    <3>1. \A u : Tells(queue, u) => Tells(queue', u) \/ u \in list'
      BY <1>3, <2>1, <2>3
    <3>2. \A u : Asked(u) => Asked(u)'
      BY <2>2 DEF Asked
    <3> QED
      BY <1>5, <3>1, <3>2 DEF Coming
  <2> QED
    BY <1>1, <2>4, <2>5, <2>6, <2>7, <2>8 DEF FeedInv
<1>7. CASE e.type # "incident"
  <2>1. /\ fetch["again"] = None /\ fetch' = RF!Asking(fetch)
        /\ cache' = IF e.type = "reset" /\ cache # None THEN {} ELSE cache
        /\ UNCHANGED <<list, known, toasts, missed>>
    BY <1>1, <1>7 DEF RF!AskAgain
  <2>2. PICK p \in {"list", "again"} : fetch' = [fetch EXCEPT ![p] = RF!Sent]
    BY <2>1 DEF RF!Asking
  <2>3. /\ fetch' \in [RF!Purpose -> RF!Fetch] /\ fetch'[p] = RF!Sent
        /\ \A o \in RF!Purpose : o # p => fetch'[o] = fetch[o]
    BY <2>2, AskIs DEF FeedInv, FeedTypes
  <2>4. \A u : Asked(u)'
    BY <2>3, AskIs DEF Asked
  <2>5. \A o \in RF!Purpose : fetch'[o] # None => fetch'[o].found \subseteq made
    BY <2>3, AskIs DEF FeedInv, FeedTypes
  <2>6. list' \subseteq made /\ (cache' # None => cache' \subseteq list')
    BY <2>1 DEF FeedInv, FeedTypes
  <2>7. FeedTypes'
    BY <1>1, <1>3, <1>4, <2>3, <2>5, <2>6 DEF FeedInv, FeedTypes
  <2> QED
    BY <1>1, <2>1, <2>4, <2>7 DEF FeedInv, Coming, Toasted
<1> QED
  BY <1>6, <1>7

LEMMA ReadTicketsKeeps ==
    ASSUME FeedInv, NEW p \in RF!Purpose, RF!ReadTickets(p)
    PROVE  FeedInv'
<1> DEFINE f == [at |-> "read", found |-> tickets]
<1>1. /\ fetch[p] = RF!Sent /\ fetch' = [fetch EXCEPT ![p] = f]
      /\ UNCHANGED <<tickets, made, thread, stream, subscribed, queue, list, cache, known, toasts,
                     missed>>
  BY DEF RF!ReadTickets
<1>2. f \in RF!Fetch /\ f # None /\ f.found = tickets /\ tickets \subseteq made
  BY FeedAssumption DEF RF!Fetch, FeedInv, FeedTypes
<1> HIDE DEF f
<1>3. /\ fetch' \in [RF!Purpose -> RF!Fetch] /\ fetch'[p] = f
      /\ \A o \in RF!Purpose : o # p => fetch'[o] = fetch[o]
  BY <1>1, <1>2 DEF FeedInv, FeedTypes
<1>4. FeedTypes'
  BY <1>1, <1>2, <1>3 DEF FeedInv, FeedTypes
<1>5. \A t \in tickets : Coming(t) => Coming(t)'
  <2>1. ASSUME NEW t \in tickets, Asked(t) PROVE Asked(t)'
    <3>1. PICK o \in {"list", "again"} : fetch[o] # None /\ (fetch[o] = RF!Sent \/ t \in fetch[o].found)
      BY <2>1 DEF Asked
    <3>2. fetch'[o] # None /\ (fetch'[o] = RF!Sent \/ t \in fetch'[o].found)
      BY <1>2, <1>3, <3>1, AskIs
    <3> QED
      BY <3>2 DEF Asked
  <2> QED
    BY <1>1, <2>1 DEF Coming, Tells
<1> QED
  BY <1>1, <1>4, <1>5 DEF FeedInv, Toasted

\* A request is over: what it was to bring is shown, missed or brought otherwise.
LEMMA FetchEnds ==
    ASSUME FeedInv, NEW p \in RF!Purpose, fetch' = [fetch EXCEPT ![p] = None]
    PROVE  /\ fetch' \in [RF!Purpose -> RF!Fetch]
           /\ \A o \in RF!Purpose : fetch'[o] # None => fetch'[o].found \subseteq made
           /\ \A t : Asked(t) =>
                \/ Asked(t)'
                \/ p # "toasts" /\ (fetch[p] = RF!Sent \/ t \in fetch[p].found)
<1>1. /\ fetch' \in [RF!Purpose -> RF!Fetch] /\ fetch'[p] = None
      /\ \A o \in RF!Purpose : o # p => fetch'[o] = fetch[o]
  BY DEF FeedInv, FeedTypes, RF!Fetch
<1>2. ASSUME NEW t, Asked(t), ~(p # "toasts" /\ (fetch[p] = RF!Sent \/ t \in fetch[p].found))
      PROVE  Asked(t)'
  <2>1. PICK o \in {"list", "again"} : fetch[o] # None /\ (fetch[o] = RF!Sent \/ t \in fetch[o].found)
    BY <1>2 DEF Asked
  <2>2. o # p /\ fetch'[o] = fetch[o]
    BY <1>1, <1>2, <2>1, AskIs
  <2> QED
    BY <2>1, <2>2 DEF Asked
<1> QED
  BY <1>1, <1>2 DEF FeedInv, FeedTypes

LEMMA AnswerListKeeps ==
    ASSUME FeedInv, NEW p \in RF!Purpose, RF!AnswerList(p)
    PROVE  FeedInv'
<1>1. /\ fetch[p] # None /\ fetch[p].at = "read"
      /\ list' = fetch[p].found /\ cache' = fetch[p].found
      /\ missed' = missed \cup (list \ fetch[p].found)
      /\ fetch' = [fetch EXCEPT ![p] = None]
      /\ UNCHANGED <<tickets, made, thread, stream, subscribed, queue, known, toasts>>
  BY DEF RF!AnswerList
<1>2. fetch[p] # RF!Sent
  BY <1>1, AskIs
<1>3. list' \subseteq made
  BY <1>1 DEF FeedInv, FeedTypes
<1>4. FeedTypes'
  BY <1>1, <1>3, FetchEnds DEF FeedInv, FeedTypes
<1>5. \A t : Coming(t) => Coming(t)' \/ t \in list'
  <2>1. \A t : Asked(t) => Asked(t)' \/ t \in list'
    BY <1>1, <1>2, FetchEnds
  <2> QED
    BY <1>1, <2>1 DEF Coming, Tells
<1> QED
  BY <1>1, <1>4, <1>5 DEF FeedInv, Toasted

LEMMA AnswerToastsKeeps ==
    ASSUME FeedInv, RF!AnswerToasts
    PROVE  FeedInv'
<1>1. /\ fetch' = [fetch EXCEPT !["toasts"] = None] /\ known \subseteq known'
      /\ UNCHANGED <<tickets, made, thread, stream, subscribed, queue, list, cache, toasts, missed>>
  BY DEF RF!AnswerToasts
<1>2. "toasts" \in RF!Purpose
  BY DEF RF!Purpose
<1>3. FeedTypes' /\ \A t : Asked(t) => Asked(t)'
  BY <1>1, <1>2, FetchEnds DEF FeedInv, FeedTypes
<1> QED
  BY <1>1, <1>3 DEF FeedInv, Toasted, Coming, Tells

LEMMA FetchFailsKeeps ==
    ASSUME FeedInv, NEW p \in RF!Purpose, RF!FetchFails(p)
    PROVE  FeedInv'
<1>1. /\ fetch' = [fetch EXCEPT ![p] = None]
      /\ missed' = IF p = "toasts" THEN missed ELSE missed \cup (tickets \ list)
      /\ UNCHANGED <<tickets, made, thread, stream, subscribed, queue, list, cache, known, toasts>>
  BY DEF RF!FetchFails
<1>2. FeedTypes'
  BY <1>1, FetchEnds DEF FeedInv, FeedTypes
<1>3. \A t \in tickets : Asked(t) => Asked(t)' \/ t \in list' \/ t \in missed'
  BY <1>1, FetchEnds
<1> QED
  BY <1>1, <1>2, <1>3 DEF FeedInv, Toasted, Coming, Tells

LEMMA CollectKeeps ==
    ASSUME FeedInv, RF!Collect
    PROVE  FeedInv'
<1>1. /\ cache' = None
      /\ UNCHANGED <<tickets, made, thread, stream, subscribed, queue, list, fetch, known, toasts,
                     missed>>
  BY DEF RF!Collect
<1>2. FeedTypes'
  BY <1>1 DEF FeedInv, FeedTypes
<1> QED
  BY <1>1, <1>2 DEF FeedInv, Toasted, Coming, Tells, Asked

LEMMA InitFeed == RF!Init => FeedInv
<1> SUFFICES ASSUME RF!Init PROVE FeedInv
  OBVIOUS
<1>1. <<>> \in Seq(Message(made)) /\ Len(<<>>) = 0 /\ DOMAIN <<>> = {}
  OBVIOUS
<1>2. /\ tickets \subseteq made /\ made \subseteq Ticket /\ queue = <<>> /\ list = {} /\ cache = None
      /\ thread = [h \in Handler |-> <<>>] /\ stream = "closed" /\ subscribed = FALSE
      /\ fetch = [p \in RF!Purpose |-> IF p = "again" THEN None ELSE RF!Sent]
      /\ toasts = [t \in Ticket |-> 0]
  BY DEF RF!Init
<1>3. /\ fetch \in [RF!Purpose -> RF!Fetch]
      /\ \A p \in RF!Purpose : fetch[p] # None => fetch[p].found \subseteq made
  BY <1>2, AskIs DEF RF!Fetch
<1>4. FeedTypes
  <2>1. queue \in Seq(Message(made)) /\ Len(queue) <= QueueSize /\ DOMAIN queue = {}
    BY <1>1, <1>2, FeedAssumption
  <2>2. thread \in [Handler -> Seq(Message(made))]
    BY <1>1, <1>2
  <2> QED
    BY <1>2, <1>3, <2>1, <2>2 DEF FeedTypes
<1>5. Toasted
  BY <1>2 DEF Toasted
<1>6. \A t : Asked(t)
  BY <1>2, AskIs DEF Asked
<1> QED
  BY <1>4, <1>5, <1>6 DEF FeedInv, Coming

LEMMA NextFeed ==
    ASSUME FeedInv, RF!Next
    PROVE  FeedInv'
BY IngestKeeps, StoreUntoldKeeps, WipeKeeps, PublishKeeps, StreamKeeps, DeliverKeeps,
   ReadTicketsKeeps, AnswerListKeeps, AnswerToastsKeeps, FetchFailsKeeps, CollectKeeps
   DEF RF!Next

LEMMA FeedImplies ==
    ASSUME FeedInv
    PROVE  RF!TypeOK /\ RF!ListedUnlessMissed /\ RF!AnnouncedOnce
<1>1. RF!TypeOK
  <2>1. \A h \in Handler : thread[h] \in Seq(RF!Event)
    BY DEF FeedInv, FeedTypes, Message
  <2>2. \A e \in RF!Range(queue) : e.mine
    BY DEF FeedInv, FeedTypes, RF!Range
  <2> QED
    BY <2>1, <2>2 DEF FeedInv, FeedTypes, RF!TypeOK
<1>2. \A t : Coming(t) => RF!OnItsWay(t)
  <2>1. \A q, t : Tells(q, t) => \E e \in RF!Range(q) : t \in e.about
    BY DEF Tells, RF!Range
  <2> QED
    BY <2>1 DEF Coming, Asked, RF!OnItsWay
<1>3. RF!AnnouncedOnce
  BY DEF FeedInv, Toasted, RF!AnnouncedOnce
<1> QED
  BY <1>1, <1>2, <1>3 DEF FeedInv, RF!ListedUnlessMissed

-----------------------------------------------------------------------------
(* The log that a device forwards. *)

\* The smallest and the greatest of some numbers.
LEMMA LeastIs ==
    ASSUME NEW S \in SUBSET Nat, S # {}
    PROVE  \E x \in S : \A y \in S : x <= y
<1>1. PICK x \in S : \A y \in S : ~(<<y, x>> \in OpToRel(<, Nat))
  BY NatLessThanWellFounded, WFMin
<1>2. ASSUME NEW y \in S PROVE x <= y
  <2>1. <<y, x>> \in OpToRel(<, Nat) <=> y < x
    BY DEF OpToRel
  <2>2. ~(y < x)
    BY <1>1, <2>1
  <2> QED
    BY <2>2
<1> QED
  BY <1>2

LEMMA GreatestIs ==
    ASSUME NEW n \in Nat, NEW S \in SUBSET (1..n), S # {}
    PROVE  \E x \in S : \A y \in S : x >= y
<1> DEFINE T == {n - x : x \in S}
<1>1. T \in SUBSET Nat /\ T # {}
  <2>1. \A x \in S : n - x \in Nat
    OBVIOUS
  <2> QED
    BY <2>1
<1>2. PICK t \in T : \A u \in T : t <= u
  BY <1>1, LeastIs
<1>3. PICK x \in S : t = n - x
  OBVIOUS
<1>4. ASSUME NEW y \in S PROVE x >= y
  <2>1. n - x <= n - y
    BY <1>2, <1>3
  <2> QED
    BY <2>1
<1> QED
  BY <1>4

Order == [pc : {"idle", "read", "setting", "filter", "refresh"}, collector : Collector \cup {None},
          ensure : BOOLEAN, full : BOOLEAN,
          seen : {<<>>} \cup UNION {[D -> LF!Setting] : D \in SUBSET LF!Slot},
          slot : LF!Slot \cup {None}]

\* Slot n sends the log to c.
SendsTo(n, c) == slot[n].enabled /\ slot[n].server = c

\* The slot that was picked is the collector's own, or free while the collector
\* has none, as far as every slot was read.
Picked(h) ==
    LET r == request[h] IN
    r.pc = "setting" /\ ~met =>
        \/ SendsTo(r.slot, r.collector)
        \/ /\ ~slot[r.slot].enabled
           /\ ~blind => \A n \in LF!Slot : ~SendsTo(n, r.collector)

\* What a request has written is there, unless it met another one.
Written(h) ==
    LET r == request[h] IN
    /\ r.pc = "filter" /\ ~met => SendsTo(r.slot, r.collector)
    /\ r.pc = "refresh" /\ r.full /\ ~met =>
         \E n \in LF!Slot : SendsTo(n, r.collector) /\ slot[n].full

Ordered(h) ==
    /\ (request[h].pc = "idle") <=> (request[h] = LF!Idle)
    /\ request[h].pc # "idle" => request[h].collector \in Collector
    /\ request[h].pc \in {"setting", "filter"} <=> request[h].slot \in LF!Slot

ForwardTypes ==
    /\ slot \in [LF!Slot -> LF!Setting]
    /\ \A n \in LF!Slot : slot[n].enabled => slot[n].server # None
    /\ request \in [Handler -> Order]
    /\ faults \in 0..MaxFailures
    /\ blind \in BOOLEAN /\ met \in BOOLEAN
    /\ \A h \in Handler : Ordered(h)

ForwardInv ==
    /\ ForwardTypes
    /\ \A h \in Handler : Picked(h) /\ Written(h)
    /\ ~met => \A g, h \in Handler : request[g].pc # "idle" /\ request[h].pc # "idle" => g = h
    /\ ~blind /\ ~met => \A c \in Collector, m, n \in LF!Slot : SendsTo(m, c) /\ SendsTo(n, c) => m = n

-----------------------------------------------------------------------------
LEMMA PickIs ==
    ASSUME NEW D \in SUBSET LF!Slot, NEW s \in [D -> LF!Setting], NEW c, LF!Pick(s, c) # None
    PROVE  LET n == LF!Pick(s, c) IN
           /\ n \in D
           /\ \/ s[n].enabled /\ s[n].server = c
              \/ /\ ~s[n].enabled \/ s[n].server = None
                 /\ \A m \in D : ~(s[m].enabled /\ s[m].server = c)
<1>1. ASSUME NEW S \in SUBSET D, S # {} PROVE LF!Min(S) \in S
  <2>1. S \in SUBSET (1..Slots) /\ Slots \in Nat
    BY ForwardingAssumption DEF LF!Slot
  <2>2. \E x \in S : \A y \in S : x <= y
    BY <1>1, <2>1, LeastIs
  <2> QED
    BY <2>2 DEF LF!Min
<1>2. DOMAIN s = D
  OBVIOUS
<1>3. LF!Own(s, c) \in SUBSET D /\ LF!Empty(s) \in SUBSET D
  BY <1>2 DEF LF!Own, LF!Empty
<1>4. CASE LF!Own(s, c) # {}
  BY <1>1, <1>2, <1>3, <1>4 DEF LF!Pick, LF!Own
<1>5. CASE LF!Own(s, c) = {}
  <2>1. LF!Empty(s) # {} /\ LF!Pick(s, c) = LF!Min(LF!Empty(s))
    BY <1>5 DEF LF!Pick
  <2>2. LF!Pick(s, c) \in LF!Empty(s)
    BY <1>1, <1>3, <2>1
  <2> QED
    BY <1>2, <1>5, <2>2 DEF LF!Own, LF!Empty
<1> QED
  BY <1>4, <1>5

LEMMA RestIs ==
    /\ LF!Idle \in Order /\ LF!Idle.pc = "idle" /\ LF!Idle.slot \notin LF!Slot
    /\ LF!Idle.slot = None
BY ForwardingAssumption DEF LF!Idle, Order

\* Request h becomes r, and no other changes.
Serves(h, r) ==
    /\ request' \in [Handler -> Order] /\ request'[h] = r
    /\ \A g \in Handler \ {h} : request'[g] = request[g]

\* A request ends, and nothing but the count of failures changes.
LEMMA OrderEnds ==
    ASSUME ForwardInv, NEW h \in Handler, request' = [request EXCEPT ![h] = LF!Idle],
           UNCHANGED <<slot, met>>, blind' \in BOOLEAN, blind => blind', faults' \in 0..MaxFailures
    PROVE  ForwardInv'
<1>1. Serves(h, LF!Idle)
  BY RestIs DEF ForwardInv, ForwardTypes, Serves
<1>2. ForwardTypes'
  BY <1>1, RestIs DEF ForwardInv, ForwardTypes, Ordered, Serves
<1>3. \A g \in Handler : Picked(g)' /\ Written(g)'
  BY <1>1, RestIs DEF ForwardInv, Picked, Written, SendsTo, Serves
<1>4. ~met' => \A g, k \in Handler : request'[g].pc # "idle" /\ request'[k].pc # "idle" => g = k
  BY <1>1, RestIs DEF ForwardInv, Serves
<1> QED
  BY <1>2, <1>3, <1>4 DEF ForwardInv, SendsTo

LEMMA OrderFails ==
    ASSUME ForwardInv, NEW h \in Handler, LF!Fails(h)
    PROVE  request' = [request EXCEPT ![h] = LF!Idle] /\ faults' \in 0..MaxFailures
BY ForwardingAssumption DEF LF!Fails, LF!Fault, ForwardInv, ForwardTypes

LEMMA BeginKeeps ==
    ASSUME ForwardInv, NEW h \in Handler, NEW c \in Collector, NEW ensure \in BOOLEAN,
           NEW full \in BOOLEAN, LF!Begin(h, c, ensure, full)
    PROVE  ForwardInv'
<1> DEFINE r == [LF!Idle EXCEPT !.pc = "read", !.collector = c, !.ensure = ensure, !.full = full]
<1>1. /\ request[h] = LF!Idle /\ request' = [request EXCEPT ![h] = r]
      /\ met' = (met \/ \E k \in Handler \ {h} : request[k].pc # "idle")
      /\ UNCHANGED <<slot, faults, blind>>
  BY DEF LF!Begin
<1>2. r \in Order /\ r.pc = "read" /\ r.collector = c /\ r.slot = None /\ r # LF!Idle
  BY RestIs DEF LF!Idle, Order
<1> HIDE DEF r
<1>3. Serves(h, r)
  BY <1>1, <1>2 DEF ForwardInv, ForwardTypes, Serves
<1>4. met' \in BOOLEAN /\ (met => met')
  BY <1>1 DEF ForwardInv, ForwardTypes
<1>5. ForwardTypes'
  BY <1>1, <1>2, <1>3, <1>4, ForwardingAssumption DEF ForwardInv, ForwardTypes, Ordered, Serves
<1>6. \A g \in Handler : Picked(g)' /\ Written(g)'
  BY <1>1, <1>2, <1>3, <1>4 DEF ForwardInv, Picked, Written, SendsTo, Serves
<1>7. ~met' => \A g, k \in Handler : request'[g].pc # "idle" /\ request'[k].pc # "idle" => g = k
  BY <1>1, <1>3 DEF Serves
<1>8. ~blind' /\ ~met' => \A d \in Collector, m, n \in LF!Slot : SendsTo(m, d)' /\ SendsTo(n, d)' => m = n
  BY <1>1, <1>4 DEF ForwardInv, SendsTo
<1> QED
  BY <1>5, <1>6, <1>7, <1>8 DEF ForwardInv

LEMMA ReadKeeps ==
    ASSUME ForwardInv, NEW h \in Handler, LF!Read(h)
    PROVE  ForwardInv'
<1>1. request[h].pc = "read" /\ UNCHANGED <<slot, met>>
  BY DEF LF!Read
<1>2. CASE LF!Fails(h) /\ UNCHANGED blind
  BY <1>1, <1>2, OrderFails, OrderEnds DEF ForwardInv, ForwardTypes
<1>3. ASSUME NEW failed \in SUBSET (LF!Slot \ {1}),
             LET seen == [n \in LF!Slot \ failed |-> slot[n]]
                 c    == request[h].collector
                 n    == LF!Pick(seen, c) IN
             /\ faults + LF!Cardinality(failed) <= MaxFailures
             /\ faults' = faults + LF!Cardinality(failed)
             /\ blind' = (blind \/ failed # {})
             /\ request' = [request EXCEPT ![h] =
                  IF n = None \/ (request[h].ensure /\ LF!Matches(seen, c)) THEN LF!Idle
                  ELSE [@ EXCEPT !.pc = "setting", !.seen = seen, !.slot = n]]
      PROVE  ForwardInv'
  <2> DEFINE D == LF!Slot \ failed
             seen == [n \in D |-> slot[n]]
             c == request[h].collector
             n == LF!Pick(seen, c)
             r == [request[h] EXCEPT !.pc = "setting", !.seen = seen, !.slot = n]
  <2>1. seen \in [D -> LF!Setting] /\ D \in SUBSET LF!Slot /\ c \in Collector /\ request[h] \in Order
    BY <1>1 DEF ForwardInv, ForwardTypes, Ordered
  <2>2. faults' \in 0..MaxFailures
    <3>1. IsFiniteSet(failed)
      <4>1. IsFiniteSet(1..Slots) /\ failed \subseteq 1..Slots
        BY FS_Interval, ForwardingAssumption DEF LF!Slot
      <4> QED
        BY <4>1, FS_Subset
    <3>2. LF!Cardinality(failed) \in Nat
      BY <3>1, FS_CardinalityType DEF LF!Cardinality, Cardinality
    <3> QED
      BY <1>3, <3>2, ForwardingAssumption DEF ForwardInv, ForwardTypes
  <2>3. blind' \in BOOLEAN /\ (blind => blind') /\ (~blind' => D = LF!Slot)
    BY <1>3 DEF ForwardInv, ForwardTypes
  <2>4. CASE request' = [request EXCEPT ![h] = LF!Idle]
    BY <1>1, <2>2, <2>3, <2>4, OrderEnds
  <2>5. CASE n # None /\ request' = [request EXCEPT ![h] = r]
    <3>1. /\ n \in D
          /\ \/ seen[n].enabled /\ seen[n].server = c
             \/ /\ ~seen[n].enabled \/ seen[n].server = None
                /\ \A m \in D : ~(seen[m].enabled /\ seen[m].server = c)
      BY <2>1, <2>5, PickIs
    <3>2. \A m \in D : seen[m] = slot[m]
      OBVIOUS
    <3>3. r \in Order /\ r.pc = "setting" /\ r.slot = n /\ r.collector = c /\ r # LF!Idle
      <4>1. seen \in {<<>>} \cup UNION {[E -> LF!Setting] : E \in SUBSET LF!Slot}
        BY <2>1
      <4> HIDE DEF seen, n
      <4> QED
        BY <2>1, <3>1, <4>1, RestIs DEF Order
    <3> HIDE DEF n, r, seen
    <3>4. Serves(h, r)
      BY <2>5, <3>3 DEF ForwardInv, ForwardTypes, Serves
    <3>5. n \in LF!Slot /\ D \in SUBSET LF!Slot
      BY <2>1, <3>1
    <3>6. ForwardTypes'
      BY <1>1, <2>1, <2>2, <2>3, <3>3, <3>4, <3>5 DEF ForwardInv, ForwardTypes, Ordered, Serves
    <3>7. \/ SendsTo(n, c)
          \/ ~slot[n].enabled /\ (~blind' => \A m \in LF!Slot : ~SendsTo(m, c))
      BY <2>3, <3>1, <3>2, <3>5 DEF SendsTo, ForwardInv, ForwardTypes
    <3>8. Picked(h)' /\ Written(h)'
      <4>1. UNCHANGED slot /\ request'[h] = r
        BY <1>1, <3>4 DEF Serves
      <4> QED
        BY <3>3, <3>7, <4>1 DEF Picked, Written, SendsTo
    <3>9. \A g \in Handler : Picked(g)' /\ Written(g)'
      BY <1>1, <2>3, <3>4, <3>8 DEF ForwardInv, Picked, Written, SendsTo, Serves
    <3>10. ~met' => \A g, k \in Handler : request'[g].pc # "idle" /\ request'[k].pc # "idle" => g = k
      BY <1>1, <3>4 DEF ForwardInv, Serves
    <3> QED
      BY <1>1, <2>3, <3>6, <3>9, <3>10 DEF ForwardInv, SendsTo
  <2> HIDE DEF n, r, seen
  <2>6. request' = [request EXCEPT ![h] = LF!Idle]
        \/ (n # None /\ request' = [request EXCEPT ![h] = r])
    BY <1>3 DEF n, r, seen
  <2> QED
    BY <2>4, <2>5, <2>6
<1> QED
  BY <1>2, <1>3 DEF LF!Read

LEMMA WriteSettingKeeps ==
    ASSUME ForwardInv, NEW h \in Handler, LF!WriteSetting(h)
    PROVE  ForwardInv'
<1> DEFINE r == request[h]
           q == [r EXCEPT !.pc = "filter", !.seen = <<>>]
<1>1. r.pc = "setting" /\ UNCHANGED <<blind, met>> /\ r \in Order
      /\ r.slot \in LF!Slot /\ r.collector \in Collector
  BY DEF LF!WriteSetting, ForwardInv, ForwardTypes, Ordered
<1>2. CASE LF!Fails(h) /\ UNCHANGED slot
  BY <1>1, <1>2, OrderFails, OrderEnds DEF ForwardInv, ForwardTypes
<1>3. CASE /\ slot' = [slot EXCEPT ![r.slot].enabled = TRUE, ![r.slot].server = r.collector]
           /\ LF!Goes(h, "filter") \/ LF!Fails(h)
  <2>1. PICK p \in {LF!Idle, q} : /\ request' = [request EXCEPT ![h] = p]
                                  /\ faults' \in 0..MaxFailures
    <3>1. CASE LF!Fails(h)
      BY <3>1, OrderFails
    <3>2. CASE LF!Goes(h, "filter")
      <4>1. request' = [request EXCEPT ![h].pc = "filter", ![h].seen = <<>>] /\ faults' = faults
        BY <3>2 DEF LF!Goes
      <4>2. request' = [request EXCEPT ![h] = q]
        BY <4>1 DEF ForwardInv, ForwardTypes
      <4> QED
        BY <4>1, <4>2 DEF ForwardInv, ForwardTypes
    <3> QED
      BY <1>3, <3>1, <3>2
  <2>2. /\ p \in Order /\ p.pc \in {"idle", "filter"}
        /\ (p.pc = "idle") <=> (p = LF!Idle)
        /\ p.pc = "filter" => p.slot = r.slot /\ p.collector = r.collector
        /\ p.pc \in {"setting", "filter"} <=> p.slot \in LF!Slot
    BY <1>1, RestIs DEF Order
  <2> HIDE DEF r, q
  <2> DEFINE n == r.slot
             c == r.collector
  <2>3. /\ slot' \in [LF!Slot -> LF!Setting] /\ slot'[n].enabled /\ slot'[n].server = c
        /\ \A m \in LF!Slot : m # n => slot'[m] = slot[m]
    <3>1. slot' = [slot EXCEPT ![n] = [slot[n] EXCEPT !.enabled = TRUE, !.server = c]]
      BY <1>3 DEF ForwardInv, ForwardTypes
    <3>2. slot[n] \in LF!Setting /\ n \in LF!Slot /\ c \in LF!Server
      BY <1>1 DEF ForwardInv, ForwardTypes, LF!Server
    <3> QED
      BY <3>1, <3>2 DEF ForwardInv, ForwardTypes, LF!Setting
  <2>4. Picked(h) /\ n \in LF!Slot /\ c \in Collector /\ c # None
    BY <1>1, ForwardingAssumption DEF ForwardInv, LF!Server
  <2>5. Serves(h, p)
    BY <2>1, <2>2 DEF ForwardInv, ForwardTypes, Serves
  <2>6. \A m \in LF!Slot : \A d : SendsTo(m, d)' <=> IF m = n THEN d = c ELSE SendsTo(m, d)
    BY <2>3 DEF SendsTo
  <2>7. ~met => \A g \in Handler : g # h => request[g].pc = "idle"
    BY <1>1 DEF r, ForwardInv
  <2>8. ~blind /\ ~met => \A m \in LF!Slot : m # n => ~SendsTo(m, c)
    BY <1>1, <2>4 DEF r, ForwardInv, Picked
  <2> HIDE DEF n, c
  <2>9. ForwardTypes'
    <3>1. \A m \in LF!Slot : slot'[m].enabled => slot'[m].server # None
      BY <2>3, <2>4 DEF ForwardInv, ForwardTypes
    <3>2. p.pc # "idle" => p.collector \in Collector
      BY <2>2, <2>4 DEF c
    <3>3. \A g \in Handler : Ordered(g)'
      BY <2>2, <2>5, <3>2 DEF ForwardInv, ForwardTypes, Ordered, Serves
    <3> QED
      BY <1>1, <2>1, <2>3, <2>5, <3>1, <3>3 DEF ForwardInv, ForwardTypes, Serves
  <2>10. Picked(h)' /\ Written(h)'
    <3>1. request'[h] = p
      BY <2>5 DEF Serves
    <3>2. p.pc = "filter" => slot'[p.slot].enabled /\ slot'[p.slot].server = p.collector
      BY <2>2, <2>3 DEF n, c
    <3> QED
      BY <2>2, <3>1, <3>2 DEF Picked, Written, SendsTo
  <2>11. \A g \in Handler : Picked(g)' /\ Written(g)'
    BY <1>1, <2>5, <2>7, <2>10 DEF Picked, Written, Serves
  <2>12. ~met' => \A g, k \in Handler : request'[g].pc # "idle" /\ request'[k].pc # "idle" => g = k
    BY <1>1, <2>5, <2>7 DEF Serves
  <2>13. ~blind /\ ~met =>
            \A d \in Collector, m, k \in LF!Slot : SendsTo(m, d)' /\ SendsTo(k, d)' => m = k
    BY <2>6, <2>8 DEF ForwardInv
  <2> QED
    BY <1>1, <2>9, <2>11, <2>12, <2>13 DEF ForwardInv
<1> QED
  BY <1>2, <1>3 DEF LF!WriteSetting

LEMMA WriteFilterKeeps ==
    ASSUME ForwardInv, NEW h \in Handler, LF!WriteFilter(h)
    PROVE  ForwardInv'
<1> DEFINE r == request[h]
           q == [r EXCEPT !.pc = "refresh", !.slot = None]
<1>1. r.pc = "filter" /\ UNCHANGED <<blind, met>> /\ r \in Order
      /\ r.slot \in LF!Slot /\ r.collector \in Collector
  BY DEF LF!WriteFilter, ForwardInv, ForwardTypes, Ordered
<1>2. CASE LF!Fails(h) /\ UNCHANGED slot
  BY <1>1, <1>2, OrderFails, OrderEnds DEF ForwardInv, ForwardTypes
<1>3. CASE /\ slot' = [slot EXCEPT ![r.slot].full = r.full]
           /\ LF!Refreshes(h) \/ LF!Fails(h)
  <2>1. PICK p \in {LF!Idle, q} : /\ request' = [request EXCEPT ![h] = p]
                                  /\ faults' \in 0..MaxFailures
    <3>1. CASE LF!Fails(h)
      BY <3>1, OrderFails
    <3>2. CASE LF!Refreshes(h)
      <4>1. request' = [request EXCEPT ![h].pc = "refresh", ![h].slot = None] /\ faults' = faults
        BY <3>2 DEF LF!Refreshes
      <4>2. request' = [request EXCEPT ![h] = q]
        BY <4>1 DEF ForwardInv, ForwardTypes
      <4> QED
        BY <4>1, <4>2 DEF ForwardInv, ForwardTypes
    <3> QED
      BY <1>3, <3>1, <3>2
  <2>2. /\ p \in Order /\ p.pc \in {"idle", "refresh"}
        /\ (p.pc = "idle") <=> (p = LF!Idle)
        /\ p.pc = "refresh" => p.collector = r.collector /\ p.full = r.full
        /\ p.slot \notin LF!Slot
    BY <1>1, RestIs, ForwardingAssumption DEF Order
  <2> HIDE DEF r, q
  <2> DEFINE n == r.slot
  <2>3. /\ slot' \in [LF!Slot -> LF!Setting] /\ slot'[n].full = r.full
        /\ \A m \in LF!Slot : /\ slot'[m].enabled = slot[m].enabled
                              /\ slot'[m].server = slot[m].server
    <3>1. slot' = [slot EXCEPT ![n] = [slot[n] EXCEPT !.full = r.full]]
      BY <1>3 DEF ForwardInv, ForwardTypes
    <3>2. slot[n] \in LF!Setting /\ n \in LF!Slot /\ r.full \in BOOLEAN
      BY <1>1 DEF ForwardInv, ForwardTypes, Order
    <3> QED
      BY <3>1, <3>2 DEF ForwardInv, ForwardTypes, LF!Setting
  <2>4. Written(h) /\ n \in LF!Slot
    BY <1>1 DEF ForwardInv
  <2>5. Serves(h, p)
    BY <2>1, <2>2 DEF ForwardInv, ForwardTypes, Serves
  <2>6. \A m \in LF!Slot : \A d : SendsTo(m, d)' <=> SendsTo(m, d)
    BY <2>3 DEF SendsTo
  <2>7. ~met => \A g \in Handler : g # h => request[g].pc = "idle"
    BY <1>1 DEF r, ForwardInv
  <2>8. ~met => SendsTo(n, r.collector)
    BY <1>1, <2>4 DEF r, Written
  <2> HIDE DEF n
  <2>9. ForwardTypes'
    <3>1. \A m \in LF!Slot : slot'[m].enabled => slot'[m].server # None
      BY <2>3 DEF ForwardInv, ForwardTypes
    <3>2. p.pc # "idle" => p.collector \in Collector
      BY <1>1, <2>2
    <3>3. \A g \in Handler : Ordered(g)'
      BY <2>2, <2>5, <3>2 DEF ForwardInv, ForwardTypes, Ordered, Serves
    <3> QED
      BY <1>1, <2>1, <2>3, <2>5, <3>1, <3>3 DEF ForwardInv, ForwardTypes, Serves
  <2>10. Picked(h)' /\ Written(h)'
    <3>1. request'[h] = p
      BY <2>5 DEF Serves
    <3>2. ~met' /\ p.pc = "refresh" /\ p.full =>
            n \in LF!Slot /\ slot'[n].enabled /\ slot'[n].server = p.collector /\ slot'[n].full
      BY <1>1, <2>2, <2>3, <2>4, <2>8 DEF SendsTo
    <3> QED
      BY <2>2, <3>1, <3>2 DEF Picked, Written, SendsTo
  <2>11. \A g \in Handler : Picked(g)' /\ Written(g)'
    BY <1>1, <2>5, <2>7, <2>10 DEF Picked, Written, Serves
  <2>12. ~met' => \A g, k \in Handler : request'[g].pc # "idle" /\ request'[k].pc # "idle" => g = k
    BY <1>1, <2>5, <2>7 DEF Serves
  <2>13. ~blind /\ ~met =>
            \A d \in Collector, m, k \in LF!Slot : SendsTo(m, d)' /\ SendsTo(k, d)' => m = k
    BY <2>6 DEF ForwardInv
  <2> QED
    BY <1>1, <2>9, <2>11, <2>12, <2>13 DEF ForwardInv
<1> QED
  BY <1>2, <1>3 DEF LF!WriteFilter

LEMMA OrdersStay ==
    ASSUME ForwardInv, UNCHANGED all
    PROVE  ForwardInv'
BY DEF all, ForwardInv, ForwardTypes, Ordered, Picked, Written, SendsTo

LEMMA InitForwarding == LF!Init => ForwardInv
<1> SUFFICES ASSUME LF!Init PROVE ForwardInv
  OBVIOUS
<1>1. /\ slot \in [LF!Slot -> {[enabled |-> FALSE, server |-> None, full |-> FALSE],
                               [enabled |-> FALSE, server |-> Foreign, full |-> TRUE],
                               [enabled |-> TRUE,  server |-> Foreign, full |-> TRUE]}]
      /\ request = [h \in Handler |-> LF!Idle] /\ faults = 0 /\ blind = FALSE /\ met = FALSE
  BY DEF LF!Init
<1>2. slot \in [LF!Slot -> LF!Setting] /\ \A n \in LF!Slot : slot[n].enabled => slot[n].server = Foreign
  <2> SUFFICES ASSUME NEW n \in LF!Slot
               PROVE  slot[n] \in LF!Setting /\ (slot[n].enabled => slot[n].server = Foreign)
    BY <1>1
  <2>1. \/ slot[n] = [enabled |-> FALSE, server |-> None, full |-> FALSE]
        \/ slot[n] = [enabled |-> FALSE, server |-> Foreign, full |-> TRUE]
        \/ slot[n] = [enabled |-> TRUE,  server |-> Foreign, full |-> TRUE]
    BY <1>1
  <2>2. Foreign \in LF!Server
    BY DEF LF!Server
  <2>3. CASE slot[n] = [enabled |-> FALSE, server |-> None, full |-> FALSE]
    BY <2>3 DEF LF!Setting
  <2>4. CASE slot[n] = [enabled |-> FALSE, server |-> Foreign, full |-> TRUE]
    BY <2>2, <2>4 DEF LF!Setting
  <2>5. CASE slot[n] = [enabled |-> TRUE, server |-> Foreign, full |-> TRUE]
    BY <2>2, <2>5 DEF LF!Setting
  <2> QED
    BY <2>1, <2>3, <2>4, <2>5
<1>3. \A h \in Handler : request[h] = LF!Idle
  BY <1>1
<1>4. ForwardTypes
  <2>1. request \in [Handler -> Order] /\ \A h \in Handler : Ordered(h)
    BY <1>1, <1>3, RestIs DEF Ordered
  <2>2. faults \in 0..MaxFailures /\ Foreign # None
    BY <1>1, ForwardingAssumption DEF LF!Server
  <2> QED
    BY <1>1, <1>2, <2>1, <2>2 DEF ForwardTypes
<1>5. \A h \in Handler : Picked(h) /\ Written(h)
  BY <1>3, RestIs DEF Picked, Written
<1> QED
  <2>1. \A c \in Collector, m \in LF!Slot : ~SendsTo(m, c)
    BY <1>2, ForwardingAssumption DEF SendsTo
  <2> QED
    BY <1>3, <1>4, <1>5, <2>1, RestIs DEF ForwardInv

LEMMA NextForwarding ==
    ASSUME ForwardInv, LF!Next
    PROVE  ForwardInv'
<1>1. ASSUME NEW h \in Handler, LF!Refresh(h) PROVE ForwardInv'
  BY <1>1, OrderEnds DEF LF!Refresh, ForwardInv, ForwardTypes
<1> QED
  BY <1>1, BeginKeeps, ReadKeeps, WriteSettingKeeps, WriteFilterKeeps DEF LF!Next

LEMMA ForwardImplies ==
    ASSUME ForwardInv
    PROVE  LF!TypeOK /\ LF!ForwardedOnce /\ LF!AppliedIsComplete
<1>1. LF!TypeOK
  <2>1. \A h \in Handler : DOMAIN request[h].seen \subseteq LF!Slot
    <3> SUFFICES ASSUME NEW h \in Handler PROVE DOMAIN request[h].seen \subseteq LF!Slot
      OBVIOUS
    <3>1. request[h].seen \in {<<>>} \cup UNION {[D -> LF!Setting] : D \in SUBSET LF!Slot}
      BY DEF ForwardInv, ForwardTypes, Order
    <3>2. DOMAIN <<>> = {}
      OBVIOUS
    <3> QED
      BY <3>1, <3>2
  <2>2. \A h \in Handler : request[h].pc \in {"idle", "read", "setting", "filter", "refresh"}
    BY DEF ForwardInv, ForwardTypes, Order
  <2> QED
    BY <2>1, <2>2 DEF ForwardInv, ForwardTypes, Ordered, LF!TypeOK
<1>2. LF!ForwardedOnce
  <2> SUFFICES ASSUME ~blind, ~met, NEW c \in Collector
               PROVE  ~(LF!Cardinality(LF!Forwarding(c)) > 1)
    BY DEF LF!ForwardedOnce
  <2>1. \A m, n \in LF!Forwarding(c) : m = n
    BY DEF ForwardInv, SendsTo, LF!Forwarding
  <2>2. Cardinality(LF!Forwarding(c)) \in {0, 1}
    <3>1. CASE LF!Forwarding(c) = {}
      BY <3>1, FS_EmptySet
    <3>2. CASE LF!Forwarding(c) # {}
      <4>1. PICK n : LF!Forwarding(c) = {n}
        BY <2>1, <3>2
      <4> QED
        BY <4>1, FS_Singleton
    <3> QED
      BY <3>1, <3>2
  <2>3. LF!Cardinality(LF!Forwarding(c)) = Cardinality(LF!Forwarding(c))
    BY DEF LF!Cardinality, Cardinality
  <2> QED
    BY <2>2, <2>3
<1>3. LF!AppliedIsComplete
  <2> SUFFICES ASSUME NEW h \in Handler, request[h].pc = "refresh", request[h].full, ~met
               PROVE  \E n \in LF!Forwarding(request[h].collector) : slot[n].full
    BY DEF LF!AppliedIsComplete
  <2> QED
    BY DEF ForwardInv, Written, SendsTo, LF!Forwarding
<1> QED
  BY <1>1, <1>2, <1>3

\* A slot in use is written only for the server that it forwards to.
LEMMA OthersAreKept ==
    ASSUME ForwardInv, LF!Next
    PROVE  LF!OthersKept
<1> SUFFICES ASSUME NEW n \in LF!Slot, slot[n].enabled, slot'[n] # slot[n], ~met
             PROVE  slot'[n].server = slot[n].server
  BY DEF LF!OthersKept
<1>1. PICK h \in Handler : LF!WriteSetting(h) \/ LF!WriteFilter(h)
  BY DEF LF!Next, LF!Begin, LF!Read, LF!Refresh
<1>2. request[h].slot \in LF!Slot
  BY <1>1 DEF LF!WriteSetting, LF!WriteFilter, ForwardInv, ForwardTypes, Ordered
<1>3. CASE LF!WriteFilter(h)
  <2>1. slot' = [slot EXCEPT ![request[h].slot].full = request[h].full]
    BY <1>3 DEF LF!WriteFilter
  <2> QED
    BY <1>2, <2>1 DEF ForwardInv, ForwardTypes, LF!Setting
<1>4. CASE LF!WriteSetting(h)
  <2>1. /\ request[h].pc = "setting"
        /\ slot' = [slot EXCEPT ![request[h].slot].enabled = TRUE,
                                ![request[h].slot].server = request[h].collector]
    BY <1>4 DEF LF!WriteSetting
  <2>2. n = request[h].slot /\ slot'[n].server = request[h].collector
    BY <1>2, <2>1 DEF ForwardInv, ForwardTypes, LF!Setting
  <2> QED
    BY <2>1, <2>2 DEF ForwardInv, Picked, SendsTo
<1> QED
  BY <1>1, <1>3, <1>4

-----------------------------------------------------------------------------
(* The blocks and the policies of a FortiWeb. *)

BlockStep == {"list", "makelist", "member", "attach", "save", "applied", "find", "delete", "removed"}
WafStep == {"read", "profile", "policy"}

ProfileRow == [list : {"none", "managed", "other"}, dos : Dos \cup {None}]
PolicyRow == [profile : Profile, log : BOOLEAN]
WafRead == [policy : PolicyRow, profile : {None} \cup ProfileRow]

Job == [pc : {"idle"} \cup BlockStep \cup WafStep, job : Block \cup Waf \cup {None},
        row : {None} \cup WF!Row, members : SUBSET WF!Member,
        read : {None} \cup ProfileRow \cup WafRead, alone : BOOLEAN]

Managed(p) == profile[p] # None /\ profile[p].list = "managed"
Denied(s) == list # None /\ \E m \in list : m.ip = s
OnBlock(h) == thread[h].pc \in BlockStep

\* What a request knows of the rows and the device whoever comes between, for
\* profiles and the list never go away.
Held(h) ==
    LET t == thread[h] IN
    /\ (t.pc = "idle") <=> (t = WF!Idle)
    /\ t.pc \in BlockStep =>
         /\ t.job \in Block /\ t.row \in WF!Row
         /\ profile[t.row.profile] # None
         /\ t.row.attached => Managed(t.row.profile)
         /\ connected => block[t.job] # None
         /\ block[t.job] # None => /\ block[t.job].src = t.row.src
                                   /\ block[t.job].profile = t.row.profile
    /\ t.pc \in WafStep => t.job \in Waf
    /\ t.pc = "save" => t.read \in ProfileRow
    /\ t.pc = "applied" => Managed(t.row.profile)
    /\ t.pc \in {"profile", "policy"} => t.read \in WafRead
    /\ t.pc = "profile" /\ t.read.profile # None => profile[Wanted[t.job].profile] # None
    /\ t.pc = "policy" => profile[Wanted[t.job].profile] # None
    /\ t.pc \in {"find", "delete", "removed"} => t.row.src \in released
    /\ t.pc \in {"member", "attach", "save", "applied", "delete", "removed"} => list # None

\* No other request changes the list meanwhile.
Solo(h) == thread[h].alone \/ thread[h].row.src \notin overlapped

\* What it knows of them as long as nobody meets it, and that whatever came to
\* the list since it was read belongs to one that it met.
Knows(h) ==
    LET t == thread[h] IN
    /\ t.pc \in {"member", "delete"} => \A n \in list : n \in t.members \/ n.ip \in overlapped
    /\ t.pc \in {"member", "delete"} /\ Solo(h) => list = t.members
    /\ t.pc = "delete" =>
         \A m, n \in t.members : m # n /\ m.id = n.id => m.ip \in overlapped
    /\ t.pc \in {"attach", "save", "applied"} /\ Solo(h) => Denied(t.row.src)
    /\ t.pc = "removed" /\ t.row.src \notin overlapped => ~Denied(t.row.src)
    /\ t.pc \in {"profile", "policy"} /\ t.alone => t.read.policy = policy
    /\ t.pc = "profile" /\ t.alone => t.read.profile = profile[Wanted[t.job].profile]
    /\ t.pc = "policy" /\ t.alone => profile[Wanted[t.job].profile].dos = Wanted[t.job].dos

\* Requests that meet know of it.
Apart ==
    \A g, h \in Handler : g # h =>
        /\ OnBlock(g) /\ OnBlock(h) => thread[h].row.src \in overlapped
        /\ thread[h].pc # "idle" /\ thread[h].alone => thread[g].pc = "idle"

Backed(b) ==
    LET r == block[b] IN
    r # None =>
        /\ profile[r.profile] # None
        /\ r.attached => Managed(r.profile)
        /\ r.status = "active" =>
             /\ Managed(r.profile)
             /\ r.src \notin overlapped \cup released => Denied(r.src)

\* Two members of the list that are one source's or have one id met.
Listed ==
    list # None => \A m, n \in list :
        m # n /\ (m.ip = n.ip \/ m.id = n.id) => m.ip \in overlapped

BlockTypes ==
    /\ list \in {None} \cup SUBSET WF!Member
    /\ profile \in [Profile -> {None} \cup ProfileRow]
    /\ policy \in PolicyRow /\ profile[policy.profile] # None
    /\ block \in [Block -> {None} \cup WF!Row]
    /\ reviews \subseteq Waf
    /\ connected \in BOOLEAN
    /\ ~connected => \A b \in Block : block[b] = None
    /\ thread \in [Handler -> Job]
    /\ mode \in Mode /\ faults \in 0..mode.faults
    /\ overlapped \subseteq Source /\ released \subseteq Source

BlockInv ==
    /\ BlockTypes
    /\ \A h \in Handler : Held(h) /\ Knows(h)
    /\ Apart
    /\ \A b \in Block : Backed(b)
    /\ Listed

-----------------------------------------------------------------------------
LEMMA NobodyIs ==
    /\ WF!Idle \in Job /\ WF!Idle.pc = "idle" /\ WF!Idle.job \notin Block
    /\ "idle" \notin BlockStep /\ "idle" \notin WafStep
BY BlockAssumption DEF WF!Idle, Job, BlockStep, WafStep

LEMMA JobIs ==
    ASSUME BlockInv, NEW h \in Handler
    PROVE  (thread[h].job \in Block) <=> OnBlock(h)
<1>1. thread[h].pc \in {"idle"} \cup BlockStep \cup WafStep
  BY DEF BlockInv, BlockTypes, Job
<1>2. Held(h)
  BY DEF BlockInv
<1>3. CASE thread[h].pc = "idle"
  BY <1>2, <1>3, NobodyIs DEF Held, OnBlock
<1>4. CASE thread[h].pc \in BlockStep
  BY <1>2, <1>4 DEF Held, OnBlock
<1>5. CASE thread[h].pc \in WafStep
  BY <1>2, <1>5, BlockAssumption DEF Held, OnBlock, WafStep, BlockStep
<1> QED
  BY <1>1, <1>3, <1>4, <1>5

\* A request that is not met is the only one of its kind.
LEMMA SoloIs ==
    ASSUME BlockInv, NEW h \in Handler, OnBlock(h), Solo(h), NEW g \in Handler, g # h
    PROVE  ~OnBlock(g)
BY NobodyIs DEF BlockInv, Apart, Solo, OnBlock

\* Handler h goes on from where it was to t, or ends.
Advance(h, t) ==
    /\ thread[h].pc # "idle"
    /\ thread' \in [Handler -> Job] /\ thread'[h] = t
    /\ \A g \in Handler \ {h} : thread'[g] = thread[g]
    /\ \/ t = WF!Idle
       \/ /\ t.pc # "idle" /\ t.pc \in BlockStep <=> thread[h].pc \in BlockStep
          /\ t.job = thread[h].job /\ t.row = thread[h].row /\ t.alone = thread[h].alone

\* What h may do to the device and the rows.
Gentle(h) ==
    /\ UNCHANGED <<connected, overlapped, released>>
    /\ \A p \in Profile : profile[p] # None =>
         /\ profile'[p] # None
         /\ profile[p].list = "managed" => profile'[p].list = "managed"
    /\ \A b \in Block :
         /\ (block'[b] = None) <=> (block[b] = None)
         /\ block[b] # None => /\ block'[b].src = block[b].src
                               /\ block'[b].profile = block[b].profile
                               /\ block'[b].attached = block[b].attached
    /\ list # None => list' # None
    /\ \/ list' = list
       \/ /\ OnBlock(h)
          /\ list # None => \A n \in list' : n \in list \/ n.ip = thread[h].row.src

LEMMA OthersHold ==
    ASSUME BlockInv, NEW h \in Handler, NEW t, Advance(h, t), Gentle(h),
           NEW g \in Handler, g # h
    PROVE  Held(g)' /\ Knows(g)'
<1>1. Held(g) /\ Knows(g) /\ thread'[g] = thread[g] /\ thread[g] \in Job
  BY DEF BlockInv, BlockTypes, Advance
<1>2. \A p \in Profile : Managed(p) => Managed(p)'
  BY DEF Managed, Gentle
<1>3. thread[g].row \in WF!Row => thread[g].row.profile \in Profile
  BY DEF WF!Row
<1>4. thread[g].job \in Waf => Wanted[thread[g].job].profile \in Profile
  BY BlockAssumption
<1>5. Held(g)'
  <2>1. thread[g].pc = "applied" => thread[g].row \in WF!Row
    BY <1>1 DEF Held, BlockStep
  <2>2. thread[g].pc \in {"profile", "policy"} => thread[g].job \in Waf
    BY <1>1 DEF Held, WafStep
  <2> QED
    BY <1>1, <1>2, <1>3, <1>4, <2>1, <2>2 DEF Held, Gentle
<1>6. CASE thread[g].pc \notin BlockStep
  <2>1. ~(thread[g].pc # "idle" /\ thread[g].alone)
    BY DEF BlockInv, Apart, Advance
  <2> QED
    BY <1>1, <1>5, <1>6, <2>1 DEF Knows, BlockStep
<1>7. CASE thread[g].pc \in BlockStep /\ ~OnBlock(h)
  <2>1. list' = list /\ overlapped' = overlapped
    BY <1>7 DEF Gentle
  <2>2. thread[g].pc \notin {"profile", "policy"}
    BY <1>7 DEF BlockStep
  <2> QED
    BY <1>1, <1>5, <2>1, <2>2 DEF Knows, Denied, Solo
<1>8. CASE thread[g].pc \in BlockStep /\ OnBlock(h)
  <2>1. thread[g].row.src \in overlapped /\ thread[h].row.src \in overlapped
        /\ ~thread[g].alone
    BY <1>8, NobodyIs DEF BlockInv, Apart, Advance, OnBlock
  <2>2. thread[g].pc \notin {"profile", "policy"}
    BY <1>8 DEF BlockStep
  <2>3. overlapped' = overlapped /\ ~Solo(g)'
    BY <1>1, <2>1 DEF Gentle, Solo
  <2>4. thread[g].pc \in {"member", "delete"} =>
          list # None /\ \A n \in list' : n \in list \/ n.ip \in overlapped
    BY <1>1, <2>1 DEF Held, Gentle
  <2> QED
    BY <1>1, <1>5, <2>1, <2>2, <2>3, <2>4 DEF Knows
<1> QED
  BY <1>5, <1>6, <1>7, <1>8

LEMMA ApartStays ==
    ASSUME BlockInv, NEW h \in Handler, NEW t, Advance(h, t), Gentle(h)
    PROVE  Apart'
<1> SUFFICES ASSUME NEW g \in Handler, NEW k \in Handler, g # k
             PROVE  /\ OnBlock(g)' /\ OnBlock(k)' => thread'[k].row.src \in overlapped'
                    /\ thread'[k].pc # "idle" /\ thread'[k].alone => thread'[g].pc = "idle"
  BY DEF Apart
<1>1. \A f \in Handler : /\ OnBlock(f)' => OnBlock(f) /\ thread'[f].row = thread[f].row
                         /\ thread'[f].pc # "idle" => /\ thread[f].pc # "idle"
                                                      /\ thread'[f].alone = thread[f].alone
  BY NobodyIs DEF Advance, OnBlock
<1>2. overlapped' = overlapped
  BY DEF Gentle
<1> QED
  BY <1>1, <1>2 DEF BlockInv, Apart

\* What remains to be shown of a step of h.
LEMMA AdvanceKeeps ==
    ASSUME BlockInv, NEW h \in Handler, NEW t, Advance(h, t), Gentle(h),
           BlockTypes', Held(h)', Knows(h)', \A b \in Block : Backed(b)', Listed'
    PROVE  BlockInv'
<1>1. \A g \in Handler : Held(g)' /\ Knows(g)'
  BY OthersHold
<1> QED
  BY <1>1, ApartStays DEF BlockInv

\* Rows that h does not make active stay backed while their source stays listed.
LEMMA RowsBacked ==
    ASSUME BlockInv, NEW h \in Handler, Gentle(h), profile \in [Profile -> {None} \cup ProfileRow],
           NEW b \in Block,
           block'[b].status = "active" /\ block[b].status # "active" /\ block[b] # None =>
               /\ Managed(block[b].profile)
               /\ block[b].src \notin overlapped => Denied(block[b].src),
           \A s \in Source \ (overlapped \cup released) : Denied(s) => Denied(s)'
    PROVE  Backed(b)'
<1> SUFFICES ASSUME block[b] # None
             PROVE  /\ profile'[block[b].profile] # None
                    /\ block[b].attached => Managed(block[b].profile)'
                    /\ block'[b].status = "active" =>
                         /\ Managed(block[b].profile)'
                         /\ block[b].src \notin overlapped \cup released => Denied(block[b].src)'
  BY DEF Backed, Gentle, Managed, Denied
<1>1. PICK p \in Profile, s \in Source : p = block[b].profile /\ s = block[b].src
  BY DEF BlockInv, BlockTypes, WF!Row
<1>2. Backed(b)
  BY DEF BlockInv
<1>3. Managed(p) => Managed(p)'
  BY DEF Managed, Gentle
<1>4. block'[b].status = "active" =>
        Managed(p) /\ (s \notin overlapped \cup released => Denied(s))
  BY <1>1, <1>2 DEF Backed
<1> QED
  BY <1>1, <1>2, <1>3, <1>4 DEF Backed, Gentle, Managed, Denied

-----------------------------------------------------------------------------
LEMMA GoesOn ==
    ASSUME BlockInv, NEW h \in Handler, thread[h].pc # "idle", NEW t \in Job,
           thread' = [thread EXCEPT ![h] = t],
           \/ t = WF!Idle
           \/ /\ t.pc # "idle" /\ t.pc \in BlockStep <=> thread[h].pc \in BlockStep
              /\ t.job = thread[h].job /\ t.row = thread[h].row /\ t.alone = thread[h].alone
    PROVE  Advance(h, t)
BY DEF BlockInv, BlockTypes, Advance

LEMMA AtRest ==
    ASSUME NEW h, thread'[h] = WF!Idle
    PROVE  Held(h)' /\ Knows(h)'
<1>1. thread'[h].pc = "idle"
  BY NobodyIs
<1> QED
  BY <1>1 DEF Held, Knows, BlockStep, WafStep

\* A step that changes neither device nor rows.
LEMMA StillKeeps ==
    ASSUME BlockInv, NEW h \in Handler, NEW t, Advance(h, t),
           UNCHANGED <<list, profile, policy, block, reviews, connected, mode, overlapped, released>>,
           faults' \in 0..mode.faults, Held(h)', Knows(h)'
    PROVE  BlockInv'
<1>1. Gentle(h)
  BY DEF Gentle
<1>2. BlockTypes'
  BY DEF BlockInv, BlockTypes, Advance
<1>3. (\A b \in Block : Backed(b)') /\ Listed'
  BY DEF BlockInv, Backed, Managed, Denied, Listed
<1> QED
  BY <1>1, <1>2, <1>3, AdvanceKeeps

LEMMA FaultIs ==
    ASSUME BlockInv, WF!Fault
    PROVE  faults' \in 0..mode.faults /\ faults' # faults
<1>1. mode.faults \in Nat
  BY BlockAssumption DEF BlockInv, BlockTypes
<1> QED
  BY <1>1 DEF BlockInv, BlockTypes, WF!Fault

\* A call fails without effect.
LEMMA FailKeeps ==
    ASSUME BlockInv, NEW h \in Handler, thread[h].pc # "idle", WF!End(h),
           UNCHANGED <<list, profile, policy, block, reviews, connected, mode, overlapped, released>>,
           faults' \in 0..mode.faults
    PROVE  BlockInv'
<1>1. Advance(h, WF!Idle)
  BY NobodyIs, GoesOn DEF WF!End
<1>2. Held(h)' /\ Knows(h)'
  BY <1>1, AtRest DEF Advance
<1> QED
  BY <1>1, <1>2, StillKeeps

LEMMA BecomeIs ==
    ASSUME BlockInv, NEW h \in Handler, NEW pc \in BlockStep, thread[h].pc \in BlockStep,
           WF!Become(h, pc)
    PROVE  \E t \in Job : /\ Advance(h, t) /\ t.pc = pc /\ t.members = {} /\ t.read = None
                          /\ t.job = thread[h].job /\ t.row = thread[h].row
                          /\ t.alone = thread[h].alone
<1> DEFINE t == [thread[h] EXCEPT !.pc = pc, !.members = {}, !.read = None]
<1>1. thread[h] \in Job /\ thread \in [Handler -> Job]
  BY DEF BlockInv, BlockTypes
<1>2. thread' = [thread EXCEPT ![h] = t]
  BY <1>1 DEF WF!Become
<1>3. /\ t \in Job /\ t.pc = pc /\ t.members = {} /\ t.read = None
      /\ t.job = thread[h].job /\ t.row = thread[h].row /\ t.alone = thread[h].alone
  BY <1>1 DEF Job
<1> HIDE DEF t
<1>4. Advance(h, t)
  BY <1>2, <1>3, GoesOn, NobodyIs
<1> QED
  BY <1>3, <1>4

LEMMA ReadListKeeps ==
    ASSUME BlockInv, NEW h \in Handler, WF!ReadList(h)
    PROVE  BlockInv'
<1>1. /\ thread[h].pc = "list"
      /\ UNCHANGED <<list, profile, policy, block, reviews, connected, mode, overlapped, released>>
  BY DEF WF!ReadList, WF!device, WF!history
<1>2. CASE WF!Fails(h)
  BY <1>1, <1>2, FailKeeps, FaultIs DEF WF!Fails
<1>3. CASE /\ thread' = [thread EXCEPT ![h].pc = IF list = None THEN "makelist" ELSE "member",
                                       ![h].members = IF list = None THEN {} ELSE list]
           /\ UNCHANGED faults
  <2> DEFINE pc == IF list = None THEN "makelist" ELSE "member"
             ms == IF list = None THEN {} ELSE list
             t  == [thread[h] EXCEPT !.pc = pc, !.members = ms]
  <2>1. thread[h] \in Job /\ thread \in [Handler -> Job] /\ ms \in SUBSET WF!Member
    BY DEF BlockInv, BlockTypes
  <2>2. thread' = [thread EXCEPT ![h] = t]
    BY <1>3, <2>1
  <2>3. pc \in {"makelist", "member"} /\ (pc = "member" => list # None /\ ms = list)
    OBVIOUS
  <2> HIDE DEF pc, ms
  <2>4. /\ t \in Job /\ t.pc = pc /\ t.members = ms /\ t.read = thread[h].read
        /\ t.job = thread[h].job /\ t.row = thread[h].row /\ t.alone = thread[h].alone
    BY <2>1, <2>3 DEF Job, BlockStep
  <2> HIDE DEF t
  <2>5. Advance(h, t)
    BY <1>1, <2>2, <2>3, <2>4, GoesOn DEF BlockStep
  <2>6. thread'[h] = t /\ t # WF!Idle
    BY <2>3, <2>4, <2>5, NobodyIs DEF Advance
  <2>7. Held(h)'
    BY <1>1, <2>3, <2>4, <2>6 DEF BlockInv, Held, Managed, BlockStep, WafStep
  <2>8. Knows(h)'
    BY <1>1, <2>3, <2>4, <2>6 DEF Knows
  <2> QED
    BY <1>1, <1>3, <2>5, <2>7, <2>8, StillKeeps DEF BlockInv, BlockTypes
<1> QED
  BY <1>2, <1>3 DEF WF!ReadList

LEMMA ReadAttachedKeeps ==
    ASSUME BlockInv, NEW h \in Handler, WF!ReadAttached(h)
    PROVE  BlockInv'
<1>1. /\ thread[h].pc = "attach"
      /\ UNCHANGED <<list, profile, policy, block, reviews, connected, mode, overlapped, released>>
  BY DEF WF!ReadAttached, WF!device, WF!history
<1>2. CASE WF!Fails(h)
  BY <1>1, <1>2, FailKeeps, FaultIs DEF WF!Fails
<1>3. CASE /\ thread' = [thread EXCEPT ![h].pc = "save",
                                       ![h].read = profile[thread[h].row.profile]]
           /\ UNCHANGED faults
  <2> DEFINE read == profile[thread[h].row.profile]
             t    == [thread[h] EXCEPT !.pc = "save", !.read = read]
  <2>1. thread[h] \in Job /\ thread \in [Handler -> Job] /\ Held(h) /\ Knows(h)
    BY DEF BlockInv, BlockTypes
  <2>2. thread' = [thread EXCEPT ![h] = t]
    BY <1>3, <2>1
  <2>3. read \in ProfileRow
    <3>1. thread[h].row \in WF!Row /\ read # None
      BY <1>1, <2>1 DEF Held, BlockStep
    <3>2. thread[h].row.profile \in Profile
      BY <3>1 DEF WF!Row
    <3> QED
      BY <3>1, <3>2 DEF BlockInv, BlockTypes
  <2> HIDE DEF read
  <2>4. /\ t \in Job /\ t.pc = "save" /\ t.members = thread[h].members /\ t.read = read
        /\ t.job = thread[h].job /\ t.row = thread[h].row /\ t.alone = thread[h].alone
    BY <2>1, <2>3 DEF Job, BlockStep
  <2> HIDE DEF t
  <2>5. Advance(h, t)
    BY <1>1, <2>2, <2>4, GoesOn DEF BlockStep
  <2>6. thread'[h] = t /\ t # WF!Idle
    BY <2>4, <2>5, NobodyIs DEF Advance
  <2>7. Held(h)'
    BY <1>1, <2>1, <2>3, <2>4, <2>6 DEF Held, Managed, BlockStep, WafStep
  <2>8. Knows(h)'
    BY <1>1, <2>1, <2>4, <2>6 DEF Knows, Solo, Denied
  <2> QED
    BY <1>1, <1>3, <2>5, <2>7, <2>8, StillKeeps DEF BlockInv, BlockTypes
<1> QED
  BY <1>2, <1>3 DEF WF!ReadAttached

LEMMA FindKeeps ==
    ASSUME BlockInv, NEW h \in Handler, WF!Find(h)
    PROVE  BlockInv'
<1>1. /\ thread[h].pc = "find"
      /\ UNCHANGED <<list, profile, policy, block, reviews, connected, mode, overlapped, released>>
  BY DEF WF!Find, WF!device, WF!history
<1>2. CASE WF!Fails(h)
  BY <1>1, <1>2, FailKeeps, FaultIs DEF WF!Fails
<1>3. CASE /\ list # None
           /\ thread' = [thread EXCEPT ![h].members = list,
                ![h].pc = IF WF!Lists(list, thread[h].row.src) THEN "delete" ELSE "removed"]
           /\ UNCHANGED faults
  <2> DEFINE pc == IF WF!Lists(list, thread[h].row.src) THEN "delete" ELSE "removed"
             t  == [thread[h] EXCEPT !.members = list, !.pc = pc]
  <2>1. thread[h] \in Job /\ thread \in [Handler -> Job] /\ Held(h) /\ list \in SUBSET WF!Member
    BY <1>3 DEF BlockInv, BlockTypes
  <2>2. thread' = [thread EXCEPT ![h] = t]
    BY <1>3, <2>1
  <2>3. pc \in {"delete", "removed"} /\ (pc = "removed" => ~Denied(thread[h].row.src))
    BY DEF WF!Lists, Denied
  <2> HIDE DEF pc
  <2>4. /\ t \in Job /\ t.pc = pc /\ t.members = list /\ t.read = thread[h].read
        /\ t.job = thread[h].job /\ t.row = thread[h].row /\ t.alone = thread[h].alone
    BY <2>1, <2>3 DEF Job, BlockStep
  <2> HIDE DEF t
  <2>5. Advance(h, t)
    BY <1>1, <2>2, <2>3, <2>4, GoesOn DEF BlockStep
  <2>6. thread'[h] = t /\ t # WF!Idle
    BY <2>3, <2>4, <2>5, NobodyIs DEF Advance
  <2>7. Held(h)'
    BY <1>1, <1>3, <2>1, <2>3, <2>4, <2>6 DEF Held, Managed, BlockStep, WafStep
  <2>8. \A m, n \in list : m # n /\ m.id = n.id => m.ip \in overlapped
    BY <1>3 DEF BlockInv, Listed
  <2>9. Knows(h)'
    BY <1>1, <2>3, <2>4, <2>6, <2>8 DEF Knows, Denied
  <2> QED
    BY <1>1, <1>3, <2>5, <2>7, <2>9, StillKeeps DEF BlockInv, BlockTypes
<1> QED
  BY <1>2, <1>3 DEF WF!Find

\* A step of h that only changes the list, which nobody who is alone with it
\* minds and which keeps the sources that no removal was begun for.
LEMMA ListKeeps ==
    ASSUME BlockInv, NEW h \in Handler, NEW t, Advance(h, t), OnBlock(h),
           UNCHANGED <<profile, policy, block, reviews, connected, mode, overlapped, released>>,
           faults' \in 0..mode.faults, list' \in SUBSET WF!Member,
           list # None => \A n \in list' : n \in list \/ n.ip = thread[h].row.src,
           \A s \in Source \ (overlapped \cup released) : Denied(s) => Denied(s)',
           Held(h)', Knows(h)', Listed'
    PROVE  BlockInv'
<1>1. Gentle(h)
  BY BlockAssumption DEF Gentle
<1>2. BlockTypes'
  BY DEF BlockInv, BlockTypes, Advance
<1>3. \A b \in Block : Backed(b)'
  BY <1>1, RowsBacked DEF BlockInv, BlockTypes
<1> QED
  BY <1>1, <1>2, <1>3, AdvanceKeeps

\* A call to the device ends with an error, or the request goes on at pc.
LEMMA WorksOrFails ==
    ASSUME BlockInv, NEW h \in Handler, NEW pc \in BlockStep, thread[h].pc \in BlockStep,
           WF!Works(h, pc) \/ WF!Fails(h)
    PROVE  /\ faults' \in 0..mode.faults
           /\ \E t \in Job : /\ Advance(h, t)
                             /\ t = WF!Idle \/ /\ t.pc = pc /\ t.members = {} /\ t.read = None
                                               /\ t.job = thread[h].job /\ t.row = thread[h].row
                                               /\ t.alone = thread[h].alone
<1>1. CASE WF!Works(h, pc)
  BY <1>1, BecomeIs DEF WF!Works, BlockInv, BlockTypes
<1>2. CASE WF!Fails(h)
  BY <1>2, FaultIs, GoesOn, NobodyIs DEF WF!Fails, WF!End
<1> QED
  BY <1>1, <1>2

LEMMA MakeListKeeps ==
    ASSUME BlockInv, NEW h \in Handler, WF!MakeList(h)
    PROVE  BlockInv'
<1>1. /\ thread[h].pc = "makelist"
      /\ UNCHANGED <<profile, policy, block, reviews, connected, mode, overlapped, released>>
  BY DEF WF!MakeList, WF!history
<1>2. CASE WF!Fails(h) /\ UNCHANGED list
  BY <1>1, <1>2, FailKeeps, FaultIs DEF WF!Fails
<1>3. CASE list # None /\ WF!End(h) /\ UNCHANGED <<list, faults>>
  BY <1>1, <1>3, FailKeeps DEF BlockInv, BlockTypes
<1>4. CASE list = None /\ list' = {} /\ (WF!Works(h, "member") \/ WF!Fails(h))
  <2>1. faults' \in 0..mode.faults
    BY <1>1, <1>4, WorksOrFails DEF BlockStep
  <2>2. PICK t \in Job : /\ Advance(h, t)
                         /\ t = WF!Idle \/ /\ t.pc = "member" /\ t.members = {}
                                           /\ t.job = thread[h].job /\ t.row = thread[h].row
                                           /\ t.alone = thread[h].alone
    BY <1>1, <1>4, WorksOrFails DEF BlockStep
  <2>3. thread'[h] = t /\ list' # None
    BY <1>4, <2>2, BlockAssumption DEF Advance
  <2>4. Held(h)' /\ Knows(h)'
    <3>1. CASE t = WF!Idle
      BY <2>3, <3>1, AtRest
    <3>2. CASE t # WF!Idle
      BY <1>1, <1>4, <2>2, <2>3, <3>2, NobodyIs
         DEF BlockInv, Held, Knows, Managed, BlockStep, WafStep
    <3> QED
      BY <3>1, <3>2
  <2>5. Listed'
    BY <1>4 DEF Listed
  <2> QED
    BY <1>1, <1>4, <2>1, <2>2, <2>4, <2>5, ListKeeps DEF OnBlock, Denied, BlockStep
<1> QED
  BY <1>1, <1>2, <1>3, <1>4 DEF WF!MakeList

\* The new id is none that was read.
LEMMA NextIdIs ==
    ASSUME NEW S \in SUBSET WF!Member
    PROVE  WF!NextId(S) \in Nat \ {0} /\ \A n \in S : n.id # WF!NextId(S)
<1> DEFINE I == {n.id : n \in S}
<1>1. I \in SUBSET (1..MaxId) /\ MaxId \in Nat /\ \A n \in S : n.id \in I
  BY BlockAssumption DEF WF!Member
<1>2. CASE S = {}
  BY <1>2 DEF WF!NextId
<1>3. CASE S # {}
  <2> HIDE DEF I
  <2>1. PICK x \in I : x = WF!Max(I) /\ \A i \in I : x >= i
    <3>1. I # {}
      BY <1>1, <1>3
    <3>2. \E x \in I : \A y \in I : x >= y
      BY <1>1, <3>1, GreatestIs
    <3>3. WF!Max(I) \in I /\ \A i \in I : WF!Max(I) >= i
      BY <3>2 DEF WF!Max
    <3> QED
      BY <3>3
  <2>2. WF!NextId(S) = WF!Max(I) + 1
    BY <1>3 DEF WF!NextId, I
  <2>4. x \in Nat /\ \A i \in I : i \in Nat /\ i <= x
    BY <1>1, <2>1
  <2>5. WF!NextId(S) = x + 1
    BY <2>1, <2>2
  <2> QED
    BY <1>1, <2>4, <2>5
<1> QED
  BY <1>2, <1>3

LEMMA AddMemberKeeps ==
    ASSUME BlockInv, NEW h \in Handler, WF!AddMember(h)
    PROVE  BlockInv'
<1> DEFINE ip == thread[h].row.src
           m  == [id |-> WF!NextId(thread[h].members), ip |-> ip]
           pc == WF!AfterMember(thread[h].row)
<1>1. /\ thread[h].pc = "member" /\ thread[h].pc \in BlockStep
      /\ UNCHANGED <<profile, policy, block, reviews, connected, mode, overlapped, released>>
  BY DEF WF!AddMember, WF!history, BlockStep
<1>2. /\ Held(h) /\ Knows(h) /\ thread[h] \in Job /\ thread[h].row \in WF!Row
      /\ list \in SUBSET WF!Member /\ list # None
  BY <1>1 DEF BlockInv, BlockTypes, Held
<1>3. pc \in {"attach", "applied"} /\ (pc = "applied" => Managed(thread[h].row.profile))
  BY <1>1, <1>2 DEF WF!AfterMember, Held
<1>4. CASE WF!Fails(h) /\ UNCHANGED list
  BY <1>1, <1>4, FailKeeps, FaultIs DEF WF!Fails
<1>5. CASE WF!End(h) /\ UNCHANGED <<list, faults>>
  BY <1>1, <1>5, FailKeeps DEF BlockInv, BlockTypes
\* Whether the member is new or not, what is listed then is the source.
<1>6. ASSUME WF!Works(h, pc) \/ WF!Fails(h), list' \in SUBSET WF!Member, list \subseteq list',
             \A n \in list' : n \in list \/ n.ip = ip,
             Solo(h) => \E n \in list' : n.ip = ip, Listed'
      PROVE  BlockInv'
  <2> HIDE DEF pc
  <2>1. pc \in BlockStep
    BY <1>3 DEF BlockStep
  <2>2. faults' \in 0..mode.faults
    BY <1>1, <1>6, <2>1, WorksOrFails
  <2>3. PICK t \in Job : /\ Advance(h, t)
                         /\ t = WF!Idle \/ /\ t.pc = pc /\ t.members = {}
                                           /\ t.job = thread[h].job /\ t.row = thread[h].row
                                           /\ t.alone = thread[h].alone
    BY <1>1, <1>6, <2>1, WorksOrFails
  <2>4. thread'[h] = t /\ list' # None
    BY <1>6, <2>3, BlockAssumption DEF Advance
  <2>5. Held(h)' /\ Knows(h)'
    <3>1. CASE t = WF!Idle
      BY <2>4, <3>1, AtRest
    <3>2. CASE t # WF!Idle
      <4>1. Held(h)'
        BY <1>1, <1>2, <1>3, <2>3, <2>4, <3>2, NobodyIs DEF Held, Managed, BlockStep, WafStep
      <4>2. Solo(h)' => Solo(h)
        BY <1>1, <2>3, <2>4, <3>2 DEF Solo
      <4>3. Knows(h)'
        BY <1>1, <1>3, <1>6, <2>3, <2>4, <3>2, <4>2 DEF Knows, Denied
      <4> QED
        BY <4>1, <4>3
    <3> QED
      BY <3>1, <3>2
  <2>6. \A s \in Source : Denied(s) => Denied(s)'
    BY <1>6, <2>4 DEF Denied
  <2> QED
    BY <1>1, <1>6, <2>2, <2>3, <2>5, <2>6, ListKeeps DEF OnBlock
<1>7. CASE /\ WF!Lists(thread[h].members, ip)
           /\ WF!Works(h, pc)
           /\ UNCHANGED list
  <2>1. Solo(h) => \E n \in list' : n.ip = ip
    BY <1>1, <1>2, <1>7 DEF Knows, WF!Lists
  <2>2. Listed'
    BY <1>1, <1>7 DEF BlockInv, Listed
  <2> QED
    BY <1>2, <1>6, <1>7, <2>1, <2>2
<1>8. CASE /\ ~WF!Lists(thread[h].members, ip)
           /\ m.id <= MaxId
           /\ list' = list \cup {m}
           /\ WF!Works(h, pc) \/ WF!Fails(h)
  <2>1. thread[h].members \in SUBSET WF!Member /\ ip \in Source
    BY <1>2 DEF Job, WF!Row
  <2>2. m.id \in Nat \ {0} /\ m.ip = ip /\ \A n \in thread[h].members : n.id # m.id
    BY <2>1, NextIdIs
  <2>3. m \in WF!Member
    BY <1>8, <2>1, <2>2, BlockAssumption DEF WF!Member
  <2> HIDE DEF m
  <2>4. ASSUME NEW n \in list, n.ip = ip \/ n.id = m.id
        PROVE  n.ip \in overlapped /\ ip \in overlapped
    <3>1. n \notin thread[h].members
      BY <1>8, <2>2, <2>4 DEF WF!Lists
    <3>2. ~Solo(h) /\ n.ip \in overlapped
      BY <1>1, <1>2, <3>1 DEF Knows
    <3> QED
      BY <3>2 DEF Solo
  <2>5. Listed'
    BY <1>1, <1>2, <1>8, <2>2, <2>4 DEF BlockInv, Listed
  <2> QED
    BY <1>2, <1>6, <1>8, <2>2, <2>3, <2>5
<1> QED
  BY <1>4, <1>5, <1>7, <1>8 DEF WF!AddMember

LEMMA DeleteKeeps ==
    ASSUME BlockInv, NEW h \in Handler, WF!Delete(h)
    PROVE  BlockInv'
<1> DEFINE ip == thread[h].row.src
<1>1. /\ thread[h].pc = "delete" /\ thread[h].pc \in BlockStep
      /\ UNCHANGED <<profile, policy, block, reviews, connected, mode, overlapped, released>>
  BY DEF WF!Delete, WF!history, BlockStep
<1>2. /\ Held(h) /\ Knows(h) /\ thread[h] \in Job /\ ip \in released
      /\ list \in SUBSET WF!Member /\ list # None
  BY <1>1 DEF BlockInv, BlockTypes, Held
<1>3. CASE WF!Fails(h) /\ UNCHANGED list
  BY <1>1, <1>3, FailKeeps, FaultIs DEF WF!Fails
<1>4. ASSUME NEW m \in WF!MembersOf(thread[h].members, ip), list' = {n \in list : n.id # m.id},
             WF!Works(h, "removed") \/ WF!Fails(h)
      PROVE  BlockInv'
  <2>1. m \in thread[h].members /\ m.ip = ip
    BY <1>4 DEF WF!MembersOf
  <2>2. faults' \in 0..mode.faults
    BY <1>1, <1>4, WorksOrFails DEF BlockStep
  <2>3. PICK t \in Job : /\ Advance(h, t)
                         /\ t = WF!Idle \/ /\ t.pc = "removed" /\ t.members = {}
                                           /\ t.job = thread[h].job /\ t.row = thread[h].row
                                           /\ t.alone = thread[h].alone
    BY <1>1, <1>4, WorksOrFails DEF BlockStep
  <2>4. thread'[h] = t /\ list' # None /\ list' \in SUBSET WF!Member
    BY <1>2, <1>4, <2>3, BlockAssumption DEF Advance
  \* Its id is only one of a source that was met or released.
  <2>5. ASSUME NEW n \in list, n.id = m.id PROVE n.ip \in overlapped \/ n.ip = ip
    BY <1>1, <1>2, <2>1, <2>5 DEF Knows
  <2>6. \A s \in Source \ (overlapped \cup released) : Denied(s) => Denied(s)'
    BY <1>2, <1>4, <2>4, <2>5 DEF Denied
  <2>7. ip \notin overlapped => ~\E n \in list' : n.ip = ip
    <3> SUFFICES ASSUME ip \notin overlapped, NEW n \in list, n.ip = ip PROVE n.id = m.id
      BY <1>4
    <3>1. list = thread[h].members
      BY <1>1, <1>2 DEF Knows, Solo
    <3> QED
      BY <1>2, <2>1, <3>1 DEF BlockInv, Listed
  <2>8. Held(h)' /\ Knows(h)'
    <3>1. CASE t = WF!Idle
      BY <2>4, <3>1, AtRest
    <3>2. CASE t # WF!Idle
      <4>1. Held(h)'
        BY <1>1, <1>2, <2>3, <2>4, <3>2, NobodyIs DEF Held, Managed, BlockStep, WafStep
      <4>2. Knows(h)'
        BY <1>1, <2>3, <2>4, <2>7, <3>2 DEF Knows, Denied
      <4> QED
        BY <4>1, <4>2
    <3> QED
      BY <3>1, <3>2
  <2>9. Listed'
    BY <1>1, <1>2, <1>4 DEF BlockInv, Listed
  <2> QED
    BY <1>1, <1>4, <2>2, <2>3, <2>4, <2>6, <2>8, <2>9, ListKeeps DEF OnBlock
<1> QED
  BY <1>3, <1>4 DEF WF!Delete

LEMMA SaveAttachedKeeps ==
    ASSUME BlockInv, NEW h \in Handler, WF!SaveAttached(h)
    PROVE  BlockInv'
<1>1. /\ thread[h].pc = "save" /\ thread[h].pc \in BlockStep
      /\ UNCHANGED <<list, policy, block, reviews, connected, mode, overlapped, released>>
  BY DEF WF!SaveAttached, WF!history, BlockStep
<1>2. Held(h) /\ Knows(h) /\ thread[h] \in Job /\ thread[h].row.profile \in Profile
      /\ thread[h].read \in ProfileRow
  BY <1>1 DEF BlockInv, BlockTypes, Held, WF!Row
<1>3. CASE WF!Fails(h) /\ UNCHANGED profile
  BY <1>1, <1>3, FailKeeps, FaultIs DEF WF!Fails
<1>4. CASE /\ profile' = [profile EXCEPT ![thread[h].row.profile] =
                             [list |-> "managed", dos |-> thread[h].read.dos]]
           /\ WF!Works(h, "applied") \/ WF!Fails(h)
  <2>1. PICK p \in Profile, r \in ProfileRow :
            /\ p = thread[h].row.profile /\ r.list = "managed"
            /\ profile' = [profile EXCEPT ![p] = r]
    BY <1>2, <1>4 DEF ProfileRow
  <2>2. /\ profile' \in [Profile -> {None} \cup ProfileRow] /\ profile'[p] = r /\ r # None
        /\ \A q \in Profile : q # p => profile'[q] = profile[q]
    BY <2>1, BlockAssumption DEF BlockInv, BlockTypes, ProfileRow
  <2>3. faults' \in 0..mode.faults
    BY <1>1, <1>4, WorksOrFails DEF BlockStep
  <2>4. PICK t \in Job : /\ Advance(h, t)
                         /\ t = WF!Idle \/ /\ t.pc = "applied" /\ t.members = {}
                                           /\ t.job = thread[h].job /\ t.row = thread[h].row
                                           /\ t.alone = thread[h].alone
    BY <1>1, <1>4, WorksOrFails DEF BlockStep
  <2>5. thread'[h] = t
    BY <2>4 DEF Advance
  <2>6. Gentle(h)
    BY <1>1, <2>1, <2>2 DEF Gentle
  <2>7. BlockTypes'
    <3>1. policy.profile \in Profile /\ profile[policy.profile] # None
      BY DEF BlockInv, BlockTypes, PolicyRow
    <3> QED
      BY <1>1, <2>2, <2>3, <2>4, <3>1 DEF BlockInv, BlockTypes, Advance
  <2>8. Held(h)' /\ Knows(h)'
    <3>1. CASE t = WF!Idle
      BY <2>5, <3>1, AtRest
    <3>2. CASE t # WF!Idle
      <4>1. Held(h)'
        BY <1>1, <1>2, <2>1, <2>2, <2>4, <2>5, <3>2, NobodyIs
           DEF Held, Managed, BlockStep, WafStep
      <4>2. Knows(h)'
        BY <1>1, <1>2, <2>4, <2>5, <3>2 DEF Knows, Denied, Solo
      <4> QED
        BY <4>1, <4>2
    <3> QED
      BY <3>1, <3>2
  <2>9. \A b \in Block : Backed(b)'
    BY <1>1, <2>6, RowsBacked DEF BlockInv, BlockTypes, Denied
  <2>10. Listed'
    BY <1>1 DEF BlockInv, Listed
  <2> QED
    BY <2>4, <2>6, <2>7, <2>8, <2>9, <2>10, AdvanceKeeps
<1> QED
  BY <1>3, <1>4 DEF WF!SaveAttached

\* A request records its end in the row.
LEMMA MarkKeeps ==
    ASSUME BlockInv, NEW h \in Handler, NEW pc \in BlockStep,
           NEW status \in {"pending_review", "active", "removed"},
           status = "active" => pc = "applied", WF!Mark(h, pc, status)
    PROVE  BlockInv'
<1>1. /\ thread[h].pc = pc /\ pc # "idle" /\ WF!End(h)
      /\ UNCHANGED <<list, profile, policy, reviews, connected, mode, faults, overlapped, released>>
  BY NobodyIs DEF WF!Mark, WF!device, WF!history
<1>2. Held(h) /\ Knows(h)
  BY DEF BlockInv
<1>3. PICK b \in Block : b = thread[h].job
  BY <1>1, <1>2 DEF Held
<1>4. block' = IF block[b] = None THEN block ELSE [block EXCEPT ![b].status = status]
  BY <1>3 DEF WF!Mark
<1>5. block' \in [Block -> {None} \cup WF!Row] /\ \A c \in Block : c # b => block'[c] = block[c]
  BY <1>4 DEF BlockInv, BlockTypes, WF!Row
<1>6. /\ (block'[b] = None) <=> (block[b] = None)
      /\ block[b] # None => /\ block[b] \in WF!Row
                            /\ block'[b].src = block[b].src /\ block'[b].profile = block[b].profile
                            /\ block'[b].attached = block[b].attached
                            /\ block'[b].status = status
  <2>1. CASE block[b] = None
    BY <1>4, <2>1
  <2>2. CASE block[b] # None
    <3>1. block[b] \in WF!Row /\ block'[b] = [block[b] EXCEPT !.status = status]
      BY <1>4, <2>2 DEF BlockInv, BlockTypes
    <3>2. block'[b] \in WF!Row
      BY <3>1 DEF WF!Row
    <3> QED
      BY <2>2, <3>1, <3>2, BlockAssumption DEF WF!Row
  <2> QED
    BY <2>1, <2>2
<1>7. Advance(h, WF!Idle)
  BY <1>1, NobodyIs, GoesOn DEF WF!End
<1>8. Gentle(h)
  BY <1>1, <1>5, <1>6 DEF Gentle
<1>9. BlockTypes'
  <2>1. ~connected => \A c \in Block : block'[c] = None
    BY <1>5, <1>6 DEF BlockInv, BlockTypes
  <2> QED
    BY <1>1, <1>5, <1>7, <2>1 DEF BlockInv, BlockTypes, Advance
<1>10. ASSUME block[b] # None, status = "active"
       PROVE  Managed(block[b].profile) /\ (block[b].src \notin overlapped => Denied(block[b].src))
  BY <1>1, <1>2, <1>3, <1>10 DEF Held, Knows, Solo
<1>11. \A c \in Block : Backed(c)'
  BY <1>1, <1>5, <1>6, <1>8, <1>10, RowsBacked DEF BlockInv, BlockTypes, Denied
<1>12. Held(h)' /\ Knows(h)' /\ Listed'
  BY <1>1, <1>7, AtRest DEF Advance, BlockInv, Listed
<1> QED
  BY <1>7, <1>8, <1>9, <1>11, <1>12, AdvanceKeeps

-----------------------------------------------------------------------------
\* A WAF request goes on to t, or ends, and changes neither list nor rows.
LEMMA PrepareKeeps ==
    ASSUME BlockInv, NEW h \in Handler, NEW t, Advance(h, t), thread[h].pc \in WafStep,
           UNCHANGED <<list, block, reviews, connected, mode, overlapped, released>>,
           faults' \in 0..mode.faults, Gentle(h),
           profile' \in [Profile -> {None} \cup ProfileRow],
           policy' \in PolicyRow, profile'[policy'.profile] # None,
           Held(h)', Knows(h)'
    PROVE  BlockInv'
<1>1. BlockTypes'
  BY DEF BlockInv, BlockTypes, Advance
<1>2. \A b \in Block : Backed(b)'
  BY RowsBacked DEF BlockInv, BlockTypes, Denied
<1>3. Listed'
  BY DEF BlockInv, Listed
<1> QED
  BY <1>1, <1>2, <1>3, AdvanceKeeps

LEMMA ReadWafKeeps ==
    ASSUME BlockInv, NEW h \in Handler, WF!ReadWaf(h)
    PROVE  BlockInv'
<1>1. /\ thread[h].pc = "read"
      /\ UNCHANGED <<list, profile, policy, block, reviews, connected, mode, overlapped, released>>
  BY DEF WF!ReadWaf, WF!device, WF!history
<1>2. CASE WF!Fails(h)
  BY <1>1, <1>2, FailKeeps, FaultIs DEF WF!Fails
<1>3. CASE /\ thread' = [thread EXCEPT ![h].pc = "profile",
                ![h].read = [policy |-> policy, profile |-> profile[Wanted[thread[h].job].profile]]]
           /\ UNCHANGED faults
  <2> DEFINE p    == Wanted[thread[h].job].profile
             read == [policy |-> policy, profile |-> profile[p]]
             t    == [thread[h] EXCEPT !.pc = "profile", !.read = read]
  <2>1. thread[h] \in Job /\ thread \in [Handler -> Job] /\ Held(h) /\ thread[h].job \in Waf
    BY <1>1 DEF BlockInv, BlockTypes, Held, WafStep
  <2>2. thread' = [thread EXCEPT ![h] = t]
    BY <1>3, <2>1
  <2>3. p \in Profile
    BY <2>1, BlockAssumption
  <2> HIDE DEF p
  <2>4. read \in WafRead /\ read.policy = policy /\ read.profile = profile[p]
    BY <2>3 DEF WafRead, BlockInv, BlockTypes
  <2> HIDE DEF read
  <2>5. /\ t \in Job /\ t.pc = "profile" /\ t.read = read
        /\ t.job = thread[h].job /\ t.row = thread[h].row /\ t.alone = thread[h].alone
    BY <2>1, <2>4 DEF Job, WafStep
  <2> HIDE DEF t
  <2>6. Advance(h, t)
    BY <1>1, <2>2, <2>5, GoesOn DEF BlockStep
  <2>7. thread'[h] = t /\ t # WF!Idle
    BY <2>5, <2>6, NobodyIs DEF Advance
  <2>8. Held(h)'
    BY <1>1, <2>1, <2>4, <2>5, <2>7 DEF p, Held, BlockStep, WafStep
  <2>9. Knows(h)'
    BY <1>1, <2>4, <2>5, <2>7 DEF p, Knows
  <2> QED
    BY <1>1, <1>3, <2>6, <2>8, <2>9, StillKeeps DEF BlockInv, BlockTypes
<1> QED
  BY <1>2, <1>3 DEF WF!ReadWaf

\* The profile is ready, or the request ends with an error.
LEMMA ReadyOrFails ==
    ASSUME BlockInv, NEW h \in Handler, thread[h].pc = "profile", WF!Prepared(h) \/ WF!Fails(h)
    PROVE  /\ faults' \in 0..mode.faults
           /\ \E t \in Job : /\ Advance(h, t)
                             /\ t = WF!Idle \/ /\ t.pc = "policy" /\ t.read = thread[h].read
                                               /\ t.job = thread[h].job /\ t.row = thread[h].row
                                               /\ t.alone = thread[h].alone
<1>1. CASE WF!Prepared(h)
  <2> DEFINE t == [thread[h] EXCEPT !.pc = "policy"]
  <2>1. thread[h] \in Job /\ thread \in [Handler -> Job]
    BY DEF BlockInv, BlockTypes
  <2>2. /\ t \in Job /\ t.pc = "policy" /\ t.read = thread[h].read
        /\ t.job = thread[h].job /\ t.row = thread[h].row /\ t.alone = thread[h].alone
    BY <2>1 DEF Job, WafStep
  <2>3. thread' = [thread EXCEPT ![h] = t] /\ faults' = faults
    BY <1>1, <2>1 DEF WF!Prepared
  <2> HIDE DEF t
  <2>4. Advance(h, t)
    BY <2>2, <2>3, GoesOn DEF BlockStep
  <2> QED
    BY <2>2, <2>3, <2>4 DEF BlockInv, BlockTypes
<1>2. CASE WF!Fails(h)
  BY <1>2, FaultIs, GoesOn, NobodyIs DEF WF!Fails, WF!End
<1> QED
  BY <1>1, <1>2

LEMMA PrepareProfileKeeps ==
    ASSUME BlockInv, NEW h \in Handler, WF!PrepareProfile(h)
    PROVE  BlockInv'
<1> DEFINE w == Wanted[thread[h].job]
           read == thread[h].read.profile
<1>1. /\ thread[h].pc = "profile" /\ thread[h].pc \in WafStep
      /\ UNCHANGED <<list, policy, block, reviews, connected, mode, overlapped, released>>
  BY DEF WF!PrepareProfile, WF!history, WafStep
<1>2. /\ Held(h) /\ Knows(h) /\ thread[h] \in Job /\ thread[h].job \in Waf
      /\ thread[h].read \in WafRead
  BY <1>1 DEF BlockInv, BlockTypes, Held
<1>3. w.profile \in Profile /\ w.dos \in Dos
  BY <1>2, BlockAssumption
<1>4. CASE WF!Fails(h) /\ UNCHANGED profile
  BY <1>1, <1>4, FailKeeps, FaultIs DEF WF!Fails
<1>5. CASE WF!End(h) /\ UNCHANGED <<profile, faults>>
  BY <1>1, <1>5, FailKeeps DEF BlockInv, BlockTypes
\* Whether it was there or not, the profile has the DoS policy then.
<1>6. ASSUME WF!Prepared(h) \/ WF!Fails(h), NEW r \in ProfileRow,
             profile' = [profile EXCEPT ![w.profile] = r],
             thread[h].alone => r.dos = w.dos,
             profile[w.profile] # None /\ profile[w.profile].list = "managed" => r.list = "managed"
      PROVE  BlockInv'
  <2>1. /\ profile' \in [Profile -> {None} \cup ProfileRow]
        /\ profile'[w.profile] = r /\ r # None
        /\ \A q \in Profile : q # w.profile => profile'[q] = profile[q]
    BY <1>3, <1>6, BlockAssumption DEF BlockInv, BlockTypes, ProfileRow
  <2>2. faults' \in 0..mode.faults
    BY <1>1, <1>6, ReadyOrFails
  <2>3. PICK t \in Job : /\ Advance(h, t)
                         /\ t = WF!Idle \/ /\ t.pc = "policy" /\ t.read = thread[h].read
                                           /\ t.job = thread[h].job /\ t.row = thread[h].row
                                           /\ t.alone = thread[h].alone
    BY <1>1, <1>6, ReadyOrFails
  <2>4. thread'[h] = t
    BY <2>3 DEF Advance
  <2>5. Gentle(h)
    BY <1>1, <1>3, <1>6, <2>1 DEF Gentle
  <2>6. policy' \in PolicyRow /\ profile'[policy'.profile] # None
    BY <1>1, <2>1 DEF BlockInv, BlockTypes, PolicyRow
  <2>7. Held(h)' /\ Knows(h)'
    <3>1. CASE t = WF!Idle
      BY <2>4, <3>1, AtRest
    <3>2. CASE t # WF!Idle
      <4>1. Held(h)'
        BY <1>1, <1>2, <2>1, <2>3, <2>4, <3>2, NobodyIs DEF Held, BlockStep, WafStep
      <4>2. Knows(h)'
        BY <1>1, <1>2, <1>6, <2>1, <2>3, <2>4, <3>2 DEF Knows
      <4> QED
        BY <4>1, <4>2
    <3> QED
      BY <3>1, <3>2
  <2> QED
    BY <1>1, <2>1, <2>2, <2>3, <2>5, <2>6, <2>7, PrepareKeeps
<1>7. CASE /\ read = None /\ profile[w.profile] = None
           /\ profile' = [profile EXCEPT ![w.profile] = [list |-> "none", dos |-> w.dos]]
           /\ WF!Prepared(h) \/ WF!Fails(h)
  <2>1. PICK d \in Dos : d = w.dos
    BY <1>3
  <2>2. [list |-> "none", dos |-> d] \in ProfileRow
    BY DEF ProfileRow
  <2>3. PICK r \in ProfileRow : r = [list |-> "none", dos |-> d] /\ r.dos = d
    BY <2>2
  <2> QED
    BY <1>6, <1>7, <2>1, <2>3
<1>8. CASE /\ read # None /\ profile' = [profile EXCEPT ![w.profile].dos = w.dos]
           /\ WF!Prepared(h) \/ WF!Fails(h)
  <2>1. profile[w.profile] \in ProfileRow
    BY <1>1, <1>2, <1>3, <1>8 DEF Held, BlockInv, BlockTypes
  <2>2. PICK d \in Dos, q \in ProfileRow : d = w.dos /\ q = profile[w.profile]
    BY <1>3, <2>1
  <2>3. PICK r \in ProfileRow : r = [q EXCEPT !.dos = d] /\ r.dos = d /\ r.list = q.list
    <3>1. [q EXCEPT !.dos = d] \in ProfileRow
      BY DEF ProfileRow
    <3> QED
      BY <3>1 DEF ProfileRow
  <2>4. profile' = [profile EXCEPT ![w.profile] = r]
    BY <1>8, <2>2, <2>3
  <2> QED
    BY <1>6, <1>8, <2>2, <2>3, <2>4
<1>9. CASE read # None /\ read.dos = w.dos /\ WF!Prepared(h) /\ UNCHANGED profile
  <2>1. profile[w.profile] \in ProfileRow
    BY <1>1, <1>2, <1>3, <1>9 DEF Held, BlockInv, BlockTypes
  <2>2. PICK r \in ProfileRow : r = profile[w.profile]
    BY <2>1
  <2>3. profile' = [profile EXCEPT ![w.profile] = r]
    BY <1>3, <1>9, <2>2 DEF BlockInv, BlockTypes
  <2>4. thread[h].alone => r.dos = w.dos
    BY <1>1, <1>2, <1>9, <2>2 DEF Knows
  <2> QED
    BY <1>6, <1>9, <2>2, <2>3, <2>4
<1> QED
  BY <1>4, <1>5, <1>7, <1>8, <1>9 DEF WF!PrepareProfile

LEMMA PreparePolicyKeeps ==
    ASSUME BlockInv, NEW h \in Handler, WF!PreparePolicy(h)
    PROVE  BlockInv'
<1> DEFINE w == Wanted[thread[h].job]
           read == thread[h].read.policy
<1>1. /\ thread[h].pc = "policy" /\ thread[h].pc \in WafStep /\ WF!End(h)
      /\ UNCHANGED <<list, profile, block, reviews, connected, mode, overlapped, released>>
      /\ faults' \in 0..mode.faults
  BY FaultIs DEF WF!PreparePolicy, WF!Fails, WF!history, WafStep, BlockInv, BlockTypes
<1>2. /\ Held(h) /\ thread[h].job \in Waf
      /\ thread[h].read \in WafRead
  BY <1>1 DEF BlockInv, Held
<1>3. w.profile \in Profile /\ profile[w.profile] # None
  BY <1>1, <1>2, BlockAssumption DEF Held
<1>4. policy' \in PolicyRow /\ profile[policy'.profile] # None
  <2>1. CASE UNCHANGED policy
    BY <2>1 DEF BlockInv, BlockTypes
  <2>2. CASE policy' = WF!Updated(read, w)
    <3>1. PICK p \in {w.profile, policy.profile} : policy' = [profile |-> p, log |-> policy.log \/ ~read.log]
      BY <2>2 DEF WF!Updated
    <3>2. p \in Profile /\ profile[p] # None /\ policy'.profile = p
      BY <1>3, <3>1 DEF BlockInv, BlockTypes, PolicyRow
    <3>3. policy' \in PolicyRow
      BY <3>1, <3>2 DEF PolicyRow
    <3> QED
      BY <3>2, <3>3
  <2> QED
    BY <2>1, <2>2 DEF WF!PreparePolicy
<1>5. Advance(h, WF!Idle)
  BY <1>1, NobodyIs, GoesOn DEF WF!End, WafStep
<1>6. Held(h)' /\ Knows(h)'
  BY <1>5, AtRest DEF Advance
<1>7. Gentle(h) /\ profile' \in [Profile -> {None} \cup ProfileRow]
  BY <1>1 DEF Gentle, BlockInv, BlockTypes
<1> QED
  BY <1>1, <1>4, <1>5, <1>6, <1>7, PrepareKeeps

-----------------------------------------------------------------------------
(* What begins, and what happens to all requests. *)

\* The steps that leave device, history and requests alone.
LEMMA ReviewKeeps ==
    ASSUME BlockInv, UNCHANGED <<list, profile, policy, thread, connected, mode, overlapped, released>>,
           connected, faults' \in 0..mode.faults, reviews' \subseteq Waf,
           block' \in [Block -> {None} \cup WF!Row],
           \A b \in Block : block'[b] # block[b] =>
              /\ block[b] = None /\ block'[b] # None /\ block'[b].status # "active"
              /\ profile[block'[b].profile] # None
              /\ block'[b].attached => Managed(block'[b].profile)
    PROVE  BlockInv'
<1>1. BlockTypes'
  BY DEF BlockInv, BlockTypes
<1>2. ASSUME NEW h \in Handler PROVE Held(h)' /\ Knows(h)'
  <2>1. Held(h) /\ Knows(h)
    BY DEF BlockInv
  <2>2. thread[h].pc \in BlockStep => block'[thread[h].job] = block[thread[h].job]
    BY <2>1 DEF Held
  <2> QED
    BY <2>1, <2>2 DEF Held, Knows, Managed, Denied, Solo
<1>3. ASSUME NEW b \in Block PROVE Backed(b)'
  <2>1. Backed(b)
    BY DEF BlockInv
  <2> QED
    BY <2>1 DEF Backed, Managed, Denied
<1>4. Apart' /\ Listed'
  BY DEF BlockInv, Apart, Listed, OnBlock
<1> QED
  BY <1>1, <1>2, <1>3, <1>4 DEF BlockInv

LEMMA ReviewsKeep ==
    ASSUME BlockInv
    PROVE  /\ \A b \in Block, s \in Source : WF!ReviewBlock(b, s) => BlockInv'
           /\ \A w \in Waf : WF!ReviewWaf(w) => BlockInv'
<1>1. ASSUME NEW b \in Block, NEW s \in Source, WF!ReviewBlock(b, s) PROVE BlockInv'
  <2>1. /\ connected /\ block[b] = None
        /\ UNCHANGED <<list, profile, policy, reviews, thread, connected, mode, faults, overlapped, released>>
    BY <1>1 DEF WF!ReviewBlock, WF!device, WF!history
  <2>2. PICK p \in Profile, a \in BOOLEAN :
          /\ p = policy.profile /\ profile[p] # None /\ (a => Managed(p))
          /\ block' = [block EXCEPT ![b] = [status |-> "pending_review", src |-> s,
                                            profile |-> p, attached |-> a]]
    <3>1. policy.profile \in Profile /\ profile[policy.profile] # None
      BY DEF BlockInv, BlockTypes, PolicyRow
    <3>2. (profile[policy.profile].list = "managed") \in BOOLEAN
      OBVIOUS
    <3>3. block' = [block EXCEPT ![b] = [status |-> "pending_review", src |-> s,
                       profile |-> policy.profile, attached |-> profile[policy.profile].list = "managed"]]
      BY <1>1 DEF WF!ReviewBlock
    <3> QED
      BY <3>1, <3>2, <3>3 DEF Managed
  <2>3. PICK r \in WF!Row : /\ block' = [block EXCEPT ![b] = r] /\ r.profile = p /\ r.attached = a
                            /\ r.status = "pending_review"
    <3>1. [status |-> "pending_review", src |-> s, profile |-> p, attached |-> a] \in WF!Row
      BY DEF WF!Row
    <3> QED
      BY <2>2, <3>1
  <2>4. /\ block' \in [Block -> {None} \cup WF!Row] /\ block'[b] = r
        /\ \A c \in Block : c # b => block'[c] = block[c]
    BY <2>3 DEF BlockInv, BlockTypes
  <2> QED
    BY <2>1, <2>2, <2>3, <2>4, BlockAssumption, ReviewKeeps DEF BlockInv, BlockTypes
<1>2. ASSUME NEW w \in Waf, WF!ReviewWaf(w) PROVE BlockInv'
  BY <1>2, ReviewKeeps DEF WF!ReviewWaf, WF!device, WF!history, BlockInv, BlockTypes
<1> QED
  BY <1>1, <1>2

\* Handler h begins with t, and from now on nobody who is busy is alone.
Starts(h, t) ==
    /\ thread' \in [Handler -> Job] /\ thread'[h] = t
    /\ \A g \in Handler \ {h} :
         /\ thread[g].pc = "idle" => thread'[g] = thread[g]
         /\ thread[g].pc # "idle" =>
              /\ thread'[g].pc = thread[g].pc /\ thread'[g].job = thread[g].job
              /\ thread'[g].row = thread[g].row /\ thread'[g].members = thread[g].members
              /\ thread'[g].read = thread[g].read /\ ~thread'[g].alone
    /\ t.alone => \A g \in Handler : thread[g].pc = "idle"

LEMMA BeginIs ==
    ASSUME BlockInv, NEW h \in Handler, NEW j \in Block \cup Waf, NEW pc \in BlockStep \cup WafStep,
           NEW r \in {None} \cup WF!Row, r = IF j \in Block THEN block[j] ELSE None,
           WF!Begin(h, j, pc)
    PROVE  \E t \in Job : Starts(h, t) /\ t.pc = pc /\ t.job = j /\ t.row = r
<1>1. PICK a \in BOOLEAN : a = \A g \in Handler : thread[g].pc = "idle"
  OBVIOUS
<1> DEFINE t == [WF!Idle EXCEPT !.pc = pc, !.job = j, !.alone = a, !.row = r]
<1>2. t \in Job /\ t.pc = pc /\ t.job = j /\ t.row = r /\ t.alone = a
  <2>1. WF!Idle \in Job
    BY NobodyIs
  <2> QED
    BY <2>1 DEF Job
<1>3. thread' = [k \in Handler |->
        IF k = h THEN t
        ELSE IF thread[k].pc # "idle" THEN [thread[k] EXCEPT !.alone = FALSE] ELSE thread[k]]
  <2>1. \A g : ~WF!Busy(g) <=> thread[g].pc = "idle"
    BY DEF WF!Busy
  <2>2. (\A g \in Handler : ~WF!Busy(g)) = a
    BY <1>1, <2>1
  <2>3. thread' = [k \in Handler |->
        IF k = h THEN [WF!Idle EXCEPT !.pc = pc, !.job = j, !.alone = \A g \in Handler : ~WF!Busy(g),
                                      !.row = IF j \in Block THEN block[j] ELSE None]
        ELSE IF WF!Busy(k) THEN [thread[k] EXCEPT !.alone = FALSE] ELSE thread[k]]
    BY DEF WF!Begin
  <2> QED
    BY <2>1, <2>2, <2>3, Zenon DEF WF!Busy
<1> HIDE DEF t
<1>4. ASSUME NEW k \in Handler, k # h, thread[k].pc # "idle"
      PROVE  /\ thread'[k] \in Job
             /\ thread'[k].pc = thread[k].pc /\ thread'[k].job = thread[k].job
             /\ thread'[k].row = thread[k].row /\ thread'[k].members = thread[k].members
             /\ thread'[k].read = thread[k].read /\ ~thread'[k].alone
  <2>1. thread'[k] = [thread[k] EXCEPT !.alone = FALSE] /\ thread[k] \in Job
    BY <1>3, <1>4 DEF BlockInv, BlockTypes
  <2> QED
    BY <2>1 DEF Job
<1>5. \A k \in Handler : k # h /\ thread[k].pc = "idle" => thread'[k] = thread[k] /\ thread[k] \in Job
  BY <1>3 DEF BlockInv, BlockTypes
<1>6. thread'[h] = t
  BY <1>3
<1>7. thread' \in [Handler -> Job]
  BY <1>2, <1>3, <1>4, <1>5, <1>6
<1>8. Starts(h, t)
  BY <1>1, <1>2, <1>4, <1>5, <1>6, <1>7 DEF Starts
<1> QED
  BY <1>2, <1>8

LEMMA StartKeeps ==
    ASSUME BlockInv, NEW h \in Handler, NEW t, Starts(h, t),
           UNCHANGED <<list, profile, policy, block, reviews, connected, mode, faults>>,
           overlapped \subseteq overlapped', overlapped' \subseteq Source,
           released \subseteq released', released' \subseteq Source,
           t.pc \in {"list", "find", "read"},
           t.pc # "read" =>
              /\ connected /\ t.job \in Block /\ t.row = block[t.job] /\ t.row \in WF!Row
              /\ \A g \in Handler : OnBlock(g) => {thread[g].row.src, t.row.src} \subseteq overlapped',
           t.pc = "find" => t.row.src \in released',
           t.pc = "read" => t.job \in Waf
    PROVE  BlockInv'
<1>1. BlockTypes'
  BY DEF BlockInv, BlockTypes, Starts
<1>2. Held(h)' /\ Knows(h)'
  <2>1. thread'[h] = t /\ t # WF!Idle
    BY NobodyIs DEF Starts
  <2>2. t.pc # "read" => Backed(t.job) /\ None \notin WF!Row
    BY BlockAssumption DEF BlockInv
  <2>3. Held(h)'
    BY <2>1, <2>2 DEF Held, Backed, Managed, BlockStep, WafStep
  <2>4. Knows(h)'
    BY <2>1 DEF Knows
  <2> QED
    BY <2>3, <2>4
<1>3. ASSUME NEW g \in Handler, g # h PROVE Held(g)' /\ Knows(g)'
  <2>1. Held(g) /\ Knows(g)
    BY DEF BlockInv
  <2>2. CASE thread[g].pc = "idle"
    <3>1. thread'[g] = WF!Idle
      BY <1>3, <2>1, <2>2 DEF Starts, Held
    <3> QED
      BY <3>1, AtRest
  <2>3. CASE thread[g].pc # "idle"
    <3>1. /\ thread'[g].pc = thread[g].pc /\ thread'[g].job = thread[g].job
          /\ thread'[g].row = thread[g].row /\ thread'[g].members = thread[g].members
          /\ thread'[g].read = thread[g].read /\ ~thread'[g].alone
          /\ thread'[g] # WF!Idle
      BY <1>3, <2>3, NobodyIs DEF Starts
    <3>2. Held(g)'
      BY <2>1, <2>3, <3>1 DEF Held, Managed
    <3>3. Solo(g)' => Solo(g)
      BY <3>1 DEF Solo
    <3>4. Knows(g)'
      BY <2>1, <3>1, <3>3 DEF Knows, Denied
    <3> QED
      BY <3>2, <3>4
  <2> QED
    BY <2>2, <2>3
<1>4. Apart'
  <2> SUFFICES ASSUME NEW g \in Handler, NEW k \in Handler, g # k
               PROVE  /\ OnBlock(g)' /\ OnBlock(k)' => thread'[k].row.src \in overlapped'
                      /\ thread'[k].pc # "idle" /\ thread'[k].alone => thread'[g].pc = "idle"
    BY DEF Apart
  <2>1. \A f \in Handler \ {h} :
          /\ OnBlock(f)' => OnBlock(f) /\ thread'[f].row = thread[f].row
          /\ thread'[f].pc = thread[f].pc
          /\ thread'[f].pc # "idle" => ~thread'[f].alone
    BY NobodyIs DEF Starts, OnBlock
  <2>2. OnBlock(h)' => t.pc # "read" /\ thread'[h] = t
    BY DEF OnBlock, Starts, BlockStep
  <2>3. CASE g # h /\ k # h
    <3>1. OnBlock(g) /\ OnBlock(k) => thread[k].row.src \in overlapped
      BY DEF BlockInv, Apart
    <3> QED
      BY <2>1, <2>3, <3>1
  <2>4. CASE g = h
    BY <2>1, <2>2, <2>4
  <2>5. CASE k = h
    <3>1. thread'[k].alone => thread[g].pc = "idle"
      BY <2>5 DEF Starts
    <3> QED
      BY <2>1, <2>2, <2>5, <3>1
  <2> QED
    BY <2>3, <2>4, <2>5
<1>5. \A b \in Block : Backed(b)'
  BY DEF BlockInv, Backed, Managed, Denied
<1>6. Listed'
  BY DEF BlockInv, Listed
<1> QED
  BY <1>1, <1>2, <1>3, <1>4, <1>5, <1>6 DEF BlockInv

LEMMA BeginsKeep ==
    ASSUME BlockInv, NEW h \in Handler
    PROVE  /\ \A b \in Block : WF!BeginApply(h, b) \/ WF!BeginRemove(h, b) => BlockInv'
           /\ \A w \in Waf : WF!BeginWaf(h, w) => BlockInv'
<1>1. ASSUME NEW b \in Block, NEW pc \in {"list", "find"},
             connected, block[b] # None, WF!Begin(h, b, pc), WF!Meets(block[b].src),
             UNCHANGED <<list, profile, policy, block, reviews, connected, mode, faults>>,
             released' = IF pc = "find" THEN released \cup {block[b].src} ELSE released
      PROVE  BlockInv'
  <2>1. block[b] \in WF!Row /\ block[b].src \in Source
    BY <1>1 DEF BlockInv, BlockTypes, WF!Row
  <2>2. PICK t \in Job : Starts(h, t) /\ t.pc = pc /\ t.job = b /\ t.row = block[b]
    BY <1>1, <2>1, BeginIs DEF BlockStep
  <2>3. ASSUME NEW g \in Handler, OnBlock(g)
        PROVE  thread[g].row.src \in WF!Underway /\ thread[g].row.src \in Source
    <3>1. thread[g].job \in Block /\ thread[g].row \in WF!Row
      BY <2>3 DEF BlockInv, Held, OnBlock
    <3> QED
      BY <3>1 DEF WF!Underway, WF!Row
  <2>4. WF!Underway \subseteq Source
    BY <2>3, JobIs DEF WF!Underway
  <2>5. /\ overlapped \subseteq overlapped' /\ overlapped' \subseteq Source
        /\ released \subseteq released' /\ released' \subseteq Source
        /\ \A g \in Handler : OnBlock(g) =>
             {thread[g].row.src, block[b].src} \subseteq overlapped'
    BY <1>1, <2>1, <2>3, <2>4 DEF WF!Meets, BlockInv, BlockTypes
  <2> QED
    BY <1>1, <2>1, <2>2, <2>5, StartKeeps
<1>2. ASSUME NEW b \in Block, WF!BeginApply(h, b) PROVE BlockInv'
  <2>1. released' = IF "list" = "find" THEN released \cup {block[b].src} ELSE released
    BY <1>2 DEF WF!BeginApply
  <2> QED
    BY <1>1, <1>2, <2>1 DEF WF!BeginApply, WF!device
<1>3. ASSUME NEW b \in Block, WF!BeginRemove(h, b) PROVE BlockInv'
  BY <1>1, <1>3 DEF WF!BeginRemove, WF!device
<1>4. ASSUME NEW w \in Waf, WF!BeginWaf(h, w) PROVE BlockInv'
  <2>1. PICK t \in Job : Starts(h, t) /\ t.pc = "read" /\ t.job = w
    <3>1. None = IF w \in Block THEN block[w] ELSE None
      BY BlockAssumption
    <3> QED
      BY <1>4, <3>1, BeginIs DEF WF!BeginWaf, WafStep
  <2> QED
    BY <1>4, <2>1, StartKeeps DEF WF!BeginWaf, WF!device, WF!history, BlockInv, BlockTypes
<1> QED
  BY <1>2, <1>3, <1>4

LEMMA DeletionKeeps ==
    ASSUME BlockInv, WF!DeleteIntegration
    PROVE  BlockInv'
<1>1. /\ UNCHANGED <<list, profile, policy, reviews, thread, mode, overlapped, released>>
      /\ connected' = FALSE /\ faults' \in 0..mode.faults
      /\ block' = [b \in Block |-> None]
  BY FaultIs DEF WF!DeleteIntegration, WF!device, WF!history
<1>2. \A b \in Block : block'[b] = None
  BY <1>1
<1>3. BlockTypes'
  BY <1>1, <1>2 DEF BlockInv, BlockTypes
<1>4. ASSUME NEW h \in Handler PROVE Held(h)' /\ Knows(h)'
  <2>1. Held(h) /\ Knows(h)
    BY DEF BlockInv
  <2> QED
    BY <1>1, <1>2, <2>1 DEF Held, Knows, Managed, Denied, Solo
<1>5. Apart' /\ Listed' /\ \A b \in Block : Backed(b)'
  BY <1>1, <1>2 DEF BlockInv, Apart, Listed, OnBlock, Backed
<1> QED
  BY <1>3, <1>4, <1>5 DEF BlockInv

LEMMA RestartKeeps ==
    ASSUME BlockInv, WF!Restart
    PROVE  BlockInv'
<1>1. /\ UNCHANGED <<list, profile, policy, block, connected, mode, overlapped, released>>
      /\ reviews' = {} /\ faults' \in 0..mode.faults
      /\ thread' = [h \in Handler |-> WF!Idle]
  BY FaultIs DEF WF!Restart, WF!device, WF!history
<1>2. \A h \in Handler : thread'[h] = WF!Idle
  BY <1>1
<1>3. BlockTypes'
  BY <1>1, <1>2, NobodyIs DEF BlockInv, BlockTypes
<1>4. \A h \in Handler : Held(h)' /\ Knows(h)'
  BY <1>2, AtRest
<1>5. Apart'
  BY <1>2, NobodyIs DEF Apart, OnBlock
<1>6. Listed' /\ \A b \in Block : Backed(b)'
  BY <1>1 DEF BlockInv, Listed, Backed, Managed, Denied
<1> QED
  BY <1>3, <1>4, <1>5, <1>6 DEF BlockInv

LEMMA BlocksStay ==
    ASSUME BlockInv, UNCHANGED all
    PROVE  BlockInv'
<1>1. UNCHANGED <<list, profile, policy, block, reviews, connected, thread, mode, faults,
                  overlapped, released>>
  BY DEF all
<1>2. BlockTypes' /\ Apart' /\ Listed'
  BY <1>1 DEF BlockInv, BlockTypes, Apart, OnBlock, Listed
<1>3. \A h \in Handler : Held(h)' /\ Knows(h)'
  BY <1>1 DEF BlockInv, Held, Knows, Managed, Denied, Solo
<1>4. \A b \in Block : Backed(b)'
  BY <1>1 DEF BlockInv, Backed, Managed, Denied
<1> QED
  BY <1>2, <1>3, <1>4 DEF BlockInv

LEMMA InitBlocks == WF!Init => BlockInv
<1> SUFFICES ASSUME WF!Init PROVE BlockInv
  OBVIOUS
<1>1. /\ list \in {None, {}} /\ block = [b \in Block |-> None] /\ reviews = {} /\ connected = TRUE
      /\ thread = [h \in Handler |-> WF!Idle] /\ mode \in Mode /\ faults = 0
      /\ overlapped = {} /\ released = {}
  BY DEF WF!Init
<1>2. /\ profile \in [Profile -> {None} \cup ProfileRow]
      /\ policy \in PolicyRow /\ profile[policy.profile] # None
  <2>1. PICK p \in Profile, l \in {"none", "other"} :
          /\ profile = [q \in Profile |-> IF q = p THEN [list |-> l, dos |-> None] ELSE None]
          /\ policy = [profile |-> p, log |-> FALSE]
    BY DEF WF!Init
  <2>2. PICK r \in ProfileRow : r = [list |-> l, dos |-> None]
    BY DEF ProfileRow
  <2>3. profile = [q \in Profile |-> IF q = p THEN r ELSE None] /\ r # None
    BY <2>1, <2>2, BlockAssumption DEF ProfileRow
  <2>4. policy \in PolicyRow /\ policy.profile = p
    BY <2>1 DEF PolicyRow
  <2> QED
    BY <2>3, <2>4
<1>3. (\A b \in Block : block[b] = None) /\ (\A h \in Handler : thread[h] = WF!Idle)
  BY <1>1
<1>4. mode.faults \in Nat
  BY <1>1, BlockAssumption
<1>5. BlockTypes
  BY <1>1, <1>2, <1>3, <1>4, NobodyIs DEF BlockTypes
<1>6. \A h \in Handler : Held(h) /\ Knows(h)
  BY <1>3, NobodyIs DEF Held, Knows, BlockStep, WafStep
<1>7. Apart /\ \A b \in Block : Backed(b)
  BY <1>3, NobodyIs DEF Apart, OnBlock, Backed
<1>8. Listed
  BY <1>1 DEF Listed
<1> QED
  BY <1>5, <1>6, <1>7, <1>8 DEF BlockInv

LEMMA NextBlocks ==
    ASSUME BlockInv, WF!Next
    PROVE  BlockInv'
<1>1. ASSUME NEW h \in Handler, WF!MarkApplied(h) \/ WF!MarkRemoved(h) PROVE BlockInv'
  BY <1>1, MarkKeeps DEF WF!MarkApplied, WF!MarkRemoved, BlockStep
<1>2. ASSUME NEW h \in Handler, WF!Request(h) PROVE BlockInv'
  BY <1>1, <1>2, BeginsKeep, ReadListKeeps, MakeListKeeps, AddMemberKeeps, ReadAttachedKeeps,
     SaveAttachedKeeps, FindKeeps, DeleteKeeps, ReadWafKeeps, PrepareProfileKeeps,
     PreparePolicyKeeps DEF WF!Request
<1> QED
  BY <1>2, ReviewsKeep, DeletionKeeps, RestartKeeps DEF WF!Next

LEMMA BlocksImply ==
    ASSUME BlockInv
    PROVE  /\ WF!TypeOK /\ WF!PolicyHasProfile /\ WF!ActiveIsEnforced /\ WF!AppliedIsEnforced
           /\ WF!RemovedIsReleased /\ WF!ListedOnce
<1>1. WF!TypeOK
  <2>1. list = None \/ list \subseteq WF!Member
    BY DEF BlockInv, BlockTypes
  <2>2. profile \in [Profile -> {None} \cup [list : {"none", "managed", "other"}, dos : Dos \cup {None}]]
    BY DEF BlockInv, BlockTypes, ProfileRow
  <2>3. \A h \in Handler :
          /\ thread[h].job \in Block \cup Waf \cup {None}
          /\ (thread[h].pc = "idle") <=> (thread[h] = WF!Idle)
          /\ thread[h].pc \in {"idle", "list", "makelist", "member", "attach", "save", "applied",
                               "find", "delete", "removed", "read", "profile", "policy"}
    BY DEF BlockInv, BlockTypes, Job, BlockStep, WafStep, Held
  <2> QED
    BY <2>1, <2>2, <2>3 DEF BlockInv, BlockTypes, PolicyRow, WF!TypeOK
<1>2. WF!PolicyHasProfile
  BY DEF BlockInv, BlockTypes, WF!PolicyHasProfile
<1>3. \A s : Denied(s) /\ Managed(policy.profile) => WF!Enforced(s)
  BY DEF Denied, Managed, WF!Enforced, WF!Lists
<1>4. WF!ActiveIsEnforced
  <2> SUFFICES ASSUME NEW b \in Block, block[b] # None, block[b].status = "active",
                      block[b].profile = policy.profile,
                      block[b].src \notin overlapped \cup released
               PROVE  WF!Enforced(block[b].src)
    BY DEF WF!ActiveIsEnforced
  <2> QED
    BY <1>3 DEF BlockInv, Backed
<1>5. WF!AppliedIsEnforced
  <2> SUFFICES ASSUME NEW h \in Handler, thread[h].pc = "applied", thread[h].alone,
                      thread[h].row.profile = policy.profile
               PROVE  WF!Enforced(thread[h].row.src)
    BY DEF WF!AppliedIsEnforced
  <2> QED
    BY <1>3 DEF BlockInv, Held, Knows, Solo
<1>6. WF!RemovedIsReleased
  <2> SUFFICES ASSUME NEW h \in Handler, thread[h].pc = "removed",
                      thread[h].row.src \notin overlapped
               PROVE  ~WF!Lists(list, thread[h].row.src)
    BY DEF WF!RemovedIsReleased
  <2> QED
    BY DEF BlockInv, Held, Knows, Denied, WF!Lists
<1>7. WF!ListedOnce
  BY DEF BlockInv, Listed, WF!ListedOnce
<1> QED
  BY <1>1, <1>2, <1>4, <1>5, <1>6, <1>7

\* Only the end of a WAF request without an error makes it idle.
LEMMA PolicyIsPrepared ==
    ASSUME BlockInv, WF!Next
    PROVE  WF!PolicyPrepared
<1> SUFFICES ASSUME NEW h \in Handler, thread[h].pc = "policy", thread[h].alone,
                    thread'[h] = WF!Idle, faults' = faults
             PROVE  /\ policy' = [profile |-> Wanted[thread[h].job].profile, log |-> TRUE]
                    /\ profile'[policy'.profile].dos = Wanted[thread[h].job].dos
  BY DEF WF!PolicyPrepared
<1>1. thread[h] \in Job /\ Held(h) /\ Knows(h) /\ thread \in [Handler -> Job]
      /\ thread'[h].pc = "idle"
  BY NobodyIs DEF BlockInv, BlockTypes
<1>2. thread' # thread
  BY <1>1
<1>3. ~WF!Fault
  BY FaultIs
<1>4. PICK g \in Handler : WF!Request(g)
  BY <1>2, <1>3 DEF WF!Next, WF!ReviewBlock, WF!ReviewWaf, WF!DeleteIntegration, WF!Restart
<1>5. g = h
  <2> SUFFICES ASSUME g # h PROVE thread'[h].pc # "idle"
    BY <1>1
  <2>1. ASSUME NEW j \in Block \cup Waf, NEW pc, WF!Begin(g, j, pc) PROVE thread'[h].pc # "idle"
    <3>1. thread'[h] = [thread[h] EXCEPT !.alone = FALSE]
      BY <2>1 DEF WF!Begin, WF!Busy
    <3> QED
      BY <1>1, <3>1 DEF Job
  <2>2. CASE \/ \E b \in Block : WF!BeginApply(g, b) \/ WF!BeginRemove(g, b)
             \/ \E w \in Waf : WF!BeginWaf(g, w)
    BY <2>1, <2>2 DEF WF!BeginApply, WF!BeginRemove, WF!BeginWaf
  <2>3. CASE \E t : thread' = [thread EXCEPT ![g] = t]
    BY <1>1, <2>3
  <2>4. \/ \E b \in Block : WF!BeginApply(g, b) \/ WF!BeginRemove(g, b)
        \/ \E w \in Waf : WF!BeginWaf(g, w)
        \/ \E t : thread' = [thread EXCEPT ![g] = t]
    <3>1. WF!Fails(g) \/ WF!End(g) => \E t : thread' = [thread EXCEPT ![g] = t]
      BY DEF WF!Fails, WF!End
    <3>2. \A pc : WF!Works(g, pc) => \E t : thread' = [thread EXCEPT ![g] = t]
      BY DEF WF!Works, WF!Become
    <3>3. WF!Prepared(g) => \E t : thread' = [thread EXCEPT ![g] = t]
      BY DEF WF!Prepared
    <3>4. WF!ReadList(g) \/ WF!ReadAttached(g) \/ WF!Find(g) \/ WF!ReadWaf(g)
            => \E t : thread' = [thread EXCEPT ![g] = t]
      BY <3>1 DEF WF!ReadList, WF!ReadAttached, WF!Find, WF!ReadWaf
    <3>5. WF!MakeList(g) \/ WF!AddMember(g) \/ WF!SaveAttached(g) \/ WF!Delete(g)
            => \E t : thread' = [thread EXCEPT ![g] = t]
      BY <3>1, <3>2 DEF WF!MakeList, WF!AddMember, WF!SaveAttached, WF!Delete
    <3>6. WF!MarkApplied(g) \/ WF!MarkRemoved(g) \/ WF!PrepareProfile(g) \/ WF!PreparePolicy(g)
            => \E t : thread' = [thread EXCEPT ![g] = t]
      BY <3>1, <3>3 DEF WF!MarkApplied, WF!MarkRemoved, WF!Mark, WF!PrepareProfile, WF!PreparePolicy
    <3> QED
      BY <1>4, <3>4, <3>5, <3>6 DEF WF!Request
  <2> QED
    BY <2>2, <2>3, <2>4
<1>6. WF!PreparePolicy(h)
  <2>1. WF!Idle.alone /\ thread[h] # WF!Idle
    BY NobodyIs DEF WF!Idle
  <2> QED
    BY <1>4, <1>5, <2>1 DEF WF!Request, WF!BeginApply, WF!BeginRemove, WF!BeginWaf, WF!Free,
       WF!ReadList, WF!MakeList, WF!AddMember, WF!ReadAttached, WF!SaveAttached,
       WF!MarkApplied, WF!MarkRemoved, WF!Mark, WF!Find, WF!Delete, WF!ReadWaf, WF!PrepareProfile
<1>7. /\ policy' = WF!Updated(thread[h].read.policy, Wanted[thread[h].job])
      /\ UNCHANGED profile
  BY <1>3, <1>6 DEF WF!PreparePolicy, WF!Fails
<1>8. thread[h].read.policy = policy /\ policy \in PolicyRow
  BY <1>1 DEF Knows, BlockInv, BlockTypes
<1>9. policy' = [profile |-> Wanted[thread[h].job].profile, log |-> TRUE]
  <2>1. (policy.log \/ ~policy.log) = TRUE
    OBVIOUS
  <2>2. (IF policy.profile # Wanted[thread[h].job].profile
         THEN Wanted[thread[h].job].profile ELSE policy.profile) = Wanted[thread[h].job].profile
    OBVIOUS
  <2>3. policy' = [profile |-> IF policy.profile # Wanted[thread[h].job].profile
                               THEN Wanted[thread[h].job].profile ELSE policy.profile,
                   log     |-> policy.log \/ ~policy.log]
    BY <1>7, <1>8 DEF WF!Updated
  <2> QED
    BY <2>1, <2>2, <2>3, Zenon
<1>10. profile[Wanted[thread[h].job].profile].dos = Wanted[thread[h].job].dos
  BY <1>1 DEF Knows
<1> QED
  BY <1>7, <1>9, <1>10

-----------------------------------------------------------------------------
(* The failed logins. *)

LEMMA MinIs ==
    ASSUME NEW S \in SUBSET Nat, S # {}
    PROVE  FL!Min(S) \in S /\ \A y \in S : FL!Min(S) <= y
BY LeastIs DEF FL!Min

\* What holds of the empty set, and of a set when it does of the rest without
\* its smallest member, holds of every set.
LEMMA EverySubset ==
    ASSUME NEW n \in Nat, NEW K \in SUBSET (1..n), NEW S, {} \in S,
           \A A \in SUBSET K : A # {} /\ A \ {FL!Min(A)} \in S => A \in S
    PROVE  SUBSET K \subseteq S
<1> SUFFICES ASSUME NEW B \in SUBSET K, B \notin S PROVE FALSE
  OBVIOUS
<1> DEFINE Bad == {Cardinality(A) : A \in (SUBSET K) \ S}
<1>1. \A A \in SUBSET K : IsFiniteSet(A) /\ Cardinality(A) \in Nat
  <2>1. IsFiniteSet(1..n)
    BY FS_Interval
  <2> SUFFICES ASSUME NEW A \in SUBSET K PROVE IsFiniteSet(A) /\ Cardinality(A) \in Nat
    OBVIOUS
  <2>2. IsFiniteSet(A)
    BY <2>1, FS_Subset
  <2> QED
    BY <2>2, FS_CardinalityType
<1>2. Bad \in SUBSET Nat /\ Bad # {}
  <2>1. Bad \subseteq Nat
    BY <1>1
  <2>2. Cardinality(B) \in Bad
    OBVIOUS
  <2> QED
    BY <2>1, <2>2
<1>3. PICK c \in Bad : \A d \in Bad : c <= d
  BY <1>2, LeastIs
<1>4. PICK A \in (SUBSET K) \ S : c = Cardinality(A)
  BY <1>3
<1>5. A # {} /\ FL!Min(A) \in A /\ A \in SUBSET K
  <2>1. A # {}
    OBVIOUS
  <2>2. A \in SUBSET K /\ SUBSET K \subseteq SUBSET Nat
    <3>1. K \in SUBSET Nat
      OBVIOUS
    <3> QED
      BY <3>1
  <2> QED
    BY <2>1, <2>2, MinIs
<1>6. Cardinality(A \ {FL!Min(A)}) = Cardinality(A) - 1
  BY <1>1, <1>5, FS_RemoveElement
<1>7. A \ {FL!Min(A)} \in S
  <2>1. A \ {FL!Min(A)} \in SUBSET K
    BY <1>5
  <2>2. SUFFICES ASSUME A \ {FL!Min(A)} \notin S PROVE FALSE
    OBVIOUS
  <2>3. Cardinality(A \ {FL!Min(A)}) \in Bad
    BY <2>1, <2>2
  <2>4. c <= Cardinality(A) - 1 /\ c = Cardinality(A) /\ Cardinality(A) \in Nat
    BY <1>1, <1>3, <1>4, <1>5, <1>6, <2>3
  <2> QED
    BY <2>4
<1> QED
  BY <1>5, <1>7

\* The fold that Sum and SentSum are: as long as the sum is not in C, the next
\* number is added.
Adds(x, sum, C) == IF sum \in C THEN sum ELSE sum + x
FoldsBy(G, D, f, b, C) ==
    \A A \in SUBSET D :
        G[A] = IF A = {} THEN b ELSE Adds(f[FL!Min(A)], G[A \ {FL!Min(A)}], C)

LEMMA FoldExists ==
    ASSUME NEW n \in Nat, NEW f \in [1..n -> Nat], NEW b \in Nat, NEW C
    PROVE  \E G \in [SUBSET (1..n) -> Nat] : FoldsBy(G, 1..n, f, b, C)
<1> DEFINE D(j) == (n - j + 1)..n
           Has(j) == \E G \in [SUBSET D(j) -> Nat] : FoldsBy(G, D(j), f, b, C)
           Bad == {j \in 0..n : ~Has(j)}
<1>1. Has(0)
  <2>1. D(0) = {}
    OBVIOUS
  <2> DEFINE G == [A \in SUBSET {} |-> b]
  <2>2. G \in [SUBSET {} -> Nat] /\ FoldsBy(G, {}, f, b, C)
    BY DEF FoldsBy
  <2> HIDE DEF G, D
  <2> QED
    BY <2>1, <2>2
<1>2. ASSUME NEW j \in 0..n, j # n, Has(j) PROVE Has(j + 1)
  <2> DEFINE m == n - j
             E == D(j)
             F == D(j + 1)
  <2>1. m \in 1..n /\ F = E \cup {m} /\ m \notin E /\ (\A x \in E : m < x /\ x \in Nat) /\ E \subseteq 1..n
    <3>1. j \in Nat /\ j < n
      BY <1>2
    <3>2. m \in 1..n /\ E = (m + 1)..n /\ F = m..n
      BY <3>1
    <3> HIDE DEF m, E, F
    <3> QED
      BY <3>2
  <2>2. PICK G \in [SUBSET E -> Nat] : FoldsBy(G, E, f, b, C)
    BY <1>2
  <2> HIDE DEF m, E, F
  <2> DEFINE H == [A \in SUBSET F |-> IF m \in A THEN Adds(f[m], G[A \ {m}], C) ELSE G[A]]
  <2>3. \A A \in SUBSET F : A \ {m} \in SUBSET E
    BY <2>1
  <2>4. \A A \in SUBSET F : H[A] \in Nat
    <3> SUFFICES ASSUME NEW A \in SUBSET F PROVE H[A] \in Nat
      OBVIOUS
    <3>1. G[A \ {m}] \in Nat /\ f[m] \in Nat /\ (m \notin A => A \ {m} = A)
      BY <2>1, <2>3
    <3>2. Adds(f[m], G[A \ {m}], C) \in Nat
      BY <3>1 DEF Adds
    <3> QED
      BY <3>1, <3>2
  <2>5. FoldsBy(H, F, f, b, C)
    <3> SUFFICES ASSUME NEW A \in SUBSET F
                 PROVE  H[A] = IF A = {} THEN b ELSE Adds(f[FL!Min(A)], H[A \ {FL!Min(A)}], C)
      BY DEF FoldsBy
    <3>1. CASE m \in A
      <4>1. FL!Min(A) = m
        <5>1. A \in SUBSET Nat
          BY <2>1
        <5>2. FL!Min(A) \in A /\ FL!Min(A) <= m
          BY <3>1, <5>1, MinIs
        <5>3. FL!Min(A) \in E \cup {m}
          BY <2>1, <5>2
        <5>4. PICK x \in E \cup {m} : x = FL!Min(A) /\ x <= m
          BY <5>2, <5>3
        <5>5. x \notin E
          BY <2>1, <5>4
        <5> QED
          BY <5>4, <5>5
      <4>2. H[A \ {m}] = G[A \ {m}]
        BY <2>3
      <4> QED
        BY <3>1, <4>1, <4>2
    <3>2. CASE m \notin A
      <4>1. A \in SUBSET E
        BY <2>3, <3>2
      <4>2. A \ {FL!Min(A)} \in SUBSET F /\ m \notin A \ {FL!Min(A)}
        BY <3>2
      <4> QED
        BY <2>2, <3>2, <4>1, <4>2 DEF FoldsBy
    <3> QED
      BY <3>1, <3>2
  <2>6. H \in [SUBSET F -> Nat]
    BY <2>4
  <2> QED
    BY <2>5, <2>6 DEF F
<1>3. Bad = {}
  <2> SUFFICES ASSUME Bad # {} PROVE FALSE
    OBVIOUS
  <2> HIDE DEF Has
  <2>1. Bad \in SUBSET Nat
    OBVIOUS
  <2>2. PICK j \in Bad : \A i \in Bad : j <= i
    BY <2>1, LeastIs
  <2>3. j # 0
    BY <1>1
  <2>4. j - 1 \in 0..n /\ j - 1 # n /\ Has(j - 1)
    BY <2>2, <2>3
  <2>5. Has((j - 1) + 1)
    BY <1>2, <2>4
  <2>6. (j - 1) + 1 = j
    OBVIOUS
  <2> QED
    BY <2>5, <2>6
<1>4. Has(n) /\ D(n) = 1..n
  <2>1. n \in 0..n /\ n - n + 1 = 1
    OBVIOUS
  <2> QED
    BY <1>3, <2>1
<1> QED
  BY <1>4

LEMMA SumIs ==
    ASSUME NEW n \in Nat, NEW K \in SUBSET (1..n), NEW b \in Nat,
           \A k \in 1..n : records[k].count \in Nat
    PROVE  \E H \in [SUBSET K -> Nat] :
             /\ FoldsBy(H, K, [k \in 1..n |-> records[k].count], b, {x \in Nat : x >= SiemThreshold})
             /\ H[K] = FL!Sum(K, b)
<1> DEFINE f == [k \in 1..n |-> records[k].count]
           C == {x \in Nat : x >= SiemThreshold}
           body(it) == [s \in SUBSET K |->
                     IF s = {} THEN b
                     ELSE IF it[s \ {FL!Min(s)}] >= SiemThreshold THEN it[s \ {FL!Min(s)}]
                          ELSE it[s \ {FL!Min(s)}] + records[FL!Min(s)].count]
<1>1. FL!Sum(K, b) = (CHOOSE it : it = body(it))[K]
  BY DEF FL!Sum, FL!MapThenFoldSet
<1>2. f \in [1..n -> Nat]
  OBVIOUS
<1>3. PICK G \in [SUBSET (1..n) -> Nat] : FoldsBy(G, 1..n, f, b, C)
  BY <1>2, FoldExists
<1> DEFINE H0 == [A \in SUBSET K |-> G[A]]
<1>4. H0 \in [SUBSET K -> Nat] /\ FoldsBy(H0, K, f, b, C)
  <2>1. ASSUME NEW A \in SUBSET K PROVE A \ {FL!Min(A)} \in SUBSET K /\ A \in SUBSET (1..n)
    OBVIOUS
  <2> HIDE DEF f, C
  <2> QED
    BY <1>3, <2>1 DEF FoldsBy
\* A function that folds is one that the recursion defines, and the other way round.
<1>5. ASSUME NEW A \in SUBSET K, A # {} PROVE f[FL!Min(A)] = records[FL!Min(A)].count
  <2>1. A \in SUBSET Nat
    OBVIOUS
  <2>2. FL!Min(A) \in A
    BY <1>5, <2>1, MinIs
  <2> QED
    BY <2>2
<1>6. H0 = body(H0)
  <2>1. ASSUME NEW s \in SUBSET K
        PROVE  H0[s] = IF s = {} THEN b
                       ELSE IF H0[s \ {FL!Min(s)}] >= SiemThreshold THEN H0[s \ {FL!Min(s)}]
                            ELSE H0[s \ {FL!Min(s)}] + records[FL!Min(s)].count
    <3>1. s \ {FL!Min(s)} \in SUBSET K
      OBVIOUS
    <3>2. H0[s] = IF s = {} THEN b ELSE Adds(f[FL!Min(s)], H0[s \ {FL!Min(s)}], C)
      BY <1>4 DEF FoldsBy
    <3>3. H0[s \ {FL!Min(s)}] \in Nat
      BY <1>4, <3>1
    <3> HIDE DEF H0, f
    <3> QED
      BY <1>5, <3>2, <3>3 DEF Adds
  <2>2. H0 = [s \in SUBSET K |-> H0[s]]
    OBVIOUS
  <2> HIDE DEF H0
  <2> QED
    BY <2>1, <2>2
<1> DEFINE H == CHOOSE it : it = body(it)
<1>7. H = body(H)
  <2> HIDE DEF body, H0
  <2> QED
    BY <1>6
<1>8. \A A \in SUBSET K : H[A] = H0[A]
  <2> DEFINE S == {A \in SUBSET K : H[A] = H0[A]}
  <2>1. ASSUME NEW A \in SUBSET K, A = {} \/ A \ {FL!Min(A)} \in S PROVE A \in S
    <3>1. H[A] = body(H)[A] /\ H0[A] = body(H0)[A]
      <4> HIDE DEF H, H0, body
      <4> QED
        BY <1>6, <1>7
    <3> HIDE DEF H, H0
    <3> QED
      BY <2>1, <3>1
  <2>2. {} \in S
    BY <2>1
  <2> HIDE DEF S
  <2>3. SUBSET K \subseteq S
    BY <2>1, <2>2, EverySubset
  <2> QED
    BY <2>3 DEF S
<1>9. H = H0
  <2>1. H = [s \in SUBSET K |-> H[s]]
    <3> HIDE DEF H
    <3> QED
      BY <1>7
  <2>2. H0 = [s \in SUBSET K |-> H0[s]]
    OBVIOUS
  <2> HIDE DEF H, H0
  <2> QED
    BY <1>8, <2>1, <2>2
<1>10. H[K] = FL!Sum(K, b)
  BY <1>1
<1> HIDE DEF H, H0, f, body
<1> QED
  BY <1>4, <1>9, <1>10 DEF f

LEMMA SentIs ==
    ASSUME NEW n \in Nat, NEW K \in SUBSET (1..n),
           \A k \in 1..n : records[k].sent \in Nat
    PROVE  \E H \in [SUBSET K -> Nat] :
             /\ FoldsBy(H, K, [k \in 1..n |-> records[k].sent], 0, {})
             /\ H[K] = FL!SentSum(K)
<1> DEFINE f == [k \in 1..n |-> records[k].sent]
           C == {}
           body(it) == [s \in SUBSET K |->
                     IF s = {} THEN 0
                     ELSE it[s \ {FL!Min(s)}] + records[FL!Min(s)].sent]
<1>1. FL!SentSum(K) = (CHOOSE it : it = body(it))[K]
  BY DEF FL!SentSum, FL!MapThenFoldSet
<1>2. f \in [1..n -> Nat]
  OBVIOUS
<1>3. PICK G \in [SUBSET (1..n) -> Nat] : FoldsBy(G, 1..n, f, 0, C)
  BY <1>2, FoldExists
<1> DEFINE H0 == [A \in SUBSET K |-> G[A]]
<1>4. H0 \in [SUBSET K -> Nat] /\ FoldsBy(H0, K, f, 0, C)
  <2>1. ASSUME NEW A \in SUBSET K PROVE A \ {FL!Min(A)} \in SUBSET K /\ A \in SUBSET (1..n)
    OBVIOUS
  <2> HIDE DEF f, C
  <2> QED
    BY <1>3, <2>1 DEF FoldsBy
\* A function that folds is one that the recursion defines, and the other way round.
<1>5. ASSUME NEW A \in SUBSET K, A # {} PROVE f[FL!Min(A)] = records[FL!Min(A)].sent
  <2>1. A \in SUBSET Nat
    OBVIOUS
  <2>2. FL!Min(A) \in A
    BY <1>5, <2>1, MinIs
  <2> QED
    BY <2>2
<1>6. H0 = body(H0)
  <2>1. ASSUME NEW s \in SUBSET K
        PROVE  H0[s] = IF s = {} THEN 0
                       ELSE H0[s \ {FL!Min(s)}] + records[FL!Min(s)].sent
    <3>1. s \ {FL!Min(s)} \in SUBSET K
      OBVIOUS
    <3>2. H0[s] = IF s = {} THEN 0 ELSE Adds(f[FL!Min(s)], H0[s \ {FL!Min(s)}], C)
      BY <1>4 DEF FoldsBy
    <3>3. H0[s \ {FL!Min(s)}] \in Nat
      BY <1>4, <3>1
    <3> HIDE DEF H0, f
    <3> QED
      BY <1>5, <3>2, <3>3 DEF Adds
  <2>2. H0 = [s \in SUBSET K |-> H0[s]]
    OBVIOUS
  <2> HIDE DEF H0
  <2> QED
    BY <2>1, <2>2
<1> DEFINE H == CHOOSE it : it = body(it)
<1>7. H = body(H)
  <2> HIDE DEF body, H0
  <2> QED
    BY <1>6
<1>8. \A A \in SUBSET K : H[A] = H0[A]
  <2> DEFINE S == {A \in SUBSET K : H[A] = H0[A]}
  <2>1. ASSUME NEW A \in SUBSET K, A = {} \/ A \ {FL!Min(A)} \in S PROVE A \in S
    <3>1. H[A] = body(H)[A] /\ H0[A] = body(H0)[A]
      <4> HIDE DEF H, H0, body
      <4> QED
        BY <1>6, <1>7
    <3> HIDE DEF H, H0
    <3> QED
      BY <2>1, <3>1
  <2>2. {} \in S
    BY <2>1
  <2> HIDE DEF S
  <2>3. SUBSET K \subseteq S
    BY <2>1, <2>2, EverySubset
  <2> QED
    BY <2>3 DEF S
<1>9. H = H0
  <2>1. H = [s \in SUBSET K |-> H[s]]
    <3> HIDE DEF H
    <3> QED
      BY <1>7
  <2>2. H0 = [s \in SUBSET K |-> H0[s]]
    OBVIOUS
  <2> HIDE DEF H, H0
  <2> QED
    BY <1>8, <2>1, <2>2
<1>10. H[K] = FL!SentSum(K)
  BY <1>1
<1> HIDE DEF H, H0, f, body
<1> QED
  BY <1>4, <1>9, <1>10 DEF f

\* Whatever folds the counts that were sent over all records.
Sums(G) == FoldsBy(G, DOMAIN records, [k \in DOMAIN records |-> records[k].sent], 0, {})

\* Record k is an incident; and it is one when what was sent adds up, and only
\* with a cause.
Caught(k) == records[k].count >= SiemThreshold

Noticed(k) ==
    \A G \in [SUBSET (DOMAIN records) -> Nat] : Sums(G) =>
        /\ G[FL!Before(k) \cup {k}] >= SiemThreshold => Caught(k)
        /\ Caught(k) =>
             \/ G[FL!Before(k) \cup {k}] >= SiemThreshold
             \/ \E j \in FL!Before(k) : Caught(j)

Login == [subject : FL!Subject, at : FL!Time, sent : Nat \ {0}, count : Nat]

RecordInv ==
    /\ records \in Seq(Login)
    /\ \A k \in DOMAIN records :
         /\ records[k].count >= records[k].sent
         /\ records[k].count = records[k].sent \/ Caught(k)
         /\ Noticed(k)

\* The capped sum of the counts, from n on, and the sum of what was sent, of the
\* same records and a last one that says n.
LEMMA SumsCompare ==
    ASSUME NEW n \in Nat, NEW K \in SUBSET (1..n), NEW sent \in [1..(n + 1) -> Nat],
           NEW count \in [1..n -> Nat], \A k \in K : count[k] >= sent[k],
           NEW H \in [SUBSET K -> Nat], NEW G \in [SUBSET (1..(n + 1)) -> Nat],
           FoldsBy(H, K, count, sent[n + 1], {x \in Nat : x >= SiemThreshold}),
           FoldsBy(G, 1..(n + 1), sent, 0, {})
    PROVE  /\ G[K \cup {n + 1}] >= SiemThreshold => H[K] >= SiemThreshold
           /\ (\A k \in K : count[k] = sent[k]) => H[K] <= G[K \cup {n + 1}]
<1> DEFINE S == {A \in SUBSET K :
                   /\ H[A] >= SiemThreshold \/ H[A] >= G[A \cup {n + 1}]
                   /\ (\A k \in K : count[k] = sent[k]) => H[A] <= G[A \cup {n + 1}]}
<1>1. SiemThreshold \in Nat
  BY LoginAssumption
<1>2. \A A \in SUBSET K : A \cup {n + 1} \in SUBSET (1..(n + 1))
  OBVIOUS
<1>3. {} \in S
  <2>1. FL!Min({n + 1}) = n + 1
    <3>1. {n + 1} \in SUBSET Nat
      OBVIOUS
    <3>2. FL!Min({n + 1}) \in {n + 1}
      BY <3>1, MinIs
    <3> QED
      BY <3>2
  <2>2. G[{n + 1}] = Adds(sent[n + 1], G[{}], {}) /\ G[{}] = 0
    <3>1. {n + 1} \in SUBSET (1..(n + 1)) /\ {n + 1} # {} /\ {n + 1} \ {n + 1} = {}
      OBVIOUS
    <3> QED
      BY <2>1, <3>1 DEF FoldsBy
  <2>3. G[{n + 1}] = sent[n + 1]
    BY <2>2 DEF Adds
  <2>4. H[{}] = sent[n + 1] /\ {} \cup {n + 1} = {n + 1} /\ sent[n + 1] \in Nat
    BY DEF FoldsBy
  <2> QED
    BY <2>3, <2>4
<1>4. ASSUME NEW A \in SUBSET K, A # {}, A \ {FL!Min(A)} \in S
      PROVE  A \in S
  <2> DEFINE B == A \cup {n + 1}
  <2>1. A \in SUBSET Nat /\ B \in SUBSET Nat
    <3>1. K \in SUBSET Nat
      OBVIOUS
    <3> QED
      BY <3>1
  <2>2. PICK m \in A : m = FL!Min(A) /\ \A y \in A : m <= y
    BY <1>4, <2>1, MinIs
  <2>3. m \in K /\ m \in 1..n /\ m # n + 1 /\ count[m] \in Nat /\ sent[m] \in Nat
        /\ count[m] >= sent[m]
    OBVIOUS
  <2>4. FL!Min(B) = m
    <3>1. FL!Min(B) \in B /\ \A y \in B : FL!Min(B) <= y
      BY <2>1, MinIs
    <3>2. PICK x \in B : x = FL!Min(B)
      BY <3>1
    <3>3. x <= m /\ x \in Nat /\ m \in Nat
      BY <2>1, <2>2, <2>3, <3>1, <3>2
    <3>4. CASE x \in A
      BY <2>2, <3>2, <3>3, <3>4
    <3>5. CASE x = n + 1
      BY <2>3, <3>3, <3>5
    <3> QED
      BY <3>2, <3>4, <3>5
  <2>5. B \ {m} = (A \ {m}) \cup {n + 1} /\ B # {} /\ B \in SUBSET (1..(n + 1))
    BY <2>3
  <2>6. G[B] = Adds(sent[m], G[(A \ {m}) \cup {n + 1}], {})
    BY <2>4, <2>5 DEF FoldsBy
  <2>7. H[A] = Adds(count[m], H[A \ {m}], {x \in Nat : x >= SiemThreshold})
    BY <1>4, <2>2 DEF FoldsBy
  <2>8. PICK h \in Nat, g \in Nat : h = H[A \ {m}] /\ g = G[(A \ {m}) \cup {n + 1}]
    BY <1>2
  <2>9. /\ h >= SiemThreshold \/ h >= g
        /\ (\A k \in K : count[k] = sent[k]) => h <= g
    BY <1>4, <2>2, <2>8
  <2>10. G[B] = g + sent[m] /\ H[A] = IF h >= SiemThreshold THEN h ELSE h + count[m]
    BY <2>6, <2>7, <2>8 DEF Adds
  <2>11. H[A] >= SiemThreshold \/ H[A] >= G[B]
    BY <1>1, <2>3, <2>9, <2>10
  <2>12. (\A k \in K : count[k] = sent[k]) => H[A] <= G[B]
    BY <1>1, <2>3, <2>9, <2>10
  <2> QED
    BY <2>11, <2>12
<1>5. K \in S
  <2> HIDE DEF S
  <2>1. SUBSET K \subseteq S
    BY <1>3, <1>4, EverySubset
  <2> QED
    BY <2>1
<1>6. PICK h \in Nat, g \in Nat : h = H[K] /\ g = G[K \cup {n + 1}]
  BY <1>2
<1>7. h >= SiemThreshold \/ h >= g
  BY <1>5, <1>6
<1>8. (\A k \in K : count[k] = sent[k]) => h <= g
  BY <1>5, <1>6
<1>9. g >= SiemThreshold => h >= SiemThreshold
  BY <1>1, <1>7
<1> QED
  BY <1>6, <1>8, <1>9

-----------------------------------------------------------------------------
(* The records of siem_kowalski. *)

LEMMA LoginsAre ==
    ASSUME RecordInv
    PROVE  /\ Len(records) \in Nat /\ DOMAIN records = 1..Len(records)
           /\ \A k \in 1..Len(records) :
                /\ records[k] \in Login /\ records[k].count \in Nat /\ records[k].sent \in Nat
                /\ records[k].sent > 0
<1>1. records \in Seq(Login)
  BY DEF RecordInv
<1>2. \A k \in 1..Len(records) : records[k] \in Login
  BY <1>1
<1>3. \A r \in Login : r.count \in Nat /\ r.sent \in Nat /\ r.sent > 0
  BY DEF Login
<1> QED
  BY <1>1, <1>2, <1>3

LEMMA RecordIs ==
    ASSUME RecordInv, NEW x \in FL!Subject, NEW t \in FL!Time, NEW c \in Nat \ {0}
    PROVE  LET K == FL!Related(x, t) IN
           /\ K \in SUBSET (1..Len(records))
           /\ FL!Sum(K, c) \in Nat
           /\ \E r \in Login :
                /\ r = FL!Record(x, t, c) /\ r.subject = x /\ r.at = t /\ r.sent = c
                /\ r.count >= c
                /\ r.count = c \/ r.count >= SiemThreshold
                /\ r.count >= SiemThreshold
                     <=> (c >= SiemThreshold \/ FL!Sum(K, c) >= SiemThreshold)
<1> DEFINE K == FL!Related(x, t)
<1>1. K \in SUBSET (1..Len(records))
  BY LoginsAre DEF FL!Related
<1>2. PICK sum \in Nat : sum = FL!Sum(K, c)
  <2> HIDE DEF K
  <2>1. PICK n \in Nat : n = Len(records)
    BY LoginsAre
  <2>2. \A k \in 1..n : records[k].count \in Nat
    BY <2>1, LoginsAre
  <2>3. PICK H \in [SUBSET K -> Nat] : H[K] = FL!Sum(K, c)
    <3>1. K \in SUBSET (1..n)
      BY <1>1, <2>1
    <3>2. \E H \in [SUBSET K -> Nat] :
             /\ FoldsBy(H, K, [k \in 1..n |-> records[k].count], c, {y \in Nat : y >= SiemThreshold})
             /\ H[K] = FL!Sum(K, c)
      BY <2>2, <3>1, SumIs
    <3> QED
      BY <3>2
  <2>4. H[K] \in Nat
    BY <2>3
  <2> QED
    BY <2>3, <2>4
<1>3. PICK d \in Nat : /\ d = FL!Enriched(x, t, c)
                       /\ d = IF c >= SiemThreshold THEN c
                              ELSE IF sum >= SiemThreshold THEN sum ELSE c
  BY <1>2 DEF FL!Enriched
<1> DEFINE r == [subject |-> x, at |-> t, sent |-> c, count |-> d]
<1>4. r = FL!Record(x, t, c)
  BY <1>3 DEF FL!Record
<1>5. r \in Login /\ r.subject = x /\ r.at = t /\ r.sent = c /\ r.count = d
  BY DEF Login
<1>6. /\ d >= c
      /\ d = c \/ d >= SiemThreshold
      /\ d >= SiemThreshold <=> (c >= SiemThreshold \/ sum >= SiemThreshold)
  BY <1>3, LoginAssumption
<1> HIDE DEF K, r
<1>7. \E q \in Login :
        /\ q = FL!Record(x, t, c) /\ q.subject = x /\ q.at = t /\ q.sent = c
        /\ q.count >= c
        /\ q.count = c \/ q.count >= SiemThreshold
        /\ q.count >= SiemThreshold
             <=> (c >= SiemThreshold \/ FL!Sum(K, c) >= SiemThreshold)
  BY <1>2, <1>4, <1>5, <1>6
<1> QED
  BY <1>1, <1>2, <1>7 DEF K

\* A capped sum is not below what it starts from.
LEMMA SumIsAbove ==
    ASSUME NEW n \in Nat, NEW K \in SUBSET (1..n), NEW count \in [1..n -> Nat],
           NEW c \in Nat, NEW H \in [SUBSET K -> Nat],
           FoldsBy(H, K, count, c, {y \in Nat : y >= SiemThreshold})
    PROVE  H[K] >= c
<1> DEFINE S == {A \in SUBSET K : H[A] >= c}
<1>1. {} \in S
  <2>1. {} \in SUBSET K
    OBVIOUS
  <2>2. H[{}] = c
    BY <2>1 DEF FoldsBy
  <2> QED
    BY <2>1, <2>2
<1>2. ASSUME NEW A \in SUBSET K, A # {}, A \ {FL!Min(A)} \in S PROVE A \in S
  <2>1. PICK m \in K : m = FL!Min(A)
    <3>1. A \in SUBSET Nat
      OBVIOUS
    <3> QED
      BY <1>2, <3>1, MinIs
  <2>2. PICK a \in Nat, b \in Nat : a = H[A \ {m}] /\ b = count[m]
    OBVIOUS
  <2>3. H[A] = IF a >= SiemThreshold THEN a ELSE a + b
    <3>1. H[A] = Adds(count[m], H[A \ {m}], {y \in Nat : y >= SiemThreshold})
      BY <1>2, <2>1 DEF FoldsBy
    <3> QED
      BY <2>2, <3>1 DEF Adds
  <2>4. a >= c
    BY <1>2, <2>1, <2>2
  <2> QED
    BY <2>2, <2>3, <2>4
<1> HIDE DEF S
<1>3. SUBSET K \subseteq S
  BY <1>1, <1>2, EverySubset
<1> QED
  BY <1>3 DEF S

\* The records that the next one is compared with, after it came.
LEMMA NextIsCompared ==
    ASSUME RecordInv, NEW n \in Nat, n = Len(records), NEW r \in Login,
           records' = Append(records, r)
    PROVE  /\ Len(records') = n + 1 /\ DOMAIN records' = 1..(n + 1)
           /\ records'[n + 1] = r /\ \A k \in 1..n : records'[k] = records[k]
           /\ records' \in Seq(Login)
           /\ \A k \in 1..n : FL!Before(k)' = FL!Before(k) /\ FL!Before(k) \in SUBSET (1..n)
           /\ FL!Before(n + 1)' = FL!Related(r.subject, r.at)
<1>1. records \in Seq(Login) /\ DOMAIN records = 1..n
  BY LoginsAre DEF RecordInv
<1>2. /\ Len(records') = n + 1 /\ DOMAIN records' = 1..(n + 1)
      /\ records'[n + 1] = r /\ \A k \in 1..n : records'[k] = records[k]
      /\ records' \in Seq(Login)
  BY <1>1
<1>3. ASSUME NEW k \in 1..n
      PROVE  FL!Before(k)' = FL!Before(k) /\ FL!Before(k) \in SUBSET (1..n)
  <2>1. \A j \in 1..(k - 1) : j \in 1..n
    OBVIOUS
  <2> QED
    BY <1>2, <2>1 DEF FL!Before, FL!SameSubject
<1>4. FL!Before(n + 1)' = FL!Related(r.subject, r.at)
  <2>1. 1..((n + 1) - 1) = 1..n /\ (n + 1) - 1 = n
    OBVIOUS
  <2>2. FL!Before(n + 1)' =
          {j \in 1..n : /\ j + SiemLimit > n
                        /\ records[j].at + SiemWindow >= r.at
                        /\ records[j].at <= r.at
                        /\ FL!SameSubject(r.subject, records[j].subject)}
    BY <1>2, <2>1 DEF FL!Before, FL!SameSubject
  <2>3. FL!Related(r.subject, r.at) =
          {j \in 1..n : /\ j + SiemLimit > n
                        /\ records[j].at + SiemWindow >= r.at
                        /\ records[j].at <= r.at
                        /\ FL!SameSubject(r.subject, records[j].subject)}
    BY <1>1 DEF FL!Related
  <2> QED
    BY <2>2, <2>3
<1> QED
  BY <1>2, <1>3, <1>4

\* The step of every ingest.
LEMMA AppendKeeps ==
    ASSUME RecordInv, NEW x \in FL!Subject, NEW t \in FL!Time, NEW c \in Nat \ {0},
           records' = Append(records, FL!Record(x, t, c))
    PROVE  RecordInv'
<1>1. PICK n \in Nat : n = Len(records)
  BY LoginsAre
<1>2. PICK K \in SUBSET (1..n) : K = FL!Related(x, t)
  BY <1>1, RecordIs
<1>3. PICK r \in Login :
        /\ r = FL!Record(x, t, c) /\ r.subject = x /\ r.at = t /\ r.sent = c
        /\ r.count >= c
        /\ r.count = c \/ r.count >= SiemThreshold
        /\ r.count >= SiemThreshold <=> (c >= SiemThreshold \/ FL!Sum(K, c) >= SiemThreshold)
  BY <1>2, RecordIs
<1>4. /\ Len(records') = n + 1 /\ DOMAIN records' = 1..(n + 1)
      /\ records'[n + 1] = r /\ \A k \in 1..n : records'[k] = records[k]
      /\ records' \in Seq(Login)
      /\ \A k \in 1..n : FL!Before(k)' = FL!Before(k) /\ FL!Before(k) \in SUBSET (1..n)
      /\ FL!Before(n + 1)' = FL!Related(r.subject, r.at)
  <2>1. records' = Append(records, r)
    BY <1>3
  <2> QED
    BY <1>1, <2>1, NextIsCompared
<1>5. FL!Before(n + 1)' = K
  BY <1>2, <1>3, <1>4
<1>6. \A k \in 1..n : k \in 1..(n + 1) /\ k # n + 1
  OBVIOUS
<1>7. /\ DOMAIN records = 1..n
      /\ \A k \in 1..n : /\ records[k] \in Login
                         /\ records[k].count \in Nat /\ records[k].sent \in Nat
  BY <1>1, LoginsAre
<1>8. \A k \in 1..n : /\ records[k].count >= records[k].sent
                      /\ records[k].count = records[k].sent \/ Caught(k)
                      /\ Noticed(k)
  BY <1>7 DEF RecordInv
<1>9. /\ \A k \in 1..n : Caught(k)' <=> Caught(k)
      /\ Caught(n + 1)' <=> r.count >= SiemThreshold
  BY <1>4 DEF Caught
<1> DEFINE sent == [k \in 1..(n + 1) |-> IF k = n + 1 THEN c ELSE records[k].sent]
           count == [k \in 1..n |-> records[k].count]
<1>10. sent \in [1..(n + 1) -> Nat] /\ count \in [1..n -> Nat] /\ sent[n + 1] = c
  <2>1. \A k \in 1..(n + 1) : k # n + 1 => k \in 1..n
    OBVIOUS
  <2> QED
    BY <1>7, <2>1
<1>11. \A k \in 1..n : sent[k] = records[k].sent /\ count[k] = records[k].count
  BY <1>6
<1>12. \A G : Sums(G)' <=> FoldsBy(G, 1..(n + 1), sent, 0, {})
  <2>1. [k \in 1..(n + 1) |-> records'[k].sent] = sent
    <3>1. \A k \in 1..(n + 1) : records'[k].sent = IF k = n + 1 THEN c ELSE records[k].sent
      <4>1. \A k \in 1..(n + 1) : k # n + 1 => k \in 1..n
        OBVIOUS
      <4> QED
        BY <1>3, <1>4, <4>1
    <3> QED
      BY <3>1
  <2> HIDE DEF sent
  <2> QED
    BY <1>4, <2>1 DEF Sums, FoldsBy
<1> HIDE DEF sent, count
<1>13. ASSUME NEW k \in 1..n PROVE Noticed(k)'
  <2> SUFFICES ASSUME NEW G \in [SUBSET (1..(n + 1)) -> Nat], FoldsBy(G, 1..(n + 1), sent, 0, {})
               PROVE  /\ G[FL!Before(k) \cup {k}] >= SiemThreshold => Caught(k)
                      /\ Caught(k) =>
                           \/ G[FL!Before(k) \cup {k}] >= SiemThreshold
                           \/ \E j \in FL!Before(k) : Caught(j)
    <3>1. \A j \in FL!Before(k) : j \in 1..n
      BY <1>4
    <3> QED
      BY <1>4, <1>9, <1>12, <3>1 DEF Noticed
  <2> DEFINE F == [A \in SUBSET (1..n) |-> G[A]]
  <2>1. \A A \in SUBSET (1..n) : A \in SUBSET (1..(n + 1)) /\ A \ {FL!Min(A)} \in SUBSET (1..n)
    BY <1>6
  <2>2. F \in [SUBSET (1..n) -> Nat] /\ \A A \in SUBSET (1..n) : F[A] = G[A]
    BY <2>1
  <2>3. Sums(F)
    <3> SUFFICES ASSUME NEW A \in SUBSET (1..n)
                 PROVE  F[A] = IF A = {} THEN 0
                               ELSE Adds([j \in 1..n |-> records[j].sent][FL!Min(A)],
                                         F[A \ {FL!Min(A)}], {})
      BY <1>7 DEF Sums, FoldsBy
    <3>1. G[A] = IF A = {} THEN 0 ELSE Adds(sent[FL!Min(A)], G[A \ {FL!Min(A)}], {})
      BY <2>1 DEF FoldsBy
    <3>2. A # {} => FL!Min(A) \in 1..n
      <4>1. A \in SUBSET Nat
        OBVIOUS
      <4> QED
        BY <4>1, MinIs
    <3>3. A # {} => sent[FL!Min(A)] = [j \in 1..n |-> records[j].sent][FL!Min(A)]
      BY <1>11, <3>2
    <3> HIDE DEF F
    <3> QED
      BY <2>1, <2>2, <3>1, <3>3
  <2>4. FL!Before(k) \cup {k} \in SUBSET (1..n)
    BY <1>4
  <2> HIDE DEF F
  <2>5. Noticed(k)
    BY <1>8
  <2>6. /\ F[FL!Before(k) \cup {k}] >= SiemThreshold => Caught(k)
        /\ Caught(k) =>
             \/ F[FL!Before(k) \cup {k}] >= SiemThreshold
             \/ \E j \in FL!Before(k) : Caught(j)
    BY <1>7, <2>2, <2>3, <2>5 DEF Noticed
  <2> QED
    BY <2>2, <2>4, <2>6
<1>14. Noticed(n + 1)'
  <2> SUFFICES ASSUME NEW G \in [SUBSET (1..(n + 1)) -> Nat], FoldsBy(G, 1..(n + 1), sent, 0, {})
               PROVE  /\ G[K \cup {n + 1}] >= SiemThreshold => r.count >= SiemThreshold
                      /\ r.count >= SiemThreshold =>
                           \/ G[K \cup {n + 1}] >= SiemThreshold
                           \/ \E j \in K : Caught(j)
    BY <1>4, <1>5, <1>9, <1>12 DEF Noticed
  <2>1. PICK H \in [SUBSET K -> Nat] :
          /\ FoldsBy(H, K, count, c, {y \in Nat : y >= SiemThreshold})
          /\ H[K] = FL!Sum(K, c)
    <3>1. \A k \in 1..n : records[k].count \in Nat
      BY <1>7
    <3> QED
      BY <3>1, SumIs DEF count
  <2>2. \A k \in K : count[k] >= sent[k]
    BY <1>8, <1>11
  <2>3. FoldsBy(H, K, count, sent[n + 1], {y \in Nat : y >= SiemThreshold})
    BY <1>10, <2>1
  <2>4. /\ G[K \cup {n + 1}] >= SiemThreshold => H[K] >= SiemThreshold
        /\ (\A k \in K : count[k] = sent[k]) => H[K] <= G[K \cup {n + 1}]
    BY <1>10, <2>1, <2>2, <2>3, SumsCompare
  <2>5. PICK g \in Nat, h \in Nat : g = G[K \cup {n + 1}] /\ h = H[K]
    <3>1. K \cup {n + 1} \in SUBSET (1..(n + 1))
      BY <1>6
    <3> QED
      BY <3>1
  <2>6. r.count >= SiemThreshold <=> (c >= SiemThreshold \/ h >= SiemThreshold)
    BY <1>3, <2>1, <2>5
  <2>7. h >= c
    BY <1>10, <2>1, <2>5, SumIsAbove
  <2>8. g >= SiemThreshold => r.count >= SiemThreshold
    BY <2>4, <2>5, <2>6
  <2>9. ASSUME r.count >= SiemThreshold, \A j \in K : ~Caught(j) PROVE g >= SiemThreshold
    <3>1. \A k \in K : count[k] = sent[k]
      BY <1>8, <1>11, <2>9
    <3>2. h <= g
      BY <2>4, <2>5, <3>1
    <3>3. SiemThreshold \in Nat
      BY LoginAssumption
    <3>4. h >= SiemThreshold
      BY <2>6, <2>7, <2>9, <3>3
    <3> QED
      BY <3>2, <3>3, <3>4
  <2> QED
    BY <2>5, <2>8, <2>9
<1>15. ASSUME NEW k \in 1..(n + 1)
       PROVE  /\ records'[k].count >= records'[k].sent
              /\ records'[k].count = records'[k].sent \/ Caught(k)'
              /\ Noticed(k)'
  <2>1. CASE k = n + 1
    BY <1>3, <1>4, <1>9, <1>14, <2>1
  <2>2. CASE k # n + 1
    <3>1. k \in 1..n
      BY <2>2
    <3> QED
      BY <1>4, <1>8, <1>9, <1>13, <3>1
  <2> QED
    BY <2>1, <2>2
<1> QED
  BY <1>4, <1>15 DEF RecordInv
\* What siem_kowalski promises of its records.
LEMMA IncidentsAre ==
    ASSUME RecordInv
    PROVE  /\ FL!BurstIsNoticed /\ FL!FlagsHaveCause
           /\ \A r \in FL!Range(records) :
                /\ r.subject \in FL!Subject /\ r.at \in FL!Time /\ r.sent \in Nat \ {0}
                /\ r.count >= r.sent
<1>1. PICK n \in Nat : n = Len(records) /\ DOMAIN records = 1..n
  BY LoginsAre
<1>2. \A k \in 1..n : records[k] \in Login /\ records[k].sent \in Nat
  BY <1>1, LoginsAre
<1>f. PICK f \in [1..n -> Nat] : f = [k \in 1..n |-> records[k].sent]
  BY <1>2
<1>3. PICK G \in [SUBSET (1..n) -> Nat] : FoldsBy(G, 1..n, f, 0, {})
  BY <1>f, FoldExists
<1>4. ASSUME NEW k \in 1..n
      PROVE  /\ FL!SentSum(FL!Before(k) \cup {k}) >= SiemThreshold <=> G[FL!Before(k) \cup {k}] >= SiemThreshold
             /\ Noticed(k) /\ FL!Before(k) \in SUBSET (1..n)
             /\ records[k].count >= records[k].sent
  <2>1. FL!Before(k) \in SUBSET (1..n)
    <3>1. \A j \in 1..(k - 1) : j \in 1..n
      OBVIOUS
    <3> QED
      BY <3>1 DEF FL!Before
  <2>2. PICK K \in SUBSET (1..n) : K = FL!Before(k) \cup {k}
    BY <2>1
  <2>3. PICK H \in [SUBSET K -> Nat] : FoldsBy(H, K, f, 0, {}) /\ H[K] = FL!SentSum(K)
    <3>1. \A j \in 1..n : records[j].sent \in Nat
      BY <1>2
    <3>2. PICK H \in [SUBSET K -> Nat] :
            FoldsBy(H, K, [j \in 1..n |-> records[j].sent], 0, {}) /\ H[K] = FL!SentSum(K)
      BY <3>1, SentIs
    <3> QED
      BY <1>f, <3>2
  \* Two functions that fold the same numbers agree.
  <2>4. G[K] = FL!SentSum(K)
    <3> DEFINE S == {A \in SUBSET K : G[A] = H[A]}
    <3>1. \A A \in SUBSET K : A \in SUBSET (1..n)
      OBVIOUS
    <3>2. {} \in S
      <4>1. {} \in SUBSET K /\ {} \in SUBSET (1..n)
        OBVIOUS
      <4> QED
        BY <1>3, <2>3, <4>1 DEF FoldsBy
    <3>3. ASSUME NEW A \in SUBSET K, A # {}, A \ {FL!Min(A)} \in S PROVE A \in S
      BY <1>3, <2>3, <3>1, <3>3 DEF FoldsBy
    <3> HIDE DEF S
    <3>4. SUBSET K \subseteq S
      BY <3>2, <3>3, EverySubset
    <3> QED
      BY <2>3, <3>4 DEF S
  <2>5. Noticed(k) /\ records[k].count >= records[k].sent
    BY <1>1 DEF RecordInv
  <2> QED
    BY <2>1, <2>2, <2>4, <2>5
<1>5. Sums(G)
  BY <1>1, <1>f, <1>3 DEF Sums
<1>6. ASSUME NEW k \in 1..n
      PROVE  /\ G[FL!Before(k) \cup {k}] >= SiemThreshold => Caught(k)
             /\ Caught(k) =>
                  \/ G[FL!Before(k) \cup {k}] >= SiemThreshold
                  \/ \E j \in FL!Before(k) : Caught(j)
  BY <1>1, <1>3, <1>4, <1>5 DEF Noticed
<1>7. FL!BurstIsNoticed
  BY <1>1, <1>4, <1>6 DEF FL!BurstIsNoticed, FL!Flagged, Caught
<1>8. FL!FlagsHaveCause
  BY <1>1, <1>4, <1>6 DEF FL!FlagsHaveCause, FL!Flagged, Caught
<1>9. \A r \in FL!Range(records) : \E k \in 1..n : r = records[k]
  BY <1>1 DEF FL!Range
<1>10. \A k \in 1..n : /\ records[k].subject \in FL!Subject /\ records[k].at \in FL!Time
                       /\ records[k].sent \in Nat \ {0} /\ records[k].count >= records[k].sent
  BY <1>2, <1>4 DEF Login
<1> QED
  BY <1>7, <1>8, <1>9, <1>10

-----------------------------------------------------------------------------
(* The aggregator. *)

Try == [src : Attacker, at : FL!Time]
Burst == [count : Nat, first : FL!Time \cup {None}, emit : FL!Time \cup {None}]
Batch == [todo : Seq(Attacker), at : FL!Time \cup {None}, ready : BOOLEAN]

\* The attempts of s from a on, and those of them before z.
Since(s, a) == {k \in DOMAIN tried : tried[k].src = s /\ tried[k].at >= a}
Until(s, a, z) == {k \in DOMAIN tried : tried[k].src = s /\ tried[k].at >= a /\ tried[k].at < z}

\* What a window says of the attempts, whatever order they came in.
Sound(s) ==
    LET b == burst[s] IN
    /\ b.count <= Len(tried)
    /\ b.emit # None <=> b.count >= Threshold
    /\ b.first = None => b.count = 0 /\ \A k \in DOMAIN tried : tried[k].src # s
    /\ b.first # None => \E k \in DOMAIN tried : tried[k] = [src |-> s, at |-> b.first]
    /\ b.emit # None => [src |-> s, at |-> b.emit] \in reported
                        /\ \E k \in DOMAIN tried : tried[k].at = b.emit

\* When they came in order: the count is of the attempts since the window began,
\* and that many before it, within a Window that reaches into it, were reported.
Timely(s) ==
    \A a \in FL!Time : burst[s].first = a =>
        /\ burst[s].count = Cardinality(Since(s, a))
        /\ \A k \in Since(s, a) : tried[k].at <= a + Window
        /\ burst[s].emit # None => burst[s].emit >= a /\ burst[s].emit <= a + Window
        /\ \A t \in FL!Time :
             t + Window >= a /\ Cardinality(Until(s, t, a)) >= Threshold =>
                 \E e \in reported : e.src = s /\ e.at + Window >= t /\ e.at < a

\* A thread's batch; what it is about to forward has been counted.
Working(h) ==
    LET w == batch[h] IN
    /\ Len(w.todo) <= MaxBatch
    /\ (w.todo = <<>>) <=> (w = FL!Idle)
    /\ w.todo # <<>> => w.at \in FL!Time
    /\ w.ready => w.todo # <<>> /\ burst[Head(w.todo)].count > 0

BurstTypes ==
    /\ now \in FL!Time /\ late \subseteq FL!Post
    /\ burst \in [Attacker -> Burst] /\ batch \in [Handler -> Batch]
    /\ tried \in Seq(Try) /\ Len(tried) <= MaxAttempts /\ reported \subseteq Try

BurstInv ==
    /\ BurstTypes
    /\ \A s \in Attacker : Sound(s)
    /\ \A h \in Handler : Working(h)
    /\ FL!InOrder => \A s \in Attacker : Timely(s)
    /\ FL!DoubleBurstIsReported /\ FL!ReportedIsBurst

-----------------------------------------------------------------------------
\* The attempts are finitely many.
LEMMA TriesAre ==
    ASSUME BurstTypes
    PROVE  /\ Len(tried) \in Nat /\ DOMAIN tried = 1..Len(tried)
           /\ \A k \in DOMAIN tried : /\ tried[k] \in Try /\ tried[k].src \in Attacker
                                      /\ tried[k].at \in Nat /\ tried[k].at \in FL!Time
           /\ \A A \in SUBSET DOMAIN tried : /\ IsFiniteSet(A) /\ Cardinality(A) \in Nat
                                             /\ FL!Cardinality(A) = Cardinality(A)
<1>1. tried \in Seq(Try)
  BY DEF BurstTypes
<1>2. Len(tried) \in Nat /\ DOMAIN tried = 1..Len(tried) /\ \A k \in DOMAIN tried : tried[k] \in Try
  BY <1>1
<1>3. \A e \in Try : e.src \in Attacker /\ e.at \in Nat /\ e.at \in FL!Time
  BY LoginAssumption DEF Try, FL!Time
<1>4. IsFiniteSet(DOMAIN tried)
  BY <1>2, FS_Interval
<1>5. ASSUME NEW A \in SUBSET DOMAIN tried
      PROVE  IsFiniteSet(A) /\ Cardinality(A) \in Nat /\ FL!Cardinality(A) = Cardinality(A)
  <2>1. IsFiniteSet(A)
    BY <1>4, FS_Subset
  <2>2. Cardinality(A) \in Nat
    BY <2>1, FS_CardinalityType
  <2>3. FL!Cardinality(A) = Cardinality(A)
    BY DEF FL!Cardinality, Cardinality
  <2> QED
    BY <2>1, <2>2, <2>3
<1> QED
  BY <1>2, <1>3, <1>5

LEMMA NoneIsNoTime == None \notin FL!Time /\ FL!Time \subseteq Nat /\ Window \in Nat /\ Threshold \in Nat /\ Threshold > 0
BY LoginAssumption DEF FL!Time

\* An attempt of s at t is counted: its window becomes q, and new is reported.
Registers(s, t, q, new) ==
    /\ tried' = Append(tried, [src |-> s, at |-> t]) /\ Len(tried) < MaxAttempts
    /\ burst' = [burst EXCEPT ![s] = q] /\ reported' = reported \cup new
    /\ \/ /\ burst[s].first = None \/ t > burst[s].first + Window
          /\ q.first = t /\ q.count = 1
          /\ new = {} => q.emit = None
       \/ /\ burst[s].first \in FL!Time /\ t <= burst[s].first + Window
          /\ q.first = burst[s].first /\ q.count = burst[s].count + 1
          /\ new = {} => q.emit = burst[s].emit
    /\ \/ new = {[src |-> s, at |-> t]} /\ q.emit = t /\ q.count >= Threshold
       \/ new = {} /\ (q.emit = None => q.count < Threshold)

LEMMA RegisterIs ==
    ASSUME BurstInv, NEW h \in Handler, FL!Register(h)
    PROVE  \E s \in Attacker, t \in FL!Time, q \in Burst, new \in SUBSET Try :
             /\ Registers(s, t, q, new)
             /\ s = Head(batch[h].todo) /\ batch[h].todo # <<>>
             /\ \/ batch' = [batch EXCEPT ![h].ready = TRUE]
                \/ batch' = [batch EXCEPT ![h] = FL!Rest(batch[h])]
<1>1. batch[h] \in Batch /\ batch[h].todo # <<>> /\ batch[h].todo \in Seq(Attacker)
  BY DEF BurstInv, BurstTypes, Batch, FL!Register
<1>2. PICK s \in Attacker : s = Head(batch[h].todo)
  BY <1>1
<1>3. PICK t \in FL!Time : t = batch[h].at
  BY <1>1 DEF BurstInv, Working
<1>4. PICK o \in Burst : o = burst[s]
  BY DEF BurstInv, BurstTypes
<1>5. o.count \in Nat /\ o.first \in FL!Time \cup {None} /\ o.emit \in FL!Time \cup {None}
  BY <1>4 DEF Burst
<1> DEFINE fresh == o.first = None \/ t > o.first + Window
<1>6. PICK b \in Burst :
        /\ b = [FL!Fresh(burst[s], t) EXCEPT !.count = @ + 1]
        /\ fresh => b.first = t /\ b.count = 1 /\ b.emit = None
        /\ ~fresh => b.first = o.first /\ b.count = o.count + 1 /\ b.emit = o.emit
  <2>1. CASE fresh
    <3> DEFINE b == [count |-> 1, first |-> t, emit |-> None]
    <3>1. b = [FL!Fresh(burst[s], t) EXCEPT !.count = @ + 1]
      BY <1>4, <2>1 DEF FL!Fresh, FL!NoBurst
    <3>2. b \in Burst
      BY DEF Burst
    <3> HIDE DEF fresh
    <3> QED
      BY <2>1, <3>1, <3>2
  <2>2. CASE ~fresh
    <3> DEFINE b == [count |-> o.count + 1, first |-> o.first, emit |-> o.emit]
    <3>1. b = [FL!Fresh(burst[s], t) EXCEPT !.count = @ + 1]
      <4>1. FL!Fresh(burst[s], t) = o
        BY <1>4, <2>2 DEF FL!Fresh
      <4>2. b = [o EXCEPT !.count = @ + 1]
        BY <1>4 DEF Burst
      <4> QED
        BY <4>1, <4>2
    <3>2. b \in Burst
      BY <1>5 DEF Burst
    <3> HIDE DEF fresh
    <3> QED
      BY <2>2, <3>1, <3>2
  <2> HIDE DEF fresh
  <2> QED
    BY <2>1, <2>2
<1>7. b.count \in Nat /\ b.first \in FL!Time \cup {None} /\ b.emit \in FL!Time \cup {None}
  BY <1>6 DEF Burst
<1>8. /\ tried' = Append(tried, [src |-> s, at |-> t]) /\ Len(tried) < MaxAttempts
      /\ IF FL!Emits(b, t)
         THEN /\ burst' = [burst EXCEPT ![s] = [b EXCEPT !.emit = t]]
              /\ batch' = [batch EXCEPT ![h].ready = TRUE]
              /\ reported' = reported \cup {[src |-> s, at |-> t]}
         ELSE /\ burst' = [burst EXCEPT ![s] = b]
              /\ batch' = [batch EXCEPT ![h] = FL!Rest(batch[h])]
              /\ reported' = reported
  BY <1>2, <1>3, <1>6 DEF FL!Register
<1>9. fresh \/ (~fresh /\ o.first \in FL!Time /\ t <= o.first + Window)
  <2>1. CASE o.first = None
    BY <2>1
  <2>2. CASE o.first # None
    <3>1. PICK x \in FL!Time : x = o.first
      BY <1>5, <2>2
    <3>2. x \in Nat /\ t \in Nat /\ x \in FL!Time /\ Window \in Nat
      BY NoneIsNoTime
    <3>3. t > x + Window \/ t <= x + Window
      BY <3>2
    <3> QED
      BY <2>2, <3>1, <3>2, <3>3
  <2> QED
    BY <2>1, <2>2
<1> HIDE DEF fresh
<1>10. CASE FL!Emits(b, t)
  <2> DEFINE q == [count |-> b.count, first |-> b.first, emit |-> t]
             new == {[src |-> s, at |-> t]}
  <2>1. q = [b EXCEPT !.emit = t] /\ q \in Burst
    <3>1. q \in Burst
      BY <1>7 DEF Burst
    <3>2. q = [b EXCEPT !.emit = t]
      BY b \in Burst DEF Burst
    <3> QED
      BY <3>1, <3>2
  <2>2. new \in SUBSET Try /\ new # {}
    BY DEF Try
  <2>3. q.count = b.count /\ q.first = b.first /\ q.emit = t /\ b.count >= Threshold
    BY <1>10 DEF FL!Emits
  <2>4. /\ burst' = [burst EXCEPT ![s] = q] /\ reported' = reported \cup new
        /\ batch' = [batch EXCEPT ![h].ready = TRUE]
    BY <1>8, <1>10, <2>1
  <2>5. /\ tried' = Append(tried, [src |-> s, at |-> t]) /\ Len(tried) < MaxAttempts
        /\ s = Head(batch[h].todo) /\ batch[h].todo # <<>>
    BY <1>1, <1>2, <1>8
  <2>6. \/ /\ burst[s].first = None \/ t > burst[s].first + Window
           /\ q.first = t /\ q.count = 1
        \/ /\ burst[s].first \in FL!Time /\ t <= burst[s].first + Window
           /\ q.first = burst[s].first /\ q.count = burst[s].count + 1
    BY <1>4, <1>6, <1>9, <2>3 DEF fresh
  <2>7. new = {[src |-> s, at |-> t]}
    OBVIOUS
  <2> HIDE DEF q, new
  <2>8. Registers(s, t, q, new)
    BY <2>2, <2>3, <2>4, <2>5, <2>6, <2>7 DEF Registers
  <2> QED
    BY <2>1, <2>2, <2>4, <2>5, <2>8
<1>11. CASE ~FL!Emits(b, t)
  <2>1. b.emit = None => b.count < Threshold
    BY <1>7, <1>11, NoneIsNoTime DEF FL!Emits
  <2>2. /\ burst' = [burst EXCEPT ![s] = b] /\ reported' = reported \cup {}
        /\ batch' = [batch EXCEPT ![h] = FL!Rest(batch[h])]
    BY <1>8, <1>11
  <2>3. /\ tried' = Append(tried, [src |-> s, at |-> t]) /\ Len(tried) < MaxAttempts
        /\ s = Head(batch[h].todo) /\ batch[h].todo # <<>>
    BY <1>1, <1>2, <1>8
  <2>4. \/ /\ burst[s].first = None \/ t > burst[s].first + Window
           /\ b.first = t /\ b.count = 1 /\ b.emit = None
        \/ /\ burst[s].first \in FL!Time /\ t <= burst[s].first + Window
           /\ b.first = burst[s].first /\ b.count = burst[s].count + 1
           /\ b.emit = burst[s].emit
    BY <1>4, <1>6, <1>9 DEF fresh
  <2>5. {} \in SUBSET Try
    OBVIOUS
  <2>6. Registers(s, t, b, {})
    BY <2>1, <2>2, <2>3, <2>4 DEF Registers
  <2> QED
    BY <1>6, <2>2, <2>3, <2>5, <2>6
<1> QED
  BY <1>10, <1>11

LEMMA AttemptIs ==
    ASSUME BurstTypes, NEW s \in Attacker, NEW t \in FL!Time, NEW q \in Burst,
           NEW new \in SUBSET Try, Registers(s, t, q, new), NEW n \in Nat, n = Len(tried)
    PROVE  /\ DOMAIN tried = 1..n /\ DOMAIN tried' = 1..(n + 1) /\ Len(tried') = n + 1
           /\ tried' \in Seq(Try) /\ Len(tried') <= MaxAttempts
           /\ tried'[n + 1] = [src |-> s, at |-> t]
           /\ \A k \in 1..n : tried'[k] = tried[k] /\ k \in 1..(n + 1) /\ k # n + 1
           /\ \A k \in 1..(n + 1) : k \in 1..n \/ k = n + 1
           /\ burst' \in [Attacker -> Burst] /\ burst'[s] = q
           /\ \A r \in Attacker : r # s => burst'[r] = burst[r]
           /\ reported \subseteq reported' /\ new \subseteq reported' /\ reported' \subseteq Try
           /\ FL!InOrder' => FL!InOrder /\ \A k \in 1..(n + 1) : tried'[k].at <= t
<1>1. tried \in Seq(Try) /\ [src |-> s, at |-> t] \in Try
  BY DEF BurstTypes, Try
<1>2. /\ DOMAIN tried = 1..n /\ DOMAIN tried' = 1..(n + 1) /\ Len(tried') = n + 1
      /\ tried' \in Seq(Try)
      /\ tried'[n + 1] = [src |-> s, at |-> t]
      /\ \A k \in 1..n : tried'[k] = tried[k]
  <2>1. tried' = Append(tried, [src |-> s, at |-> t])
    BY DEF Registers
  <2> QED
    BY <1>1, <2>1
<1>3. Len(tried') <= MaxAttempts
  BY <1>2, LoginAssumption DEF Registers
<1>4. (\A k \in 1..n : k \in 1..(n + 1) /\ k # n + 1) /\ \A k \in 1..(n + 1) : k \in 1..n \/ k = n + 1
  OBVIOUS
<1>5. /\ burst' \in [Attacker -> Burst] /\ burst'[s] = q
      /\ \A r \in Attacker : r # s => burst'[r] = burst[r]
  BY DEF BurstTypes, Registers
<1>6. reported \subseteq reported' /\ new \subseteq reported' /\ reported' \subseteq Try
  BY DEF BurstTypes, Registers
<1>7. ASSUME FL!InOrder' PROVE FL!InOrder /\ \A k \in 1..(n + 1) : tried'[k].at <= t
  <2>1. \A j, k \in 1..(n + 1) : j < k => tried'[j].at <= tried'[k].at
    BY <1>2, <1>7 DEF FL!InOrder
  <2>2. \A j, k \in 1..n : j < k => tried[j].at <= tried[k].at
    BY <1>2, <1>4, <2>1
  <2>3. \A k \in 1..n : tried'[k].at <= tried'[n + 1].at
    <3>1. n + 1 \in 1..(n + 1) /\ \A k \in 1..n : k < n + 1
      OBVIOUS
    <3> QED
      BY <1>4, <2>1, <3>1
  <2>4. tried'[n + 1].at = t /\ t <= t
    BY <1>2, NoneIsNoTime
  <2> QED
    BY <1>2, <1>4, <2>2, <2>3, <2>4 DEF FL!InOrder
<1> QED
  BY <1>2, <1>3, <1>4, <1>5, <1>6, <1>7

LEMMA WindowsAfter ==
    ASSUME BurstInv, NEW s \in Attacker, NEW t \in FL!Time, NEW q \in Burst,
           NEW new \in SUBSET Try, Registers(s, t, q, new)
    PROVE  /\ tried' \in Seq(Try) /\ Len(tried') <= MaxAttempts
           /\ burst' \in [Attacker -> Burst] /\ burst'[s] = q
           /\ \A r \in Attacker : r # s => burst'[r] = burst[r]
           /\ reported' \subseteq Try
<1>1. PICK n \in Nat : n = Len(tried)
  BY TriesAre DEF BurstInv
<1>2. /\ DOMAIN tried = 1..n /\ DOMAIN tried' = 1..(n + 1) /\ Len(tried') = n + 1
      /\ tried' \in Seq(Try) /\ Len(tried') <= MaxAttempts
      /\ tried'[n + 1] = [src |-> s, at |-> t]
      /\ burst' \in [Attacker -> Burst] /\ burst'[s] = q
      /\ \A r \in Attacker : r # s => burst'[r] = burst[r]
      /\ reported' \subseteq Try
  BY <1>1, AttemptIs DEF BurstInv
<1> QED
  BY <1>2

LEMMA SoundAfter ==
    ASSUME BurstInv, NEW s \in Attacker, NEW t \in FL!Time, NEW q \in Burst,
           NEW new \in SUBSET Try, Registers(s, t, q, new), NEW r \in Attacker
    PROVE  Sound(r)'
<1>1. PICK n \in Nat : n = Len(tried)
  BY TriesAre DEF BurstInv
<1>2. /\ DOMAIN tried = 1..n /\ DOMAIN tried' = 1..(n + 1) /\ Len(tried') = n + 1
      /\ tried'[n + 1] = [src |-> s, at |-> t]
      /\ \A k \in 1..n : tried'[k] = tried[k] /\ k \in 1..(n + 1)
      /\ \A k \in 1..(n + 1) : k \in 1..n \/ k = n + 1
      /\ burst'[s] = q /\ (r # s => burst'[r] = burst[r])
      /\ reported \subseteq reported' /\ new \subseteq reported'
  BY <1>1, AttemptIs DEF BurstInv
<1>3. Sound(r) /\ Sound(s) /\ burst[r] \in Burst /\ burst[s] \in Burst
  BY DEF BurstInv, BurstTypes
<1>4. CASE r # s
  <2>1. burst[r].count \in Nat
    BY <1>3 DEF Burst
  <2>2. burst[r].count <= n + 1
    BY <1>1, <1>3, <2>1 DEF Sound
  <2>3. burst[r].first = None => \A k \in 1..(n + 1) : tried'[k].src # r
    BY <1>2, <1>3, <1>4 DEF Sound
  <2>4. burst[r].first # None => \E k \in 1..(n + 1) : tried'[k] = [src |-> r, at |-> burst[r].first]
    BY <1>2, <1>3 DEF Sound
  <2>5. burst[r].emit # None => [src |-> r, at |-> burst[r].emit] \in reported'
                                /\ \E k \in 1..(n + 1) : tried'[k].at = burst[r].emit
    BY <1>2, <1>3 DEF Sound
  <2> QED
    BY <1>2, <1>3, <1>4, <2>2, <2>3, <2>4, <2>5 DEF Sound
<1>5. CASE r = s
  <2>1. /\ q.count \in Nat /\ burst[s].count \in Nat /\ q.first \in FL!Time \cup {None}
        /\ burst[s].count <= n
        /\ burst[s].emit # None <=> burst[s].count >= Threshold
    BY <1>1, <1>3 DEF Burst, Sound
  <2>2. q.count <= n + 1 /\ q.count > 0 /\ q.first \in FL!Time
    BY <2>1, NoneIsNoTime DEF Registers
  <2>3. q.first # None
    BY <2>2, NoneIsNoTime
  <2>4. q.emit # None <=> q.count >= Threshold
    <3>1. CASE new # {}
      BY <3>1, NoneIsNoTime DEF Registers
    <3>2. CASE new = {}
      <4>1. q.emit = None => q.count < Threshold
        BY <3>2 DEF Registers
      <4>2. ASSUME q.emit # None PROVE q.count >= Threshold
        <5>1. q.emit = burst[s].emit /\ q.count = burst[s].count + 1
          BY <3>2, <4>2 DEF Registers
        <5>2. burst[s].count >= Threshold
          BY <2>1, <4>2, <5>1
        <5> QED
          BY <2>1, <5>1, <5>2, NoneIsNoTime
      <4> QED
        BY <2>1, <4>1, <4>2, NoneIsNoTime
    <3> QED
      BY <3>1, <3>2
  <2>5. \E k \in 1..(n + 1) : tried'[k] = [src |-> s, at |-> q.first]
    <3>1. CASE q.first = t
      BY <1>2, <3>1
    <3>2. CASE q.first # t
      <4>1. q.first = burst[s].first /\ burst[s].first # None
        BY <2>3, <3>2 DEF Registers
      <4> QED
        BY <1>2, <1>3, <4>1 DEF Sound
    <3> QED
      BY <3>1, <3>2
  <2>6. q.emit # None => [src |-> s, at |-> q.emit] \in reported'
                         /\ \E k \in 1..(n + 1) : tried'[k].at = q.emit
    <3>1. CASE new # {}
      <4>1. new = {[src |-> s, at |-> t]} /\ q.emit = t
        BY <3>1 DEF Registers
      <4>2. n + 1 \in 1..(n + 1) /\ tried'[n + 1].at = t
        BY <1>2
      <4> QED
        BY <1>2, <4>1, <4>2
    <3>2. CASE new = {}
      <4>1. q.emit # None => q.emit = burst[s].emit
        BY <3>2 DEF Registers
      <4> QED
        BY <1>2, <1>3, <4>1 DEF Sound
    <3> QED
      BY <3>1, <3>2
  <2> QED
    BY <1>2, <1>5, <2>2, <2>3, <2>4, <2>5, <2>6 DEF Sound
<1> QED
  BY <1>4, <1>5

\* The attempts of others and those before the last one are what they were.
LEMMA TriesAfter ==
    ASSUME BurstInv, NEW s \in Attacker, NEW t \in FL!Time, NEW q \in Burst,
           NEW new \in SUBSET Try, Registers(s, t, q, new),
           NEW n \in Nat, n = Len(tried), NEW r \in Attacker, NEW a \in FL!Time
    PROVE  /\ Since(r, a) \in SUBSET (1..n) /\ Since(r, a)' \in SUBSET (1..(n + 1))
           /\ r # s => Since(r, a)' = Since(r, a)
           /\ r = s /\ t >= a => Since(r, a)' = Since(r, a) \cup {n + 1}
           /\ \A w \in FL!Time :
                /\ Until(r, w, a) \in SUBSET (1..n) /\ Until(r, w, a)' \in SUBSET (1..(n + 1))
                /\ (r # s \/ t >= a) => Until(r, w, a)' = Until(r, w, a)
<1>1. /\ DOMAIN tried = 1..n /\ DOMAIN tried' = 1..(n + 1)
      /\ tried'[n + 1] = [src |-> s, at |-> t]
      /\ \A k \in 1..n : tried'[k] = tried[k] /\ k \in 1..(n + 1) /\ k # n + 1
      /\ \A k \in 1..(n + 1) : k \in 1..n \/ k = n + 1
  BY AttemptIs DEF BurstInv
<1>2. tried'[n + 1].src = s /\ tried'[n + 1].at = t /\ n + 1 \in 1..(n + 1)
  BY <1>1
<1>3. Since(r, a) \in SUBSET (1..n) /\ Since(r, a)' \in SUBSET (1..(n + 1))
  BY <1>1 DEF Since
<1>4. ASSUME r # s PROVE Since(r, a)' = Since(r, a)
  BY <1>1, <1>2, <1>4 DEF Since
<1>5. ASSUME r = s, t >= a PROVE Since(r, a)' = Since(r, a) \cup {n + 1}
  BY <1>1, <1>2, <1>5 DEF Since
<1>6. ASSUME NEW w \in FL!Time
      PROVE  /\ Until(r, w, a) \in SUBSET (1..n) /\ Until(r, w, a)' \in SUBSET (1..(n + 1))
             /\ (r # s \/ t >= a) => Until(r, w, a)' = Until(r, w, a)
  <2>1. Until(r, w, a) \in SUBSET (1..n) /\ Until(r, w, a)' \in SUBSET (1..(n + 1))
    BY <1>1 DEF Until
  <2>2. ASSUME r # s \/ t >= a PROVE Until(r, w, a)' = Until(r, w, a)
    <3>1. ~(tried'[n + 1].src = r /\ tried'[n + 1].at < a)
      BY <1>2, <2>2, NoneIsNoTime
    <3> QED
      BY <1>1, <3>1 DEF Until
  <2> QED
    BY <2>1, <2>2
<1> QED
  BY <1>3, <1>4, <1>5, <1>6

LEMMA TimelyAfter ==
    ASSUME BurstInv, NEW s \in Attacker, NEW t \in FL!Time, NEW q \in Burst,
           NEW new \in SUBSET Try, Registers(s, t, q, new), FL!InOrder', NEW r \in Attacker
    PROVE  Timely(r)'
<1>1. PICK n \in Nat : n = Len(tried)
  BY TriesAre DEF BurstInv
<1>2. /\ DOMAIN tried = 1..n /\ DOMAIN tried' = 1..(n + 1)
      /\ tried'[n + 1] = [src |-> s, at |-> t]
      /\ \A k \in 1..n : tried'[k] = tried[k]
      /\ \A k \in 1..(n + 1) : tried'[k].at <= t
      /\ burst'[s] = q /\ (r # s => burst'[r] = burst[r])
      /\ reported \subseteq reported'
      /\ FL!InOrder
  BY <1>1, AttemptIs DEF BurstInv
<1>3. Timely(r) /\ Timely(s) /\ Sound(r) /\ Sound(s)
  BY <1>2 DEF BurstInv
<1>4. SUFFICES ASSUME NEW a \in FL!Time, burst'[r].first = a
               PROVE  /\ burst'[r].count = Cardinality(Since(r, a)')
                      /\ \A k \in Since(r, a)' : tried'[k].at <= a + Window
                      /\ burst'[r].emit # None => burst'[r].emit >= a /\ burst'[r].emit <= a + Window
                      /\ \A w \in FL!Time :
                           w + Window >= a /\ Cardinality(Until(r, w, a)') >= Threshold =>
                             \E e \in reported' : e.src = r /\ e.at + Window >= w /\ e.at < a
  BY DEF Timely
<1>5. /\ Since(r, a) \in SUBSET (1..n) /\ Since(r, a)' \in SUBSET (1..(n + 1))
      /\ r # s => Since(r, a)' = Since(r, a)
      /\ r = s /\ t >= a => Since(r, a)' = Since(r, a) \cup {n + 1}
      /\ \A w \in FL!Time :
           /\ Until(r, w, a) \in SUBSET (1..n)
           /\ (r # s \/ t >= a) => Until(r, w, a)' = Until(r, w, a)
  BY <1>1, TriesAfter
<1>6. CASE r # s
  <2>1. /\ burst[r].count = Cardinality(Since(r, a))
        /\ \A k \in Since(r, a) : tried[k].at <= a + Window
        /\ burst[r].emit # None => burst[r].emit >= a /\ burst[r].emit <= a + Window
        /\ \A w \in FL!Time :
             w + Window >= a /\ Cardinality(Until(r, w, a)) >= Threshold =>
                 \E e \in reported : e.src = r /\ e.at + Window >= w /\ e.at < a
    BY <1>2, <1>3, <1>4, <1>6 DEF Timely
  <2>2. \A k \in Since(r, a)' : tried'[k].at <= a + Window
    BY <1>2, <1>5, <1>6, <2>1
  <2>3. \A w \in FL!Time :
           w + Window >= a /\ Cardinality(Until(r, w, a)') >= Threshold =>
             \E e \in reported' : e.src = r /\ e.at + Window >= w /\ e.at < a
    BY <1>2, <1>5, <1>6, <2>1
  <2> QED
    BY <1>2, <1>5, <1>6, <2>1, <2>2, <2>3
<1>7. ASSUME r = s, burst[s].first \in FL!Time, t <= burst[s].first + Window,
             q.first = burst[s].first, q.count = burst[s].count + 1,
             new = {} => q.emit = burst[s].emit
      PROVE  /\ burst'[r].count = Cardinality(Since(r, a)')
             /\ \A k \in Since(r, a)' : tried'[k].at <= a + Window
             /\ burst'[r].emit # None => burst'[r].emit >= a /\ burst'[r].emit <= a + Window
             /\ \A w \in FL!Time :
                  w + Window >= a /\ Cardinality(Until(r, w, a)') >= Threshold =>
                    \E e \in reported' : e.src = r /\ e.at + Window >= w /\ e.at < a
  <2>1. a = burst[r].first /\ burst'[r] = q
    BY <1>2, <1>4, <1>7
  <2>2. /\ burst[r].count = Cardinality(Since(r, a))
        /\ \A k \in Since(r, a) : tried[k].at <= a + Window
        /\ burst[r].emit # None => burst[r].emit >= a /\ burst[r].emit <= a + Window
        /\ \A w \in FL!Time :
             w + Window >= a /\ Cardinality(Until(r, w, a)) >= Threshold =>
                 \E e \in reported : e.src = r /\ e.at + Window >= w /\ e.at < a
    BY <1>3, <2>1 DEF Timely
  <2>3. a <= t
    <3>1. a # None
      BY NoneIsNoTime
    <3>2. PICK k \in 1..n : tried[k] = [src |-> r, at |-> a]
      BY <1>2, <1>3, <2>1, <3>1 DEF Sound
    <3>3. k \in 1..(n + 1)
      BY <3>2
    <3>4. tried'[k].at = a /\ tried'[k].at <= t
      BY <1>2, <3>2, <3>3
    <3> QED
      BY <3>4
  <2>4. t >= a
    BY <2>3, NoneIsNoTime
  <2>5. Since(r, a)' = Since(r, a) \cup {n + 1}
    BY <1>5, <1>7, <2>4
  <2>6. Cardinality(Since(r, a)') = Cardinality(Since(r, a)) + 1
    <3>1. IsFiniteSet(Since(r, a)) /\ n + 1 \notin Since(r, a)
      <4>1. IsFiniteSet(1..n)
        BY FS_Interval
      <4>2. n + 1 \notin 1..n
        OBVIOUS
      <4> QED
        BY <1>5, <4>1, <4>2, FS_Subset
    <3> QED
      BY <2>5, <3>1, FS_AddElement
  <2>7. \A k \in Since(r, a)' : tried'[k].at <= a + Window
    <3>1. tried'[n + 1].at <= a + Window
      BY <1>2, <1>7, <2>1
    <3>2. \A k \in Since(r, a) : tried'[k].at <= a + Window
      BY <1>2, <1>5, <2>2
    <3> QED
      BY <2>5, <3>1, <3>2
  <2>8. q.emit # None => q.emit >= a /\ q.emit <= a + Window
    <3>1. CASE new = {}
      BY <1>7, <2>2, <3>1
    <3>2. CASE new # {}
      <4>1. q.emit = t
        BY <3>2 DEF Registers
      <4> QED
        BY <1>7, <2>1, <2>4, <4>1
    <3> QED
      BY <3>1, <3>2
  <2>9. \A w \in FL!Time :
          w + Window >= a /\ Cardinality(Until(r, w, a)') >= Threshold =>
            \E e \in reported' : e.src = r /\ e.at + Window >= w /\ e.at < a
    BY <1>2, <1>5, <2>2, <2>4
  <2> QED
    BY <1>7, <2>1, <2>2, <2>6, <2>7, <2>8, <2>9
\* A new window begins: no attempt of the last one is left.
<1>8. ASSUME r = s, burst[s].first = None \/ t > burst[s].first + Window,
             q.first = t, q.count = 1, new = {} => q.emit = None
      PROVE  /\ burst'[r].count = Cardinality(Since(r, a)')
             /\ \A k \in Since(r, a)' : tried'[k].at <= a + Window
             /\ burst'[r].emit # None => burst'[r].emit >= a /\ burst'[r].emit <= a + Window
             /\ \A w \in FL!Time :
                  w + Window >= a /\ Cardinality(Until(r, w, a)') >= Threshold =>
                    \E e \in reported' : e.src = r /\ e.at + Window >= w /\ e.at < a
  <2>1. a = t /\ burst'[r] = q /\ t >= a /\ t \in Nat /\ Window \in Nat
    BY <1>2, <1>4, <1>8, NoneIsNoTime
  <2>2. burst[s].first = None \/ burst[s].first \in FL!Time
    BY DEF BurstInv, BurstTypes, Burst
  <2>3. \A k \in 1..n : tried[k].at \in Nat
    BY <1>2, TriesAre DEF BurstInv
  <2>4. ASSUME NEW k \in 1..n, tried[k].src = s
        PROVE  /\ burst[s].first \in FL!Time
               /\ tried[k].at <= burst[s].first + Window
               /\ tried[k].at < t
    <3>1. burst[s].first \in FL!Time
      BY <1>2, <1>3, <2>2, <2>4 DEF Sound
    <3>2. PICK f \in FL!Time : f = burst[s].first
      BY <3>1
    <3>3. t > f + Window /\ f \in Nat
      BY <1>8, <3>2, NoneIsNoTime
    <3>4. tried[k].at <= f + Window
      <4>1. CASE tried[k].at >= f
        <5>1. k \in Since(s, f)
          BY <1>2, <2>4, <4>1 DEF Since
        <5> QED
          BY <1>3, <3>2, <5>1 DEF Timely
      <4>2. CASE ~(tried[k].at >= f)
        BY <2>3, <3>3, <4>2, NoneIsNoTime
      <4> QED
        BY <4>1, <4>2
    <3>5. tried[k].at < t
      BY <2>1, <2>3, <3>3, <3>4
    <3> QED
      BY <3>1, <3>2, <3>4, <3>5
  <2>5. Since(r, a)' = {n + 1}
    <3>1. Since(r, a) = {}
      <4> SUFFICES ASSUME NEW k \in Since(r, a) PROVE FALSE
        OBVIOUS
      <4>1. k \in 1..n /\ tried[k].src = s /\ tried[k].at >= t
        BY <1>2, <1>8, <2>1 DEF Since
      <4>2. tried[k].at < t /\ tried[k].at \in Nat
        BY <2>3, <2>4, <4>1
      <4> QED
        BY <2>1, <4>1, <4>2
    <3> QED
      BY <1>5, <1>8, <2>1, <3>1
  <2>6. Cardinality(Since(r, a)') = 1
    BY <2>5, FS_Singleton
  <2>7. \A k \in Since(r, a)' : tried'[k].at <= a + Window
    BY <1>2, <2>1, <2>5
  <2>8. q.emit # None => q.emit >= a /\ q.emit <= a + Window
    <3>1. q.emit # None => q.emit = t
      BY <1>8 DEF Registers
    <3> QED
      BY <2>1, <3>1
  <2>9. ASSUME NEW w \in FL!Time, w + Window >= a, Cardinality(Until(r, w, a)') >= Threshold
        PROVE  \E e \in reported' : e.src = r /\ e.at + Window >= w /\ e.at < a
    <3>1. Until(r, w, a)' = Until(r, w, a) /\ Until(r, w, a) \in SUBSET (1..n)
      BY <1>5, <2>1
    <3>2. w \in Nat /\ Threshold \in Nat /\ Threshold > 0
      BY NoneIsNoTime
    <3>3. PICK k \in 1..n : tried[k].src = s /\ tried[k].at >= w
      <4>1. Until(r, w, a) # {}
        <5>1. Cardinality({}) = 0
          BY FS_EmptySet
        <5> QED
          BY <2>9, <3>1, <3>2, <5>1
      <4> QED
        BY <1>2, <1>8, <4>1 DEF Until
    <3>4. PICK f \in FL!Time : f = burst[s].first /\ f \in Nat /\ tried[k].at <= f + Window
                               /\ t > f + Window
      BY <1>8, <2>4, <3>3, NoneIsNoTime
    <3>5. w <= f + Window /\ w > f
      BY <2>1, <2>3, <2>9, <3>2, <3>3, <3>4
    <3>6. Until(r, w, a) \in SUBSET Since(s, f)
      <4> SUFFICES ASSUME NEW j \in Until(r, w, a) PROVE j \in Since(s, f)
        OBVIOUS
      <4>1. j \in 1..n /\ tried[j].src = s /\ tried[j].at >= w /\ tried[j].at \in Nat
        BY <1>2, <1>8, <2>3 DEF Until
      <4>2. tried[j].at >= f
        BY <3>2, <3>4, <3>5, <4>1
      <4> QED
        BY <1>2, <4>1, <4>2 DEF Since
    <3>7. /\ Cardinality(Until(r, w, a)) <= Cardinality(Since(s, f))
          /\ Cardinality(Until(r, w, a)) \in Nat /\ Cardinality(Since(s, f)) \in Nat
      <4>1. Since(s, f) \in SUBSET DOMAIN tried
        BY DEF Since
      <4>2. IsFiniteSet(Since(s, f)) /\ Cardinality(Since(s, f)) \in Nat
        BY <4>1, TriesAre DEF BurstInv
      <4> QED
        BY <3>6, <4>2, FS_Subset, FS_CardinalityType
    <3>8. burst[s].count = Cardinality(Since(s, f))
      BY <1>3, <3>4 DEF Timely
    <3>9. burst[s].emit # None
      <4>1. burst[s].count >= Threshold
        BY <2>9, <3>1, <3>2, <3>7, <3>8
      <4> QED
        BY <1>3, <4>1 DEF Sound
    <3>10. PICK x \in FL!Time : x = burst[s].emit /\ x >= f /\ x <= f + Window /\ x \in Nat
                                /\ [src |-> s, at |-> x] \in reported
      <4>1. burst[s].emit \in FL!Time
        BY <3>9 DEF BurstInv, BurstTypes, Burst
      <4> QED
        BY <1>3, <3>4, <3>9, <4>1, NoneIsNoTime DEF Timely, Sound
    <3>11. x + Window >= w /\ x < a
      BY <2>1, <3>2, <3>4, <3>5, <3>10
    <3> QED
      BY <1>2, <1>8, <3>10, <3>11
  <2> QED
    BY <1>8, <2>1, <2>6, <2>7, <2>8, <2>9
<1> QED
  BY <1>6, <1>7, <1>8 DEF Registers

\* A burst that ends after the last attempt began is in the window of that one,
\* or was reported in the window before.
LEMMA DoubleBurstAfter ==
    ASSUME BurstInv, NEW s \in Attacker, NEW t \in FL!Time, NEW q \in Burst,
           NEW new \in SUBSET Try, Registers(s, t, q, new), FL!InOrder',
           \A r \in Attacker : Timely(r)' /\ Sound(r)', BurstTypes',
           NEW r \in Attacker, NEW w \in FL!Time,
           FL!Cardinality(FL!Tries(r, w)') >= 2 * Threshold - 1
    PROVE  \E e \in reported' : e.src = r /\ e.at + Window >= w /\ e.at <= w + Window
<1>1. PICK n \in Nat : n = Len(tried)
  BY TriesAre DEF BurstInv
<1>2. /\ DOMAIN tried = 1..n /\ DOMAIN tried' = 1..(n + 1)
      /\ tried'[n + 1] = [src |-> s, at |-> t]
      /\ \A k \in 1..n : tried'[k] = tried[k] /\ k \in 1..(n + 1)
      /\ \A k \in 1..(n + 1) : k \in 1..n \/ k = n + 1
      /\ \A k \in 1..(n + 1) : tried'[k].at <= t
      /\ burst' \in [Attacker -> Burst]
      /\ reported \subseteq reported'
      /\ FL!InOrder
  BY <1>1, AttemptIs DEF BurstInv
<1>3. w \in Nat /\ t \in Nat /\ Window \in Nat /\ Threshold \in Nat /\ Threshold > 0
  BY NoneIsNoTime
<1>4. \A k \in 1..(n + 1) : tried'[k].at \in Nat
  <2>1. tried' \in Seq(Try)
    BY DEF BurstTypes
  <2>2. \A k \in 1..(n + 1) : tried'[k] \in Try
    BY <1>2, <2>1
  <2>3. \A e \in Try : e.at \in Nat
    BY NoneIsNoTime DEF Try
  <2> QED
    BY <2>2, <2>3
<1>5. CASE t > w + Window
  <2>1. FL!Tries(r, w)' = FL!Tries(r, w)
    <3>1. tried'[n + 1].at \notin w..(w + Window)
      BY <1>2, <1>3, <1>5
    <3> QED
      BY <1>2, <3>1 DEF FL!Tries
  <2>2. \E e \in reported : e.src = r /\ e.at + Window >= w /\ e.at <= w + Window
    BY <1>2, <2>1 DEF BurstInv, FL!DoubleBurstIsReported
  <2> QED
    BY <1>2, <2>2
<1>6. CASE ~(t > w + Window)
  <2>1. t <= w + Window
    BY <1>3, <1>6
  <2> DEFINE T == FL!Tries(r, w)'
  <2>2. /\ IsFiniteSet(1..(n + 1)) /\ T \in SUBSET (1..(n + 1))
        /\ FL!Cardinality(T) = Cardinality(T)
    <3>1. T \in SUBSET (1..(n + 1))
      BY <1>2 DEF FL!Tries
    <3>2. FL!Cardinality(T) = Cardinality(T)
      BY DEF FL!Cardinality, Cardinality
    <3> QED
      BY <3>1, <3>2, FS_Interval
  <2>3. \A k \in T : k \in 1..(n + 1) /\ tried'[k].src = r /\ tried'[k].at >= w
    BY <1>2, <1>3, <1>4 DEF FL!Tries
  <2> HIDE DEF T
  <2>4. Cardinality(T) \in Nat /\ Cardinality(T) >= 2 * Threshold - 1
    BY <2>2, FS_Subset, FS_CardinalityType DEF T
  <2>5. PICK k0 \in T : TRUE
    <3>1. T # {}
      <4>1. Cardinality({}) = 0
        BY FS_EmptySet
      <4>2. 2 * Threshold - 1 > 0
        BY <1>3
      <4>3. PICK c \in Nat : c = Cardinality(T) /\ c >= 2 * Threshold - 1
        BY <2>4
      <4>4. c # 0
        BY <1>3, <4>2, <4>3
      <4> QED
        BY <4>1, <4>3, <4>4
    <3> QED
      BY <3>1
  <2>6. PICK a \in FL!Time : a = burst'[r].first /\ a # None
    <3>1. burst'[r].first # None
      <4>1. Sound(r)'
        OBVIOUS
      <4>2. burst'[r].first = None => \A k \in 1..(n + 1) : tried'[k].src # r
        BY <1>2, <4>1 DEF Sound
      <4> QED
        BY <2>3, <2>5, <4>2
    <3>2. burst'[r] \in Burst
      BY <1>2
    <3> QED
      BY <3>1, <3>2 DEF Burst
  <2>7. a \in Nat /\ a <= t /\ a <= w + Window
    <3>1. PICK k \in 1..(n + 1) : tried'[k] = [src |-> r, at |-> a]
      BY <1>2, <2>6 DEF Sound
    <3>2. tried'[k].at = a
      BY <3>1
    <3>3. a <= t
      BY <1>2, <3>2
    <3> QED
      BY <1>3, <2>1, <3>3, NoneIsNoTime
  <2>8. /\ burst'[r].count = Cardinality(Since(r, a)')
        /\ \A k \in Since(r, a)' : tried'[k].at <= a + Window
        /\ burst'[r].emit # None => burst'[r].emit >= a /\ burst'[r].emit <= a + Window
        /\ w + Window >= a /\ Cardinality(Until(r, w, a)') >= Threshold =>
             \E e \in reported' : e.src = r /\ e.at + Window >= w /\ e.at < a
    BY <2>6 DEF Timely
  <2> DEFINE A == Since(r, a)'
             B == Until(r, w, a)'
  <2>9. A \in SUBSET (1..(n + 1)) /\ B \in SUBSET (1..(n + 1)) /\ T \subseteq A \cup B
    <3>1. A \in SUBSET (1..(n + 1)) /\ B \in SUBSET (1..(n + 1))
      BY <1>2 DEF Since, Until
    <3>2. ASSUME NEW k \in T PROVE k \in A \cup B
      <4>1. k \in 1..(n + 1) /\ tried'[k].src = r /\ tried'[k].at >= w /\ tried'[k].at \in Nat
        BY <1>4, <2>3
      <4>2. tried'[k].at >= a \/ tried'[k].at < a
        BY <2>7, <4>1
      <4> QED
        BY <1>2, <4>1, <4>2 DEF Since, Until
    <3> QED
      BY <3>1, <3>2
  <2>10. \A k \in T : tried'[k].at >= a => k \in A
    BY <1>2, <2>3 DEF Since
  <2> HIDE DEF A, B
  <2>11. PICK c \in Nat, d \in Nat : /\ c = Cardinality(A) /\ d = Cardinality(B)
                                     /\ c + d >= 2 * Threshold - 1
    <3>1. IsFiniteSet(A) /\ IsFiniteSet(B)
      BY <2>2, <2>9, FS_Subset
    <3>2. IsFiniteSet(A \cup B) /\ IsFiniteSet(A \cap B)
      BY <3>1, FS_Union, FS_Subset
    <3>3. Cardinality(A \cup B) = Cardinality(A) + Cardinality(B) - Cardinality(A \cap B)
      BY <3>1, FS_Union
    <3>4. Cardinality(T) <= Cardinality(A \cup B)
      BY <2>9, <3>2, FS_Subset
    <3>5. /\ Cardinality(A) \in Nat /\ Cardinality(B) \in Nat
          /\ Cardinality(A \cap B) \in Nat /\ Cardinality(A \cup B) \in Nat
      BY <3>1, <3>2, FS_CardinalityType
    <3> QED
      BY <1>3, <2>4, <3>3, <3>4, <3>5
  <2>12. CASE c >= Threshold
    <3>1. burst'[r].emit # None
      BY <2>8, <2>11, <2>12 DEF Sound, A
    <3>2. PICK x \in FL!Time : x = burst'[r].emit
      <4>1. burst'[r] \in Burst
        BY <1>2
      <4> QED
        BY <3>1, <4>1 DEF Burst
    <3>3. [src |-> r, at |-> x] \in reported' /\ \E k \in 1..(n + 1) : tried'[k].at = x
      BY <1>2, <3>1, <3>2 DEF Sound
    <3>4. x \in Nat /\ x >= a /\ x <= t
      BY <1>2, <2>8, <3>1, <3>2, <3>3, NoneIsNoTime
    <3>5. x <= w + Window
      BY <1>3, <2>1, <3>4
    <3>6. x + Window >= w
      <4>1. PICK y \in Nat : y = tried'[k0].at /\ y >= w
        BY <1>4, <2>3, <2>5
      <4>2. y >= a => y <= a + Window
        BY <2>5, <2>8, <2>10, <4>1 DEF A
      <4> QED
        BY <1>3, <2>7, <3>4, <4>1, <4>2
    <3> QED
      BY <3>3, <3>5, <3>6
  <2>13. CASE ~(c >= Threshold)
    <3>1. d >= Threshold
      BY <1>3, <2>11, <2>13
    <3>2. w + Window >= a
      BY <1>3, <2>7
    <3>3. PICK e \in reported' : e.src = r /\ e.at + Window >= w /\ e.at < a
      BY <2>8, <2>11, <3>1, <3>2 DEF B
    <3>4. e.at \in Nat
      <4>1. \A y \in Try : y.at \in Nat
        BY NoneIsNoTime DEF Try
      <4> QED
        BY <4>1 DEF BurstTypes
    <3>5. e.at <= w + Window
      BY <1>3, <2>7, <3>3, <3>4
    <3> QED
      BY <3>3, <3>5
  <2> QED
    BY <2>12, <2>13
<1> QED
  BY <1>5, <1>6

\* The attempts of the source in the Window up to e.
Behind(e) == {k \in DOMAIN tried :
                tried[k].src = e.src /\ tried[k].at + Window >= e.at /\ tried[k].at <= e.at}

LEMMA ReportsAfter ==
    ASSUME BurstInv, NEW s \in Attacker, NEW t \in FL!Time, NEW q \in Burst,
           NEW new \in SUBSET Try, Registers(s, t, q, new), FL!InOrder',
           Timely(s)', NEW e \in reported'
    PROVE  Cardinality(Behind(e)') >= Threshold
<1>1. PICK n \in Nat : n = Len(tried)
  BY TriesAre DEF BurstInv
<1>2. /\ DOMAIN tried = 1..n /\ DOMAIN tried' = 1..(n + 1)
      /\ \A k \in 1..n : tried'[k] = tried[k] /\ k \in 1..(n + 1)
      /\ \A k \in 1..(n + 1) : tried'[k].at <= t
      /\ tried'[n + 1] = [src |-> s, at |-> t] /\ tried' \in Seq(Try)
      /\ burst'[s] = q /\ FL!InOrder
  BY <1>1, AttemptIs DEF BurstInv
<1>3. Behind(e)' \in SUBSET (1..(n + 1)) /\ IsFiniteSet(Behind(e)')
  <2>1. Behind(e)' \in SUBSET (1..(n + 1))
    BY <1>2 DEF Behind
  <2>2. IsFiniteSet(1..(n + 1))
    BY FS_Interval
  <2> QED
    BY <2>1, <2>2, FS_Subset
<1>4. \A A \in SUBSET Behind(e)' : Cardinality(A) >= Threshold => Cardinality(Behind(e)') >= Threshold
  <2> SUFFICES ASSUME NEW A \in SUBSET Behind(e)', Cardinality(A) >= Threshold
               PROVE  Cardinality(Behind(e)') >= Threshold
    OBVIOUS
  <2>1. IsFiniteSet(A) /\ Cardinality(A) <= Cardinality(Behind(e)')
    BY <1>3, FS_Subset
  <2>2. Cardinality(A) \in Nat /\ Cardinality(Behind(e)') \in Nat
    BY <1>3, <2>1, FS_CardinalityType
  <2> QED
    BY <2>1, <2>2, NoneIsNoTime
<1>5. CASE e \in reported
  <2>1. Cardinality(Behind(e)) >= Threshold
    <3>1. FL!Cardinality(Behind(e)) >= Threshold
      BY <1>2, <1>5 DEF BurstInv, FL!ReportedIsBurst, Behind
    <3>2. Behind(e) \in SUBSET DOMAIN tried
      BY DEF Behind
    <3> QED
      BY <3>1, <3>2, TriesAre DEF BurstInv
  <2>2. Behind(e) \in SUBSET Behind(e)'
    BY <1>2 DEF Behind
  <2> QED
    BY <1>4, <2>1, <2>2
<1>6. CASE e \notin reported
  <2>1. new = {[src |-> s, at |-> t]} /\ e = [src |-> s, at |-> t] /\ q.count >= Threshold
    BY <1>6 DEF Registers
  <2>2. PICK a \in FL!Time : a = q.first
    <3>1. burst[s].first \in FL!Time => q.first \in FL!Time
      BY DEF Registers
    <3> QED
      BY <3>1 DEF Registers
  <2>3. /\ q.count = Cardinality(Since(s, a)')
        /\ \A k \in Since(s, a)' : tried'[k].at <= a + Window
    BY <1>2, <2>2 DEF Timely
  <2>4. t <= a + Window
    BY <2>2, NoneIsNoTime DEF Registers
  <2>5. Since(s, a)' \in SUBSET Behind(e)'
    <3> SUFFICES ASSUME NEW k \in Since(s, a)' PROVE k \in Behind(e)'
      OBVIOUS
    <3>1. k \in 1..(n + 1) /\ tried'[k].src = s /\ tried'[k].at >= a
      BY <1>2 DEF Since
    <3>2. tried'[k].at \in Nat /\ a \in Nat /\ t \in Nat
      <4>1. tried'[k] \in Try
        BY <1>2, <3>1
      <4> QED
        BY <4>1, NoneIsNoTime DEF Try
    <3>3. tried'[k].at <= t /\ tried'[k].at + Window >= t
      BY <1>2, <2>4, <3>1, <3>2, NoneIsNoTime
    <3> QED
      BY <1>2, <2>1, <3>1, <3>3 DEF Behind
  <2> QED
    BY <1>4, <2>1, <2>3, <2>5
<1> QED
  BY <1>5, <1>6

-----------------------------------------------------------------------------
\* What is left of a batch.
LEMMA LeftOfBatch ==
    ASSUME NEW w \in Batch, w.todo # <<>>, Len(w.todo) <= MaxBatch, w.at \in FL!Time
    PROVE  /\ FL!Rest(w) \in Batch /\ FL!Idle \in Batch
           /\ ~FL!Rest(w).ready /\ Len(FL!Rest(w).todo) <= MaxBatch
           /\ (FL!Rest(w).todo = <<>>) <=> (FL!Rest(w) = FL!Idle)
           /\ FL!Rest(w).todo # <<>> => FL!Rest(w).at \in FL!Time
<1>1. w.todo \in Seq(Attacker) /\ MaxBatch \in Nat
  BY LoginAssumption DEF Batch
<1>2. FL!Idle \in Batch /\ FL!Idle.todo = <<>> /\ ~FL!Idle.ready /\ Len(FL!Idle.todo) = 0
  <2>1. <<>> \in Seq(Attacker)
    OBVIOUS
  <2> QED
    BY <2>1 DEF FL!Idle, Batch
<1>3. CASE Len(w.todo) = 1
  BY <1>1, <1>2, <1>3 DEF FL!Rest
<1>4. CASE Len(w.todo) # 1
  <2>1. PICK m \in Seq(Attacker) : m = Tail(w.todo) /\ m # <<>> /\ Len(m) <= MaxBatch
    <3>1. PICK u \in Seq(Attacker) : u = w.todo /\ u # <<>> /\ Len(u) # 1 /\ Len(u) <= MaxBatch
      BY <1>1, <1>4
    <3>2. Len(u) \in Nat /\ Len(u) # 0
      BY <3>1
    <3>3. PICK k \in Nat : k = Len(u) /\ k # 0 /\ k # 1 /\ k <= MaxBatch
      BY <3>1, <3>2
    <3>4. Tail(u) \in Seq(Attacker) /\ Len(Tail(u)) = k - 1
      BY <3>3, <3>1
    <3>5. PICK m \in Seq(Attacker) : m = Tail(u) /\ Len(m) = k - 1
      BY <3>4
    <3>6. k - 1 > 0 /\ k - 1 <= MaxBatch
      BY <1>1, <3>3
    <3>7. ASSUME m = <<>> PROVE FALSE
      <4>1. Len(m) = 0
        BY <3>7
      <4> QED
        BY <3>3, <3>5, <3>6, <4>1
    <3> QED
      BY <3>1, <3>5, <3>6, <3>7
  <2> DEFINE y == [w EXCEPT !.todo = m]
             x == [y EXCEPT !.ready = FALSE]
  <2>2. y \in Batch /\ y.todo = m /\ y.at = w.at
    BY DEF Batch
  <2>3. FL!Rest(w) = x
    BY <1>4, <2>1 DEF FL!Rest
  <2> HIDE DEF y
  <2>4. x \in Batch /\ x.todo = m /\ x.at = w.at /\ ~x.ready
    BY <2>2 DEF Batch
  <2> HIDE DEF x
  <2>7. x # FL!Idle
    BY <1>2, <2>1, <2>4
  <2> QED
    BY <1>2, <2>1, <2>3, <2>4, <2>7
<1> QED
  BY <1>3, <1>4

\* The windows and their history stay.
LEMMA BurstKept ==
    ASSUME BurstInv, burst' = burst, tried' = tried, reported' = reported,
           now' \in FL!Time, late' \subseteq FL!Post, batch' \in [Handler -> Batch],
           \A h \in Handler : Working(h)'
    PROVE  BurstInv'
<1>1. BurstTypes'
  BY DEF BurstInv, BurstTypes
<1>2. \A s \in Attacker : Sound(s)'
  BY DEF BurstInv, Sound
<1>3. FL!InOrder' => \A s \in Attacker : Timely(s)'
  <2>1. FL!InOrder' <=> FL!InOrder
    BY DEF FL!InOrder
  <2>2. \A s \in Attacker : Timely(s)' <=> Timely(s)
    BY DEF Timely, Since, Until
  <2> QED
    BY <2>1, <2>2 DEF BurstInv
<1>4. FL!DoubleBurstIsReported' /\ FL!ReportedIsBurst'
  BY DEF BurstInv, FL!DoubleBurstIsReported, FL!ReportedIsBurst, FL!InOrder, FL!Tries
<1> QED
  BY <1>1, <1>2, <1>3, <1>4 DEF BurstInv

\* One handler's batch becomes w, the windows stay.
LEMMA WorkKept ==
    ASSUME BurstInv, NEW h \in Handler, NEW w \in Batch, batch' = [batch EXCEPT ![h] = w],
           burst' = burst, Len(w.todo) <= MaxBatch, (w.todo = <<>>) <=> (w = FL!Idle),
           w.todo # <<>> => w.at \in FL!Time, ~w.ready
    PROVE  batch' \in [Handler -> Batch] /\ \A g \in Handler : Working(g)'
<1>1. /\ batch' \in [Handler -> Batch] /\ batch'[h] = w
      /\ \A g \in Handler : g # h => batch'[g] = batch[g]
  BY DEF BurstInv, BurstTypes
<1>2. ASSUME NEW g \in Handler PROVE Working(g)'
  <2>1. CASE g = h
    BY <1>1, <2>1 DEF Working
  <2>2. CASE g # h
    BY <1>1, <2>2 DEF BurstInv, Working
  <2> QED
    BY <2>1, <2>2
<1> QED
  BY <1>1, <1>2

LEMMA RegisterKeeps ==
    ASSUME BurstInv, NEW h \in Handler, FL!Register(h)
    PROVE  BurstInv'
<1>1. PICK s \in Attacker, t \in FL!Time, q \in Burst, new \in SUBSET Try :
        /\ Registers(s, t, q, new)
        /\ s = Head(batch[h].todo) /\ batch[h].todo # <<>>
        /\ \/ batch' = [batch EXCEPT ![h].ready = TRUE]
           \/ batch' = [batch EXCEPT ![h] = FL!Rest(batch[h])]
  BY RegisterIs
<1>3. /\ tried' \in Seq(Try) /\ Len(tried') <= MaxAttempts
      /\ burst' \in [Attacker -> Burst] /\ burst'[s] = q
      /\ \A r \in Attacker : r # s => burst'[r] = burst[r]
      /\ reported' \subseteq Try
  BY <1>1, WindowsAfter
<1>4. q.count > 0
  <2>1. burst[s].count \in Nat
    BY DEF BurstInv, BurstTypes, Burst
  <2> QED
    BY <1>1, <2>1 DEF Registers
<1>5. PICK w \in Batch : w = batch[h]
  BY DEF BurstInv, BurstTypes
<1>6. /\ w.todo \in Seq(Attacker) /\ w.todo # <<>> /\ Len(w.todo) <= MaxBatch
      /\ w.at \in FL!Time /\ Head(w.todo) = s
  BY <1>1, <1>5 DEF BurstInv, Working, Batch
<1>7. PICK v \in Batch :
        /\ batch' = [batch EXCEPT ![h] = v]
        /\ Len(v.todo) <= MaxBatch
        /\ (v.todo = <<>>) <=> (v = FL!Idle)
        /\ v.todo # <<>> => v.at \in FL!Time
        /\ v.ready => v.todo = w.todo
  <2>1. CASE batch' = [batch EXCEPT ![h].ready = TRUE]
    <3> DEFINE v == [w EXCEPT !.ready = TRUE]
    <3>2. v \in Batch
      BY DEF Batch
    <3>3. batch' = [batch EXCEPT ![h] = v]
      BY <1>5, <2>1
    <3>4. v.todo = w.todo /\ v.at = w.at
      BY DEF Batch
    <3> HIDE DEF v
    <3>5. FL!Idle.todo = <<>>
      BY DEF FL!Idle
    <3>6. v # FL!Idle
      BY <1>6, <3>4, <3>5
    <3> QED
      BY <1>6, <3>2, <3>3, <3>4, <3>6
  <2>2. CASE batch' = [batch EXCEPT ![h] = FL!Rest(batch[h])]
    BY <1>5, <1>6, <2>2, LeftOfBatch
  <2> QED
    BY <1>1, <2>1, <2>2
<1>8. /\ batch' \in [Handler -> Batch] /\ batch'[h] = v
      /\ \A g \in Handler : g # h => batch'[g] = batch[g]
  BY <1>7 DEF BurstInv, BurstTypes
<1>9. BurstTypes'
  <2>1. now' = now /\ late' = late
    BY DEF FL!Register
  <2> QED
    BY <1>3, <1>8, <2>1 DEF BurstInv, BurstTypes
<1>10. ASSUME NEW g \in Handler PROVE Working(g)'
  <2>1. CASE g = h
    <3>1. v.ready => v.todo # <<>> /\ burst'[Head(v.todo)].count > 0
      BY <1>3, <1>4, <1>6, <1>7
    <3> QED
      BY <1>7, <1>8, <2>1, <3>1 DEF Working
  <2>2. CASE g # h
    <3>1. Working(g) /\ batch'[g] = batch[g] /\ batch[g] \in Batch
      BY <1>8, <2>2 DEF BurstInv, BurstTypes
    <3>2. batch[g].ready => burst'[Head(batch[g].todo)].count > 0
      <4>1. SUFFICES ASSUME batch[g].ready PROVE burst'[Head(batch[g].todo)].count > 0
        OBVIOUS
      <4>2. batch[g].todo \in Seq(Attacker) /\ batch[g].todo # <<>>
            /\ burst[Head(batch[g].todo)].count > 0
        BY <3>1, <4>1 DEF Working, Batch
      <4>3. PICK r \in Attacker : r = Head(batch[g].todo)
        BY <4>2
      <4> QED
        BY <1>3, <1>4, <4>2, <4>3
    <3> QED
      BY <3>1, <3>2 DEF Working
  <2> QED
    BY <2>1, <2>2
<1>11. \A r \in Attacker : Sound(r)'
  BY <1>1, SoundAfter
<1>12. FL!InOrder' => \A r \in Attacker : Timely(r)'
  BY <1>1, TimelyAfter
<1>13. FL!DoubleBurstIsReported'
  <2>1. SUFFICES ASSUME FL!InOrder', NEW r \in Attacker, NEW u \in FL!Time,
                        FL!Cardinality(FL!Tries(r, u)') >= 2 * Threshold - 1
                 PROVE  \E e \in reported' : e.src = r /\ e.at + Window >= u /\ e.at <= u + Window
    BY DEF FL!DoubleBurstIsReported
  <2>2. \A p \in Attacker : Timely(p)' /\ Sound(p)'
    BY <1>11, <1>12, <2>1
  <2> QED
    BY <1>1, <1>9, <2>1, <2>2, DoubleBurstAfter
<1>14. FL!ReportedIsBurst'
  <2>1. SUFFICES ASSUME FL!InOrder', NEW e \in reported'
                 PROVE  FL!Cardinality(Behind(e)') >= Threshold
    BY DEF FL!ReportedIsBurst, Behind
  <2>2. Cardinality(Behind(e)') >= Threshold
    BY <1>1, <1>12, <2>1, ReportsAfter
  <2>3. FL!Cardinality(Behind(e)') = Cardinality(Behind(e)')
    BY DEF FL!Cardinality, Cardinality
  <2> QED
    BY <2>2, <2>3
<1> QED
  BY <1>9, <1>10, <1>11, <1>12, <1>13, <1>14 DEF BurstInv

-----------------------------------------------------------------------------
(* Init, the other steps, and what follows. *)

LoginInv == BurstInv /\ RecordInv

LEMMA FirstIs ==
    FL!NoBurst \in Burst /\ FL!NoBurst.count = 0 /\ FL!NoBurst.first = None /\ FL!NoBurst.emit = None
BY LoginAssumption DEF FL!NoBurst, Burst

\* What holds when no attempt was counted yet.
LEMMA NoTries ==
    ASSUME burst' = [s \in Attacker |-> FL!NoBurst], batch' = [h \in Handler |-> FL!Idle],
           tried' = <<>>, reported' = {}, now' \in FL!Time, late' \subseteq FL!Post
    PROVE  BurstInv'
<1>1. /\ tried' \in Seq(Try) /\ Len(tried') = 0 /\ DOMAIN tried' = {}
      /\ burst' \in [Attacker -> Burst]
      /\ \A s \in Attacker : burst'[s] = FL!NoBurst
      /\ \A h \in Handler : batch'[h] = FL!Idle
  BY FirstIs
<1>2. /\ FL!Idle \in Batch /\ FL!Idle.todo = <<>> /\ ~FL!Idle.ready /\ Len(FL!Idle.todo) = 0
  <2>1. <<>> \in Seq(Attacker)
    OBVIOUS
  <2> QED
    BY <2>1 DEF FL!Idle, Batch
<1>3. BurstTypes'
  BY <1>1, <1>2, LoginAssumption DEF BurstTypes
<1>4. \A s \in Attacker : Sound(s)' /\ Timely(s)'
  <2>1. \A s \in Attacker : Sound(s)'
    BY <1>1, FirstIs, NoneIsNoTime DEF Sound
  <2>2. \A s \in Attacker : Timely(s)'
    BY <1>1, FirstIs, NoneIsNoTime DEF Timely
  <2> QED
    BY <2>1, <2>2
<1>5. \A h \in Handler : Working(h)'
  BY <1>1, <1>2, LoginAssumption DEF Working
<1>6. FL!DoubleBurstIsReported'
  <2>1. FL!Cardinality({}) = 0
    <3>1. FL!Cardinality({}) = Cardinality({})
      BY DEF FL!Cardinality, Cardinality
    <3> QED
      BY <3>1, FS_EmptySet
  <2>2. \A s \in Attacker, t \in FL!Time : FL!Tries(s, t)' = {}
    BY <1>1 DEF FL!Tries
  <2>3. ~(0 >= 2 * Threshold - 1)
    BY NoneIsNoTime
  <2> QED
    BY <2>1, <2>2, <2>3 DEF FL!DoubleBurstIsReported
<1>7. FL!ReportedIsBurst'
  BY DEF FL!ReportedIsBurst
<1> QED
  BY <1>3, <1>4, <1>5, <1>6, <1>7 DEF BurstInv

\* The same of the state, for Init.
LEMMA InitLogins == ASSUME FL!Init PROVE LoginInv
<1>1. /\ tried \in Seq(Try) /\ Len(tried) = 0 /\ DOMAIN tried = {}
      /\ burst \in [Attacker -> Burst]
      /\ \A s \in Attacker : burst[s] = FL!NoBurst
      /\ \A h \in Handler : batch[h] = FL!Idle
      /\ reported = {}
  BY FirstIs DEF FL!Init
<1>2. /\ FL!Idle \in Batch /\ FL!Idle.todo = <<>> /\ ~FL!Idle.ready /\ Len(FL!Idle.todo) = 0
  <2>1. <<>> \in Seq(Attacker)
    OBVIOUS
  <2> QED
    BY <2>1 DEF FL!Idle, Batch
<1>3. BurstTypes
  <2>1. 0 \in FL!Time /\ 0 <= MaxAttempts
    BY LoginAssumption DEF FL!Time
  <2>2. batch \in [Handler -> Batch]
    BY <1>2 DEF FL!Init
  <2> QED
    BY <1>1, <2>1, <2>2 DEF BurstTypes, FL!Init
<1>4. \A s \in Attacker : Sound(s) /\ Timely(s)
  <2>1. \A s \in Attacker : Sound(s)
    BY <1>1, FirstIs, NoneIsNoTime DEF Sound
  <2>2. \A s \in Attacker : Timely(s)
    BY <1>1, FirstIs, NoneIsNoTime DEF Timely
  <2> QED
    BY <2>1, <2>2
<1>5. \A h \in Handler : Working(h)
  BY <1>1, <1>2, LoginAssumption DEF Working
<1>6. FL!DoubleBurstIsReported
  <2>1. FL!Cardinality({}) = 0
    <3>1. FL!Cardinality({}) = Cardinality({})
      BY DEF FL!Cardinality, Cardinality
    <3> QED
      BY <3>1, FS_EmptySet
  <2>2. \A s \in Attacker, t \in FL!Time : FL!Tries(s, t) = {}
    BY <1>1 DEF FL!Tries
  <2>3. ~(0 >= 2 * Threshold - 1)
    BY NoneIsNoTime
  <2> QED
    BY <2>1, <2>2, <2>3 DEF FL!DoubleBurstIsReported
<1>7. FL!ReportedIsBurst
  BY <1>1 DEF FL!ReportedIsBurst
<1>8. RecordInv
  <2>1. records \in Seq(Login) /\ DOMAIN records = {}
    BY DEF FL!Init
  <2> QED
    BY <2>1 DEF RecordInv
<1> QED
  BY <1>3, <1>4, <1>5, <1>6, <1>7, <1>8 DEF BurstInv, LoginInv

LEMMA ReceiveKeeps ==
    ASSUME BurstInv, NEW h \in Handler, NEW n \in 1..MaxBatch, NEW xs \in [1..n -> Attacker],
           FL!Receive(h, xs)
    PROVE  BurstInv'
<1>1. xs \in Seq(Attacker) /\ Len(xs) = n /\ n \in Nat /\ n <= MaxBatch /\ n # 0
  <2>1. n \in Nat /\ n <= MaxBatch /\ n # 0
    BY LoginAssumption
  <2>2. xs \in Seq(Attacker)
    BY <2>1, SeqDef
  <2>3. DOMAIN xs = 1..n /\ DOMAIN xs = 1..Len(xs) /\ Len(xs) \in Nat
    BY <2>2, LenProperties
  <2> QED
    BY <2>1, <2>2, <2>3
<1> DEFINE w == [todo |-> xs, at |-> now, ready |-> FALSE]
<1>2. now \in FL!Time /\ w \in Batch
  BY <1>1 DEF BurstInv, BurstTypes, Batch
<1>3. w.todo = xs /\ w.at = now /\ ~w.ready /\ batch' = [batch EXCEPT ![h] = w]
  BY DEF FL!Receive
<1>4. xs # <<>>
  BY DEF FL!Receive
<1>5. w # FL!Idle
  BY <1>4 DEF FL!Idle
<1>6. UNCHANGED <<now, burst, records, tried, reported, late>>
  BY DEF FL!Receive
<1> HIDE DEF w
<1>7. batch' \in [Handler -> Batch] /\ \A g \in Handler : Working(g)'
  BY <1>1, <1>2, <1>3, <1>4, <1>5, <1>6, WorkKept
<1> QED
  BY <1>2, <1>6, <1>7, BurstKept DEF BurstInv, BurstTypes

\* The posts of one attempt at forwarding.
LEMMA PostsAre ==
    ASSUME NEW x \in FL!Subject, NEW t \in FL!Time, NEW c \in Nat \ {0}, NEW n \in 0..MaxTries
    PROVE  {[subject |-> x, at |-> t, sent |-> c, try |-> k] : k \in 1..n} \subseteq FL!Post
<1>1. \A k \in 1..n : k \in 1..MaxTries
  BY LoginAssumption
<1> QED
  BY <1>1 DEF FL!Post

LEMMA ForwardKeeps ==
    ASSUME LoginInv, NEW h \in Handler, FL!Forward(h)
    PROVE  LoginInv'
<1>1. PICK w \in Batch : w = batch[h] /\ w.ready
  BY DEF LoginInv, BurstInv, BurstTypes, FL!Forward
<1>2. /\ w.todo \in Seq(Attacker) /\ w.todo # <<>> /\ Len(w.todo) <= MaxBatch /\ w.at \in FL!Time
      /\ burst[Head(w.todo)].count > 0
  BY <1>1 DEF LoginInv, BurstInv, Working, Batch
<1>3. PICK s \in Attacker : s = Head(w.todo)
  BY <1>2
<1>4. PICK c \in Nat \ {0} : c = burst[s].count
  <2>1. burst[s].count \in Nat
    BY DEF LoginInv, BurstInv, BurstTypes, Burst
  <2> QED
    BY <1>2, <1>3, <2>1
<1> DEFINE x == [src |-> s, user |-> None]
<1>5. x \in FL!Subject
  BY DEF FL!Subject
<1>6. PICK t \in 0..now, n \in 0..MaxTries :
        /\ late' = late \cup {[subject |-> x, at |-> t, sent |-> c, try |-> k] : k \in 1..n}
        /\ \/ /\ records' = Append(records, FL!Record(x, t, c))
              /\ batch' = [batch EXCEPT ![h] = FL!Rest(w)]
           \/ /\ records' = records
              /\ batch' = [batch EXCEPT ![h] = FL!Idle]
  BY <1>1, <1>3, <1>4 DEF FL!Forward, FL!Stored
<1>7. t \in FL!Time /\ UNCHANGED <<now, burst, tried, reported>>
  <2>1. now \in FL!Time /\ UNCHANGED <<now, burst, tried, reported>>
    BY DEF LoginInv, BurstInv, BurstTypes, FL!Forward
  <2> QED
    BY <2>1, LoginAssumption DEF FL!Time
<1> HIDE DEF x
<1>8. late' \subseteq FL!Post
  BY <1>5, <1>6, <1>7, PostsAre DEF LoginInv, BurstInv, BurstTypes
<1>9. RecordInv'
  <2>1. CASE records' = records
    BY <2>1 DEF LoginInv, RecordInv, Noticed, Sums, Caught, FL!Before
  <2>2. CASE records' = Append(records, FL!Record(x, t, c))
    BY <1>5, <1>7, <2>2, AppendKeeps DEF LoginInv
  <2> QED
    BY <1>6, <2>1, <2>2
<1>10. batch' \in [Handler -> Batch] /\ \A g \in Handler : Working(g)'
  <2>1. CASE batch' = [batch EXCEPT ![h] = FL!Rest(w)]
    BY <1>2, <1>7, <2>1, LeftOfBatch, WorkKept DEF LoginInv
  <2>2. CASE batch' = [batch EXCEPT ![h] = FL!Idle]
    <3>1. FL!Idle \in Batch
      BY <1>2, LeftOfBatch
    <3>2. FL!Idle.todo = <<>> /\ ~FL!Idle.ready /\ Len(FL!Idle.todo) = 0 /\ 0 <= MaxBatch
      BY LoginAssumption DEF FL!Idle
    <3> QED
      BY <1>7, <2>2, <3>1, <3>2, WorkKept DEF LoginInv
  <2> QED
    BY <1>6, <2>1, <2>2
<1>11. BurstInv'
  BY <1>7, <1>8, <1>10, BurstKept DEF LoginInv, BurstInv, BurstTypes
<1> QED
  BY <1>9, <1>11 DEF LoginInv

LEMMA NextLogins == ASSUME LoginInv, FL!Next PROVE LoginInv'
<1>1. ASSUME records' = records PROVE RecordInv'
  BY <1>1 DEF LoginInv, RecordInv, Noticed, Sums, Caught, FL!Before
<1>2. ASSUME UNCHANGED <<burst, batch, tried, reported>>, now' \in FL!Time, late' \subseteq FL!Post
      PROVE  BurstInv'
  <2>1. batch' \in [Handler -> Batch] /\ \A g \in Handler : Working(g)'
    BY <1>2 DEF LoginInv, BurstInv, BurstTypes, Working
  <2> QED
    BY <1>2, <2>1, BurstKept DEF LoginInv
<1>3. now \in FL!Time /\ late \subseteq FL!Post
  BY DEF LoginInv, BurstInv, BurstTypes
<1>4. CASE FL!Tick
  <2>1. now' \in FL!Time
    BY <1>3, <1>4, LoginAssumption DEF FL!Tick, FL!Time
  <2> QED
    BY <1>1, <1>2, <1>3, <1>4, <2>1 DEF FL!Tick, LoginInv
<1>5. CASE FL!Restart
  <2>1. BurstInv'
    BY <1>3, <1>5, NoTries DEF FL!Restart
  <2> QED
    BY <1>1, <1>5, <2>1 DEF FL!Restart, LoginInv
<1>6. ASSUME NEW h \in Handler, NEW n \in 1..MaxBatch, NEW xs \in [1..n -> Attacker],
             FL!Receive(h, xs)
      PROVE  LoginInv'
  <2>1. BurstInv'
    BY <1>6, ReceiveKeeps DEF LoginInv
  <2> QED
    BY <1>1, <1>6, <2>1 DEF FL!Receive, LoginInv
<1>7. ASSUME NEW h \in Handler, FL!Register(h) PROVE LoginInv'
  <2>1. BurstInv'
    BY <1>7, RegisterKeeps DEF LoginInv
  <2> QED
    BY <1>1, <1>7, <2>1 DEF FL!Register, LoginInv
<1>8. ASSUME NEW h \in Handler, FL!Forward(h) PROVE LoginInv'
  BY <1>8, ForwardKeeps
<1>9. ASSUME NEW x \in FL!Subject, NEW t \in 0..now, FL!PostSingle(x, t) PROVE LoginInv'
  <2>1. t \in FL!Time
    BY <1>3, LoginAssumption DEF FL!Time
  <2>2. RecordInv'
    BY <1>9, <2>1, AppendKeeps DEF FL!PostSingle, LoginInv
  <2> QED
    BY <1>2, <1>3, <1>9, <2>2 DEF FL!PostSingle, LoginInv
<1>10. ASSUME NEW p \in late, FL!ServeLate(p) PROVE LoginInv'
  <2>1. p.subject \in FL!Subject /\ p.at \in FL!Time /\ p.sent \in Nat \ {0}
    BY <1>3 DEF FL!Post
  <2>2. records' = Append(records, FL!Record(p.subject, p.at, p.sent))
    BY <1>10 DEF FL!ServeLate, FL!Stored
  <2>3. RecordInv'
    BY <2>1, <2>2, AppendKeeps DEF LoginInv
  <2>4. late' \subseteq FL!Post /\ UNCHANGED <<now, burst, batch, tried, reported>>
    BY <1>3, <1>10 DEF FL!ServeLate
  <2> QED
    BY <1>2, <1>3, <2>3, <2>4 DEF LoginInv
<1> QED
  BY <1>4, <1>5, <1>6, <1>7, <1>8, <1>9, <1>10 DEF FL!Next

LEMMA LoginsImply ==
    ASSUME LoginInv
    PROVE  /\ FL!TypeOK /\ FL!DoubleBurstIsReported /\ FL!BurstIsNoticed
           /\ FL!FlagsHaveCause /\ FL!ReportedIsBurst
<1>1. FL!TypeOK
  <2>1. ASSUME NEW s \in Attacker
        PROVE  /\ burst[s].count \in 0..MaxAttempts
               /\ burst[s].first \in FL!Time \cup {None} /\ burst[s].emit \in FL!Time \cup {None}
               /\ burst[s].emit # None => burst[s].count >= Threshold
    <3>1. burst[s] \in Burst /\ Sound(s)
      BY DEF LoginInv, BurstInv, BurstTypes
    <3>2. /\ burst[s].count \in Nat
          /\ burst[s].first \in FL!Time \cup {None} /\ burst[s].emit \in FL!Time \cup {None}
      BY <3>1 DEF Burst
    <3>3. Len(tried) \in Nat /\ Len(tried) <= MaxAttempts
      BY TriesAre DEF LoginInv, BurstInv, BurstTypes
    <3>4. burst[s].count <= MaxAttempts
      BY <3>1, <3>2, <3>3, LoginAssumption DEF Sound
    <3> QED
      BY <3>1, <3>2, <3>4, LoginAssumption DEF Sound
  <2>2. ASSUME NEW h \in Handler
        PROVE  /\ Len(batch[h].todo) <= MaxBatch
               /\ \A x \in FL!Range(batch[h].todo) : x \in Attacker
               /\ (batch[h].todo = <<>>) <=> (batch[h] = FL!Idle)
    <3>1. batch[h].todo \in Seq(Attacker) /\ Working(h)
      BY DEF LoginInv, BurstInv, BurstTypes, Batch
    <3>2. \A x \in FL!Range(batch[h].todo) : x \in Attacker
      BY <3>1 DEF FL!Range
    <3> QED
      BY <3>1, <3>2 DEF Working
  <2>3. \A r \in FL!Range(records) :
          r.subject \in FL!Subject /\ r.at \in FL!Time /\ r.sent \in Nat \ {0} /\ r.count >= r.sent
    BY IncidentsAre DEF LoginInv
  <2> QED
    BY <2>1, <2>2, <2>3 DEF FL!TypeOK, LoginInv, BurstInv, BurstTypes
<1> QED
  BY <1>1, IncidentsAre DEF LoginInv, BurstInv

-----------------------------------------------------------------------------
(* The theorems. *)

\* The machine of a behaviour is chosen once.
LEMMA PartIsKept == [Next]_all => part' = part
BY DEF Next, all, OutOfWF, OutOfLF, OutOfFL, OutOfRF

\* PageIsTold, for any tickets, threads and size of the queue: a ticket is on
\* the page or on its way there, unless nobody published it, its event found no
\* subscriber or no room, the stream or a request failed, or the list was
\* replaced by an older one; and none is announced twice (RealtimeBroker,
\* event_stream, useTicketsStore, useIncidentToastsStore).
THEOREM PageIsAlwaysTold == Spec => []PageIsTold
<1> DEFINE I == part = "realtime" => FeedInv
<1>1. Init => I
  BY InitFeed DEF Init, InitWF, InitLF, InitFL, InitRF
<1>2. I /\ [Next]_all => I'
  <2> SUFFICES ASSUME I, [Next]_all, part = "realtime" PROVE FeedInv'
    BY PartIsKept
  <2>1. CASE RF!Next
    BY <2>1, NextFeed
  <2>2. CASE UNCHANGED all
    <3>1. UNCHANGED <<tickets, made, thread, stream, subscribed, queue, list, cache, fetch, known,
                      toasts, missed>>
      BY <2>2 DEF all
    <3> QED
      BY <3>1 DEF FeedInv, FeedTypes, Toasted, Coming, Tells, Asked
  <2> QED
    BY <2>1, <2>2 DEF Next
<1>3. I => PageIsTold
  BY FeedImplies DEF PageIsTold
<1> QED
  BY <1>1, <1>2, <1>3, PTL DEF Spec

\* LogsAreForwarded, for any number of slots, requests and failures: no
\* collector gets the log twice, unless a request could not read every slot or
\* two were served at once, and a request for everything that has written its
\* slot left the collector everything (apply_log_forwarding,
\* _ensure_log_forwarding).
THEOREM LogsAreAlwaysForwarded == Spec => []LogsAreForwarded
<1> DEFINE I == part = "forwarding" => ForwardInv
<1>1. Init => I
  BY InitForwarding DEF Init, InitWF, InitLF, InitFL, InitRF
<1>2. I /\ [Next]_all => I'
  BY PartIsKept, NextForwarding, OrdersStay DEF Next
<1>3. I => LogsAreForwarded
  BY ForwardImplies DEF LogsAreForwarded
<1> QED
  BY <1>1, <1>2, <1>3, PTL DEF Spec

\* BlocksAreEnforced, for any blocks, sources, profiles, threads and failures:
\* the server policy has a profile that the device has; an active block is
\* enforced, unless requests about its source met, a removal of it was begun or
\* the policy has another profile by now; an apply that was alone has enforced
\* it, a removal has released it; and nothing is listed twice unless requests
\* met (apply_source_block, remove_source_block).
THEOREM BlocksAreAlwaysEnforced == Spec => []BlocksAreEnforced
<1> DEFINE I == part = "waf" => BlockInv
<1>1. Init => I
  BY InitBlocks DEF Init, InitWF, InitLF, InitFL, InitRF
<1>2. I /\ [Next]_all => I'
  BY PartIsKept, NextBlocks, BlocksStay DEF Next
<1>3. I => BlocksAreEnforced
  BY BlocksImply DEF BlocksAreEnforced
<1> QED
  BY <1>1, <1>2, <1>3, PTL DEF Spec

\* BurstsAreReported, for any sources, threads, windows, thresholds and bounds:
\* twice the attempts that the threshold asks for within a window are reported,
\* and nothing less than the threshold is; attempts of one account that add up
\* are flagged, and none without a cause (register, _enrich_failed_login_burst).
THEOREM BurstsAreAlwaysReported == Spec => []BurstsAreReported
<1> DEFINE I == part = "logins" => LoginInv
<1>1. Init => I
  BY InitLogins DEF Init, InitWF, InitLF, InitFL, InitRF
<1>2. I /\ [Next]_all => I'
  <2> SUFFICES ASSUME I, [Next]_all, part = "logins" PROVE LoginInv'
    BY PartIsKept
  <2>1. CASE FL!Next
    BY <2>1, NextLogins
  <2>2. CASE UNCHANGED all
    <3>1. UNCHANGED <<now, burst, batch, records, tried, reported, late>>
      BY <2>2 DEF all
    <3>2. RecordInv'
      BY <3>1 DEF LoginInv, RecordInv, Noticed, Sums, Caught, FL!Before
    <3>3. BurstInv'
      <4>1. batch' \in [Handler -> Batch] /\ \A g \in Handler : Working(g)'
        BY <3>1 DEF LoginInv, BurstInv, BurstTypes, Working
      <4> QED
        BY <3>1, <4>1, BurstKept DEF LoginInv, BurstInv, BurstTypes
    <3> QED
      BY <3>2, <3>3 DEF LoginInv
  <2> QED
    BY <2>1, <2>2 DEF Next
<1>3. I => BurstsAreReported
  BY LoginsImply DEF BurstsAreReported
<1> QED
  BY <1>1, <1>2, <1>3, PTL DEF Spec

\* ChangesAreWhole: a WAF/DoS review that is applied alone and to its end
\* leaves the server policy as it asked, with the DoS policy and the log
\* (apply_waf_dos_policy); a slot that forwards to another server keeps doing so,
\* unless two requests were served at once (_find_empty_syslog_slot).
THEOREM ChangesAreAlwaysWhole == Spec => ChangesAreWhole
<1> DEFINE I == (part = "waf" => BlockInv) /\ (part = "forwarding" => ForwardInv)
           A == /\ part = "waf" => WF!PolicyPrepared
                /\ part = "forwarding" => LF!OthersKept
<1>1. Init => I
  BY InitBlocks, InitForwarding DEF Init, InitWF, InitLF, InitFL, InitRF
<1>2. I /\ [Next]_all => I'
  BY PartIsKept, NextBlocks, BlocksStay, NextForwarding, OrdersStay DEF Next
<1>3. I /\ [Next]_all => [A]_all
  <2> SUFFICES ASSUME I, Next PROVE A
    OBVIOUS
  <2> QED
    BY PolicyIsPrepared, OthersAreKept DEF Next
<1> QED
  BY <1>1, <1>2, <1>3, PTL DEF Spec, ChangesAreWhole

=============================================================================
