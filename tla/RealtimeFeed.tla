---------------------------- MODULE RealtimeFeed ----------------------------
(***************************************************************************)
(* How a page of the console learns of new tickets.  A thread of the BFF   *)
(* that made siem_kowalski store one may tell the broker (realtime.py),    *)
(* which puts an event into the queue of every subscriber of the same      *)
(* user; a stream (routers/realtime.py) sends what is queued to the page.  *)
(* Many tickets are stored and nobody tells the broker.  The page keeps a  *)
(* list of tickets, which it also asks for as a whole, and announces       *)
(* tickets it did not know (stores of apps/web).                           *)
(*                                                                         *)
(* There is one page, of one user.  siem_kowalski is shared by all users.  *)
(***************************************************************************)
EXTENDS Naturals, Sequences, Functions

CONSTANTS Ticket,     \* ids of tickets, used once
          Mine,       \* those from integrations of the user
          Thread,     \* threads of the BFF that publish
          QueueSize,  \* maxsize of a subscriber's queue
          MaxFaults,  \* bound: resets, cuts, requests that fail, collections
          None

VARIABLES tickets,     \* the incidents siem_kowalski has
          made,        \* all that it ever had
          thread,      \* thread[h]: the events it has still to publish
          stream,      \* "closed", "greeted" once "connected" was sent, or "open"
          subscribed,  \* the broker has the stream's subscriber
          queue,       \* the queue of that subscriber
          list,        \* the tickets the page shows
          cache,       \* the same in the query cache, or None
          fetch,       \* the page's requests for all tickets
          known,       \* tickets the page need not announce
          ready,       \* and has learnt which those are
          toasts,      \* toasts[t]: how often t was announced
          missed,      \* history: tickets the page was not told of, or lost
          faults

page   == <<list, cache, fetch, known, ready, toasts>>
vars   == <<tickets, made, thread, stream, subscribed, queue, page, missed, faults>>

Event == [type : {"incident", "polled", "reset"}, about : SUBSET Ticket, mine : BOOLEAN]

\* Requests that may be under way: two of the list (a bound), one of the toasts.
Purpose == {"list", "again", "toasts"}
Fetch   == {None} \cup [at : {"sent", "read"}, found : SUBSET Ticket]
Sent    == [at |-> "sent", found |-> {}]

TypeOK ==
    /\ tickets \subseteq made /\ made \subseteq Ticket
    /\ \A h \in Thread : thread[h] \in Seq(Event)
    /\ stream \in {"closed", "greeted", "open"}
    /\ subscribed => stream = "open"
    /\ Len(queue) <= QueueSize /\ (queue # <<>> => stream = "open")
    /\ \A e \in Range(queue) : e.mine
    /\ list \subseteq made /\ (cache # None => cache \subseteq list)
    /\ \A p \in Purpose : fetch[p] \in Fetch

\* The page is mounted while there are tickets already: both stores ask for
\* them before the stream is opened.
Init ==
    /\ tickets \in SUBSET Ticket /\ made = tickets
    /\ thread = [h \in Thread |-> <<>>]
    /\ stream = "closed" /\ subscribed = FALSE /\ queue = <<>>
    /\ list = {} /\ cache = None
    /\ fetch = [p \in Purpose |-> IF p = "again" THEN None ELSE Sent]
    /\ known = {} /\ ready = FALSE /\ toasts = [t \in Ticket |-> 0]
    /\ missed = {} /\ faults = 0

Fault == faults < MaxFaults /\ faults' = faults + 1

-----------------------------------------------------------------------------
(* The BFF. *)

Incident(t) == [type |-> "incident", about |-> {t}, mine |-> t \in Mine]

\* _syslog_realtime_events: a ticket stands in two of the events.
BySyslog(t) == <<Incident(t), Incident(t)>>

\* _publish_realtime_ingest, after a webhook.
ByWebhook(t) == <<Incident(t)>>

\* A run of the poller only says that there may be tickets.
ByPoller(t) == <<[Incident(t) EXCEPT !.type = "polled"]>>

\* siem_kowalski has stored a ticket, and nobody publishes it: it came of the
\* events of an endpoint, of the webhook of FortiWeb, or of an integration
\* without an owner; or the thread failed, or gave up waiting, before it got to
\* publishing what it had made siem_kowalski store.
StoreUntold(t) ==
    /\ t \notin made
    /\ made' = made \cup {t} /\ tickets' = tickets \cup {t}
    /\ missed' = missed \cup {t}
    /\ UNCHANGED <<thread, stream, subscribed, queue, page, faults>>

\* siem_kowalski has stored a ticket, and the thread goes on to publish it.
Ingest(h, t) ==
    /\ thread[h] = <<>> /\ t \notin made
    /\ made' = made \cup {t} /\ tickets' = tickets \cup {t}
    /\ \E events \in {BySyslog(t), ByWebhook(t), ByPoller(t)} :
          thread' = [thread EXCEPT ![h] = events]
    /\ UNCHANGED <<stream, subscribed, queue, page, missed, faults>>

\* reset_incidents_store: only who asked for it is told.
Wipe(h, mine) ==
    /\ thread[h] = <<>> /\ Fault
    /\ tickets' = {}
    /\ thread' = [thread EXCEPT ![h] = <<[type |-> "reset", about |-> {}, mine |-> mine]>>]
    /\ UNCHANGED <<made, stream, subscribed, queue, page, missed>>

Room(q) == Len(q) < QueueSize

\* _publish_to: a subscriber whose queue is full is no subscriber any longer,
\* though its stream stays open.
Publish(h) ==
    /\ thread[h] # <<>>
    /\ LET e == Head(thread[h]) IN
       IF subscribed /\ e.mine /\ Room(queue)
       THEN queue' = Append(queue, e) /\ UNCHANGED <<subscribed, missed>>
       ELSE /\ missed' = missed \cup e.about
            /\ subscribed' = (subscribed /\ ~e.mine)
            /\ UNCHANGED queue
    /\ thread' = [thread EXCEPT ![h] = Tail(@)]
    /\ UNCHANGED <<tickets, made, stream, page, faults>>

\* event_stream: "connected" is sent before the subscriber is there.
Greet ==
    /\ stream = "closed" /\ stream' = "greeted"
    /\ UNCHANGED <<tickets, made, thread, subscribed, queue, page, missed, faults>>

Subscribe ==
    /\ stream = "greeted" /\ stream' = "open"
    /\ subscribed' = TRUE
    /\ UNCHANGED <<tickets, made, thread, queue, page, missed, faults>>

\* The connection is lost with what is in the queue; the browser opens another.
Cut ==
    /\ stream # "closed" /\ Fault
    /\ stream' = "closed" /\ subscribed' = FALSE /\ queue' = <<>>
    /\ missed' = missed \cup UNION {e.about : e \in Range(queue)}
    /\ UNCHANGED <<tickets, made, thread, page>>

-----------------------------------------------------------------------------
(* The page. *)

\* ingestTicket: announced unless it is known, or nobody can say yet.
Announced(t) ==
    toasts' = IF ready /\ t \notin known THEN [toasts EXCEPT ![t] = @ + 1] ELSE toasts

\* Mutant: what is announced is not remembered.
HeardBefore(t) == IF ready THEN known ELSE known \cup {t}

Heard(t) == known \cup {t}

\* applyRealtimeQueryEvent puts the ticket into the cache, and the list becomes
\* what is in the cache.
ShowTicket(e) ==
    LET cached == (IF cache = None THEN {} ELSE cache) \cup e.about IN
    /\ cache' = cached /\ list' = cached
    /\ missed' = IF cache = list THEN missed ELSE missed \cup (list \ cached)
    /\ \A t \in e.about : Announced(t) /\ known' = Heard(t)
    /\ UNCHANGED <<fetch, ready>>

\* Mutant: the list is asked for again only when no request is under way.
AskingOnce(f) ==
    IF f["list"] = None /\ f["again"] = None THEN [f EXCEPT !["list"] = Sent] ELSE f

\* refresh, which does not wait for the one before.
Asking(f) == [f EXCEPT ![IF f["list"] = None THEN "list" ELSE "again"] = Sent]

\* An event that says "tickets" makes the list be asked for, and a reset empties
\* the cache, but not yet the list.  That no third request is sent is a bound.
AskAgain(e) ==
    /\ fetch["again"] = None
    /\ fetch' = Asking(fetch)
    /\ cache' = IF e.type = "reset" /\ cache # None THEN {} ELSE cache
    /\ UNCHANGED <<list, known, ready, toasts, missed>>

\* The stream goes on sending what is queued when its subscriber was removed.
Deliver ==
    /\ stream = "open" /\ queue # <<>>
    /\ queue' = Tail(queue)
    /\ IF Head(queue).type = "incident" THEN ShowTicket(Head(queue)) ELSE AskAgain(Head(queue))
    /\ UNCHANGED <<tickets, made, thread, stream, subscribed, faults>>

\* list_tickets, of all users.
ReadTickets(p) ==
    /\ fetch[p] = Sent
    /\ fetch' = [fetch EXCEPT ![p] = [at |-> "read", found |-> tickets]]
    /\ UNCHANGED <<tickets, made, thread, stream, subscribed, queue, list, cache, known,
                   ready, toasts, missed, faults>>

\* The list becomes the answer, whatever was shown since it was read.
AnswerList(p) ==
    /\ p # "toasts" /\ fetch[p] # None /\ fetch[p].at = "read"
    /\ list' = fetch[p].found /\ cache' = fetch[p].found
    /\ missed' = missed \cup (list \ fetch[p].found)
    /\ fetch' = [fetch EXCEPT ![p] = None]
    /\ UNCHANGED <<tickets, made, thread, stream, subscribed, queue, known, ready, toasts,
                   faults>>

\* refreshTickets: the first answer says what need not be announced.
AnswerToasts ==
    /\ fetch["toasts"] # None /\ fetch["toasts"].at = "read"
    /\ known' = known \cup fetch["toasts"].found /\ ready' = TRUE
    /\ fetch' = [fetch EXCEPT !["toasts"] = None]
    /\ UNCHANGED <<tickets, made, thread, stream, subscribed, queue, list, cache, toasts,
                   missed, faults>>

\* A request fails, and nobody repeats it: nothing is ever announced when it is
\* that of the toasts.
FetchFails(p) ==
    /\ fetch[p] # None /\ Fault
    /\ fetch' = [fetch EXCEPT ![p] = None]
    /\ missed' = IF p = "toasts" THEN missed ELSE missed \cup (tickets \ list)
    /\ UNCHANGED <<tickets, made, thread, stream, subscribed, queue, list, cache, known,
                   ready, toasts>>

\* The query cache drops what nobody observes after gcTime (external).
Collect ==
    /\ cache # None /\ Fault
    /\ cache' = None
    /\ UNCHANGED <<tickets, made, thread, stream, subscribed, queue, list, fetch, known,
                   ready, toasts, missed>>

Next ==
    \/ \E h \in Thread :
         \/ \E t \in Ticket : Ingest(h, t)
         \/ \E mine \in BOOLEAN : Wipe(h, mine)
         \/ Publish(h)
    \/ \E t \in Ticket : StoreUntold(t)
    \/ Greet \/ Subscribe \/ Cut \/ Deliver
    \/ \E p \in Purpose : ReadTickets(p) \/ AnswerList(p) \/ FetchFails(p)
    \/ AnswerToasts \/ Collect

Spec == Init /\ [][Next]_vars

-----------------------------------------------------------------------------
\* Some event that is still to be published or sent is about t.
OnItsWay(t) ==
    \/ \E h \in Thread : \E e \in Range(thread[h]) : t \in e.about
    \/ \E e \in Range(queue) : t \in e.about
    \/ \E p \in {"list", "again"} : fetch[p] # None /\ (fetch[p] = Sent \/ t \in fetch[p].found)

(***************************************************************************)
(* A ticket that was published is on the page or on its way there, unless  *)
(* its event found no subscriber or no room, went down with the stream, a  *)
(* request for the list failed, or the list was replaced by what was read  *)
(* or cached before (useTicketsStore, RealtimeBroker).                     *)
(***************************************************************************)
ListedUnlessMissed == \A t \in tickets : t \in list \/ OnItsWay(t) \/ t \in missed

(***************************************************************************)
(* No ticket is announced twice, though syslog publishes it twice, and     *)
(* what the page is told before and after it has learnt what there was may *)
(* overlap (useIncidentToastsStore).                                       *)
(***************************************************************************)
AnnouncedOnce == \A t \in Ticket : toasts[t] <= 1
=============================================================================
