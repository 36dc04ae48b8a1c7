--------------------------- MODULE AgentTelemetry ---------------------------
(***************************************************************************)
(* How the endpoint agent (apps/agent_private) forwards the records of the *)
(* Windows Security log.  Threads of one daemon collect: its loop, on an   *)
(* interval, and the threads of its control server, on request.  Each      *)
(* reads the newest records, moves the cursor kept in state.json and posts *)
(* what lies beyond the cursor it found.  The file is read and rewritten   *)
(* without a lock, and rewriting it empties it first.                      *)
(*                                                                         *)
(* Record ids are 1, 2, ... in the order of the log.  Failed logons of one *)
(* reading travel in one event ahead of the others.  The other telemetry   *)
(* of the agent keeps no state and is left out.                            *)
(***************************************************************************)
EXTENDS Naturals, Sequences, FiniteSetsExt

CONSTANTS Thread,     \* the loop of the daemon and control server threads
          Limit,      \* windows_security_limit, records read at a time
          MaxRecord,  \* bound: records ever written to the log
          FailedLogon,  \* the ids of the records that tell a failed logon
          MaxFaults,  \* bound: posts that fail or repeat, unwritable files, crashes
          None        \* no cursor: there is no file, or nothing can be read from it

VARIABLES log,        \* records written to the Security log
          file,       \* windowsSecurityLastRecordId in state.json
          pc,         \* where each thread is in collect_now
          batch,      \* the records it has read
          last,       \* the cursor it has read
          todo,       \* the events it has still to post: sets of records
          sent,       \* history: how often the BFF received each record, at most 2
          given,      \* history: records whose post failed, or that a crash took
          cut,        \* history: records beyond the cursor but not among the newest
          skipped,    \* history: records read with no cursor to compare with
          overlapped, \* history: two threads were collecting at once
          faults      \* faults so far, by kind

vars == <<log, file, pc, batch, last, todo, sent, given, cut, skipped, overlapped, faults>>

Record == 1 .. MaxRecord
Fault == {"crash", "unsaved", "repeat", "refused"}
Step == {"idle", "read", "loaded", "emptied", "posting"}

Init ==
    /\ log = 0
    /\ file = None
    /\ pc = [t \in Thread |-> "idle"]
    /\ batch = [t \in Thread |-> {}]
    /\ last = [t \in Thread |-> None]
    /\ todo = [t \in Thread |-> <<>>]
    /\ sent = [r \in Record |-> 0]
    /\ given = {} /\ cut = {} /\ skipped = {}
    /\ overlapped = FALSE
    /\ faults = [f \in Fault |-> 0]

Faulty(f) ==
    /\ faults["crash"] + faults["unsaved"] + faults["repeat"] + faults["refused"] < MaxFaults
    /\ faults' = [faults EXCEPT ![f] = @ + 1]

(* Windows writes a record. *)
WriteRecord ==
    /\ log < MaxRecord
    /\ log' = log + 1
    /\ UNCHANGED <<file, pc, batch, last, todo, sent, given, cut, skipped, overlapped, faults>>

(* wevtutil qe /rd:true /c:limit *)
Newest == {r \in 1 .. log : r + Limit > log}

(* The collector runs; without records the collection is over. *)
Collect(t) ==
    /\ pc[t] = "idle" /\ log > 0
    /\ pc' = [pc EXCEPT ![t] = "read"]
    /\ batch' = [batch EXCEPT ![t] = Newest]
    /\ overlapped' = (overlapped \/ \E u \in Thread : pc[u] # "idle")
    /\ UNCHANGED <<log, file, last, todo, sent, given, cut, skipped, faults>>

(* load_state: a file that does not parse is the same as no file. *)
LoadCursor(t) ==
    /\ pc[t] = "read"
    /\ pc' = [pc EXCEPT ![t] = "loaded"]
    /\ last' = [last EXCEPT ![t] = file]
    /\ UNCHANGED <<log, file, batch, todo, sent, given, cut, skipped, overlapped, faults>>

(* save_state opens the file for writing, which empties it. *)
EmptyFile(t) ==
    /\ pc[t] = "loaded"
    /\ pc' = [pc EXCEPT ![t] = "emptied"]
    /\ file' = None
    /\ UNCHANGED <<log, batch, last, todo, sent, given, cut, skipped, overlapped, faults>>

Cursor(t) == Max(batch[t] \cup (IF last[t] = None THEN {} ELSE {last[t]}))

\* Mutant: the record of the cursor itself is fresh.
FreshNotBefore(t) == {r \in batch[t] : r >= last[t]}
\* Mutant: records are compared with the new cursor.
FreshPastNew(t) == {r \in batch[t] : r > Cursor(t)}
Fresh(t) == {r \in batch[t] : r > last[t]}

(* build_windows_security_event_payloads: one event of all failed logons, *)
(* then one event each.                                                   *)
Events(rs) ==
    (IF rs \cap FailedLogon = {} THEN <<>> ELSE <<rs \cap FailedLogon>>)
       \o [i \in 1 .. Cardinality(rs \ FailedLogon) |->
              {r \in rs \ FailedLogon : Cardinality({x \in rs \ FailedLogon : x <= r}) = i}]

(* With the cursor stored: the first time there is nothing to compare with *)
(* and the records are passed over; else those beyond the old cursor are   *)
(* turned into events.                                                     *)
Compare(t) ==
    /\ cut' = cut \cup {r \in Record : r < Min(batch[t]) /\ (last[t] = None \/ r > last[t])}
    /\ IF last[t] = None
       THEN /\ skipped' = skipped \cup batch[t]
            /\ pc' = [pc EXCEPT ![t] = "idle"]
            /\ UNCHANGED todo
       ELSE /\ todo' = [todo EXCEPT ![t] = Events(Fresh(t))]
            /\ pc' = [pc EXCEPT ![t] = IF Fresh(t) = {} THEN "idle" ELSE "posting"]
            /\ UNCHANGED skipped

\* Mutant: the first reading stores no cursor.
WriteCursorSecondTime(t) ==
    /\ pc[t] = "emptied"
    /\ file' = IF last[t] = None THEN None ELSE Cursor(t)
    /\ Compare(t)
    /\ batch' = [batch EXCEPT ![t] = {}]
    /\ last' = [last EXCEPT ![t] = None]
    /\ UNCHANGED <<log, sent, given, overlapped, faults>>

WriteCursor(t) ==
    /\ pc[t] = "emptied"
    /\ file' = Cursor(t)
    /\ Compare(t)
    /\ batch' = [batch EXCEPT ![t] = {}]
    /\ last' = [last EXCEPT ![t] = None]
    /\ UNCHANGED <<log, sent, given, overlapped, faults>>

(* The file cannot be opened: save_state returns and the collection goes on. *)
Unsaved(t) ==
    /\ pc[t] = "loaded"
    /\ Faulty("unsaved")
    /\ Compare(t)
    /\ batch' = [batch EXCEPT ![t] = {}]
    /\ last' = [last EXCEPT ![t] = None]
    /\ UNCHANGED <<log, file, sent, given, overlapped>>

Received(rs, n) == [r \in Record |-> IF r \in rs THEN Min({2, sent[r] + n}) ELSE sent[r]]

Posted(t) ==
    /\ todo' = [todo EXCEPT ![t] = Tail(@)]
    /\ pc' = [pc EXCEPT ![t] = IF Len(todo[t]) = 1 THEN "idle" ELSE @]
    /\ UNCHANGED <<log, file, batch, last, cut, skipped, overlapped>>

(* post_endpoint_event delivers the first event that is left. *)
Post(t) ==
    /\ pc[t] = "posting"
    /\ sent' = Received(Head(todo[t]), 1)
    /\ Posted(t)
    /\ UNCHANGED <<given, faults>>

(* An attempt times out although it was served, and is repeated. *)
PostRepeated(t) ==
    /\ pc[t] = "posting"
    /\ Faulty("repeat")
    /\ sent' = Received(Head(todo[t]), 2)
    /\ Posted(t)
    /\ UNCHANGED given

(* All attempts fail, or it is refused: counted, logged, and passed over. *)
PostFails(t) ==
    /\ pc[t] = "posting"
    /\ Faulty("refused")
    /\ given' = given \cup Head(todo[t])
    /\ Posted(t)
    /\ UNCHANGED sent

(* The daemon ends and is started again; what its threads held is gone. *)
Restart ==
    /\ Faulty("crash")
    /\ given' = given \cup UNION {UNION Range(todo[t]) : t \in Thread}
    /\ pc' = [t \in Thread |-> "idle"]
    /\ batch' = [t \in Thread |-> {}]
    /\ last' = [t \in Thread |-> None]
    /\ todo' = [t \in Thread |-> <<>>]
    /\ UNCHANGED <<log, file, sent, cut, skipped, overlapped>>

Next ==
    \/ WriteRecord
    \/ \E t \in Thread :
          \/ Collect(t) \/ LoadCursor(t) \/ EmptyFile(t) \/ WriteCursor(t) \/ Unsaved(t)
          \/ Post(t) \/ PostRepeated(t) \/ PostFails(t)
    \/ Restart

Spec == Init /\ [][Next]_vars

-----------------------------------------------------------------------------
TypeOK ==
    /\ log \in 0 .. MaxRecord
    /\ file \in Record \cup {None}
    /\ pc \in [Thread -> Step]
    /\ batch \in [Thread -> SUBSET (1 .. log)]
    /\ last \in [Thread -> Record \cup {None}]
    /\ \A t \in Thread : /\ todo[t] \in Seq((SUBSET (1 .. log)) \ {{}})
                         /\ (pc[t] = "posting") = (todo[t] # <<>>)
    /\ sent \in [Record -> 0 .. 2]
    /\ UNION {given, cut, skipped} \subseteq (1 .. log)
    /\ overlapped \in BOOLEAN
    /\ faults \in [Fault -> 0 .. MaxFaults]

(***************************************************************************)
(* The cursor moves before anything is posted.  Whatever it has passed was *)
(* received, is about to be posted, or was given up in one of the ways the *)
(* code gives up: the post failed, the daemon died, too many records since *)
(* the last reading, or no cursor to compare with.  Nothing falls between. *)
(***************************************************************************)
PassedIsAccounted ==
    file # None =>
        \A r \in 1 .. file :
            \/ sent[r] > 0 \/ r \in UNION {given, cut, skipped}
            \/ \E t \in Thread : r \in UNION Range(todo[t])

(***************************************************************************)
(* A record reaches the BFF twice only if a request was repeated, the file *)
(* could not be written, or two threads collected at the same time.        *)
(***************************************************************************)
RepeatedHasCause ==
    (\E r \in Record : sent[r] > 1) =>
        overlapped \/ faults["repeat"] > 0 \/ faults["unsaved"] > 0

(***************************************************************************)
(* Once there is a cursor, collecting in turn never passes records over    *)
(* for want of one: only a thread that reads the file while another one is *)
(* rewriting it, or a daemon that died doing so, starts from nothing again *)
(* (and records that came since are then never forwarded).                 *)
(***************************************************************************)
StartHasCause ==
    skipped' # skipped =>
       skipped = {} \/ overlapped \/ faults["crash"] > 0 \/ faults'["unsaved"] > 0

=============================================================================
