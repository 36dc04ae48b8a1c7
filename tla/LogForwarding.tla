---------------------------- MODULE LogForwarding ----------------------------
(***************************************************************************)
(* How the BFF tells a FortiGate to send its log to a collector.  The device *)
(* has a few syslog slots, each a setting (status and server) and a filter,  *)
(* which are read and written by calls of their own.  A request reads the    *)
(* slots, picks the collector's own or an empty one, writes its setting and  *)
(* then its filter.  Others use slots too.                                   *)
(***************************************************************************)
EXTENDS Naturals, FiniteSets, FiniteSetsExt

CONSTANTS
    Slots,      \* how many syslog slots the device has
    Collector,  \* collectors that requests name, host and port
    Foreign,    \* a server that is not one of them
    Handler,    \* request threads
    MaxFaults,  \* bound on failed calls
    None

Slot   == 1..Slots
Server == Collector \cup {Foreign}

VARIABLES
    slot,       \* slot[n]: the setting and the filter of slot n of the device
    request,    \* the request that each handler thread serves
    faults,     \* how many calls failed
    blind,      \* history: a request went on without having read every slot
    met         \* history: two requests were served at once

vars == <<slot, request, faults, blind, met>>

-----------------------------------------------------------------------------
\* full: the filter lets everything from severity "information" on through.
Setting == [enabled : BOOLEAN, server : Server \cup {None}, full : BOOLEAN]

\* seen: the slots that were read.  full: is severity "information" asked for?
Idle == [pc |-> "idle", collector |-> None, ensure |-> FALSE, full |-> FALSE,
         seen |-> <<>>, slot |-> None]

\* What slots and requests can hold; a request that writes has a slot.
TypeOK ==
    /\ slot \in [Slot -> Setting]
    /\ \A h \in Handler :
         /\ request[h].pc \in {"idle", "read", "setting", "filter", "refresh"}
         /\ (request[h].pc = "idle") <=> (request[h] = Idle)
         /\ request[h].pc \in {"setting", "filter"} <=> request[h].slot \in Slot
         /\ DOMAIN request[h].seen \subseteq Slot
    /\ faults \in 0..MaxFaults
    /\ blind \in BOOLEAN /\ met \in BOOLEAN

\* The device as it may be found: slots of others, disabled ones with or
\* without a server.
Init ==
    /\ slot \in [Slot -> {[enabled |-> FALSE, server |-> None, full |-> FALSE],
                          [enabled |-> FALSE, server |-> Foreign, full |-> TRUE],
                          [enabled |-> TRUE,  server |-> Foreign, full |-> TRUE]}]
    /\ request = [h \in Handler |-> Idle]
    /\ faults = 0
    /\ blind = FALSE
    /\ met = FALSE

Fault == faults < MaxFaults /\ faults' = faults + 1
Fails(h) == Fault /\ request' = [request EXCEPT ![h] = Idle]

-----------------------------------------------------------------------------
\* _find_collector_syslog_slot, of what was read
Own(seen, c) == {n \in DOMAIN seen : seen[n].enabled /\ seen[n].server = c}

\* Mutant: every slot without the collector is empty.
EmptyAny(seen) == DOMAIN seen

\* _find_empty_syslog_slot: a slot that is off is empty, whatever its server.
Empty(seen) == {n \in DOMAIN seen : ~seen[n].enabled \/ seen[n].server = None}

\* Mutant: an empty slot is taken though the collector has one.
PickEmpty(seen, c) == IF Empty(seen) # {} THEN Min(Empty(seen)) ELSE None

\* The slot to write: the collector's own, an empty one, or none.
Pick(seen, c) ==
    IF Own(seen, c) # {} THEN Min(Own(seen, c))
    ELSE IF Empty(seen) # {} THEN Min(Empty(seen)) ELSE None

\* _find_matching_syslog_slot: the filter of the first own slot must be full.
Matches(seen, c) == Own(seen, c) # {} /\ seen[Min(Own(seen, c))].full

\* apply_log_forwarding, or _ensure_log_forwarding of a new integration
Begin(h, c, ensure, full) ==
    /\ request[h] = Idle
    /\ ensure => full
    /\ request' = [request EXCEPT ![h] = [Idle EXCEPT !.pc = "read", !.collector = c,
                                                      !.ensure = ensure, !.full = full]]
    /\ met' = (met \/ \E k \in Handler \ {h} : request[k].pc # "idle")
    /\ UNCHANGED <<slot, faults, blind>>

\* _syslog_current: slots whose calls fail are left out, all but the first,
\* without which the request fails.  Then the slot is picked; ensure stops when
\* one matches already, and either stops when there is none.
Read(h) ==
    /\ request[h].pc = "read"
    /\ \/ Fails(h) /\ UNCHANGED blind
       \/ \E failed \in SUBSET (Slot \ {1}) :
            LET seen == [n \in Slot \ failed |-> slot[n]]
                c    == request[h].collector
                n    == Pick(seen, c) IN
            /\ faults + Cardinality(failed) <= MaxFaults
            /\ faults' = faults + Cardinality(failed)
            /\ blind' = (blind \/ failed # {})
            /\ request' = [request EXCEPT ![h] =
                 IF n = None \/ (request[h].ensure /\ Matches(seen, c)) THEN Idle
                 ELSE [@ EXCEPT !.pc = "setting", !.seen = seen, !.slot = n]]
    /\ UNCHANGED <<slot, met>>

Goes(h, pc) == request' = [request EXCEPT ![h].pc = pc, ![h].seen = <<>>] /\ UNCHANGED faults

\* update_syslog_setting
WriteSetting(h) ==
    LET r == request[h] IN
    /\ r.pc = "setting"
    /\ \/ /\ slot' = [slot EXCEPT ![r.slot].enabled = TRUE, ![r.slot].server = r.collector]
          /\ Goes(h, "filter") \/ Fails(h)
       \/ Fails(h) /\ UNCHANGED slot
    /\ UNCHANGED <<blind, met>>

Refreshes(h) ==
    request' = [request EXCEPT ![h].pc = "refresh", ![h].slot = None] /\ UNCHANGED faults

\* Mutant: the filter of the slot is not written.
WriteFilterNot(h) == request[h].pc = "filter" /\ Refreshes(h) /\ UNCHANGED <<slot, blind, met>>

\* update_syslog_filter
WriteFilter(h) ==
    LET r == request[h] IN
    /\ r.pc = "filter"
    /\ \/ /\ slot' = [slot EXCEPT ![r.slot].full = r.full]
          /\ Refreshes(h) \/ Fails(h)
       \/ Fails(h) /\ UNCHANGED slot
    /\ UNCHANGED <<blind, met>>

\* The answer, after _syslog_current read the slots again
Refresh(h) ==
    /\ request[h].pc = "refresh"
    /\ request' = [request EXCEPT ![h] = Idle]
    /\ UNCHANGED <<slot, faults, blind, met>>

Next == \E h \in Handler :
    \/ \E c \in Collector, ensure, full \in BOOLEAN : Begin(h, c, ensure, full)
    \/ Read(h) \/ WriteSetting(h) \/ WriteFilter(h) \/ Refresh(h)

Spec == Init /\ [][Next]_vars

-----------------------------------------------------------------------------
(* Properties. *)

Forwarding(c) == {n \in Slot : slot[n].enabled /\ slot[n].server = c}

\* A slot that forwards to another server keeps doing so: the pick never takes
\* it.  Two requests at once may pick one empty slot, and the later wins.
OthersKept ==
    \A n \in Slot : slot[n].enabled /\ slot'[n] # slot[n] =>
       slot'[n].server = slot[n].server \/ met

\* No collector gets its log twice, through two slots, though requests fail
\* half-way and are repeated: a request finds the slot of the one before, unless
\* it could not read that slot, or overlapped with another request.
ForwardedOnce ==
    \A c \in Collector : Cardinality(Forwarding(c)) > 1 => blind \/ met

\* Once a request for everything has written its slot and nobody came between,
\* the collector gets everything: what an earlier one left half done is repaired.
AppliedIsComplete ==
    \A h \in Handler : request[h].pc = "refresh" /\ request[h].full /\ ~met =>
        \E n \in Forwarding(request[h].collector) : slot[n].full
=============================================================================
