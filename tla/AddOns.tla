------------------------------- MODULE AddOns -------------------------------
(***************************************************************************)
(* One marketplace add-on (addons/, routers/marketplace.py): its versions  *)
(* in the storage directory, the row that says which is installed, and the *)
(* factory of its connector in the registry of the process.  Installing    *)
(* and uninstalling change the three one after the other, in request       *)
(* threads, and nothing undoes the steps of a request that fails.          *)
(*                                                                         *)
(* The wizard (routers/integrations_v2.py) tests a device with a connector *)
(* the registry caches, and then stores the integration.                   *)
(***************************************************************************)
EXTENDS Naturals, FiniteSets

CONSTANTS Version,      \* released versions of the add-on
          Broken,       \* those whose package does not import
          Device,       \* what users submit to the wizard: an address, its credentials
          Up,           \* the devices that answer
          Handler,      \* requests of the API under way
          MaxRequests,  \* bound: requests in all
          MaxFaults,    \* bound: errors of the disk or the database, and restarts
          None

VARIABLES disk,      \* versions in the storage directory
          row,       \* version of the installed_addons row, or None
          factory,   \* version of the factory registered, or None
          probe,     \* the connector cached for the wizard's tests, or None
          stored,    \* devices of the integrations stored
          pc,        \* what each handler does next
          answer,    \* the wizard's last answer: about which device, asked for which
          settled,   \* history: the last change was complete, the last was a restart, or neither
          clean,     \* history: nothing failed, restarted or overlapped so far
          requests, faults

vars == <<disk, row, factory, probe, stored, pc, answer, settled, clean, requests, faults>>

Idle == [step |-> "idle"]
Busy(h) == pc[h].step \in {"evict", "displace", "move", "upsert", "load", "register",
                           "trash", "delete", "unregister"}

(* A request that changes the add-on, and whether it is alone until its end. *)
Begin(h, step, v) ==
    /\ requests < MaxRequests
    /\ requests' = requests + 1
    /\ pc[h] = Idle
    /\ pc' = [g \in Handler |->
                IF g = h THEN [step |-> step, v |-> v, alone |-> \A k \in Handler : ~Busy(k)]
                ELSE IF Busy(g) THEN [pc[g] EXCEPT !.alone = FALSE] ELSE pc[g]]
    /\ clean' = (clean /\ \A k \in Handler : ~Busy(k))

Go(h, step) == pc' = [pc EXCEPT ![h].step = step]
Stop(h) == pc' = [pc EXCEPT ![h] = Idle]
Complete(h) == Stop(h) /\ settled' = IF pc[h].alone THEN "complete" ELSE "disturbed"
Fault == faults < MaxFaults /\ faults' = faults + 1 /\ clean' = FALSE

Catalogue == row # None /\ row \in disk
Loads(v) == v \in disk /\ v \notin Broken

-----------------------------------------------------------------------------
(* InstallService.install and the route, which registers the factory.  *)

Install(h, v) ==
    /\ Begin(h, "evict", v)
    /\ UNCHANGED <<disk, row, factory, probe, stored, answer, settled, faults>>

\* Mutant: older versions are not evicted.
EvictedNone(v) == {}
Evicted(v) == {row} \ {v, None}

Evict(h) ==
    /\ pc[h].step = "evict"
    /\ disk' = disk \ Evicted(pc[h].v)
    /\ Go(h, "displace")
    /\ UNCHANGED <<row, factory, probe, stored, answer, settled, clean, requests, faults>>

(* _move_into_place trashes the package that is there before it renames the
   new one; the rename fails if another request has put one there meanwhile. *)
Displace(h) ==
    /\ pc[h].step = "displace"
    /\ disk' = disk \ {pc[h].v}
    /\ Go(h, "move")
    /\ UNCHANGED <<row, factory, probe, stored, answer, settled, clean, requests, faults>>

Move(h) ==
    /\ pc[h].step = "move"
    /\ disk' = disk \cup {pc[h].v}
    /\ IF pc[h].v \notin disk
       THEN Go(h, "upsert") /\ UNCHANGED <<settled, clean>>
       ELSE Stop(h) /\ settled' = "disturbed" /\ clean' = FALSE
    /\ UNCHANGED <<row, factory, probe, stored, answer, requests, faults>>

Upsert(h) ==
    /\ pc[h].step = "upsert"
    /\ row' = pc[h].v
    /\ Go(h, "load")
    /\ UNCHANGED <<disk, factory, probe, stored, answer, settled, clean, requests, faults>>

(* A package that does not import stays installed; the factory of the version
   before it stays registered. *)
Load(h) ==
    /\ pc[h].step = "load"
    /\ IF Loads(pc[h].v)
       THEN Go(h, "register") /\ UNCHANGED <<settled, clean>>
       ELSE Stop(h) /\ settled' = "disturbed" /\ clean' = FALSE
    /\ UNCHANGED <<disk, row, factory, probe, stored, answer, requests, faults>>

\* Mutant: a factory that is registered is not replaced.
RegisteredOnce(f, v) == IF f = None THEN v ELSE f
Registered(f, v) == v

Register(h) ==
    /\ pc[h].step = "register"
    /\ factory' = Registered(factory, pc[h].v)
    /\ Complete(h)
    /\ UNCHANGED <<disk, row, probe, stored, answer, clean, requests, faults>>

(* The disk or the database refuses: the steps done before stay done. *)
Fail(h) ==
    /\ pc[h].step \in {"evict", "displace", "move", "upsert", "trash", "delete"}
    /\ Fault
    /\ Stop(h)
    /\ settled' = "disturbed"
    /\ UNCHANGED <<disk, row, factory, probe, stored, answer, requests>>

-----------------------------------------------------------------------------
(* InstallService.uninstall and the route, which closes the connectors.  *)

Uninstall(h) ==
    /\ row # None
    /\ Begin(h, "trash", row)
    /\ UNCHANGED <<disk, row, factory, probe, stored, answer, settled, faults>>

Trash(h) ==
    /\ pc[h].step = "trash"
    /\ disk' = disk \ {pc[h].v}
    /\ Go(h, "delete")
    /\ UNCHANGED <<row, factory, probe, stored, answer, settled, clean, requests, faults>>

(* Deleted by the id of the add-on, whatever version has it by now. *)
DeleteRow(h) ==
    /\ pc[h].step = "delete"
    /\ row' = None
    /\ Go(h, "unregister")
    /\ UNCHANGED <<disk, factory, probe, stored, answer, settled, clean, requests, faults>>

\* Mutant: the cached connector is kept.
UnregisteredOnly(p) == p
Unregistered(p) == None

Unregister(h) ==
    /\ pc[h].step = "unregister"
    /\ factory' = None
    /\ probe' = Unregistered(probe)
    /\ Complete(h)
    /\ UNCHANGED <<disk, row, stored, answer, clean, requests, faults>>

-----------------------------------------------------------------------------
(* The wizard.  ConnectorRegistry.get looks the factory up, and builds a   *)
(* connector unless one has been cached for the tests before.              *)

Wizard(h, d, connect) ==
    /\ requests < MaxRequests
    /\ requests' = requests + 1
    /\ pc[h] = Idle
    /\ Catalogue /\ factory # None
    /\ pc' = [pc EXCEPT ![h] = [step |-> "get", v |-> factory, device |-> d, connect |-> connect]]
    /\ UNCHANGED <<disk, row, factory, probe, stored, answer, settled, clean, faults>>

Probe(h) ==
    /\ pc[h].step = "get"
    /\ LET d == pc[h].device
           p == IF probe # None THEN probe ELSE [v |-> pc[h].v, device |-> d]
       IN  /\ probe' = p
           /\ answer' = [asked |-> d, about |-> p.device]
           /\ IF p.device \in Up /\ pc[h].connect THEN Go(h, "store") ELSE Stop(h)
    /\ clean' = (clean /\ factory = pc[h].v)
    /\ UNCHANGED <<disk, row, factory, stored, settled, requests, faults>>

(* The services test the device themselves before they store it. *)
AcceptedOnProbe(d) == TRUE
Accepted(d) == d \in Up

Store(h) ==
    /\ pc[h].step = "store"
    /\ stored' = IF Accepted(pc[h].device) THEN stored \cup {pc[h].device} ELSE stored
    /\ Stop(h)
    /\ UNCHANGED <<disk, row, factory, probe, answer, settled, clean, requests, faults>>

-----------------------------------------------------------------------------
(* bootstrap_installed_addons loads the row when the BFF starts.  *)
BootedAny == IF disk = {} THEN None ELSE CHOOSE v \in disk : TRUE
Booted == IF row # None /\ Loads(row) THEN row ELSE None

Restart ==
    /\ Fault
    /\ factory' = Booted
    /\ probe' = None
    /\ pc' = [h \in Handler |-> Idle]
    /\ settled' = "restarted"
    /\ UNCHANGED <<disk, row, stored, answer, requests>>

Init ==
    /\ disk = {} /\ row = None /\ factory = None /\ probe = None /\ stored = {}
    /\ pc = [h \in Handler |-> Idle]
    /\ answer = None
    /\ settled = "complete" /\ clean = TRUE
    /\ requests = 0 /\ faults = 0

Next ==
    \/ Restart
    \/ \E h \in Handler : \E v \in Version : Install(h, v)
    \/ \E h \in Handler : Evict(h) \/ Displace(h) \/ Move(h) \/ Upsert(h) \/ Load(h)
    \/ \E h \in Handler : Register(h) \/ Fail(h)
    \/ \E h \in Handler : Uninstall(h) \/ Trash(h) \/ DeleteRow(h) \/ Unregister(h)
    \/ \E h \in Handler : \E d \in Device, c \in BOOLEAN : Wizard(h, d, c)
    \/ \E h \in Handler : Probe(h) \/ Store(h)

Spec == Init /\ [][Next]_vars

-----------------------------------------------------------------------------
Quiet == \A h \in Handler : ~Busy(h)

(* An answer is about a device somebody submitted, and a connector is cached
   only of a version that was registered. *)
TypeOK ==
    /\ disk \subseteq Version
    /\ {row, factory} \subseteq Version \cup {None}
    /\ stored \subseteq Device
    /\ probe = None \/ (probe.device \in Device /\ probe.v \in Version \ Broken)
    /\ factory \notin Broken

(* Once a request that was alone is complete, the factory registered is that
   of the row, and its package is there - whatever failed, overlapped or was
   killed before it: installing again repairs. *)
InstalledIsServed ==
    Quiet /\ settled = "complete" =>
        /\ factory = row
        /\ row # None => row \in disk

(* So does starting the BFF again, unless the package of the row was lost. *)
RestartServes ==
    Quiet /\ settled = "restarted" =>
        \/ factory = row
        \/ factory = None /\ ~Loads(row)

(* One version of an add-on is on the disk, the one of the row, as long as
   nothing failed or overlapped (_evict_previous_version). *)
OneVersionOnDisk ==
    Quiet /\ clean => disk = {row} \ {None}

(* No connector the wizard has cached survives the uninstallation, unless its
   test had looked the factory up before it (ConnectorRegistry.unregister). *)
ClosedWhenUninstalled ==
    Quiet /\ clean /\ row = None => probe = None

(* Only integrations whose own device answered are stored, though the test
   before may have been of another device. *)
StoredAnswered == stored \subseteq Up

=============================================================================
