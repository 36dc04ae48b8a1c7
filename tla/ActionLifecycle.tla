--------------------------- MODULE ActionLifecycle ---------------------------
(***************************************************************************)
(* What the status column of a remote action promises to the analyst who   *)
(* reads it: an action is queued once, claimed once, finished once, and    *)
(* keeps its result until the endpoint is deleted together with it.        *)
(***************************************************************************)
CONSTANT Action

VARIABLE status

Outcome == {"completed", "failed"}

Init == status = [a \in Action |-> "new"]

\* Action a goes from one of the statuses in `from' to one of those in `to'.
Move(a, from, to) ==
    /\ status[a] \in from
    /\ \E s \in to : status' = [status EXCEPT ![a] = s]

Draft(a)  == Move(a, {"new"}, {"drafted"})
Queue(a)  == Move(a, {"drafted"}, {"queued"})
Claim(a)  == Move(a, {"queued"}, {"claimed"})
Finish(a) == Move(a, {"claimed"}, Outcome)

\* The rows of an endpoint go all at once, in whatever status they are.
Delete(A) ==
    /\ \A a \in A : status[a] \in {"queued", "claimed"} \cup Outcome
    /\ status' = [a \in Action |-> IF a \in A THEN "deleted" ELSE status[a]]

Next ==
    \/ \E a \in Action : Draft(a) \/ Queue(a) \/ Claim(a) \/ Finish(a)
    \/ \E A \in SUBSET Action : Delete(A)

Spec == Init /\ [][Next]_status
=============================================================================
