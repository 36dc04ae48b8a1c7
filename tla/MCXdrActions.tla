---- MODULE MCXdrActions ----
(* Instances of XdrActions for TLC. *)
EXTENDS XdrActions, TLC

CONSTANTS e1, e2, d1, d2, k1, k2, k3

OneEndpoint  == {e1}
TwoEndpoints == {e1, e2}
OneDaemon    == {d1}
TwoDaemons   == {d1, d2}

\* One endpoint, or one daemon at each of two endpoints.
AllAtE1  == [d \in Daemon |-> e1]
OneEach  == [d \in Daemon |-> IF d = d1 THEN e1 ELSE e2]

\* The actions of one endpoint, or in turn of e1 and of e2.
AllForE1 == [a \in Action |-> e1]
InTurn   == [a \in Action |-> IF a % 2 = 1 THEN e1 ELSE e2]

TwoCalls   == {k1, k2}
ThreeCalls == {k1, k2, k3}

\* The id only tells apart the calls under way: any permutation of the ids
\* maps behaviours to behaviours.
Symmetry == Permutations(CallId)
====
