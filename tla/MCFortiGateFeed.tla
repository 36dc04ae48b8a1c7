---- MODULE MCFortiGateFeed ----
(* Instances of FortiGateFeed for TLC. *)
EXTENDS FortiGateFeed, TLC

CONSTANTS i1, e1, h1, sched

OneIntegration == {i1}
OneEvent       == {e1}
NoLogin        == {}
OneHandler     == {h1}
AllOfI1        == [e \in Event |-> i1]
OwnKeys        == [e \in Event |-> e]
====
