---- MODULE MCContainment ----
(* Instances of Containment for TLC. *)
EXTENDS Containment, TLC

CONSTANTS i1, r1, r2, q1, h1, h2

OneIncident == {i1}
TwoRuns     == {r1, r2}
OneRequest  == {q1}
TwoHandlers == {h1, h2}

P(gated, blocks, notes) == [gated |-> gated, blocks |-> blocks, notes |-> notes]

\* pb_port_scan_triage, a playbook that only waits, and one that only notes.
Playbooks == {P(TRUE, TRUE, FALSE), P(TRUE, FALSE, TRUE), P(FALSE, FALSE, TRUE)}

Sym == Permutations(TwoRuns) \cup Permutations(TwoHandlers)
====
