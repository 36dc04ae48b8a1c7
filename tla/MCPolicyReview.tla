---- MODULE MCPolicyReview ----
(* Instances of PolicyReview for TLC. *)
EXTENDS PolicyReview, TLC

CONSTANTS h1, h2, h3, web, ssh, r1, r2, r3, t1, t2

Q(block, scope, src, dst, svc) ==
    [block |-> block, scope |-> scope, src |-> src, dst |-> dst, svc |-> svc]

ThreeHosts == {h1, h2, h3}
TwoServices == {web, ssh}

LabAll     == Q(FALSE, "source_only", h1, Everything, Everything)
LabH3H2    == Q(FALSE, "source_destination", h3, h2, Everything)
BlockAll   == Q(TRUE, "source_only", h1, Everything, Everything)
BlockH2    == Q(TRUE, "source_destination", h1, h2, Everything)
BlockH3H2  == Q(TRUE, "source_destination", h3, h2, Everything)

\* Lab policies and blocks of two sources: blocks that are placed before a lab
\* policy, blocks that take one over, and blocks of what is already blocked.
Usual    == {LabAll, LabH3H2, BlockAll, BlockH2, BlockH3H2}

\* They are of the shapes the theorems about blocks are for.
ASSUME UsualShapes == OneService /\ NoneWider

ThreeReviews == {r1, r2, r3}

\* One review at a time and anything may fail, or several and nothing fails.
FaultsOrRaces == {[serial |-> TRUE, faults |-> TRUE], [serial |-> FALSE, faults |-> FALSE]}

TwoAppliers == {t1, t2}

\* Reviews only differ by their rows, threads by what they do.
Symmetry == Permutations(Review) \cup Permutations(Applier)
====
