---- MODULE MCEnrollmentBinding ----
(* Instances of EnrollmentBinding for TLC: o1 and o2 are enrollment ids. *)
EXTENDS EnrollmentBinding

CONSTANTS t1, t2, o1, o2, e1

TwoTokens      == {t1, t2}
ThreeEndpoints == {o1, o2, e1}
OwnIds         == [t \in Token |-> IF t = t1 THEN o1 ELSE o2]
====
