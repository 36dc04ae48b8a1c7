---- MODULE MCSiemFlows ----
(* Instances of SiemFlows for TLC. *)
EXTENDS SiemFlows, TLC

CONSTANTS f1, f2, http, https, ssh, t1, t2

R(flow, port, kind) == [flow |-> flow, port |-> port, kind |-> kind]

TwoFlows   == {f1, f2}
ThreePorts == {http, https, ssh}
WebPorts   == {http, https}

\* A flow that scans and floods two services, denied traffic in the same flow,
\* and another flow, whose records the reads see in the first one's place.
Mixed == {R(f1, http, "forwarded"), R(f1, https, "forwarded"), R(f1, ssh, "denied"),
          R(f1, http, "denied"), R(f2, http, "forwarded")}

TwoThreads == {t1, t2}

Symmetric == Permutations(TwoThreads)
====
