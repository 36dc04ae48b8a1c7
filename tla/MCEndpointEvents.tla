-------------------------- MODULE MCEndpointEvents --------------------------
(* An instance of EndpointEvents for TLC: one host, two addresses to talk to. *)
EXTENDS EndpointEvents

OneHost == [e \in Endpoint |-> "host"]
OneUser == {<<"corp", "ann">>}
=============================================================================
