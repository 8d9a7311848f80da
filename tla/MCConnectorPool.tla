-------------------------- MODULE MCConnectorPool --------------------------
(* Instances of ConnectorPool for TLC. *)
EXTENDS ConnectorPool, TLC

\* Requests differ only by their binding, connector objects not at all.
Symmetry == Permutations(Requests) \cup Permutations(Conns)
=============================================================================
