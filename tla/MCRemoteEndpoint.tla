-------------------------- MODULE MCRemoteEndpoint --------------------------
(* Instances of RemoteEndpoint for TLC. *)
EXTENDS RemoteEndpoint, TLC

Symmetry == Permutations(Request)
=============================================================================
