----------------------------- MODULE MCConfirm -----------------------------
(* Instances of Confirm for TLC. *)
EXTENDS Confirm, TLC

Symmetry == Permutations(Request)
=============================================================================
