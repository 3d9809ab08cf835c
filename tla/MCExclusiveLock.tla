-------------------------- MODULE MCExclusiveLock --------------------------
(* Small instances of the directory mutex for TLC. *)
EXTENDS ExclusiveLock, TLC

Symmetry == Permutations(Proc)
=============================================================================
