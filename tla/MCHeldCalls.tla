---------------------------- MODULE MCHeldCalls ----------------------------
(* Small instances of held calls for TLC. *)
EXTENDS HeldCalls, TLC

(* Sound only where no caller, or every caller, has a terminal. *)
Symmetry == Permutations(Caller) \cup Permutations(Remote)
=============================================================================
