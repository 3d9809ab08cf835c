--------------------------- MODULE MCChatApproval ---------------------------
(* Small instances of a question held in chat for TLC. *)
EXTENDS ChatApproval, TLC

Symmetry == Permutations(Call) \cup Permutations(Pause) \cup Permutations(Remote)
=============================================================================
