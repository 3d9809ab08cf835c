-------------------------- MODULE MCLeaseRegister --------------------------
(* Small instances of the lease register for TLC: a directory and a file   *)
(* below it, written whole or in part.                                     *)
EXTENDS LeaseRegister, TLC

CONSTANTS dir, file, charge, refund

MCPath == {dir, file}

MCUnder == {<<dir, dir>>, <<file, file>>, <<file, dir>>}

MCLine == 1 .. 3

MCName == {charge, refund}

(* Two declarations that have nothing to do with each other. *)
Separate == {<<charge, charge>>, <<refund, refund>>}

At(lines, names) ==
    [path |-> file, region |-> [lines |-> lines, names |-> names]]

WholePaths == {[path |-> p, region |-> Whole] : p \in MCPath}

(* A declaration each on lines 1 and 2, a line that is in neither, and     *)
(* line 2 again where its declaration could not be told.                   *)
StillPlace ==
    WholePaths \cup {At({1}, {charge}), At({2}, {refund}), At({3}, {}), At({2}, {})}

Symmetry == Permutations(Holder) \cup Permutations(Id)
=============================================================================
