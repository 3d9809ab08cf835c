---------------------------- MODULE MCLeaseGate ----------------------------
(* Small instances of the lease gate for TLC: a directory and a file in    *)
(* it, which another machine may hold as well.                             *)
EXTENDS LeaseGate

CONSTANTS dir, file, h1, h2, l1, l2

MCPath == {dir, file}

MCUnder == {<<p, p>> : p \in MCPath} \cup {<<file, dir>>}

Part(x) == [path |-> file, region |-> [lines |-> {x}, names |-> {}]]
Directory == [path |-> dir, region |-> Whole]

MCPlace == {Part(l1), Part(l2), Directory}

(* One session claims the directory from its shell and parts of the file   *)
(* from its edit hook, the other the directory and one of the parts.       *)
MCAsks ==
    [h \in Holder |-> IF h = h1 THEN MCPlace ELSE {Part(l2), Directory}]
=============================================================================
