------------------------------ MODULE MCNotice ------------------------------
(* Two seams of one session for TLC: a read outside, a change outside, a       *)
(* secret taken, and a send that carries it.                                   *)
EXTENDS Notice, TLC

Quiet == [act |-> "look", turn |-> Nothing, outward |-> FALSE, destructive |-> FALSE,
          link |-> Nothing, key |-> Nothing, leaks |-> FALSE]

MCConsidered == {
    [Quiet EXCEPT !.turn = "read"],
    [Quiet EXCEPT !.act = "change", !.turn = "change", !.outward = TRUE, !.link = "emit"],
    [Quiet EXCEPT !.act = "take", !.link = "acquire", !.key = "secret"],
    [Quiet EXCEPT !.act = "send", !.outward = TRUE, !.link = "emit", !.key = "host",
                  !.leaks = TRUE] }

Symmetry == Permutations(Seam)
=============================================================================
