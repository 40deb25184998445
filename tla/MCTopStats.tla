----------------------------- MODULE MCTopStats -----------------------------
(***************************************************************************)
(* Small instances of TopStats for TLC: days of two hours, months of two   *)
(* days, and one hour more than a month.                                   *)
(***************************************************************************)
EXTENDS TopStats, TLC

CONSTANTS w1, w2, m1, m2

TwoWorkers == {w1, w2}
OneWorker  == {w1}
OneMember  == {m1}
TwoMembers == {m1, m2}

Symmetry == Permutations(Workers)
=============================================================================
