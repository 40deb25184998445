---------------------------- MODULE MCStatsStore ----------------------------
(***************************************************************************)
(* Small instances of StatsStore for TLC.                                  *)
(***************************************************************************)
EXTENDS StatsStore, QueryWindow, TLC

CONSTANTS w1, w2, q1

TwoWorkers == {w1, w2}
OneWorker  == {w1}
OneQuery   == {q1}

(* No list, so that every query goes to the guard.                         *)
NoPatterns == {}

(* A query that the stateless rules permit.                                *)
HarmlessShape ==
  [q \in Queries |->
     [subs     |-> {[metric |-> "cpu", aggregator |-> "sum", selective |-> TRUE]},
      startAge |-> 0]]

(* The stateful rules, which read the record.                              *)
StatefulRules == <<"too_many_datapoints", "exceed_time_limit", "exceed_frequency">>

(* The rule whose refusals end only with the record.                       *)
DatapointsRule == <<"too_many_datapoints">>

(* Ranges, with minutes of three seconds: a relative one whose key never   *)
(* moves, and one of "59 seconds", whose key moves in both directions and  *)
(* so does what any other can.                                             *)
NoEnds    == {[form |-> "none"]}
Steadies  == {[form |-> "ago", n |-> 9]}
Jitteries == {[form |-> "ago", n |-> 6]}

AllDrifts == {Drift(range) : range \in TimeRange}

Symmetry == Permutations(Workers)
=============================================================================
