------------------------------ MODULE MCRules -------------------------------
(***************************************************************************)
(* The rules on every query and record of a small domain, and as time      *)
(* passes: a query that has left a record is asked again at every third of *)
(* a second while the record ages.                                         *)
(***************************************************************************)
EXTENDS Rules, QueryWindow

CONSTANTS
  Metrics,   \* metric names
  Durations, \* of the last run, in seconds
  DataPoints \* of the last run

ASSUME RunAssumption == Durations \subseteq Nat /\ DataPoints \subseteq Nat

MCBlockedlist == {{"cpu.bad"}}
MCAllowedlist == {{"cpu.e2e", "cpu.bad"}, {"cpu.e2e", "disk"}}
MCRuleOrder   == <<"query_no_tags_filters", "query_no_aggregator",
                   "too_many_datapoints", "exceed_time_limit",
                   "query_old_data", "exceed_frequency">>

(* With minutes of three seconds: numbers of both lengths; ranges of one   *)
(* minute, of two, of "59 seconds", and of a fraction of a second more.    *)
MCStarts == {[form |-> "seconds", n |-> 8], [form |-> "millis", n |-> 31]}
            \cup {[form |-> "ago", n |-> n] : n \in {6, 9, 10, 18}}
MCEnds   == {[form |-> "none"], [form |-> "seconds", n |-> 12],
             [form |-> "millis", n |-> 23]}

VARIABLES
  query,  \* the query that is asked again and again: its parts and its range
  record, \* what its last run has left
  now     \* in thirds of a second

vars == <<query, record, now>>

Began == 30

(* After this many seconds every rule that looks at the clock has made up  *)
(* its mind.                                                               *)
Settled == Max({MinFreq + 1, Throttle} \cup {d * Adaptive : d \in Durations})

SubQuery == [metric : Metrics, aggregator : {"none", "sum"}, selective : BOOLEAN]

NoRecord == [found |-> FALSE]

Init ==
  /\ query \in [subs : UNION {kSubset(n, SubQuery) : n \in 1 .. 2},
                range : TimeRange]
  /\ now \in Began .. Began + 2
  /\ record \in {NoRecord} \cup
       [found : {TRUE}, timestamp : {Rounded(now)},
        interval : {Interval(query.range, now, now)},
        duration : Durations, emittedDPs : DataPoints]

Elapse ==
  /\ now < Began + 3 * (Settled + 2)
  /\ now' = now + 1
  /\ UNCHANGED <<query, record>>

Next == Elapse
Spec == Init /\ [][Next]_vars /\ WF_vars(Next)

(* What the rules see of the query and, under its key, of its record.      *)
Asked == [subs |-> query.subs, startAge |-> StartAge(query.range, now, now)]

Stats ==
  IF record.found /\ record.interval = Interval(query.range, now, now)
  THEN [found |-> TRUE, elapsed |-> Rounded(now) - record.timestamp,
        duration |-> record.duration, emittedDPs |-> record.emittedDPs]
  ELSE NoStats

Verdict == IsAllowed(Asked, Stats)

-----------------------------------------------------------------------------
(* Properties                                                              *)

(* A query that is let through now is let through later, as long as it is  *)
(* not run in between: no stateful rule turns against a record because it  *)
(* gets older, and a record that is no longer under the key of a range     *)
(* does not come back there.  Not so for a range whose key jitters, and a  *)
(* fixed start gets too old (exceed_frequency.py:35-40,                    *)
(* exceed_time_limit.py:45-61, protector_main.py:247-254).                 *)
TimeOnlyLifts ==
  [][Drift(query.range) # {-1, 1} /\ Verdict = "ok"
       => Verdict' \in {"ok", "query_old_data"}]_vars

(* "Throttling ends in {}s": the two rules that look at the clock do not   *)
(* refuse a query for ever (exceed_time_limit.py:54-59,                    *)
(* exceed_frequency.py:38-39).                                             *)
ThrottlingEnds ==
  Verdict \in {"exceed_time_limit", "exceed_frequency"}
    ~> Verdict \notin {"exceed_time_limit", "exceed_frequency"}

(* The record of a run is found by every later request, or no stateful     *)
(* rule would ever apply: the interval of a range with two fixed ends, and *)
(* that of a relative start and no end, does not depend on when it is      *)
(* computed, although the clock is read twice and may tick in between      *)
(* (query.py:83-84, 102, protector_main.py:159-161, 247-250).              *)
RecordIsFound ==
  record.found /\ Drift(query.range) = {} =>
    \A u \in {now, now + 1} : record.interval = Interval(query.range, now, u)

(* Within a minute, the interval of any other range moves by at most one,  *)
(* in the direction that its form allows: this is what StatsStore lets     *)
(* happen between load_stats and save_stats (protector_main.py:161, 249).  *)
KeyMoves ==
  \A u \in {now, now + 1} : \A t \in u .. now + 3 * Minute - 1 : \A v \in {t, t + 1} :
    Interval(query.range, t, v) - Interval(query.range, now, u)
      \in {0} \cup Drift(query.range)

(* "Queries for series names matching one of the following patterns will   *)
(* skip the filters (if not rejected by the blockedlist!)"                 *)
(* (default_config.py:34-35): each name of the query matches one of the    *)
(* patterns and none is blocked.                                           *)
AllowedlistSkipsFilters ==
  (\A n \in Names(query) : (\E p \in Allowedlist : n \in p)
                            /\ (\A p \in Blockedlist : n \notin p))
    => ListVerdict(query) = "allowedlist"
=============================================================================
