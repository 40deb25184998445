------------------------------- MODULE Rules --------------------------------
(***************************************************************************)
(* The verdict of the protector on one query: the blocked and allowed      *)
(* lists of Protector.check, then the rules of the guard in the order in   *)
(* which the configuration lists them (Guard.rules is a dict, which keeps  *)
(* insertion order).                                                       *)
(*                                                                         *)
(* A regular expression is its extension: a pattern is the set of metric   *)
(* names that re.match accepts.  A query is a record                       *)
(*    subs      its sub-queries: [metric, aggregator, selective], where    *)
(*              selective says that tags or filters are not empty          *)
(*    startAge  how long ago its range starts, in the unit of OldDays      *)
(* and the statistics the stateful rules read are a record                 *)
(*    found       whether query.stats is a non-empty dict                  *)
(*    elapsed     seconds since the stored 'timestamp', at the rule's      *)
(*                reading of the clock                                     *)
(*    duration, emittedDPs   the stored numbers, 0 when the field is not   *)
(*                there, as in stats.get(field, 0)                         *)
(***************************************************************************)
EXTENDS Integers, Sequences, FiniteSetsExt

CONSTANTS
  Blockedlist,    \* set of patterns; {} is the empty list
  Allowedlist,    \* set of patterns; {} is the empty list
  RuleOrder,      \* the configured rules, in configuration order
  OldDays,        \* query_old_data: the configured days
  MaxDatapoints,  \* too_many_datapoints: data points
  MinFreq,        \* exceed_frequency: seconds
  Limit,          \* exceed_time_limit.limit: seconds
  Throttle,       \* exceed_time_limit.throttle: seconds
  Adaptive        \* exceed_time_limit.adaptive: multiplier, 0 when not given

AllRules == {"query_old_data", "query_no_tags_filters", "query_no_aggregator",
             "too_many_datapoints", "exceed_time_limit", "exceed_frequency"}

ASSUME RulesAssumption ==
  /\ RuleOrder \in Seq(AllRules)
  /\ \A i, j \in DOMAIN RuleOrder : RuleOrder[i] = RuleOrder[j] => i = j
  /\ {OldDays, MaxDatapoints, MinFreq, Limit, Throttle, Adaptive} \subseteq Nat

(* The rules that are configured.                                          *)
Applied == {RuleOrder[i] : i \in DOMAIN RuleOrder}

Names(query) == {s.metric : s \in query.subs}

NoStats == [found |-> FALSE, elapsed |-> 0, duration |-> 0, emittedDPs |-> 0]

-----------------------------------------------------------------------------
(* The rules: each is TRUE when its RuleChecker.check returns Ok.          *)

QueryOldData(query) == query.startAge <= OldDays

QueryNoTagsFilters(query) == \A s \in query.subs : s.selective

QueryNoAggregator(query) == \A s \in query.subs : s.aggregator # "none"

TooManyDatapoints(stats) == stats.found => stats.emittedDPs <= MaxDatapoints

(* Bad: the comparison is the wrong way round.                             *)
BadExceedFrequency(stats) == stats.found => stats.elapsed <= MinFreq

ExceedFrequency(stats) == stats.found => stats.elapsed > MinFreq

(* Bad: a lengthy query is refused without a look at the time.             *)
BadExceedTimeLimit(stats) == stats.found => stats.duration < Limit

ExceedTimeLimit(stats) ==
  stats.found =>
    IF Adaptive # 0
    THEN stats.elapsed >= stats.duration * Adaptive
    ELSE Limit <= stats.duration => stats.elapsed >= Throttle

Permits(rule, query, stats) ==
  CASE rule = "query_old_data"        -> QueryOldData(query)
    [] rule = "query_no_tags_filters" -> QueryNoTagsFilters(query)
    [] rule = "query_no_aggregator"   -> QueryNoAggregator(query)
    [] rule = "too_many_datapoints"   -> TooManyDatapoints(stats)
    [] rule = "exceed_time_limit"     -> ExceedTimeLimit(stats)
    [] rule = "exceed_frequency"      -> ExceedFrequency(stats)

-----------------------------------------------------------------------------
(* Guard.is_allowed: the name of the first rule that refuses, or "ok".     *)
IsAllowed(query, stats) ==
  LET refusing == {i \in DOMAIN RuleOrder :
                     ~Permits(RuleOrder[i], query, stats)}
  IN  IF refusing = {} THEN "ok" ELSE RuleOrder[Min(refusing)]

(* Protector.check up to load_stats: the blocked list first, then the      *)
(* allowed list, which every name has to match on every pattern.           *)
ListVerdict(query) ==
  CASE \E p \in Blockedlist : Names(query) \cap p # {}           -> "blockedlist"
    [] /\ \A p \in Blockedlist : Names(query) \cap p = {}
       /\ Allowedlist # {}
       /\ \A p \in Allowedlist : Names(query) \subseteq p        -> "allowedlist"
    [] OTHER                                                     -> "guard"
=============================================================================
