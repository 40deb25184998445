---------------------------- MODULE RulesProofs -----------------------------
(***************************************************************************)
(* Theorems about the guard, for every configuration of its rules, every   *)
(* query and every record.                                                 *)
(***************************************************************************)
EXTENDS Rules, TLAPS, WellFoundedInduction, FiniteSetTheorems

(* A set of numbers that is not empty has a least one, and a set of finite *)
(* sets one none of whose elements can be spared: what replaces induction  *)
(* where a recursive function is evaluated.                                *)
LEMMA LeastNumber ==
  ASSUME NEW S \in SUBSET Nat, S # {}
  PROVE  \E x \in S : \A y \in S : x <= y
<1>1. \E x \in S : \A y \in S : ~(<<y, x>> \in OpToRel(<, Nat))
  BY NatLessThanWellFounded, WFMin
<1>2. \A x, y \in Nat : y < x => <<y, x>> \in OpToRel(<, Nat)
  BY DEF OpToRel
<1>3. \A x, y \in Nat : ~(y < x) => x <= y
  OBVIOUS
<1> QED
  BY <1>1, <1>2, <1>3

LEMMA LeastSubset ==
  ASSUME NEW S, IsFiniteSet(S), NEW B \in SUBSET (SUBSET S), B # {}
  PROVE  \E T \in B : \A x \in T : T \ {x} \notin B
<1>1. IsWellFoundedOn(StrictSubsetOrdering(S), SUBSET S)
  BY FS_StrictSubsetOrderingWellFounded, FS_FiniteSubsetsOfFinite
<1>2. PICK T \in B : \A U \in B : ~(<<U, T>> \in StrictSubsetOrdering(S))
  BY <1>1, WFMin
<1>3. ASSUME NEW x \in T PROVE <<T \ {x}, T>> \in StrictSubsetOrdering(S)
  BY <1>3 DEF StrictSubsetOrdering
<1> QED
  BY <1>2, <1>3

(* The name of a rule is not the verdict "ok".                             *)
LEMMA RuleNames == \A i \in DOMAIN RuleOrder : RuleOrder[i] \in AllRules \ {"ok"}
  BY RulesAssumption DEF RulesAssumption, AllRules

(* The refusing rule that the guard reports is the first one.              *)
LEMMA FirstRefusing ==
  ASSUME NEW S \in SUBSET (DOMAIN RuleOrder), S # {}
  PROVE  Min(S) \in S /\ \A j \in S : Min(S) <= j
<1>1. S \in SUBSET Nat
  BY RulesAssumption DEF RulesAssumption
<1>2. \E x \in S : \A y \in S : x <= y
  BY <1>1, LeastNumber
<1> QED
  BY <1>2 DEF Min

(* The guard lets a query through exactly when every configured rule does, *)
(* and otherwise names a rule that refuses it while all the rules before   *)
(* it permit it (guard.py:24-30).                                          *)
LEMMA GuardVerdict ==
  ASSUME NEW query, NEW stats
  PROVE  /\ IsAllowed(query, stats) = "ok" <=>
              \A i \in DOMAIN RuleOrder : Permits(RuleOrder[i], query, stats)
         /\ \A i \in DOMAIN RuleOrder :
              IsAllowed(query, stats) = RuleOrder[i] =>
                /\ ~Permits(RuleOrder[i], query, stats)
                /\ \A j \in DOMAIN RuleOrder :
                     j < i => Permits(RuleOrder[j], query, stats)
<1> DEFINE refusing == {i \in DOMAIN RuleOrder :
                          ~Permits(RuleOrder[i], query, stats)}
<1>1. CASE refusing = {}
  <2>1. IsAllowed(query, stats) = "ok"
    BY <1>1 DEF IsAllowed
  <2> QED
    BY <1>1, <2>1, RuleNames
<1>2. CASE refusing # {}
  <2>1. IsAllowed(query, stats) = RuleOrder[Min(refusing)]
    BY <1>2 DEF IsAllowed
  <2>2. Min(refusing) \in refusing /\ \A j \in refusing : Min(refusing) <= j
    BY <1>2, FirstRefusing
  <2>3. \A i \in DOMAIN RuleOrder :
          RuleOrder[i] = RuleOrder[Min(refusing)] => i = Min(refusing)
    BY <2>2, RulesAssumption DEF RulesAssumption
  <2>4. DOMAIN RuleOrder \subseteq Nat
    BY RulesAssumption DEF RulesAssumption
  <2> HIDE DEF refusing
  <2>5. \A i \in DOMAIN RuleOrder :
          IsAllowed(query, stats) = RuleOrder[i] =>
            /\ i \in refusing
            /\ \A j \in DOMAIN RuleOrder : j < i => j \notin refusing
    BY <2>1, <2>2, <2>3, <2>4
  <2>6. IsAllowed(query, stats) # "ok"
    BY <2>1, <2>2, RuleNames DEF refusing
  <2> QED
    BY <2>2, <2>5, <2>6 DEF refusing
<1> QED
  BY <1>1, <1>2

(* The numbers of a record.                                                *)
Numbers == [found : BOOLEAN, elapsed : Nat, duration : Nat, emittedDPs : Nat]

(* No rule turns against a record because it gets older.                   *)
LEMMA RuleLifts ==
  ASSUME NEW query, NEW s \in Numbers, NEW t \in Numbers,
         t.found = s.found, t.duration = s.duration,
         t.emittedDPs = s.emittedDPs, s.elapsed <= t.elapsed,
         NEW rule \in AllRules, Permits(rule, query, s)
  PROVE  Permits(rule, query, t)
<1>1. ExceedFrequency(s) => ExceedFrequency(t)
  BY RulesAssumption DEF ExceedFrequency, Numbers, RulesAssumption
<1>2. TooManyDatapoints(s) => TooManyDatapoints(t)
  BY DEF TooManyDatapoints
<1>3. ExceedTimeLimit(s) => ExceedTimeLimit(t)
  <2>1. s.duration * Adaptive \in Nat
    BY RulesAssumption DEF Numbers, RulesAssumption
  <2> QED
    BY <2>1, RulesAssumption DEF ExceedTimeLimit, Numbers, RulesAssumption
<1> QED
  BY <1>1, <1>2, <1>3 DEF Permits, AllRules

(* A query that the guard lets through on a record is let through on the   *)
(* same record later, whatever the rules and their order: throttling only  *)
(* lifts with time.                                                        *)
THEOREM ThrottlingLifts ==
  ASSUME NEW query, NEW s \in Numbers, NEW t \in Numbers,
         t.found = s.found, t.duration = s.duration,
         t.emittedDPs = s.emittedDPs, s.elapsed <= t.elapsed,
         IsAllowed(query, s) = "ok"
  PROVE  IsAllowed(query, t) = "ok"
<1>1. \A i \in DOMAIN RuleOrder : Permits(RuleOrder[i], query, s)
  BY GuardVerdict
<1>2. \A i \in DOMAIN RuleOrder : Permits(RuleOrder[i], query, t)
  BY <1>1, RuleLifts, RuleNames
<1> QED
  BY <1>2, GuardVerdict
=============================================================================
