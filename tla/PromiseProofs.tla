--------------------------- MODULE PromiseProofs ---------------------------
(***************************************************************************)
(* StatsStore implements Breaker: what the interleaved Redis commands of   *)
(* load_stats and save_stats do to the records is, for any number of       *)
(* threads and whatever expires or fails, one look and one update of a     *)
(* memory that may forget.  And what a request has looked up stays up to   *)
(* date until it runs, unless another run of the query is saved meanwhile. *)
(***************************************************************************)
EXTENDS StatsStoreProofs, RulesProofs

(* A thread and a record as Breaker sees them.                             *)
Result(step, r) ==
  IF step \in Unrecorded
  THEN [elapsed |-> r.clock, duration |-> r.duration,
        emittedDPs |-> r.emittedDPs, timeout |-> r.timeout]
  ELSE [elapsed |-> 0, duration |-> 0, emittedDPs |-> 0, timeout |-> FALSE]

View(step, r) == [step |-> StepOf(step, r.timeout), key |-> r.key, known |-> Known(r.stats),
                  result |-> Result(step, r)]

Memory == [k \in Key |-> Known(StatsOf(hash[k]))]
Work   == [w \in Workers |-> View(pc[w], req[w])]

Memo == [elapsed : Age, duration : Age, emittedDPs : DPs \cup {0}]

(* Only a thread that is judged holds statistics, an idle one holds        *)
(* nothing, a run is saved again as a timeout, and a hash without a        *)
(* timestamp has nothing but counters.                                     *)
Holds(step, r) ==
  /\ step \in {"idle", "hung"} => r = Idle
  /\ step = "resave" => r.timeout
  /\ r.stats # NoStats => step = "guard" /\ r.stats.found = TRUE

Threads == \A w \in Workers : Holds(pc[w], req[w])

Hashes ==
  \A k \in Key : ~Stamped(hash[k]) =>
    hash[k].duration = Absent /\ hash[k].emittedDPs = Absent

ViewInv == TypeInv /\ Threads /\ Hashes

-----------------------------------------------------------------------------
(* The instance of Rules in Breaker is that of StatsStore                  *)

LEMMA SameLists == \A query : Promise!ListVerdict(query) = ListVerdict(query)
  BY DEF Promise!ListVerdict, ListVerdict, Promise!Names, Names

LEMMA SameRules ==
  \A query, stats : Promise!IsAllowed(query, stats) = IsAllowed(query, stats)
<1>1. \A rule, query, stats :
        Promise!Permits(rule, query, stats) = Permits(rule, query, stats)
  BY Zenon DEF Promise!Permits, Permits, Promise!QueryOldData, QueryOldData,
         Promise!QueryNoTagsFilters, QueryNoTagsFilters,
         Promise!QueryNoAggregator, QueryNoAggregator,
         Promise!TooManyDatapoints, TooManyDatapoints,
         Promise!ExceedTimeLimit, ExceedTimeLimit,
         Promise!ExceedFrequency, ExceedFrequency
<1>2. \A S : Promise!Min(S) = Min(S)
  BY DEF Promise!Min, Min
<1> QED
  BY <1>1, <1>2, Zenon DEF Promise!IsAllowed, IsAllowed

(* No rule objects to a query that has run at no cost long ago, as none    *)
(* does to one that has not run.                                           *)
LEMMA BlankIsPermitted ==
  ASSUME NEW query,
         IsAllowed(query, NoStats) = "ok"
  PROVE  IsAllowed(query, [found |-> TRUE, elapsed |-> MaxAge,
                           duration |-> 0, emittedDPs |-> 0]) = "ok"
<1> DEFINE blank == [found |-> TRUE, elapsed |-> MaxAge, duration |-> 0, emittedDPs |-> 0]
<1>1. "exceed_frequency" \in Applied => ExceedFrequency(blank)
  BY AgeAssumption, RulesAssumption DEF ExceedFrequency, RulesAssumption, AgeAssumption
<1>2. TooManyDatapoints(blank)
  BY RulesAssumption DEF TooManyDatapoints, RulesAssumption
<1>3. "exceed_time_limit" \in Applied => ExceedTimeLimit(blank)
  BY AgeAssumption, RulesAssumption DEF ExceedTimeLimit, RulesAssumption, AgeAssumption
<1>4. \A rule \in AllRules \cap Applied :
        Permits(rule, query, NoStats) => Permits(rule, query, blank)
  BY <1>1, <1>2, <1>3 DEF Permits, AllRules
<1>5. \A i \in DOMAIN RuleOrder : RuleOrder[i] \in AllRules \cap Applied
  BY RuleNames DEF Applied
<1> QED
  BY <1>4, <1>5, GuardVerdict

-----------------------------------------------------------------------------
(* Views                                                                   *)

(* The commands after HMSET.                                               *)
After == {"ttlHash", "expireHash", "total", "timeouts"}

LEMMA StepNames ==
  \A t :
    /\ StepOf("idle", t) = "idle" /\ StepOf("hung", t) = "idle"
    /\ StepOf("load", t) = "asking" /\ StepOf("guard", t) = "judging"
    /\ StepOf("backend", t) = "running" /\ StepOf("save", t) = "running"
    /\ StepOf("reply", t) = "replying" /\ StepOf("resave", t) = "replying"
    /\ \A s \in Unrecorded : StepOf(s, t) = "answered"
    /\ \A s \in After : StepOf(s, t) = IF t THEN "over" ELSE "replying"
  BY DEF StepOf, Unrecorded, Timed, After

LEMMA BlankView == Known(NoStats) = Promise!Blank
  BY DEF Known, NoStats, Promise!Blank

LEMMA IdleView == View("idle", Idle) = Promise!Idle
  BY StepNames, BlankView
  DEF View, Result, Unrecorded, Timed, Idle, Promise!Idle, Promise!NoResult,
      Promise!Key, Key

LEMMA SameViews == Memory' = Memory /\ Work' = Work => UNCHANGED Promise!vars
  BY DEF Promise!vars, Memory, Work, View, Result

(* The actions of Breaker on Memory and Work.                              *)
LEMMA AskIs ==
  ASSUME NEW w, Work[w].step = "idle", Memory' = Memory,
         NEW k \in Key,
         \/ /\ ListVerdict(Shape[k[1]]) = "guard"
            /\ Work' = [Work EXCEPT ![w].step = "asking", ![w].key = k]
         \/ /\ \/ ListVerdict(Shape[k[1]]) = "allowedlist"
               \/ ListVerdict(Shape[k[1]]) = "blockedlist" /\ SafeMode
            /\ Work' = [Work EXCEPT ![w].step = "running", ![w].key = k]
  PROVE  Promise!Ask(w)
  BY SameLists DEF Promise!Ask, Promise!Key, Key, Memory, Work, View, Result

LEMMA LookIs ==
  ASSUME NEW w, Work[w].step = "asking", Memory' = Memory,
         NEW known \in {Memory[Work[w].key]} \cup
                         (IF "unreachable" \in Faults THEN {Promise!Blank} ELSE {}),
         Work' = [Work EXCEPT ![w].step = "judging", ![w].known = known]
  PROVE  Promise!Look(w)
  BY DEF Promise!Look, Memory, Work, View, Result

LEMMA AdmitIs ==
  ASSUME NEW w, Work[w].step = "judging", Memory' = Memory,
         Promise!Verdict(Work[w].key, Work[w].known) = "ok" \/ SafeMode,
         Work' = [Work EXCEPT ![w].step = "running", ![w].known = Promise!Blank]
  PROVE  Promise!Admit(w)
  BY DEF Promise!Admit, Memory, Work, View, Result

LEMMA ResultIs ==
  ASSUME NEW w, NEW step, NEW timeouts, Work[w].step = step, Memory' = Memory,
         NEW i \in Intervals, i - Work[w].key[2] \in -1 .. 1,
         NEW d \in Age, NEW dps \in DPs \cup {0}, NEW timeout \in timeouts,
         Work' = [Work EXCEPT
           ![w].step = "answered", ![w].key[2] = i,
           ![w].result = [elapsed |-> 0, duration |-> d, emittedDPs |-> dps,
                          timeout |-> timeout]]
  PROVE  Promise!Result(w, step, timeouts)
<1>1. Promise!Result(w, step, timeouts) <=>
        /\ Work[w].step = step
        /\ \E j \in {x \in Intervals : x - Work[w].key[2] \in -1 .. 1},
              e \in Promise!Age, points \in DPs \cup {0}, late \in timeouts :
             Work' = [Work EXCEPT
               ![w].step = "answered", ![w].key[2] = j,
               ![w].result = [elapsed |-> 0, duration |-> e, emittedDPs |-> points,
                              timeout |-> late]]
        /\ UNCHANGED Memory
  BY DEF Promise!Result, Memory, Work, View, Result
<1> QED
  BY <1>1 DEF Promise!Age, Age

LEMMA ForgoIs ==
  ASSUME NEW w, NEW step \in {"running", "answered"}, Work[w].step = step,
         Work[w].result.timeout = FALSE,
         Memory' = Memory,
         Work' = [Work EXCEPT ![w].step = "replying", ![w].result = Promise!NoResult]
  PROVE  Promise!Forgo(w)
  BY DEF Promise!Forgo, Memory, Work, View, Result

LEMMA RecordIs ==
  ASSUME NEW w, Work[w].step = "answered",
         Memory' = [Memory EXCEPT ![Work[w].key] = Promise!Remember(Work[w].result, @)],
         Work' = [Work EXCEPT
           ![w].step = IF Work[w].result.timeout THEN "over" ELSE "replying",
           ![w].result = Promise!NoResult]
  PROVE  Promise!Record(w)
  BY DEF Promise!Record, Memory, Work, View, Result

LEMMA EndIs ==
  ASSUME NEW ended \in SUBSET Workers, Memory' = Memory,
         Work' = [w \in Workers |-> IF w \in ended THEN Promise!Idle ELSE Work[w]]
  PROVE  Promise!End
  BY DEF Promise!End, Memory, Work, View, Result

LEMMA PassIs ==
  ASSUME \A k \in Key : \/ Memory'[k] = Promise!Older(Memory[k])
                         \/ (TTL > 0 /\ Memory'[k] = Promise!Blank),
         Memory' \in [Key -> Memo],
         Work' = [w \in Workers |->
           [Work[w] EXCEPT !.known = Promise!Older(@),
                           !.result = IF Work[w].step = "answered"
                                      THEN Promise!Older(@) ELSE @]]
  PROVE  Promise!Pass
  BY DEF Promise!Pass, Promise!Age, Promise!Key, Key, Memo, Age, Memory, Work, View, Result

LEMMA KnownType == \A h \in HashRec : Known(StatsOf(h)) \in Memo
  BY StatsOfType, AgeAssumption DEF Known, Memo, StatsRec, Age, AgeAssumption

Views == [step : {"idle", "asking", "judging", "running", "answered", "replying", "over"},
          key : Key, known : Memo,
          result : [elapsed : Age, duration : Age, emittedDPs : DPs \cup {0},
                    timeout : BOOLEAN]]

LEMMA ViewType ==
  ASSUME NEW s \in Steps \cup {"idle", "hung"}, NEW r \in Request
  PROVE  View(s, r) \in Views
<1>1. StepOf(s, r.timeout) \in
        {"idle", "asking", "judging", "running", "answered", "replying", "over"}
  BY StepNames DEF Steps, SaveSteps, Unrecorded, Timed, After
<1>2. Known(r.stats) \in Memo
  BY AgeAssumption DEF Known, Memo, Request, StatsRec, Age
<1>3. Result(s, r) \in [elapsed : Age, duration : Age, emittedDPs : DPs \cup {0},
                         timeout : BOOLEAN]
  BY AgeAssumption DEF Result, Request, Age
<1> QED
  BY <1>1, <1>2, <1>3 DEF View, Views, Request

LEMMA WorkType == TypeOK => Work \in [Workers -> Views]
  BY ViewType DEF TypeOK, Work

(* What changes of a view changes field by field.                          *)
LEMMA StepKey ==
  ASSUME NEW v \in Views, NEW s, NEW k
  PROVE  [v EXCEPT !.step = s, !.key = k] =
          [step |-> s, key |-> k, known |-> v.known, result |-> v.result]
<1>1. ASSUME NEW x, x = [v EXCEPT !.step = s, !.key = k]
      PROVE  x = [step |-> x.step, key |-> x.key, known |-> x.known, result |-> x.result]
  BY <1>1 DEF Views
<1> DEFINE x == [v EXCEPT !.step = s, !.key = k]
<1>2. x = [step |-> x.step, key |-> x.key, known |-> x.known, result |-> x.result]
  BY <1>1
<1> QED
  BY <1>2 DEF Views

LEMMA StepKnown ==
  ASSUME NEW v \in Views, NEW s, NEW m
  PROVE  [v EXCEPT !.step = s, !.known = m] =
          [step |-> s, key |-> v.key, known |-> m, result |-> v.result]
<1>1. ASSUME NEW x, x = [v EXCEPT !.step = s, !.known = m]
      PROVE  x = [step |-> x.step, key |-> x.key, known |-> x.known, result |-> x.result]
  BY <1>1 DEF Views
<1> DEFINE x == [v EXCEPT !.step = s, !.known = m]
<1>2. x = [step |-> x.step, key |-> x.key, known |-> x.known, result |-> x.result]
  BY <1>1
<1> QED
  BY <1>2 DEF Views

LEMMA StepResult ==
  ASSUME NEW v \in Views, NEW s, NEW r
  PROVE  [v EXCEPT !.step = s, !.result = r] =
          [step |-> s, key |-> v.key, known |-> v.known, result |-> r]
<1>1. ASSUME NEW x, x = [v EXCEPT !.step = s, !.result = r]
      PROVE  x = [step |-> x.step, key |-> x.key, known |-> x.known, result |-> x.result]
  BY <1>1 DEF Views
<1> DEFINE x == [v EXCEPT !.step = s, !.result = r]
<1>2. x = [step |-> x.step, key |-> x.key, known |-> x.known, result |-> x.result]
  BY <1>1
<1> QED
  BY <1>2 DEF Views

LEMMA KnownResult ==
  ASSUME NEW v \in Views, NEW m, NEW r
  PROVE  [v EXCEPT !.known = m, !.result = r] =
          [step |-> v.step, key |-> v.key, known |-> m, result |-> r]
<1>1. ASSUME NEW x, x = [v EXCEPT !.known = m, !.result = r]
      PROVE  x = [step |-> x.step, key |-> x.key, known |-> x.known, result |-> x.result]
  BY <1>1 DEF Views
<1> DEFINE x == [v EXCEPT !.known = m, !.result = r]
<1>2. x = [step |-> x.step, key |-> x.key, known |-> x.known, result |-> x.result]
  BY <1>1
<1> QED
  BY <1>2 DEF Views

LEMMA WorkStepKey ==
  ASSUME NEW V, NEW f \in [Workers -> V], NEW w \in Workers, NEW s, NEW k
  PROVE  [f EXCEPT ![w].step = s, ![w].key = k] =
         [f EXCEPT ![w] = [f[w] EXCEPT !.step = s, !.key = k]]
  OBVIOUS

LEMMA WorkStepKnown ==
  ASSUME NEW V, NEW f \in [Workers -> V], NEW w \in Workers, NEW s, NEW m
  PROVE  [f EXCEPT ![w].step = s, ![w].known = m] =
         [f EXCEPT ![w] = [f[w] EXCEPT !.step = s, !.known = m]]
  OBVIOUS

LEMMA WorkStepResult ==
  ASSUME NEW V, NEW f \in [Workers -> V], NEW w \in Workers, NEW s, NEW r
  PROVE  [f EXCEPT ![w].step = s, ![w].result = r] =
         [f EXCEPT ![w] = [f[w] EXCEPT !.step = s, !.result = r]]
  OBVIOUS

LEMMA WorkStepKeyResult ==
  ASSUME NEW V, NEW f \in [Workers -> V], NEW w \in Workers, NEW s, NEW i, NEW r
  PROVE  [f EXCEPT ![w].step = s, ![w].key[2] = i, ![w].result = r] =
         [f EXCEPT ![w] = [f[w] EXCEPT !.step = s, !.key[2] = i, !.result = r]]
  OBVIOUS

(* A step of one thread changes one view.                                  *)
LEMMA OneView ==
  ASSUME TypeOK, NEW w \in Workers, NEW s, NEW r,
         pc' = [pc EXCEPT ![w] = s], req' = [req EXCEPT ![w] = r]
  PROVE  Work' = [Work EXCEPT ![w] = View(s, r)]
  BY DEF TypeOK, Work

(* HMSET changes the looks of others, which no view shows.                 *)
LEMMA LookUnseen ==
  ASSUME NEW s, NEW r \in Request, NEW look
  PROVE  View(s, [r EXCEPT !.look = look]) = View(s, r)
<1> DEFINE u == [r EXCEPT !.look = look]
<1>1. /\ u.key = r.key /\ u.stats = r.stats /\ u.clock = r.clock
      /\ u.duration = r.duration /\ u.emittedDPs = r.emittedDPs /\ u.timeout = r.timeout
  BY DEF Request
<1> HIDE DEF u
<1> QED
  BY <1>1 DEF View, Result, u

-----------------------------------------------------------------------------
(* The invariant                                                           *)

LEMMA IdleHolds == Holds("idle", Idle) /\ Holds("hung", Idle)
<1>1. Idle.stats = NoStats
  BY DEF Idle
<1> QED
  BY <1>1 DEF Holds

LEMMA EmptyHolds ==
  ASSUME NEW s, NEW r, s \notin {"idle", "hung"}, r.stats = NoStats,
         s = "resave" => r.timeout
  PROVE  Holds(s, r)
  BY DEF Holds

(* What is left of a request whose save is over.                           *)
Returned(r) == [Idle EXCEPT !.key = r.key, !.drift = r.drift, !.duration = r.duration]

LEMMA ReturnedHolds ==
  ASSUME NEW r
  PROVE  /\ Returned(r).key = r.key /\ Returned(r).stats = NoStats
         /\ Holds("reply", Returned(r))
<1>1. Returned(r).key = r.key /\ Returned(r).stats = NoStats
  BY DEF Returned, Idle
<1> QED
  BY <1>1, EmptyHolds

LEMMA ViewInit == Init => ViewInv
<1> SUFFICES ASSUME Init PROVE ViewInv
  OBVIOUS
<1>1. \A k \in Key : hash[k].duration = Absent /\ hash[k].emittedDPs = Absent
  BY DEF Init, NoHash
<1>2. Threads
  BY IdleHolds DEF Init, Threads
<1> QED
  BY <1>1, <1>2, TypeInit DEF ViewInv, Hashes

LEMMA ThreadsFrame ==
  ASSUME TypeOK, Threads, NEW w \in Workers, NEW s, NEW r, Holds(s, r),
         pc' = [pc EXCEPT ![w] = s], req' = [req EXCEPT ![w] = r]
  PROVE  Threads'
  BY DEF Threads, TypeOK

LEMMA ViewStep == ViewInv /\ [Next]_vars => ViewInv'
<1> SUFFICES ASSUME ViewInv, [Next]_vars PROVE ViewInv'
  OBVIOUS
<1>1. TypeInv /\ TypeInv'
  BY TypeStep DEF ViewInv
<1>2. Threads /\ Hashes
  BY DEF ViewInv
<1>3. TypeOK /\ TypeOK'
  BY <1>1 DEF TypeInv
<1>4. ASSUME NEW w \in Workers, Done(w) PROVE Threads'
  BY <1>2, <1>3, <1>4, IdleHolds, ThreadsFrame DEF Done, Goto
<1>5. ASSUME UNCHANGED hash PROVE Hashes'
  BY <1>2, <1>5 DEF Hashes
<1>6. CASE UNCHANGED vars
  BY <1>1, <1>2, <1>6 DEF vars, ViewInv, Threads, Hashes
<1>7. CASE Tick
  <2>1. Threads'
    <3>0. pc' = pc
      BY <1>7 DEF Tick
    <3> SUFFICES ASSUME NEW w \in Workers PROVE Holds(pc[w], req'[w])
      BY <3>0 DEF Threads
    <3>1. req[w] \in Request /\ Holds(pc[w], req[w])
      BY <1>2, <1>3 DEF TypeOK, Threads
    <3> DEFINE c == IF pc[w] \in Timed THEN Older(req[w].clock) ELSE req[w].clock
    <3>2. CASE req[w].stats = NoStats
      <4>1. ~req[w].stats.found
        BY <3>2 DEF NoStats
      <4>2. req'[w] = [req[w] EXCEPT !.clock = c]
        BY <1>7, <3>1, <4>1 DEF Tick, Request, StatsRec
      <4>3. pc[w] \in {"idle", "hung"} => c = req[w].clock
        BY DEF Timed
      <4> QED
        BY <3>1, <3>2, <4>2, <4>3 DEF Request, Holds
    <3>3. CASE pc[w] = "guard" /\ req[w].stats.found
      BY <1>7, <3>1, <3>3 DEF Tick, Request, StatsRec, Holds
    <3> QED
      BY <3>1, <3>2, <3>3 DEF Holds
  <2>2. Hashes'
    <3> SUFFICES ASSUME NEW k \in Key, ~Stamped(hash'[k])
                 PROVE  hash'[k].duration = Absent /\ hash'[k].emittedDPs = Absent
      BY DEF Hashes
    <3>1. hash[k] \in HashRec
      BY <1>3 DEF TypeOK
    <3>2. CASE hash[k].ttl = 1
      BY <1>7, <3>2 DEF Tick, NoHash
    <3>3. CASE hash[k].ttl # 1
      <4>1. hash'[k] = [hash[k] EXCEPT
               !.elapsed = IF @ = Absent THEN @ ELSE Older(@), !.ttl = Left(@)]
        BY <1>7, <3>3 DEF Tick
      <4>2. hash[k].elapsed # Absent => Older(hash[k].elapsed) # Absent
        BY <3>1, AgeAssumption DEF HashRec, Age, Older, Absent
      <4>3. ~Stamped(hash[k])
        BY <3>1, <4>1, <4>2 DEF Stamped, HashRec
      <4> QED
        BY <1>2, <3>1, <4>1, <4>3 DEF HashRec, Hashes
    <3> QED
      BY <3>2, <3>3
  <2> QED
    BY <1>1, <2>1, <2>2 DEF ViewInv
<1>8. CASE Crash
  BY <1>1, <1>2, <1>5, <1>8, IdleHolds DEF Crash, redis, ViewInv, Threads
<1>9. ASSUME NEW w \in Workers, Moves(w) PROVE ViewInv'
  <2>1. req[w] \in Request /\ Holds(pc[w], req[w])
    BY <1>2, <1>3 DEF TypeOK, Threads
  <2>2. req = [req EXCEPT ![w] = req[w]]
    BY <1>3 DEF TypeOK
  <2>3. pc[w] # "guard" => req[w].stats = NoStats
    BY <2>1 DEF Holds
  <2>4. ASSUME \/ Receive(w) \/ LoadStats(w) \/ LoadBlind(w) \/ Decide(w) \/ BackendReply(w)
               \/ BackendTimeout(w) \/ BackendError(w) \/ Reply(w) \/ Stall(w)
               \/ SaveBegin(w) \/ SaveSkip(w) \/ CheckQuery(w) \/ StoreQuery(w)
               \/ PushStats(w) \/ TtlList(w) \/ ExpireList(w) \/ CheckFirst(w)
               \/ TtlHash(w) \/ RedisError(w) \/ Hang(w)
        PROVE  UNCHANGED hash
    BY <2>4 DEF Receive, LoadStats, LoadBlind, Decide, BackendReply, BackendTimeout,
         BackendError, Reply, Stall, SaveBegin, SaveSkip, CheckQuery, StoreQuery, PushStats,
         TtlList, ExpireList, CheckFirst, TtlHash, RedisError, Hang, redis
  <2>20. ASSUME Return(w) PROVE Threads'
    <3>1. req' = [req EXCEPT ![w] = Returned(req[w])] /\ pc' = [pc EXCEPT ![w] = "reply"]
      BY <2>20 DEF Return, Returned, Goto
    <3> QED
      BY <1>2, <1>3, <3>1, ReturnedHolds, ThreadsFrame
  <2>21. ASSUME Saved(w) PROVE Threads'
    BY <1>4, <2>20, <2>21 DEF Saved
  <2>5. CASE Receive(w)
    <3>1. PICK k \in Key, drift \in Drifts, s \in {"load", "backend"} :
            /\ req' = [req EXCEPT ![w].key = k, ![w].drift = drift]
            /\ pc' = [pc EXCEPT ![w] = s]
      BY <2>5 DEF Receive, Goto
    <3>4. req' = [req EXCEPT ![w] = [req[w] EXCEPT !.key = k, !.drift = drift]]
      BY <1>3, <3>1 DEF TypeOK
    <3>2. [req[w] EXCEPT !.key = k, !.drift = drift].stats = NoStats
      BY <2>1, <2>3, <2>5 DEF Receive, Request
    <3>3. Holds(s, [req[w] EXCEPT !.key = k, !.drift = drift])
      BY <3>1, <3>2, EmptyHolds
    <3>5. Threads'
      BY <1>2, <1>3, <3>1, <3>3, <3>4, ThreadsFrame
    <3> QED
      BY <1>1, <1>5, <2>4, <2>5, <3>5 DEF ViewInv
  <2>6. CASE LoadStats(w) \/ LoadBlind(w)
    <3>1. PICK r : /\ req' = [req EXCEPT ![w] = r]
                   /\ r.stats \in {StatsOf(hash[req[w].key]), NoStats}
      <4>1. CASE LoadStats(w)
        <5> DEFINE r == [req[w] EXCEPT !.stats = StatsOf(hash[req[w].key]),
                                       !.look = "current"]
        <5>1. req' = [req EXCEPT ![w] = r]
          BY <1>3, <4>1 DEF LoadStats, LoadKey, TypeOK
        <5>2. r.stats = StatsOf(hash[req[w].key])
          BY <2>1 DEF Request
        <5> QED
          BY <5>1, <5>2
      <4>2. CASE LoadBlind(w)
        <5> DEFINE r == [req[w] EXCEPT !.look = "unreachable"]
        <5>1. req' = [req EXCEPT ![w] = r]
          BY <1>3, <4>2 DEF LoadBlind, TypeOK
        <5>2. r.stats = NoStats
          BY <2>1, <2>3, <4>2 DEF LoadBlind, Request
        <5> QED
          BY <5>1, <5>2
      <4> QED
        BY <2>6, <4>1, <4>2
    <3>2. r.stats = NoStats \/ r.stats.found = TRUE
      BY <3>1 DEF StatsOf
    <3>3. pc' = [pc EXCEPT ![w] = "guard"]
      BY <2>6 DEF LoadStats, LoadBlind, Goto
    <3>4. Holds("guard", r)
      BY <3>2 DEF Holds
    <3>5. Threads'
      BY <1>2, <1>3, <3>1, <3>3, <3>4, ThreadsFrame
    <3> QED
      BY <1>1, <1>5, <2>4, <2>6, <3>5 DEF ViewInv
  <2>7. CASE Decide(w)
    <3>1. CASE Done(w)
      BY <1>1, <1>4, <1>5, <2>4, <2>7, <3>1 DEF ViewInv
    <3>2. CASE /\ req' = [req EXCEPT ![w].stats = NoStats, ![w].look = "none",
                                      ![w].clock = 0]
               /\ Goto(w, "backend")
      <4> DEFINE r == [req[w] EXCEPT !.stats = NoStats, !.look = "none", !.clock = 0]
      <4>1. r.stats = NoStats
        BY <2>1 DEF Request
      <4>2. req' = [req EXCEPT ![w] = r]
        BY <1>3, <3>2 DEF TypeOK
      <4> HIDE DEF r
      <4>3. Threads'
        <5>1. Holds("backend", r)
          BY <4>1, EmptyHolds
        <5> QED
          BY <1>2, <1>3, <3>2, <4>2, <5>1, ThreadsFrame DEF Goto
      <4> QED
        BY <1>1, <1>5, <2>4, <2>7, <4>3 DEF ViewInv
    <3> QED
      BY <2>7, <3>1, <3>2 DEF Decide
  <2>8. CASE BackendReply(w) \/ BackendTimeout(w) \/ SaveBegin(w) \/ CheckFirst(w)
    <3>1. \E s \in {"save", "doc", "hmset"} : \E r :
            /\ r.stats = NoStats
            /\ req' = [req EXCEPT ![w] = r] /\ pc' = [pc EXCEPT ![w] = s]
      <4>1. CASE BackendReply(w)
        <5>1. PICK dps : req' = [req EXCEPT ![w].duration = req[w].clock,
                                            ![w].emittedDPs = dps]
          BY <4>1 DEF BackendReply
        <5>2. req' = [req EXCEPT ![w] = [req[w] EXCEPT !.duration = req[w].clock,
                                                       !.emittedDPs = dps]]
          BY <1>3, <5>1 DEF TypeOK
        <5>3. [req[w] EXCEPT !.duration = req[w].clock, !.emittedDPs = dps].stats = NoStats
          BY <2>1, <2>3, <4>1 DEF BackendReply, Request
        <5> QED
          BY <4>1, <5>2, <5>3 DEF BackendReply, Goto
      <4>2. CASE BackendTimeout(w)
        <5>1. req' = [req EXCEPT ![w] = [req[w] EXCEPT !.duration = req[w].clock,
                                                       !.timeout = TRUE]]
          BY <1>3, <4>2 DEF BackendTimeout, TypeOK
        <5>2. [req[w] EXCEPT !.duration = req[w].clock, !.timeout = TRUE].stats = NoStats
          BY <2>1, <2>3, <4>2 DEF BackendTimeout, Request
        <5> QED
          BY <4>2, <5>1, <5>2 DEF BackendTimeout, Goto
      <4>3. CASE SaveBegin(w)
        <5>1. PICK i : req' = [req EXCEPT ![w].key = <<req[w].key[1], i>>, ![w].clock = 0]
          BY <4>3 DEF SaveBegin
        <5>2. req' = [req EXCEPT ![w] = [req[w] EXCEPT !.key = <<req[w].key[1], i>>,
                                                       !.clock = 0]]
          BY <1>3, <5>1 DEF TypeOK
        <5>3. [req[w] EXCEPT !.key = <<req[w].key[1], i>>, !.clock = 0].stats = NoStats
          BY <2>1, <2>3, <4>3 DEF SaveBegin, Request
        <5> QED
          BY <4>3, <5>2, <5>3 DEF SaveBegin, Goto
      <4>4. CASE CheckFirst(w)
        <5>1. req' = [req EXCEPT ![w] = [req[w] EXCEPT !.first = ~hash[req[w].key].first]]
          BY <1>3, <4>4 DEF CheckFirst, TypeOK
        <5>2. [req[w] EXCEPT !.first = ~hash[req[w].key].first].stats = NoStats
          BY <2>1, <2>3, <4>4 DEF CheckFirst, Request
        <5> QED
          BY <4>4, <5>1, <5>2 DEF CheckFirst, Goto
      <4> QED
        BY <2>8, <4>1, <4>2, <4>3, <4>4
    <3>2. Threads'
      <4>1. PICK s \in {"save", "doc", "hmset"} : \E r :
              /\ r.stats = NoStats
              /\ req' = [req EXCEPT ![w] = r] /\ pc' = [pc EXCEPT ![w] = s]
        BY <3>1
      <4>2. PICK r :
              /\ r.stats = NoStats
              /\ req' = [req EXCEPT ![w] = r] /\ pc' = [pc EXCEPT ![w] = s]
        BY <4>1
      <4>3. Holds(s, r)
        BY <4>2, EmptyHolds
      <4> QED
        BY <1>2, <1>3, <4>2, <4>3, ThreadsFrame
    <3> QED
      BY <1>1, <1>5, <2>4, <2>8, <3>2 DEF ViewInv
  <2>9. ASSUME pc[w] # "guard", UNCHANGED req, NEW s \in SaveSteps, Goto(w, s)
        PROVE  Threads'
    <3>1. Holds(s, req[w])
      BY <2>3, <2>9, EmptyHolds DEF SaveSteps
    <3> QED
      BY <1>2, <1>3, <2>2, <2>9, <3>1, ThreadsFrame DEF Goto
  <2>10. CASE SaveSkip(w) \/ RedisError(w) \/ Reply(w)
    BY <1>1, <1>4, <1>5, <2>4, <2>10, <2>21 DEF ViewInv, SaveSkip, RedisError, Reply
  <2>16. CASE BackendError(w)
    <3>1. CASE Done(w)
      BY <1>1, <1>4, <1>5, <2>4, <2>16, <3>1 DEF ViewInv
    <3>2. CASE /\ req' = [req EXCEPT ![w].duration = req[w].clock, ![w].clock = 0]
               /\ Goto(w, "reply")
      <4> DEFINE r == [req[w] EXCEPT !.duration = req[w].clock, !.clock = 0]
      <4>1. r.stats = NoStats
        BY <2>1, <2>3, <2>16 DEF BackendError, Request
      <4>2. req' = [req EXCEPT ![w] = r]
        BY <1>3, <3>2 DEF TypeOK
      <4> HIDE DEF r
      <4>3. Threads'
        <5>1. Holds("reply", r)
          BY <4>1, EmptyHolds
        <5> QED
          BY <1>2, <1>3, <3>2, <4>2, <5>1, ThreadsFrame DEF Goto
      <4> QED
        BY <1>1, <1>5, <2>4, <2>16, <4>3 DEF ViewInv
    <3> QED
      BY <2>16, <3>1, <3>2 DEF BackendError
  <2>17. CASE Stall(w)
    <3>1. PICK d : req' = [req EXCEPT ![w].duration = d, ![w].timeout = TRUE]
      BY <2>17 DEF Stall
    <3> DEFINE r == [req[w] EXCEPT !.duration = d, !.timeout = TRUE]
    <3>2. r.stats = NoStats /\ r.timeout
      BY <2>1, <2>3, <2>17 DEF Stall, Request
    <3>3. req' = [req EXCEPT ![w] = r] /\ pc' = [pc EXCEPT ![w] = "resave"]
      BY <1>3, <2>17, <3>1 DEF TypeOK, Stall, Goto
    <3> HIDE DEF r
    <3>4. Threads'
      <4>1. Holds("resave", r)
        BY <3>2, EmptyHolds
      <4> QED
        BY <1>2, <1>3, <3>3, <4>1, ThreadsFrame
    <3> QED
      BY <1>1, <1>5, <2>4, <2>17, <3>4 DEF ViewInv
  <2>18. CASE Hang(w)
    <3>1. Threads'
      BY <1>2, <1>3, <2>18, IdleHolds, ThreadsFrame DEF Hang, Goto
    <3> QED
      BY <1>1, <1>5, <2>4, <2>18, <3>1 DEF ViewInv
  <2>11. CASE CheckQuery(w) \/ StoreQuery(w) \/ PushStats(w) \/ TtlList(w) \/ ExpireList(w)
              \/ TtlHash(w)
    <3>1. pc[w] # "guard" /\ UNCHANGED req /\ \E s \in SaveSteps : Goto(w, s)
      BY <2>11 DEF CheckQuery, StoreQuery, PushStats, TtlList, ExpireList, TtlHash,
                   AfterTtlList, SaveSteps
    <3> QED
      BY <1>1, <1>5, <2>4, <2>9, <2>11, <3>1 DEF ViewInv
  <2>12. CASE WriteStats(w)
    <3>1. Threads'
      <4> SUFFICES ASSUME NEW v \in Workers PROVE Holds(pc'[v], req'[v])
        BY DEF Threads
      <4>1. req[v] \in Request /\ Holds(pc[v], req[v])
        BY <1>2, <1>3 DEF TypeOK, Threads
      <4>2. \/ req'[v] = req[v]
            \/ req[v].look = "current" /\ req'[v] = [req[v] EXCEPT !.look = "overtaken"]
        BY <2>12 DEF WriteStats
      <4>3. Idle.look # "current"
        BY DEF Idle
      <4>4. Holds(pc[v], req'[v])
        <5>1. req'[v].stats = req[v].stats /\ req'[v].timeout = req[v].timeout
          BY <4>1, <4>2 DEF Request
        <5> QED
          BY <4>1, <4>2, <4>3, <5>1 DEF Holds
      <4>5. pc'[v] = pc[v] \/ (v = w /\ pc'[v] \in SaveSteps)
        BY <1>3, <2>12 DEF WriteStats, Goto, TypeOK, SaveSteps
      <4>6. v = w => req'[v].stats = NoStats
        BY <2>3, <2>12, <4>1, <4>2 DEF WriteStats, Request
      <4> QED
        BY <4>4, <4>5, <4>6, EmptyHolds DEF SaveSteps
    <3>2. Stamped(hash'[req[w].key])
      <4>1. hash[req[w].key] \in HashRec /\ req[w].key \in Key
        BY <1>3, <2>1 DEF TypeOK, Request
      <4>2. hash'[req[w].key] = Overwritten(hash[req[w].key], req[w])
        BY <1>3, <2>12, <4>1 DEF WriteStats, TypeOK
      <4>3. Overwritten(hash[req[w].key], req[w]).elapsed = req[w].clock
        BY <4>1 DEF Overwritten, HashRec
      <4> QED
        BY <2>1, <4>2, <4>3, AgeAssumption DEF Stamped, Request, Age, Absent
    <3>3. Hashes'
      BY <1>2, <1>3, <2>12, <3>2 DEF WriteStats, TypeOK, Hashes
    <3> QED
      BY <1>1, <3>1, <3>3 DEF ViewInv
  <2>13. CASE ExpireHash(w)
    <3>1. Threads'
      BY <2>9, <2>13 DEF ExpireHash, SaveSteps
    <3>2. Hashes'
      BY <1>2, <1>3, <2>13 DEF ExpireHash, TypeOK, HashRec, Stamped, Hashes
    <3> QED
      BY <1>1, <3>1, <3>2 DEF ViewInv
  <2>14. CASE CountTotal(w)
    <3>1. Threads'
      BY <2>9, <2>14, <2>20 DEF CountTotal, SaveSteps
    <3>2. Hashes'
      BY <1>2, <1>3, <2>14 DEF CountTotal, TypeOK, HashRec, Stamped, Hashes
    <3> QED
      BY <1>1, <3>1, <3>2 DEF ViewInv
  <2>15. CASE CountTimeout(w)
    <3>1. Threads'
      BY <1>4, <2>15 DEF CountTimeout
    <3>2. Hashes'
      BY <1>2, <1>3, <2>15 DEF CountTimeout, TypeOK, HashRec, Stamped, Hashes
    <3> QED
      BY <1>1, <3>1, <3>2 DEF ViewInv
  <2> QED
    BY <1>9, <2>5, <2>6, <2>7, <2>8, <2>10, <2>11, <2>12, <2>13, <2>14, <2>15, <2>16,
       <2>17, <2>18
    DEF Moves, Handle
<1> QED
  BY <1>6, <1>7, <1>8, <1>9 DEF Next, Moves

-----------------------------------------------------------------------------
(* Initial states and steps                                                *)

LEMMA PromiseInit == Init => Promise!Init
<1> SUFFICES ASSUME Init PROVE Promise!Init
  OBVIOUS
<1>1. StatsOf(NoHash) = NoStats
  BY DEF StatsOf, NoHash, Exists, Stamped, Absent
<1>2. Memory = [k \in Key |-> Promise!Blank]
  BY <1>1, BlankView DEF Init, Memory
<1>3. Work = [w \in Workers |-> Promise!Idle]
  BY IdleView DEF Init, Work
<1> QED
  BY <1>2, <1>3 DEF Promise!Init, Promise!Key, Key, Memory, Work, View, Result

(* A second makes what is known of a record older, or the record expires.  *)
LEMMA MemoryTick ==
  ASSUME TypeOK, Tick, NEW k \in Key
  PROVE  \/ Memory'[k] = Promise!Older(Memory[k])
         \/ (TTL > 0 /\ Memory'[k] = Promise!Blank)
<1>1. hash[k] \in HashRec
  BY DEF TypeOK
<1>4. hash[k].ttl = 1 => TTL > 0
  <2>1. 1 \in 1 .. TTL => TTL > 0
    BY StoreAssumption
  <2> QED
    BY <1>1, <2>1 DEF HashRec, TTLs, NoTTL
<1>2. CASE hash[k].ttl = 1
  <2>1. hash'[k] = NoHash
    BY <1>2 DEF Tick
  <2>2. StatsOf(NoHash) = NoStats
    BY DEF StatsOf, NoHash, Exists, Stamped, Absent
  <2> QED
    BY <1>2, <1>4, <2>1, <2>2, BlankView DEF Memory
<1>3. CASE hash[k].ttl # 1
  <2> DEFINE h == hash'[k]
  <2>1. h = [hash[k] EXCEPT !.elapsed = IF @ = Absent THEN @ ELSE Older(@),
                            !.ttl = Left(@)]
    BY <1>3 DEF Tick
  <2>2. /\ h.elapsed = IF hash[k].elapsed = Absent THEN Absent ELSE Older(hash[k].elapsed)
        /\ h.duration = hash[k].duration /\ h.emittedDPs = hash[k].emittedDPs
        /\ h.total = hash[k].total /\ h.timeouts = hash[k].timeouts
    BY <1>1, <2>1 DEF HashRec
  <2>3. hash[k].elapsed # Absent => Older(hash[k].elapsed) # Absent
    BY <1>1, AgeAssumption DEF HashRec, Age, Older, Absent
  <2> HIDE DEF h
  <2>4. Known(StatsOf(h)) = Promise!Older(Known(StatsOf(hash[k])))
    <3>1. CASE ~Exists(hash[k])
      <4>1. ~Exists(h)
        BY <2>2, <2>3, <3>1 DEF Exists, Stamped
      <4>2. Promise!Older(Promise!Blank) = Promise!Blank
        BY AgeAssumption DEF Promise!Older, Promise!Blank
      <4> QED
        BY <3>1, <4>1, <4>2, BlankView DEF StatsOf
    <3>2. CASE Exists(hash[k])
      <4>1. Exists(h)
        BY <2>2, <2>3, <3>2 DEF Exists, Stamped
      <4> QED
        BY <2>2, <2>3, <3>2, <4>1, AgeAssumption
        DEF StatsOf, Known, Stamped, Promise!Older, Older
    <3> QED
      BY <3>1, <3>2
  <2> QED
    BY <2>4 DEF Memory, h
<1> QED
  BY <1>2, <1>3

LEMMA PromiseTick ==
  ASSUME ViewInv, Tick PROVE Promise!Next
<1>1. TypeOK /\ Threads
  BY DEF ViewInv, TypeInv
<1>2. \A k \in Key : \/ Memory'[k] = Promise!Older(Memory[k])
                    \/ (TTL > 0 /\ Memory'[k] = Promise!Blank)
  BY <1>1, MemoryTick
<1>3. Memory' \in [Key -> Memo]
  <2>1. TypeOK'
    BY TypeStep DEF ViewInv, TypeInv, Next
  <2> QED
    BY <2>1, KnownType DEF Memory, TypeOK
<1>4. ASSUME NEW w \in Workers
      PROVE  View(pc'[w], req'[w]) =
               [Work[w] EXCEPT !.known = Promise!Older(@),
                               !.result = IF Work[w].step = "answered"
                                          THEN Promise!Older(@) ELSE @]
  <2> DEFINE r == req'[w]
             step == StepOf(pc[w], req[w].timeout)
  <2>1. /\ req[w] \in Request /\ Holds(pc[w], req[w])
        /\ pc[w] \in Steps \cup {"idle", "hung"}
    BY <1>1 DEF TypeOK, Threads
  <2>2. pc'[w] = pc[w]
    BY DEF Tick
  <2>3. r = [req[w] EXCEPT !.clock = IF pc[w] \in Timed THEN Older(@) ELSE @,
                           !.stats.elapsed = IF req[w].stats.found THEN Older(@) ELSE @]
    BY DEF Tick
  <2>4. /\ r.key = req[w].key /\ r.duration = req[w].duration
        /\ r.emittedDPs = req[w].emittedDPs /\ r.timeout = req[w].timeout
        /\ r.clock = IF pc[w] \in Timed THEN Older(req[w].clock) ELSE req[w].clock
        /\ r.stats.found = req[w].stats.found
        /\ r.stats.elapsed = IF req[w].stats.found THEN Older(req[w].stats.elapsed)
                             ELSE req[w].stats.elapsed
        /\ r.stats.duration = req[w].stats.duration
        /\ r.stats.emittedDPs = req[w].stats.emittedDPs
    BY <2>1, <2>3 DEF Request, StatsRec
  <2> HIDE DEF r
  <2>5. Known(r.stats) = Promise!Older(Known(req[w].stats))
    BY <2>1, <2>4, AgeAssumption DEF Known, Promise!Older, Older
  <2>6. pc[w] \in Unrecorded <=> step = "answered"
    BY <2>1, StepNames DEF Unrecorded, Timed, Steps, SaveSteps, After
  <2>7. Result(pc[w], r) = IF pc[w] \in Unrecorded THEN Promise!Older(Result(pc[w], req[w]))
                           ELSE Result(pc[w], req[w])
    BY <2>4 DEF Result, Promise!Older, Older, Unrecorded
  <2>8. Work[w] = View(pc[w], req[w])
    BY DEF Work
  <2>9. View(pc[w], r) = [View(pc[w], req[w]) EXCEPT
          !.known = Promise!Older(@),
          !.result = IF step = "answered" THEN Promise!Older(@) ELSE @]
    <3> DEFINE old == Result(pc[w], req[w])
               known == Known(req[w].stats)
               new == IF step = "answered" THEN Promise!Older(old) ELSE old
    <3>1. View(pc[w], req[w]) \in Views
      BY <2>1, ViewType
    <3>2. View(pc[w], r) = [step |-> step, key |-> req[w].key,
                            known |-> Promise!Older(known), result |-> new]
      BY <2>4, <2>5, <2>6, <2>7 DEF View
    <3>3. [View(pc[w], req[w]) EXCEPT !.known = Promise!Older(known), !.result = new] =
            [step |-> step, key |-> req[w].key,
             known |-> Promise!Older(known), result |-> new]
      <4> DEFINE v == View(pc[w], req[w])
                 older == Promise!Older(known)
      <4>1. v.step = step /\ v.key = req[w].key
        BY DEF View
      <4>2. v \in Views
        BY <3>1
      <4> HIDE DEF new, older, v
      <4>3. [v EXCEPT !.known = older, !.result = new] =
              [step |-> v.step, key |-> v.key, known |-> older, result |-> new]
        BY <4>2, KnownResult
      <4> QED
        BY <4>1, <4>3 DEF v, older
    <3>4. View(pc[w], req[w]).known = known /\ View(pc[w], req[w]).result = old
      BY DEF View
    <3> QED
      BY <3>2, <3>3, <3>4
  <2>10. View(pc[w], req[w]).step = step
    BY DEF View
  <2> QED
    BY <2>2, <2>8, <2>9, <2>10 DEF r
<1>5. Work' = [w \in Workers |->
         [Work[w] EXCEPT !.known = Promise!Older(@),
                         !.result = IF Work[w].step = "answered"
                                    THEN Promise!Older(@) ELSE @]]
  BY <1>4 DEF Work
<1> QED
  BY <1>2, <1>3, <1>5, PassIs DEF Promise!Next

(* A request that ends, wherever it is.                                    *)
LEMMA DoneEnds ==
  ASSUME TypeOK, NEW w \in Workers, Done(w), Memory' = Memory
  PROVE  Promise!Next
<1>1. Work' = [Work EXCEPT ![w] = Promise!Idle]
  BY IdleView, OneView DEF Done, Goto
<1>2. Work' = [v \in Workers |-> IF v \in {w} THEN Promise!Idle ELSE Work[v]]
  BY <1>1 DEF Work
<1>3. Promise!End
  BY <1>2, EndIs
<1> QED
  BY <1>3 DEF Promise!Next

(* A run that is not recorded, and whose client gets its reply.            *)
LEMMA ReplyForgoes ==
  ASSUME TypeOK, Threads, NEW w \in Workers, Memory' = Memory,
         pc[w] \in {"backend", "save"} \cup Unrecorded,
         pc[w] \in Unrecorded => ~req[w].timeout,
         NEW r, r.key = req[w].key, r.stats = NoStats,
         pc' = [pc EXCEPT ![w] = "reply"], req' = [req EXCEPT ![w] = r]
  PROVE  Promise!Forgo(w)
<1> DEFINE none == Promise!NoResult
<1>1. req[w] \in Request /\ Holds(pc[w], req[w])
  BY DEF TypeOK, Threads
<1>2. req[w].stats = NoStats
  BY <1>1 DEF Holds, Unrecorded, Timed
<1>3. Work \in [Workers -> Views] /\ Work[w] = View(pc[w], req[w])
  BY WorkType DEF Work
<1>4. Work[w].step \in {"running", "answered"}
  BY <1>3, StepNames DEF View
<1>5. Work[w].result.timeout = FALSE
  BY <1>1, <1>3 DEF View, Result, Unrecorded, Timed, Request
<1>6. Result("reply", r) = none
  BY DEF Result, Unrecorded, Timed, Promise!NoResult
<1>7. View("reply", r) = [step |-> "replying", key |-> Work[w].key,
                          known |-> Work[w].known, result |-> none]
  BY <1>2, <1>3, <1>6, StepNames DEF View
<1> HIDE DEF none
<1>8. [Work[w] EXCEPT !.step = "replying", !.result = none] =
        [step |-> "replying", key |-> Work[w].key,
         known |-> Work[w].known, result |-> none]
  BY <1>3, StepResult
<1>9. Work' = [Work EXCEPT ![w] = View("reply", r)]
  BY OneView
<1>10. Work' = [Work EXCEPT ![w].step = "replying", ![w].result = none]
  BY <1>3, <1>7, <1>8, <1>9, WorkStepResult
<1>11. Work' = [Work EXCEPT ![w].step = "replying", ![w].result = Promise!NoResult]
  BY <1>10 DEF none
<1>12. PICK step \in {"running", "answered"} : Work[w].step = step
  BY <1>4
<1>13. Memory' = Memory
  OBVIOUS
<1> QED
  BY <1>5, <1>11, <1>12, <1>13, ForgoIs

(* The end of a save: of a run, of one that was saved in time, or of one   *)
(* that a client's stall has made a timeout.                               *)
LEMMA SavedEnds ==
  ASSUME ViewInv, NEW w \in Workers, Saved(w), Memory' = Memory,
         pc[w] \in SaveSteps \cup {"save", "resave"}
  PROVE  Promise!Next \/ UNCHANGED Promise!vars
<1>1. TypeOK /\ Threads
  BY DEF ViewInv, TypeInv
<1>2. CASE Done(w)
  BY <1>1, <1>2, DoneEnds
<1>3. CASE ~req[w].timeout /\ Return(w)
  <2> DEFINE r == Returned(req[w])
  <2>1. r.key = req[w].key /\ r.stats = NoStats
    BY ReturnedHolds
  <2>2. pc' = [pc EXCEPT ![w] = "reply"] /\ req' = [req EXCEPT ![w] = r]
    BY <1>3 DEF Return, Returned, Goto
  <2>3. req[w] \in Request /\ Holds(pc[w], req[w])
    BY <1>1 DEF TypeOK, Threads
  <2> HIDE DEF r
  <2>4. CASE pc[w] \in {"save"} \cup Unrecorded
    <3>1. Promise!Forgo(w)
      BY <1>1, <1>3, <2>1, <2>2, <2>4, ReplyForgoes
    <3> QED
      BY <3>1 DEF Promise!Next
  <2>5. CASE pc[w] \in {"resave"} \cup After
    <3>1. req[w].stats = NoStats
      BY <2>3, <2>5 DEF Holds, After
    <3>2. View("reply", r) = View(pc[w], req[w])
      <4>1. StepOf(pc[w], req[w].timeout) = "replying" /\ StepOf("reply", r.timeout) = "replying"
        BY <1>3, <2>5, StepNames
      <4>2. Result(pc[w], req[w]) = Result("reply", r)
        BY <2>5 DEF Result, Unrecorded, Timed, After
      <4> QED
        BY <2>1, <3>1, <4>1, <4>2 DEF View
    <3>3. Work' = [Work EXCEPT ![w] = View("reply", r)]
      BY <1>1, <2>2, OneView
    <3>4. Work' = Work
      BY <3>2, <3>3 DEF Work
    <3> QED
      BY <3>4, SameViews
  <2> QED
    BY <2>4, <2>5 DEF SaveSteps, Unrecorded, Timed, After
<1> QED
  BY <1>2, <1>3 DEF Saved

(* A thread that reads or writes nothing of a record.                      *)
LEMMA PromiseRequest ==
  ASSUME ViewInv, NEW w \in Workers,
         \/ Receive(w) \/ LoadStats(w) \/ LoadBlind(w) \/ Decide(w) \/ BackendReply(w)
         \/ BackendTimeout(w) \/ Stall(w) \/ SaveBegin(w)
  PROVE  Promise!Next \/ UNCHANGED Promise!vars
<1>1. TypeOK /\ Threads
  BY DEF ViewInv, TypeInv
<1>2. req[w] \in Request /\ Holds(pc[w], req[w])
  BY <1>1 DEF TypeOK, Threads
<1>3. Memory' = Memory
  BY DEF Memory, redis, Receive, LoadStats, LoadBlind, Decide, BackendReply,
         BackendTimeout, Stall, SaveBegin
<1>4. Work[w] = View(pc[w], req[w])
  BY DEF Work
<1>5. Work[w].step = StepOf(pc[w], req[w].timeout) /\ Work[w].key = req[w].key
      /\ Work[w].known = Known(req[w].stats) /\ Work[w].result = Result(pc[w], req[w])
  BY <1>4 DEF View
<1>6. \A s \in {"idle", "load", "guard", "backend", "save", "reply", "resave"} : \A r :
        Result(s, r) = Promise!NoResult
  BY DEF Result, Promise!NoResult, Unrecorded, Timed
<1>7. Work \in [Workers -> Views]
  BY <1>1, WorkType
<1>8. ASSUME NEW s, NEW r, pc' = [pc EXCEPT ![w] = s], req' = [req EXCEPT ![w] = r],
             View(s, r) = Work[w]
      PROVE  UNCHANGED Promise!vars
  <2>1. Work' = [Work EXCEPT ![w] = Work[w]]
    BY <1>1, <1>8, OneView
  <2> QED
    BY <1>3, <2>1, SameViews DEF Work
<1>9. CASE Receive(w)
  <2>1. PICK k \in Key, drift \in Drifts, s \in {"load", "backend"} :
          /\ req' = [req EXCEPT ![w].key = k, ![w].drift = drift]
          /\ pc' = [pc EXCEPT ![w] = s]
          /\ \/ ListVerdict(Shape[k[1]]) = "guard" /\ s = "load"
             \/ ListVerdict(Shape[k[1]]) = "allowedlist" /\ s = "backend"
             \/ ListVerdict(Shape[k[1]]) = "blockedlist" /\ SafeMode /\ s = "backend"
    BY <1>9 DEF Receive, Goto
  <2> DEFINE r == [req[w] EXCEPT !.key = k, !.drift = drift]
  <2>2. req' = [req EXCEPT ![w] = r]
    BY <1>1, <2>1 DEF TypeOK
  <2>3. r.key = k /\ r.stats = req[w].stats
    BY <1>2 DEF Request
  <2>4. pc[w] = "idle"
    BY <1>9 DEF Receive
  <2> HIDE DEF r
  <2> DEFINE step == IF s = "load" THEN "asking" ELSE "running"
  <2>8. StepOf(s, r.timeout) = step
    BY <2>1, StepNames
  <2> HIDE DEF step
  <2>5. View(s, r) = [Work[w] EXCEPT !.step = step, !.key = k]
    <3>1. [Work[w] EXCEPT !.step = step, !.key = k] =
            [step |-> step, key |-> k, known |-> Work[w].known,
             result |-> Work[w].result]
      BY <1>7, StepKey
    <3> QED
      BY <1>5, <1>6, <2>1, <2>3, <2>4, <2>8, <3>1 DEF View
  <2>6. Work' = [Work EXCEPT ![w].step = step, ![w].key = k]
    <3>1. Work' = [Work EXCEPT ![w] = View(s, r)]
      <4>1. pc' = [pc EXCEPT ![w] = s]
        BY <2>1
      <4> QED
        BY <1>1, <2>2, <4>1, OneView
    <3> QED
      BY <1>7, <2>5, <3>1, WorkStepKey
  <2>9. Work[w].step = "idle"
    BY <1>5, <2>4, StepNames
  <2>10. \/ /\ ListVerdict(Shape[k[1]]) = "guard"
            /\ Work' = [Work EXCEPT ![w].step = "asking", ![w].key = k]
         \/ /\ \/ ListVerdict(Shape[k[1]]) = "allowedlist"
               \/ ListVerdict(Shape[k[1]]) = "blockedlist" /\ SafeMode
            /\ Work' = [Work EXCEPT ![w].step = "running", ![w].key = k]
    BY <2>1, <2>6 DEF step
  <2>7. Promise!Ask(w)
    BY <1>3, <2>9, <2>10, AskIs
  <2> QED
    BY <2>7 DEF Promise!Next
<1>10. CASE LoadStats(w) \/ LoadBlind(w)
  <2>1. pc[w] = "load" /\ pc' = [pc EXCEPT ![w] = "guard"]
    BY <1>10 DEF LoadStats, LoadBlind, Goto
  <2>2. PICK r : /\ req' = [req EXCEPT ![w] = r] /\ r.key = req[w].key
                 /\ \/ Known(r.stats) = Memory[req[w].key]
                    \/ "unreachable" \in Faults /\ Known(r.stats) = Promise!Blank
    <3>1. CASE LoadStats(w)
      <4> DEFINE r == [req[w] EXCEPT !.stats = StatsOf(hash[req[w].key]), !.look = "current"]
      <4>1. req' = [req EXCEPT ![w] = r]
        BY <1>1, <3>1 DEF LoadStats, LoadKey, TypeOK
      <4>2. r.key = req[w].key /\ r.stats = StatsOf(hash[req[w].key])
        BY <1>2 DEF Request
      <4>3. Known(r.stats) = Memory[req[w].key]
        BY <1>2, <4>2 DEF Memory, Request
      <4> QED
        BY <4>1, <4>2, <4>3
    <3>2. CASE LoadBlind(w)
      <4> DEFINE r == [req[w] EXCEPT !.look = "unreachable"]
      <4>1. req' = [req EXCEPT ![w] = r]
        BY <1>1, <3>2 DEF LoadBlind, TypeOK
      <4>2. r.key = req[w].key /\ r.stats = NoStats
        BY <1>2, <2>1 DEF Request, Holds
      <4> QED
        <5>1. "unreachable" \in Faults
          BY <3>2 DEF LoadBlind
        <5>2. Known(r.stats) = Promise!Blank
          BY <4>2, BlankView
        <5> QED
          BY <4>1, <4>2, <5>1, <5>2
    <3> QED
      BY <1>10, <3>1, <3>2
  <2>3. View("guard", r) = [Work[w] EXCEPT !.step = "judging", !.known = Known(r.stats)]
    <3> DEFINE known == Known(r.stats)
    <3>0. View("guard", r) = [step |-> "judging", key |-> Work[w].key, known |-> known,
                              result |-> Work[w].result]
      BY <1>5, <1>6, <2>1, <2>2, StepNames DEF View
    <3> HIDE DEF known
    <3>1. [Work[w] EXCEPT !.step = "judging", !.known = known] =
            [step |-> "judging", key |-> Work[w].key, known |-> known,
             result |-> Work[w].result]
      BY <1>7, StepKnown
    <3> QED
      BY <3>0, <3>1 DEF known
  <2>4. Work' = [Work EXCEPT ![w].step = "judging", ![w].known = Known(r.stats)]
    <3>1. Work' = [Work EXCEPT ![w] = View("guard", r)]
      <4>1. req' = [req EXCEPT ![w] = r]
        BY <2>2
      <4> QED
        BY <1>1, <2>1, <4>1, OneView
    <3> QED
      BY <1>7, <2>3, <3>1, WorkStepKnown
  <2>6. Work[w].step = "asking" /\ Work[w].key = req[w].key
    BY <1>5, <2>1, StepNames
  <2> DEFINE known == Known(r.stats)
  <2>7. known \in {Memory[Work[w].key]} \cup
                    (IF "unreachable" \in Faults THEN {Promise!Blank} ELSE {})
    BY <2>2, <2>6
  <2>8. Work' = [Work EXCEPT ![w].step = "judging", ![w].known = known]
    BY <2>4
  <2> HIDE DEF known
  <2>5. Promise!Look(w)
    BY <1>3, <2>6, <2>7, <2>8, LookIs
  <2> QED
    BY <2>5 DEF Promise!Next
<1>11. CASE Decide(w)
  <2>1. pc[w] = "guard"
    BY <1>11 DEF Decide
  <2>2. CASE Done(w)
    BY <1>1, <1>3, <2>2, DoneEnds
  <2>3. CASE /\ Verdict(w) = "ok" \/ SafeMode
             /\ req' = [req EXCEPT ![w].stats = NoStats, ![w].look = "none", ![w].clock = 0]
             /\ Goto(w, "backend")
    <3> DEFINE r == [req[w] EXCEPT !.stats = NoStats, !.look = "none", !.clock = 0]
    <3>1. req' = [req EXCEPT ![w] = r]
      BY <1>1, <2>3 DEF TypeOK
    <3>2. r.key = req[w].key /\ r.stats = NoStats
      BY <1>2 DEF Request
    <3> HIDE DEF r
    <3>3. View("backend", r) = [Work[w] EXCEPT !.step = "running", !.known = Promise!Blank]
      <4>1. [Work[w] EXCEPT !.step = "running", !.known = Promise!Blank] =
              [step |-> "running", key |-> Work[w].key, known |-> Promise!Blank,
               result |-> Work[w].result]
        BY <1>7, StepKnown
      <4> QED
        BY <1>5, <1>6, <2>1, <3>2, <4>1, StepNames, BlankView DEF View
    <3>4. Work' = [Work EXCEPT ![w].step = "running", ![w].known = Promise!Blank]
      <4>1. Work' = [Work EXCEPT ![w] = View("backend", r)]
        BY <1>1, <2>3, <3>1, OneView DEF Goto
      <4> QED
        BY <1>7, <3>3, <4>1, WorkStepKnown
    <3>5. Verdict(w) = "ok" => Promise!Verdict(Work[w].key, Work[w].known) = "ok"
      <4> DEFINE known == Known(req[w].stats)
                 record == [found |-> TRUE, elapsed |-> known.elapsed,
                            duration |-> known.duration, emittedDPs |-> known.emittedDPs]
      <4>1. Promise!Verdict(Work[w].key, Work[w].known) = IsAllowed(Shape[req[w].key[1]], record)
        BY <1>5, SameRules DEF Promise!Verdict
      <4>2. CASE req[w].stats = NoStats
        <5>1. record = [found |-> TRUE, elapsed |-> MaxAge, duration |-> 0, emittedDPs |-> 0]
          BY <4>2, BlankView DEF Promise!Blank
        <5> QED
          BY <4>1, <4>2, <5>1, BlankIsPermitted DEF Verdict
      <4>3. CASE req[w].stats # NoStats
        <5>1. req[w].stats.found = TRUE
          BY <1>2, <4>3 DEF Holds
        <5>2. record = req[w].stats
          BY <1>2, <5>1 DEF Known, Request, StatsRec
        <5> QED
          BY <4>1, <5>2 DEF Verdict
      <4> QED
        BY <4>2, <4>3
    <3>7. Work[w].step = "judging"
      BY <1>5, <2>1, StepNames
    <3>6. Promise!Admit(w)
      BY <1>3, <2>3, <3>4, <3>5, <3>7, AdmitIs
    <3> QED
      BY <3>6 DEF Promise!Next
  <2> QED
    BY <1>11, <2>2, <2>3 DEF Decide
<1>12. CASE BackendReply(w)
  <2>1. PICK dps : req' = [req EXCEPT ![w].duration = req[w].clock, ![w].emittedDPs = dps]
    BY <1>12 DEF BackendReply
  <2> DEFINE r == [req[w] EXCEPT !.duration = req[w].clock, !.emittedDPs = dps]
  <2>2. req' = [req EXCEPT ![w] = r] /\ pc' = [pc EXCEPT ![w] = "save"] /\ pc[w] = "backend"
    BY <1>1, <1>12, <2>1 DEF TypeOK, BackendReply, Goto
  <2>3. r.key = req[w].key /\ r.stats = req[w].stats
    BY <1>2 DEF Request
  <2> HIDE DEF r
  <2>4. View("save", r) = Work[w]
    BY <1>4, <1>6, <1>7, <2>2, <2>3, StepNames DEF View
  <2> QED
    BY <1>8, <2>2, <2>4
<1>13. CASE BackendTimeout(w)
  <2> DEFINE r == [req[w] EXCEPT !.duration = req[w].clock, !.timeout = TRUE]
  <2>2. req' = [req EXCEPT ![w] = r] /\ pc' = [pc EXCEPT ![w] = "save"] /\ pc[w] = "backend"
    BY <1>1, <1>13 DEF TypeOK, BackendTimeout, Goto
  <2>3. r.key = req[w].key /\ r.stats = req[w].stats
    BY <1>2 DEF Request
  <2> HIDE DEF r
  <2>4. View("save", r) = Work[w]
    BY <1>4, <1>6, <1>7, <2>2, <2>3, StepNames DEF View
  <2> QED
    BY <1>8, <2>2, <2>4
<1>15. CASE Stall(w)
  <2>1. PICK d : req' = [req EXCEPT ![w].duration = d, ![w].timeout = TRUE]
    BY <1>15 DEF Stall
  <2> DEFINE r == [req[w] EXCEPT !.duration = d, !.timeout = TRUE]
  <2>2. req' = [req EXCEPT ![w] = r] /\ pc' = [pc EXCEPT ![w] = "resave"] /\ pc[w] = "reply"
    BY <1>1, <1>15, <2>1 DEF TypeOK, Stall, Goto
  <2>3. r.key = req[w].key /\ r.stats = req[w].stats
    BY <1>2 DEF Request
  <2> HIDE DEF r
  <2>4. View("resave", r) = Work[w]
    BY <1>4, <1>6, <1>7, <2>2, <2>3, StepNames DEF View
  <2> QED
    BY <1>8, <2>2, <2>4
<1>14. CASE SaveBegin(w)
  <2>1. PICK i \in Intervals :
          /\ i - req[w].key[2] \in {0} \cup req[w].drift
          /\ req' = [req EXCEPT ![w].key = <<req[w].key[1], i>>, ![w].clock = 0]
    BY <1>14 DEF SaveBegin
  <2> DEFINE r == [req[w] EXCEPT !.key = <<req[w].key[1], i>>, !.clock = 0]
             result == [elapsed |-> 0, duration |-> r.duration,
                        emittedDPs |-> r.emittedDPs, timeout |-> r.timeout]
  <2>2. /\ req' = [req EXCEPT ![w] = r] /\ pc' = [pc EXCEPT ![w] = "doc"]
        /\ pc[w] \in {"save", "resave"}
    BY <1>1, <1>14, <2>1 DEF TypeOK, SaveBegin, Goto
  <2>12. r.timeout = req[w].timeout
    BY <1>2 DEF Request
  <2>3. /\ r.key = <<req[w].key[1], i>> /\ r.stats = req[w].stats /\ r.clock = 0
        /\ r.duration \in Age /\ r.emittedDPs \in DPs \cup {0} /\ r.timeout \in BOOLEAN
    BY <1>2 DEF Request
  <2>4. r.key = [req[w].key EXCEPT ![2] = i]
    BY <1>2, <2>3 DEF Request, Key
  <2> HIDE DEF r
  <2>5. Result("doc", r) = result
    BY <2>3 DEF Result, Unrecorded, Timed
  <2>6. StepOf("doc", r.timeout) = "answered"
    BY StepNames DEF Unrecorded, Timed
  <2> HIDE DEF result
  <2>7. View("doc", r) = [Work[w] EXCEPT !.step = "answered", !.key[2] = i, !.result = result]
    <3>1. [Work[w] EXCEPT !.step = "answered", !.key[2] = i, !.result = result] =
            [step |-> "answered", key |-> [Work[w].key EXCEPT ![2] = i],
             known |-> Work[w].known, result |-> result]
      <4> DEFINE v == Work[w]
      <4>1. v \in Views
        BY <1>7
      <4> HIDE DEF v
      <4>2. ASSUME NEW x,
                   x = [v EXCEPT !.step = "answered", !.key[2] = i, !.result = result]
            PROVE  x = [step |-> x.step, key |-> x.key, known |-> x.known,
                        result |-> x.result]
        BY <4>1, <4>2 DEF Views
      <4>3. ASSUME NEW x,
                   x = [v EXCEPT !.step = "answered", !.key[2] = i, !.result = result]
            PROVE  x = [step |-> "answered", key |-> [v.key EXCEPT ![2] = i],
                        known |-> v.known, result |-> result]
        BY <4>1, <4>2, <4>3 DEF Views
      <4> QED
        BY <4>3 DEF v
    <3> QED
      BY <1>5, <2>3, <2>4, <2>5, <2>6, <3>1 DEF View
  <2>8. Work' = [Work EXCEPT ![w].step = "answered", ![w].key[2] = i, ![w].result = result]
    <3>1. Work' = [Work EXCEPT ![w] = View("doc", r)]
      BY <1>1, <2>2, OneView
    <3> QED
      BY <1>7, <2>7, <3>1, WorkStepKeyResult
  <2>9. i - Work[w].key[2] \in -1 .. 1
    BY <1>2, <1>5, <2>1 DEF Request
  <2>10. CASE pc[w] = "save"
    <3>1. Work[w].step = "running"
      BY <1>5, <2>10, StepNames
    <3>2. Promise!Answer(w)
      BY <1>3, <2>3, <2>8, <2>9, <3>1, ResultIs DEF result, Promise!Answer
    <3> QED
      BY <3>2 DEF Promise!Next
  <2>11. CASE pc[w] = "resave"
    <3>1. Work[w].step = "replying"
      BY <1>5, <2>11, StepNames
    <3>2. r.timeout \in {TRUE}
      BY <1>2, <2>11, <2>12 DEF Holds
    <3>3. Promise!Again(w)
      BY <1>3, <2>3, <2>8, <2>9, <3>1, <3>2, ResultIs DEF result, Promise!Again
    <3> QED
      BY <3>3 DEF Promise!Next
  <2> QED
    BY <2>2, <2>10, <2>11
<1> QED
  BY <1>9, <1>10, <1>11, <1>12, <1>13, <1>14, <1>15

(* HMSET records a run.                                                    *)
LEMMA PromiseRecord ==
  ASSUME ViewInv, NEW w \in Workers, WriteStats(w)
  PROVE  Promise!Record(w)
<1>1. TypeOK /\ Threads /\ Hashes
  BY DEF ViewInv, TypeInv
<1> DEFINE k == req[w].key
           h == hash[k]
           s == IF TTL > 0 THEN "ttlHash" ELSE "total"
           result == Result("hmset", req[w])
           step == IF req[w].timeout THEN "over" ELSE "replying"
<1>2. req[w] \in Request /\ k \in Key /\ h \in HashRec /\ Holds(pc[w], req[w])
  BY <1>1 DEF TypeOK, Request, Threads
<1>3. pc[w] = "hmset" /\ pc' = [pc EXCEPT ![w] = s]
  BY <1>1 DEF WriteStats, Goto, TypeOK
<1>9. result.timeout = req[w].timeout
  BY DEF Result, Unrecorded, Timed
<1>4. Work[w].step = "answered" /\ Work[w].key = k /\ Work[w].result = result
  BY <1>3, StepNames DEF Work, View, Unrecorded, Timed
<1>5. hash' = [hash EXCEPT ![k] = Overwritten(h, req[w])]
  BY DEF WriteStats
<1>6. Known(StatsOf(Overwritten(h, req[w]))) = Promise!Remember(result, Known(StatsOf(h)))
  <2> DEFINE o == Overwritten(h, req[w])
  <2>1. /\ o.elapsed = req[w].clock /\ o.duration = req[w].duration
        /\ o.emittedDPs = IF req[w].timeout THEN h.emittedDPs ELSE req[w].emittedDPs
    BY <1>2 DEF Overwritten, HashRec
  <2>2. req[w].clock # Absent /\ req[w].duration # Absent /\ req[w].emittedDPs # Absent
    BY <1>2, AgeAssumption, StoreAssumption DEF Request, Age, Absent
  <2>3. Result("hmset", req[w]) =
          [elapsed |-> req[w].clock, duration |-> req[w].duration,
           emittedDPs |-> req[w].emittedDPs, timeout |-> req[w].timeout]
    BY DEF Result, Unrecorded, Timed
  <2> HIDE DEF o
  <2>4. Known(StatsOf(o)) =
          [elapsed |-> req[w].clock, duration |-> req[w].duration,
           emittedDPs |-> IF o.emittedDPs = Absent THEN 0 ELSE o.emittedDPs]
    BY <2>1, <2>2 DEF Known, StatsOf, Exists, Stamped
  <2>5. Known(StatsOf(h)).emittedDPs = IF h.emittedDPs = Absent THEN 0 ELSE h.emittedDPs
    <3>1. CASE Exists(h)
      BY <3>1 DEF Known, StatsOf
    <3>2. CASE ~Exists(h)
      <4>1. h.emittedDPs = Absent
        BY <1>1, <1>2, <3>2 DEF Exists, Hashes
      <4> QED
        BY <3>2, <4>1 DEF Known, StatsOf, NoStats
    <3> QED
      BY <3>1, <3>2
  <2> QED
    BY <2>1, <2>2, <2>3, <2>4, <2>5 DEF Promise!Remember, o
<1>7. Memory' = [Memory EXCEPT ![Work[w].key] = Promise!Remember(Work[w].result, @)]
  BY <1>1, <1>2, <1>4, <1>5, <1>6 DEF Memory, TypeOK
<1>8. Work' = [Work EXCEPT ![w].step = step, ![w].result = Promise!NoResult]
  <2>1. Work \in [Workers -> Views]
    BY <1>1, WorkType
  <2>2. Work' = [Work EXCEPT ![w] = View(s, req[w])]
    <3> HIDE DEF s
    <3>1. ASSUME NEW v \in Workers
          PROVE  View(pc'[v], req'[v]) = View(IF v = w THEN s ELSE pc[v], req[v])
      <4>1. req[v] \in Request /\ pc'[v] = IF v = w THEN s ELSE pc[v]
        BY <1>1, <1>3 DEF TypeOK
      <4>2. req'[v] = req[v] \/ req'[v] = [req[v] EXCEPT !.look = "overtaken"]
        BY DEF WriteStats
      <4> QED
        BY <4>1, <4>2, LookUnseen
    <3> QED
      BY <3>1 DEF Work
  <2>3. View(s, req[w]) = [Work[w] EXCEPT !.step = step, !.result = Promise!NoResult]
    <3> DEFINE none == Promise!NoResult
    <3>1. StepOf(s, req[w].timeout) = step /\ Result(s, req[w]) = none
      BY StepNames DEF Result, Unrecorded, Timed, After, Promise!NoResult
    <3> HIDE DEF step
    <3>2. View(s, req[w]) = [step |-> step, key |-> Work[w].key,
                             known |-> Work[w].known, result |-> none]
      BY <3>1 DEF Work, View
    <3> HIDE DEF none
    <3>3. [Work[w] EXCEPT !.step = step, !.result = none] =
            [step |-> step, key |-> Work[w].key,
             known |-> Work[w].known, result |-> none]
      BY <2>1, StepResult
    <3> QED
      BY <3>2, <3>3 DEF none
  <2> HIDE DEF step
  <2> QED
    BY <2>1, <2>2, <2>3, WorkStepResult
<1> QED
  BY <1>4, <1>7, <1>8, <1>9, RecordIs

(* The other commands of save_stats change nothing that the rules see.     *)
LEMMA MemoryKept ==
  ASSUME ViewInv, NEW w \in Workers,
         \/ CheckQuery(w) \/ StoreQuery(w) \/ PushStats(w) \/ TtlList(w)
         \/ ExpireList(w) \/ CheckFirst(w) \/ TtlHash(w) \/ ExpireHash(w)
         \/ CountTotal(w) \/ CountTimeout(w)
  PROVE  Memory' = Memory
<1>1. TypeOK /\ Hashes
  BY DEF ViewInv, TypeInv
<1>2. req[w] \in Request /\ req[w].key \in Key /\ hash[req[w].key] \in HashRec
  BY <1>1 DEF TypeOK, Request
<1>3. ASSUME NEW h \in HashRec, NEW g,
             g.elapsed = h.elapsed, g.duration = h.duration, g.emittedDPs = h.emittedDPs,
             g.total >= h.total, g.timeouts >= h.timeouts, g.total \in Nat, g.timeouts \in Nat,
             ~Stamped(h) => h.duration = Absent /\ h.emittedDPs = Absent
      PROVE  Known(StatsOf(g)) = Known(StatsOf(h))
  <2>1. CASE Stamped(h)
    BY <1>3, <2>1 DEF StatsOf, Exists, Stamped
  <2>2. CASE ~Stamped(h)
    <3>1. \A x \in {g, h} : Known(StatsOf(x)) =
            [elapsed |-> MaxAge, duration |-> 0, emittedDPs |-> 0]
      BY <1>3, <2>2 DEF StatsOf, Stamped, Known, NoStats
    <3> QED
      BY <3>1
  <2> QED
    BY <2>1, <2>2
<1>4. Memory' = Memory
  <2>1. CASE UNCHANGED hash
    BY <2>1 DEF Memory
  <2>2. ASSUME NEW g, hash' = [hash EXCEPT ![req[w].key] = g],
               Known(StatsOf(g)) = Known(StatsOf(hash[req[w].key]))
        PROVE  Memory' = Memory
    BY <1>1, <1>2, <2>2 DEF Memory, TypeOK
  <2> DEFINE h == hash[req[w].key]
  <2>3. CASE ExpireHash(w)
    <3> DEFINE g == [h EXCEPT !.ttl = ExpireTTL]
    <3>1. Known(StatsOf(g)) = Known(StatsOf(h))
      BY <1>1, <1>2, <1>3 DEF HashRec, Hashes
    <3>2. hash' = hash \/ hash' = [hash EXCEPT ![req[w].key] = g]
      BY <1>1, <2>3 DEF ExpireHash, TypeOK
    <3> HIDE DEF g
    <3> QED
      BY <2>1, <2>2, <3>1, <3>2
  <2>4. CASE CountTotal(w)
    <3> DEFINE g == [h EXCEPT !.total = @ + Runs(req[w])]
    <3>1. Known(StatsOf(g)) = Known(StatsOf(h))
      BY <1>1, <1>2, <1>3 DEF HashRec, Hashes, Runs
    <3>2. hash' = [hash EXCEPT ![req[w].key] = g]
      BY <1>1, <2>4 DEF CountTotal, TypeOK
    <3> HIDE DEF g
    <3> QED
      BY <2>2, <3>1, <3>2
  <2>5. CASE CountTimeout(w)
    <3> DEFINE g == [h EXCEPT !.timeouts = @ + 1]
    <3>1. Known(StatsOf(g)) = Known(StatsOf(h))
      BY <1>1, <1>2, <1>3 DEF HashRec, Hashes
    <3>2. hash' = [hash EXCEPT ![req[w].key] = g]
      BY <1>1, <2>5 DEF CountTimeout, TypeOK
    <3> HIDE DEF g
    <3> QED
      BY <2>2, <3>1, <3>2
  <2> QED
    BY <2>1, <2>3, <2>4, <2>5
    DEF CheckQuery, StoreQuery, PushStats, TtlList, ExpireList, CheckFirst, TtlHash, redis
<1> QED
  BY <1>4

LEMMA PromiseSave ==
  ASSUME ViewInv, NEW w \in Workers,
         \/ CheckQuery(w) \/ StoreQuery(w) \/ PushStats(w) \/ TtlList(w)
         \/ ExpireList(w) \/ CheckFirst(w) \/ TtlHash(w) \/ ExpireHash(w)
         \/ CountTotal(w) \/ CountTimeout(w)
  PROVE  Promise!Next \/ UNCHANGED Promise!vars
<1>1. TypeOK /\ Hashes
  BY DEF ViewInv, TypeInv
<1>2. req[w] \in Request /\ req[w].key \in Key /\ hash[req[w].key] \in HashRec
  BY <1>1 DEF TypeOK, Request
<1>4. Memory' = Memory
  BY MemoryKept
<1>5. ASSUME NEW s, NEW r, pc' = [pc EXCEPT ![w] = s], req' = [req EXCEPT ![w] = r],
             View(s, r) = View(pc[w], req[w])
      PROVE  UNCHANGED Promise!vars
  <2>1. Work' = [Work EXCEPT ![w] = View(s, r)]
    BY <1>1, <1>5, OneView
  <2>2. Work' = [Work EXCEPT ![w] = Work[w]]
    BY <1>5, <2>1 DEF Work
  <2> QED
    BY <1>4, <2>2, SameViews DEF Work
<1>6. ASSUME NEW s, NEW t, UNCHANGED req, pc[w] = t, Goto(w, s),
             \/ {s, t} \subseteq Unrecorded
             \/ {s, t} \subseteq After
      PROVE  UNCHANGED Promise!vars
  <2>1. req' = [req EXCEPT ![w] = req[w]]
    BY <1>1, <1>6 DEF TypeOK
  <2>2. View(s, req[w]) = View(t, req[w])
    <3>1. StepOf(s, req[w].timeout) = StepOf(t, req[w].timeout)
      BY <1>6, StepNames
    <3>2. Result(s, req[w]) = Result(t, req[w])
      BY <1>6 DEF Result, Unrecorded, Timed, After
    <3> QED
      BY <3>1, <3>2 DEF View
  <2> QED
    BY <1>5, <1>6, <2>1, <2>2 DEF Goto
<1>7. CASE CheckFirst(w)
  <2> DEFINE r == [req[w] EXCEPT !.first = ~hash[req[w].key].first]
  <2>1. /\ req' = [req EXCEPT ![w] = r] /\ pc' = [pc EXCEPT ![w] = "hmset"]
        /\ pc[w] = "hexists"
    BY <1>1, <1>7 DEF CheckFirst, TypeOK, Goto
  <2>2. /\ r.key = req[w].key /\ r.stats = req[w].stats /\ r.clock = req[w].clock
        /\ r.duration = req[w].duration /\ r.emittedDPs = req[w].emittedDPs
        /\ r.timeout = req[w].timeout
    BY <1>2 DEF Request
  <2> HIDE DEF r
  <2>3. View("hmset", r) = View("hexists", req[w])
    BY <2>2, StepNames DEF View, Result, Unrecorded, Timed
  <2> QED
    BY <1>5, <2>1, <2>3
<1>8. CASE CheckQuery(w) \/ StoreQuery(w) \/ PushStats(w) \/ TtlList(w) \/ ExpireList(w)
  <2>1. \E s, t \in Unrecorded : UNCHANGED req /\ pc[w] = t /\ Goto(w, s)
    BY <1>8 DEF CheckQuery, StoreQuery, PushStats, TtlList, ExpireList, AfterTtlList,
                Unrecorded, Timed
  <2> QED
    BY <1>6, <2>1
<1>9. CASE TtlHash(w) \/ ExpireHash(w)
  <2>1. \E s, t \in After :
          UNCHANGED req /\ pc[w] = t /\ Goto(w, s)
    BY <1>9 DEF TtlHash, ExpireHash, After
  <2> QED
    BY <1>6, <2>1
<1>10. CASE CountTotal(w)
  <2>1. CASE ~req[w].timeout
    <3>1. Saved(w) /\ pc[w] \in SaveSteps
      BY <1>10, <2>1 DEF CountTotal, Saved, SaveSteps
    <3> QED
      BY <1>4, <3>1, SavedEnds
  <2>2. CASE Goto(w, "timeouts") /\ UNCHANGED req
    BY <1>6, <1>10, <2>2 DEF CountTotal, After
  <2> QED
    BY <1>10, <2>1, <2>2 DEF CountTotal
<1>11. CASE CountTimeout(w)
  BY <1>1, <1>4, <1>11, DoneEnds DEF CountTimeout
<1> QED
  BY <1>7, <1>8, <1>9, <1>10, <1>11

(* Failures and restarts end requests and keep the memory.                 *)
LEMMA PromiseFault ==
  ASSUME ViewInv,
         \/ Crash
         \/ \E w \in Workers :
              BackendError(w) \/ Reply(w) \/ SaveSkip(w) \/ RedisError(w) \/ Hang(w)
  PROVE  Promise!Next \/ UNCHANGED Promise!vars
<1>1. TypeOK /\ Threads
  BY DEF ViewInv, TypeInv
<1>2. Memory' = Memory
  BY DEF Crash, BackendError, Reply, SaveSkip, RedisError, Hang, redis, Memory
<1>3. CASE Crash
  <2>1. Work' = [w \in Workers |-> IF w \in Workers THEN Promise!Idle ELSE Work[w]]
    BY <1>3, IdleView DEF Crash, Work
  <2>2. Promise!End
    BY <1>2, <2>1, EndIs
  <2> QED
    BY <2>2 DEF Promise!Next
<1>4. ASSUME NEW w \in Workers, SaveSkip(w) \/ RedisError(w)
      PROVE  Promise!Next \/ UNCHANGED Promise!vars
  BY <1>1, <1>2, <1>4, DoneEnds, SavedEnds DEF SaveSkip, RedisError
<1>5. ASSUME NEW w \in Workers, BackendError(w)
      PROVE  Promise!Next
  <2>1. CASE Done(w)
    BY <1>1, <1>2, <2>1, DoneEnds
  <2>2. CASE req' = [req EXCEPT ![w].duration = req[w].clock, ![w].clock = 0] /\ Goto(w, "reply")
    <3> DEFINE r == [req[w] EXCEPT !.duration = req[w].clock, !.clock = 0]
    <3>1. req[w] \in Request /\ Holds(pc[w], req[w]) /\ pc[w] = "backend"
      BY <1>1, <1>5 DEF TypeOK, Threads, BackendError
    <3>2. r.key = req[w].key /\ r.stats = NoStats
      BY <3>1 DEF Request, Holds
    <3>3. req' = [req EXCEPT ![w] = r] /\ pc' = [pc EXCEPT ![w] = "reply"]
      BY <1>1, <2>2 DEF TypeOK, Goto
    <3> HIDE DEF r
    <3>4. Promise!Forgo(w)
      <4>1. pc[w] \notin Unrecorded
        BY <3>1 DEF Unrecorded, Timed
      <4> QED
        BY <1>1, <1>2, <3>1, <3>2, <3>3, <4>1, ReplyForgoes
    <3> QED
      BY <3>4 DEF Promise!Next
  <2> QED
    BY <1>5, <2>1, <2>2 DEF BackendError
<1>6. ASSUME NEW w \in Workers, Reply(w) PROVE Promise!Next
  BY <1>1, <1>2, <1>6, DoneEnds DEF Reply
<1>7. ASSUME NEW w \in Workers, Hang(w) PROVE Promise!Next
  <2>1. Work' = [Work EXCEPT ![w] = View("hung", Idle)]
    BY <1>1, <1>7, OneView DEF Hang, Goto
  <2>2. View("hung", Idle) = Promise!Idle
    <3>1. View("hung", Idle) = View("idle", Idle)
      <4>1. StepOf("hung", Idle.timeout) = StepOf("idle", Idle.timeout)
        BY StepNames
      <4> QED
        BY <4>1 DEF View, Result, Unrecorded, Timed
    <3> QED
      BY <3>1, IdleView
  <2>3. Work' = [v \in Workers |-> IF v \in {w} THEN Promise!Idle ELSE Work[v]]
    BY <2>1, <2>2 DEF Work
  <2>4. Promise!End
    BY <1>2, <2>3, EndIs
  <2> QED
    BY <2>4 DEF Promise!Next
<1> QED
  BY <1>3, <1>4, <1>5, <1>6, <1>7

LEMMA PromiseStep == ViewInv /\ [Next]_vars => [Promise!Next]_(Promise!vars)
<1> SUFFICES ASSUME ViewInv, [Next]_vars
             PROVE  Promise!Next \/ UNCHANGED Promise!vars
  OBVIOUS
<1>1. CASE UNCHANGED vars
  <2>1. Memory' = Memory /\ Work' = Work
    BY <1>1 DEF vars, Memory, Work
  <2> QED
    BY <2>1, SameViews
<1>2. CASE Tick
  BY <1>2, PromiseTick
<1>3. ASSUME NEW w \in Workers, WriteStats(w) PROVE Promise!Next
  BY <1>3, PromiseRecord DEF Promise!Next
<1>4. ASSUME NEW w \in Workers, Moves(w)
      PROVE  Promise!Next \/ UNCHANGED Promise!vars
  BY <1>3, <1>4, PromiseRequest, PromiseSave, PromiseFault DEF Moves, Handle
<1> QED
  BY <1>1, <1>2, <1>4, PromiseFault DEF Next, Moves

(* The Redis commands of load_stats and save_stats, interleaved in any     *)
(* way, with any expiry, failure and restart, do to the records what       *)
(* Breaker promises: one look and one update, and a second one, a timeout, *)
(* for a client that stalls (protector_main.py:67-95, 145-221, 239-254,    *)
(* request_handler.py:205-230).                                            *)
THEOREM KeepsThePromise == Spec => KeepsPromise
<1>1. Init => ViewInv /\ Promise!Init
  BY ViewInit, PromiseInit
<1>2. ViewInv /\ [Next]_vars => ViewInv' /\ [Promise!Next]_(Promise!vars)
  BY ViewStep, PromiseStep
<1> QED
  BY <1>1, <1>2, PTL DEF Spec, KeepsPromise, Promise!Spec

-----------------------------------------------------------------------------
(* Looks                                                                   *)

(* What a request has looked up and no run has overtaken is what is there, *)
(* as the rules see it, unless it expired.                                 *)
Looked ==
  \A w \in Workers : pc[w] = "guard" /\ req[w].look = "current" =>
    Memory[req[w].key] \in {Known(req[w].stats), Promise!Blank}

LookedInv == ViewInv /\ Looked

(* No rule objects to a query that has no record.                          *)
LEMMA ForgottenIsPermitted ==
  ASSUME NEW query, NEW stats, IsAllowed(query, stats) = "ok"
  PROVE  IsAllowed(query, NoStats) = "ok"
<1>1. ~NoStats.found
  BY DEF NoStats
<1>2. \A rule \in AllRules : Permits(rule, query, stats) => Permits(rule, query, NoStats)
  BY <1>1 DEF Permits, AllRules, TooManyDatapoints, ExceedTimeLimit, ExceedFrequency
<1> QED
  BY <1>2, GuardVerdict, RuleNames

(* The rules decide on what Breaker knows of a record.                     *)
Recorded(known) == [found |-> TRUE, elapsed |-> known.elapsed,
                    duration |-> known.duration, emittedDPs |-> known.emittedDPs]

LEMMA KnownDecides ==
  ASSUME NEW query, NEW stats \in StatsRec, stats = NoStats \/ stats.found = TRUE
  PROVE  IsAllowed(query, stats) = "ok" <=> IsAllowed(query, Recorded(Known(stats))) = "ok"
<1>1. CASE stats = NoStats
  <2>1. Recorded(Known(stats)) = [found |-> TRUE, elapsed |-> MaxAge,
                                  duration |-> 0, emittedDPs |-> 0]
    BY <1>1, BlankView DEF Recorded, Promise!Blank
  <2>2. IsAllowed(query, Recorded(Known(stats))) = "ok" => IsAllowed(query, NoStats) = "ok"
    BY ForgottenIsPermitted
  <2> QED
    BY <1>1, <2>1, <2>2, BlankIsPermitted
<1>2. CASE stats.found = TRUE
  <2>1. Recorded(Known(stats)) = stats
    BY <1>2 DEF Recorded, Known, StatsRec
  <2> QED
    BY <2>1
<1> QED
  BY <1>1, <1>2

(* A second makes what a request has looked up older, too.                 *)
LEMMA KnownTick ==
  ASSUME TypeOK, Tick, NEW w \in Workers
  PROVE  /\ req'[w].key = req[w].key /\ req'[w].look = req[w].look
         /\ Known(req'[w].stats) = Promise!Older(Known(req[w].stats))
<1> DEFINE r == req'[w]
<1>1. req[w] \in Request
  BY DEF TypeOK
<1>2. r = [req[w] EXCEPT !.clock = IF pc[w] \in Timed THEN Older(@) ELSE @,
                         !.stats.elapsed = IF req[w].stats.found THEN Older(@) ELSE @]
  BY DEF Tick
<1>3. /\ r.key = req[w].key /\ r.look = req[w].look
      /\ r.stats.found = req[w].stats.found
      /\ r.stats.elapsed = IF req[w].stats.found THEN Older(req[w].stats.elapsed)
                           ELSE req[w].stats.elapsed
      /\ r.stats.duration = req[w].stats.duration
      /\ r.stats.emittedDPs = req[w].stats.emittedDPs
  BY <1>1, <1>2 DEF Request, StatsRec
<1> HIDE DEF r
<1>4. Known(r.stats) = Promise!Older(Known(req[w].stats))
  BY <1>1, <1>3, AgeAssumption DEF Known, Promise!Older, Older
<1> QED
  BY <1>3, <1>4 DEF r

LEMMA LookedStep == LookedInv /\ [Next]_vars => LookedInv'
<1> SUFFICES ASSUME LookedInv, [Next]_vars PROVE LookedInv'
  OBVIOUS
<1>1. ViewInv /\ ViewInv' /\ TypeOK /\ Looked
  BY ViewStep DEF LookedInv, ViewInv, TypeInv
<1> SUFFICES ASSUME NEW w \in Workers, pc'[w] = "guard", req'[w].look = "current"
             PROVE  Memory'[req'[w].key] \in {Known(req'[w].stats), Promise!Blank}
  BY <1>1 DEF LookedInv, Looked
<1>2. req[w] \in Request /\ req[w].key \in Key
  BY <1>1 DEF TypeOK, Request
<1>3. ASSUME pc[w] = "guard", req'[w] = req[w], Memory'[req[w].key] = Memory[req[w].key]
      PROVE  Memory'[req'[w].key] \in {Known(req'[w].stats), Promise!Blank}
  BY <1>1, <1>3 DEF Looked
<1>4. CASE UNCHANGED vars
  <2>1. Memory' = Memory /\ pc' = pc /\ req' = req
    BY <1>4 DEF vars, Memory
  <2> QED
    BY <1>3, <2>1
<1>5. CASE Tick
  <2>1. /\ req'[w].key = req[w].key /\ req'[w].look = req[w].look /\ pc' = pc
        /\ Known(req'[w].stats) = Promise!Older(Known(req[w].stats))
    BY <1>1, <1>5, KnownTick DEF Tick
  <2>2. Memory[req[w].key] \in {Known(req[w].stats), Promise!Blank}
    BY <1>1, <2>1 DEF Looked
  <2>3. Memory'[req[w].key] \in {Promise!Older(Memory[req[w].key]), Promise!Blank}
    BY <1>1, <1>2, <1>5, MemoryTick
  <2>4. Promise!Older(Promise!Blank) = Promise!Blank
    BY AgeAssumption DEF Promise!Older, Promise!Blank
  <2> QED
    BY <2>1, <2>2, <2>3, <2>4
<1>6. CASE Crash
  BY <1>6 DEF Crash
<1>7. ASSUME NEW v \in Workers, Moves(v)
      PROVE  Memory'[req'[w].key] \in {Known(req'[w].stats), Promise!Blank}
  <2>1. CASE LoadStats(v)
    <3>1. Memory' = Memory
      BY <2>1 DEF LoadStats, redis, Memory
    <3>2. CASE v = w
      <4>1. req'[w] = [req[w] EXCEPT !.stats = StatsOf(hash[req[w].key]), !.look = "current"]
        BY <1>1, <2>1, <3>2 DEF LoadStats, LoadKey, TypeOK
      <4>2. req'[w].key = req[w].key /\ req'[w].stats = StatsOf(hash[req[w].key])
        BY <1>2, <4>1 DEF Request
      <4> QED
        BY <1>2, <3>1, <4>2 DEF Memory
    <3>3. CASE v # w
      <4>1. pc[w] = "guard" /\ req'[w] = req[w]
        BY <1>1, <2>1, <3>3 DEF LoadStats, Goto, TypeOK
      <4> QED
        BY <1>3, <3>1, <4>1
    <3> QED
      BY <3>2, <3>3
  <2>2. CASE LoadBlind(v)
    <3>1. Memory' = Memory
      BY <2>2 DEF LoadBlind, redis, Memory
    <3>2. v # w
      <4>1. ASSUME v = w PROVE FALSE
        <5>1. req'[w] = [req[w] EXCEPT !.look = "unreachable"]
          BY <1>1, <2>2, <4>1 DEF LoadBlind, TypeOK
        <5> QED
          BY <1>2, <5>1 DEF Request
      <4> QED
        BY <4>1
    <3>3. pc[w] = "guard" /\ req'[w] = req[w]
      BY <1>1, <2>2, <3>2 DEF LoadBlind, Goto, TypeOK
    <3> QED
      BY <1>3, <3>1, <3>3
  <2>3. CASE WriteStats(v)
    <3>1. v # w /\ pc[w] = "guard"
      BY <1>1, <2>3 DEF WriteStats, Goto, TypeOK
    <3>2. req[w].key # req[v].key /\ req'[w] = req[w]
      <4>1. CASE req[w].look = "current" /\ req[w].key = req[v].key
        <5>1. req'[w] = [req[w] EXCEPT !.look = "overtaken"]
          BY <2>3, <4>1 DEF WriteStats
        <5> QED
          BY <1>2, <5>1 DEF Request
      <4>2. CASE ~(req[w].look = "current" /\ req[w].key = req[v].key)
        BY <2>3, <4>2 DEF WriteStats
      <4> QED
        BY <4>1, <4>2
    <3>3. hash'[req[w].key] = hash[req[w].key]
      BY <1>1, <1>2, <2>3, <3>2 DEF WriteStats, TypeOK
    <3>4. Memory'[req[w].key] = Memory[req[w].key]
      BY <1>2, <3>3 DEF Memory
    <3> QED
      BY <1>3, <3>1, <3>2, <3>4
  <2>4. CASE \/ CheckQuery(v) \/ StoreQuery(v) \/ PushStats(v) \/ TtlList(v) \/ ExpireList(v)
             \/ CheckFirst(v) \/ TtlHash(v) \/ ExpireHash(v) \/ CountTotal(v)
             \/ CountTimeout(v)
    <3>1. Memory' = Memory
      BY <1>1, <2>4, MemoryKept
    <3>2. v # w /\ pc[w] = "guard" /\ req'[w] = req[w]
      BY <1>1, <2>4
      DEF CheckQuery, StoreQuery, PushStats, TtlList, AfterTtlList, ExpireList, CheckFirst,
          TtlHash, ExpireHash, CountTotal, CountTimeout, Return, Done, Goto, TypeOK
    <3> QED
      BY <1>3, <3>1, <3>2
  <2>5. CASE \/ Receive(v) \/ Decide(v) \/ BackendReply(v) \/ BackendTimeout(v)
             \/ BackendError(v) \/ Reply(v) \/ Stall(v) \/ SaveBegin(v) \/ SaveSkip(v)
             \/ RedisError(v) \/ Hang(v)
    <3>1. Memory' = Memory
      BY <2>5 DEF Receive, Decide, BackendReply, BackendTimeout, BackendError, Reply, Stall,
                  SaveBegin, SaveSkip, RedisError, Hang, redis, Memory
    <3>2. v # w /\ pc[w] = "guard" /\ req'[w] = req[w]
      BY <1>1, <2>5
      DEF Receive, Decide, BackendReply, BackendTimeout, BackendError, Reply, Stall,
          SaveBegin, SaveSkip, RedisError, Hang, Saved, Return, Done, Goto, TypeOK
    <3> QED
      BY <1>3, <3>1, <3>2
  <2> QED
    BY <1>7, <2>1, <2>2, <2>3, <2>4, <2>5 DEF Moves, Handle
<1> QED
  BY <1>4, <1>5, <1>6, <1>7 DEF Next, Moves

(* With any number of threads, any length of the exchange and any expiry:  *)
(* a request that runs is permitted by the record as it is when it is      *)
(* sent, unless a run of the query and interval has been saved since it    *)
(* looked, or Redis was out of reach (request_handler.py:161-172).         *)
THEOREM AdmittedOnCurrent == Spec => AdmittedOnCurrentRecord
<1> DEFINE Admitted ==
      \A w \in Workers : pc[w] = "guard" /\ pc'[w] = "backend" /\ ~SafeMode =>
        Permitted(req[w].key) \/ req[w].look # "current"
<1>1. Init => LookedInv
  BY ViewInit DEF Init, LookedInv, Looked
<1>2. LookedInv /\ [Next]_vars => LookedInv'
  BY LookedStep
<1>3. LookedInv /\ [Next]_vars => Admitted
  <2> SUFFICES ASSUME LookedInv, [Next]_vars, ~SafeMode, NEW w \in Workers,
                      pc[w] = "guard", pc'[w] = "backend", req[w].look = "current"
               PROVE  Permitted(req[w].key)
    OBVIOUS
  <2>1. TypeOK /\ Threads
    BY DEF LookedInv, ViewInv, TypeInv
  <2> DEFINE k == req[w].key
             query == Shape[k[1]]
  <2>2. Decide(w)
    <3>1. PICK v \in Workers : Moves(v)
      BY <2>1 DEF Next, Moves, Tick, Crash, vars
    <3>2. v = w
      BY <2>1, <3>1, OneThread DEF OthersStay
    <3> QED
      BY <3>1, <3>2
      DEF Moves, Handle, Receive, LoadBlind, SaveSkip, RedisError, Hang, LoadStats,
          BackendReply, BackendTimeout, BackendError, Reply, Stall, SaveBegin,
          CheckQuery, StoreQuery, PushStats, TtlList, ExpireList, CheckFirst, WriteStats,
          TtlHash, ExpireHash, CountTotal, CountTimeout, SaveSteps
  <2>3. IsAllowed(query, req[w].stats) = "ok"
    <3>1. ~Done(w)
      BY <2>1 DEF Done, Goto, TypeOK
    <3>2. IsAllowed(Shape[req[w].key[1]], req[w].stats) = "ok" \/ SafeMode
      BY <2>2, <3>1 DEF Decide, Verdict
    <3> QED
      BY <3>2
  <2>4. Memory[k] \in {Known(req[w].stats), Promise!Blank}
    BY DEF LookedInv, Looked
  <2>5. /\ k \in Key /\ hash[k] \in HashRec
        /\ req[w].stats \in StatsRec /\ (req[w].stats = NoStats \/ req[w].stats.found = TRUE)
    BY <2>1 DEF TypeOK, Request, Threads, Holds
  <2> DEFINE known == Memory[k]
  <2>6. IsAllowed(query, Recorded(known)) = "ok"
    <3>1. CASE known = Known(req[w].stats)
      BY <2>3, <2>5, <3>1, KnownDecides
    <3>2. CASE known = Promise!Blank
      <4>1. IsAllowed(query, NoStats) = "ok"
        BY <2>3, ForgottenIsPermitted
      <4>2. Recorded(known) = [found |-> TRUE, elapsed |-> MaxAge,
                               duration |-> 0, emittedDPs |-> 0]
        BY <3>2 DEF Recorded, Promise!Blank
      <4> QED
        BY <4>1, <4>2, BlankIsPermitted
    <3> QED
      BY <2>4, <3>1, <3>2
  <2>7. known = Known(StatsOf(hash[k]))
    BY <2>5 DEF Memory
  <2>8. StatsOf(hash[k]) \in StatsRec
        /\ (StatsOf(hash[k]) = NoStats \/ StatsOf(hash[k]).found = TRUE)
    BY <2>5, StatsOfType DEF StatsOf
  <2> QED
    BY <2>6, <2>7, <2>8, KnownDecides DEF Permitted
<1> QED
  BY <1>1, <1>2, <1>3, PTL DEF Spec, AdmittedOnCurrentRecord
=============================================================================
