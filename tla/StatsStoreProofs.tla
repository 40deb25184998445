-------------------------- MODULE StatsStoreProofs --------------------------
(***************************************************************************)
(* Theorems about StatsStore, for any number of threads, queries and       *)
(* intervals and any configuration.                                        *)
(***************************************************************************)
EXTENDS StatsStore, TLAPS

USE DEF FaultKinds, StoreAssumption, AgeAssumption,
        ExpireTTL, Unexpiring, AfterTtlList, LoadKey, Verdict, Runs

(* The steps that set a TTL.                                               *)
TtlSteps == {"ttlList", "expireList", "ttlHash", "expireHash"}

(* A thread sets a TTL only when there is one to set, which keeps 0 out of *)
(* the keys' TTLs.                                                         *)
TypeInv ==
  /\ TypeOK
  /\ \A w \in Workers : pc[w] \in TtlSteps => TTL > 0

-----------------------------------------------------------------------------
(* The operators StatsStore is built from                                  *)

(* There is a key, so an idle thread's record is a request.                *)
LEMMA IdleType == Idle \in Request
<1>1. Key # {}
  <2>1. PICK q \in Queries, i \in Intervals : TRUE
    BY StoreAssumption
  <2>2. <<q, i>> \in Key
    BY <2>1 DEF Key
  <2> QED
    BY <2>2
<1>2. (CHOOSE k \in Key : TRUE) \in Key
  BY <1>1
<1>3. NoStats \in StatsRec
  BY AgeAssumption DEF NoStats, StatsRec, Age
<1> QED
  BY <1>2, <1>3, AgeAssumption DEF Idle, Request, Age

(* Time takes an age to an age.                                            *)
LEMMA OlderType == ASSUME NEW a \in Age PROVE Older(a) \in Age
  BY AgeAssumption DEF Older, Age

(* What a guard sees of a record is what the rules take.                   *)
LEMMA StatsOfType ==
  ASSUME NEW h \in HashRec PROVE StatsOf(h) \in StatsRec
<1>1. CASE ~Exists(h)
  BY <1>1, AgeAssumption DEF StatsOf, NoStats, StatsRec, Age
<1>2. CASE Exists(h)
  <2>1. (IF Stamped(h) THEN h.elapsed ELSE MaxAge) \in Age
    BY AgeAssumption DEF Stamped, HashRec, Age
  <2>2. (IF h.duration = Absent THEN 0 ELSE h.duration) \in Age
    BY AgeAssumption DEF HashRec, Age
  <2>3. (IF h.emittedDPs = Absent THEN 0 ELSE h.emittedDPs) \in DPs \cup {0}
    BY DEF HashRec
  <2> QED
    BY <1>2, <2>1, <2>2, <2>3 DEF StatsOf, StatsRec
<1> QED
  BY <1>1, <1>2

(* A request that ends leaves an idle thread.                              *)
LEMMA DoneType ==
  ASSUME TypeOK, NEW w \in Workers, Done(w)
  PROVE  /\ pc' \in [Workers -> Steps \cup {"idle", "hung"}]
         /\ req' \in [Workers -> Request]
         /\ pc' = [pc EXCEPT ![w] = "idle"]
  BY IdleType DEF Done, Goto, TypeOK

(* So does the end of a save, or one that has a reply to give.             *)
LEMMA SavedType ==
  ASSUME TypeOK, NEW w \in Workers, Saved(w)
  PROVE  /\ pc' \in [Workers -> Steps \cup {"idle", "hung"}]
         /\ req' \in [Workers -> Request]
         /\ \E s \in {"idle", "reply"} : pc' = [pc EXCEPT ![w] = s]
<1>1. CASE Done(w)
  BY <1>1, DoneType
<1>2. CASE Return(w)
  <2> DEFINE r == [Idle EXCEPT !.key = req[w].key, !.drift = req[w].drift,
                               !.duration = req[w].duration]
  <2>1. r \in Request
    BY IdleType DEF TypeOK, Request
  <2>2. req' = [req EXCEPT ![w] = r] /\ pc' = [pc EXCEPT ![w] = "reply"]
    BY <1>2 DEF Return, Goto
  <2> HIDE DEF r
  <2> QED
    BY <2>1, <2>2 DEF TypeOK, Steps
<1> QED
  BY <1>1, <1>2 DEF Saved

LEMMA KeyType ==
  ASSUME TypeOK, NEW w \in Workers PROVE req[w].key \in Key /\ req[w].key[1] \in Queries
  BY DEF TypeOK, Request, Key

(* What a step of thread w leaves alone of the others: all but what HMSET  *)
(* makes of their looks.                                                   *)
OthersStay(w) ==
  \A v \in Workers \ {w} :
    /\ pc'[v] = pc[v] /\ req'[v].key = req[v].key
    /\ req'[v].first = req[v].first /\ req'[v].timeout = req[v].timeout

Moves(w) ==
  \/ Receive(w) \/ Handle(w) \/ Stall(w)
  \/ LoadBlind(w) \/ SaveSkip(w) \/ RedisError(w) \/ Hang(w)

LEMMA OneThread ==
  ASSUME TypeOK, NEW w \in Workers, Moves(w)
  PROVE  OthersStay(w)
<1>1. CASE WriteStats(w)
  <2> SUFFICES ASSUME NEW v \in Workers \ {w}
               PROVE  /\ pc'[v] = pc[v] /\ req'[v].key = req[v].key
                      /\ req'[v].first = req[v].first /\ req'[v].timeout = req[v].timeout
    BY DEF OthersStay
  <2>1. req[v] \in Request
    BY DEF TypeOK
  <2>2. req'[v] = req[v] \/ req'[v] = [req[v] EXCEPT !.look = "overtaken"]
    BY <1>1 DEF WriteStats
  <2>3. pc'[v] = pc[v]
    BY <1>1 DEF WriteStats, Goto, TypeOK
  <2> QED
    BY <2>1, <2>2, <2>3 DEF Request
<1>2. CASE \/ Receive(w) \/ LoadStats(w) \/ Decide(w) \/ BackendReply(w) \/ BackendTimeout(w)
           \/ BackendError(w) \/ Reply(w) \/ Stall(w) \/ LoadBlind(w) \/ SaveSkip(w)
           \/ RedisError(w) \/ Hang(w) \/ SaveBegin(w)
  BY <1>2 DEF Receive, LoadStats, Decide, BackendReply, BackendTimeout, BackendError, Reply,
              Stall, LoadBlind, SaveSkip, RedisError, Hang, SaveBegin, Saved, Return, Done,
              Goto, TypeOK, OthersStay
<1>3. CASE \/ CheckQuery(w) \/ StoreQuery(w) \/ PushStats(w) \/ TtlList(w) \/ ExpireList(w)
           \/ CheckFirst(w) \/ TtlHash(w) \/ ExpireHash(w) \/ CountTotal(w) \/ CountTimeout(w)
  BY <1>3 DEF CheckQuery, StoreQuery, PushStats, TtlList, ExpireList, CheckFirst, TtlHash,
              ExpireHash, CountTotal, CountTimeout, Return, Done, Goto, TypeOK, OthersStay
<1> QED
  BY <1>1, <1>2, <1>3 DEF Moves, Handle

-----------------------------------------------------------------------------
(* Type correctness                                                        *)

LEMMA TypeInit == Init => TypeInv
<1> SUFFICES ASSUME Init PROVE TypeInv
  OBVIOUS
<1>1. NoHash \in HashRec
  BY DEF NoHash, HashRec, TTLs
<1>2. NoList \in [len : Nat, ttl : TTLs]
  BY DEF NoList, TTLs
<1> QED
  BY <1>1, <1>2, IdleType DEF Init, TypeInv, TypeOK, TtlSteps

LEMMA TypeStep == TypeInv /\ [Next]_vars => TypeInv'
<1> SUFFICES ASSUME TypeInv, [Next]_vars PROVE TypeInv'
  OBVIOUS
<1> USE DEF TypeInv, TypeOK, TtlSteps, Steps, SaveSteps, redis
<1>1. CASE Tick
  <2>1. hash' \in [Key -> HashRec]
    <3> SUFFICES ASSUME NEW k \in Key
                 PROVE  (IF hash[k].ttl = 1 THEN NoHash
                         ELSE [hash[k] EXCEPT
                                 !.elapsed = IF @ = Absent THEN @ ELSE Older(@),
                                 !.ttl = Left(@)]) \in HashRec
      BY <1>1 DEF Tick
    <3>1. hash[k] \in HashRec
      OBVIOUS
    <3>2. NoHash \in HashRec
      BY DEF NoHash, HashRec, TTLs
    <3>3. (IF hash[k].elapsed = Absent THEN Absent ELSE Older(hash[k].elapsed))
             \in Age \cup {Absent}
      BY <3>1, OlderType DEF HashRec
    <3>4. hash[k].ttl # 1 => Left(hash[k].ttl) \in TTLs
      BY <3>1, StoreAssumption DEF HashRec, TTLs, Left, NoTTL
    <3> QED
      BY <3>1, <3>2, <3>3, <3>4 DEF HashRec
  <2>2. list' \in [Queries -> [len : Nat, ttl : TTLs]]
    <3>1. ASSUME NEW t \in TTLs, t # 1 PROVE Left(t) \in TTLs
      BY <3>1, StoreAssumption DEF TTLs, Left, NoTTL
    <3>2. NoTTL \in TTLs
      BY DEF TTLs
    <3> QED
      BY <1>1, <3>1, <3>2 DEF Tick, NoList
  <2>3. doc' \in [Queries -> {Absent} \cup TTLs]
    <3> SUFFICES ASSUME NEW q \in Queries PROVE doc'[q] \in {Absent} \cup TTLs
      BY <1>1 DEF Tick
    <3>1. doc[q] \in {Absent} \cup TTLs
      OBVIOUS
    <3>2. doc'[q] = CASE doc[q] \in {Absent, NoTTL} -> doc[q]
                      [] doc[q] = 1                 -> Absent
                      [] OTHER                      -> doc[q] - 1
      BY <1>1 DEF Tick
    <3>3. CASE doc[q] \in {Absent, NoTTL}
      BY <3>1, <3>2, <3>3
    <3>4. CASE doc[q] = 1
      BY <3>2, <3>4 DEF Absent, NoTTL
    <3>5. CASE doc[q] \notin {Absent, NoTTL, 1}
      BY <3>1, <3>2, <3>5, StoreAssumption DEF TTLs
    <3> QED
      BY <3>3, <3>4, <3>5
  <2>4. req' \in [Workers -> Request]
    <3> SUFFICES ASSUME NEW w \in Workers
                 PROVE  [req[w] EXCEPT
                           !.clock = IF pc[w] \in Timed THEN Older(@) ELSE @,
                           !.stats.elapsed =
                              IF req[w].stats.found THEN Older(@) ELSE @]
                        \in Request
      BY <1>1 DEF Tick
    <3>1. req[w] \in Request
      OBVIOUS
    <3>2. /\ Older(req[w].clock) \in Age
          /\ Older(req[w].stats.elapsed) \in Age
      BY <3>1, OlderType DEF Request, StatsRec
    <3> QED
      BY <3>1, <3>2 DEF Request, StatsRec
  <2> QED
    BY <1>1, <2>1, <2>2, <2>3, <2>4 DEF Tick
<1>2. CASE Crash
  BY <1>2, IdleType, KeyType DEF Crash
<1>3. ASSUME NEW w \in Workers, Receive(w) PROVE TypeInv'
  <2>1. PICK k \in Key, drift \in Drifts :
          req' = [req EXCEPT ![w].key = k, ![w].drift = drift]
    BY <1>3 DEF Receive
  <2>2. req' \in [Workers -> Request]
    <3>1. req[w] \in Request
      OBVIOUS
    <3>2. [req[w] EXCEPT !.key = k, !.drift = drift] \in Request
      BY <3>1, StoreAssumption DEF Request
    <3> QED
      BY <2>1, <3>2
  <2> QED
    BY <1>3, <2>2 DEF Receive, Goto
<1>4. ASSUME NEW w \in Workers, LoadStats(w) PROVE TypeInv'
  <2>1. req[w] \in Request /\ req[w].key \in Key
    BY DEF Request
  <2>2. StatsOf(hash[req[w].key]) \in StatsRec
    BY <2>1, StatsOfType
  <2>3. [req[w] EXCEPT !.stats = StatsOf(hash[req[w].key]), !.look = "current"] \in Request
    BY <2>1, <2>2 DEF Request
  <2> QED
    BY <1>4, <2>3 DEF LoadStats, Goto
<1>5. ASSUME NEW w \in Workers, LoadBlind(w) PROVE TypeInv'
  <2>1. req[w] \in Request
    OBVIOUS
  <2>2. [req[w] EXCEPT !.look = "unreachable"] \in Request
    BY <2>1 DEF Request
  <2> QED
    BY <1>5, <2>2 DEF LoadBlind, Goto
<1>6. ASSUME NEW w \in Workers, Decide(w) PROVE TypeInv'
  <2>1. NoStats \in StatsRec /\ 0 \in Age
    BY AgeAssumption DEF NoStats, StatsRec, Age
  <2>2. req[w] \in Request
    OBVIOUS
  <2>3. [req[w] EXCEPT !.stats = NoStats, !.look = "none", !.clock = 0] \in Request
    BY <2>1, <2>2 DEF Request
  <2>4. CASE IsAllowed(Shape[req[w].key[1]], req[w].stats) = "ok" \/ SafeMode
    BY <1>6, <2>3, <2>4 DEF Decide, Goto
  <2>5. CASE ~(IsAllowed(Shape[req[w].key[1]], req[w].stats) = "ok" \/ SafeMode)
    BY <1>6, <2>5, DoneType DEF Decide
  <2> QED
    BY <2>4, <2>5
<1>7. ASSUME NEW w \in Workers, BackendReply(w) PROVE TypeInv'
  <2>1. PICK dps \in DPs :
          req' = [req EXCEPT ![w].duration = req[w].clock, ![w].emittedDPs = dps]
    BY <1>7 DEF BackendReply
  <2>2. req[w] \in Request
    OBVIOUS
  <2>3. [req[w] EXCEPT !.duration = req[w].clock, !.emittedDPs = dps] \in Request
    BY <2>2 DEF Request
  <2> QED
    BY <1>7, <2>1, <2>3 DEF BackendReply, Goto
<1>8. ASSUME NEW w \in Workers, BackendTimeout(w) PROVE TypeInv'
  <2>1. req[w] \in Request
    OBVIOUS
  <2>2. [req[w] EXCEPT !.duration = req[w].clock, !.timeout = TRUE] \in Request
    BY <2>1 DEF Request
  <2> QED
    BY <1>8, <2>2 DEF BackendTimeout, Goto
<1>9. ASSUME NEW w \in Workers, BackendError(w) PROVE TypeInv'
  <2>1. CASE Done(w)
    BY <1>9, <2>1, DoneType DEF BackendError
  <2>2. CASE req' = [req EXCEPT ![w].duration = req[w].clock, ![w].clock = 0] /\ Goto(w, "reply")
    <3>1. req[w] \in Request /\ 0 \in Age
      BY AgeAssumption DEF Age
    <3>2. [req[w] EXCEPT !.duration = req[w].clock, !.clock = 0] \in Request
      BY <3>1 DEF Request
    <3> QED
      BY <1>9, <2>2, <3>2 DEF BackendError, Goto
  <2> QED
    BY <1>9, <2>1, <2>2 DEF BackendError
<1>10. ASSUME NEW w \in Workers, SaveBegin(w) PROVE TypeInv'
  <2>1. PICK i \in Intervals :
          req' = [req EXCEPT ![w].key = <<req[w].key[1], i>>, ![w].clock = 0]
    BY <1>10 DEF SaveBegin
  <2>2. req[w] \in Request
    OBVIOUS
  <2>3. <<req[w].key[1], i>> \in Key
    BY <2>2 DEF Request, Key
  <2>4. 0 \in Age
    BY AgeAssumption DEF Age
  <2>5. [req[w] EXCEPT !.key = <<req[w].key[1], i>>, !.clock = 0] \in Request
    BY <2>2, <2>3, <2>4 DEF Request
  <2> QED
    BY <1>10, <2>1, <2>5 DEF SaveBegin, Goto
<1>11. ASSUME NEW w \in Workers, SaveSkip(w) PROVE TypeInv'
  BY <1>11, SavedType DEF SaveSkip
<1>12. ASSUME NEW w \in Workers, CheckQuery(w) PROVE TypeInv'
  BY <1>12 DEF CheckQuery, Goto
<1>13. ASSUME NEW w \in Workers, StoreQuery(w) PROVE TypeInv'
  <2>1. (IF TTL = 0 THEN NoTTL ELSE TTL) \in TTLs
    BY StoreAssumption DEF TTLs
  <2> QED
    BY <1>13, <2>1 DEF StoreQuery, Goto
<1>14. ASSUME NEW w \in Workers, PushStats(w) PROVE TypeInv'
  <2>1. req[w].key[1] \in Queries
    BY DEF Request, Key
  <2>2. [list[req[w].key[1]] EXCEPT !.len = @ + 1] \in [len : Nat, ttl : TTLs]
    BY <2>1
  <2>3. TTL > 0 \/ ~(TTL > 0)
    OBVIOUS
  <2> QED
    BY <1>14, <2>2, <2>3 DEF PushStats, Goto
<1>15. ASSUME NEW w \in Workers, TtlList(w) PROVE TypeInv'
  BY <1>15 DEF TtlList, Goto
<1>16. ASSUME NEW w \in Workers, ExpireList(w) PROVE TypeInv'
  <2>1. TTL \in TTLs
    BY <1>16, StoreAssumption DEF ExpireList, TTLs
  <2> QED
    BY <1>16, <2>1 DEF ExpireList, Goto
<1>17. ASSUME NEW w \in Workers, CheckFirst(w) PROVE TypeInv'
  <2>1. req[w] \in Request
    OBVIOUS
  <2>2. [req[w] EXCEPT !.first = ~hash[req[w].key].first] \in Request
    BY <2>1 DEF Request
  <2> QED
    BY <1>17, <2>2 DEF CheckFirst, Goto
<1>18. ASSUME NEW w \in Workers, WriteStats(w) PROVE TypeInv'
  <2>1. req[w] \in Request
    OBVIOUS
  <2>2. hash[req[w].key] \in HashRec
    BY <2>1 DEF Request
  <2>3. (hash[req[w].key].first \/ req[w].first) \in BOOLEAN
    BY Zenon
  <2>4. Overwritten(hash[req[w].key], req[w]) \in HashRec
    BY <2>1, <2>2, <2>3 DEF Overwritten, HashRec, Request
  <2>5. hash' \in [Key -> HashRec]
    BY <1>18, <2>4 DEF WriteStats
  <2>6. ASSUME NEW v \in Workers PROVE [req[v] EXCEPT !.look = "overtaken"] \in Request
    <3>1. req[v] \in Request
      OBVIOUS
    <3> QED
      BY <3>1 DEF Request
  <2>7. req' \in [Workers -> Request]
    BY <1>18, <2>6 DEF WriteStats
  <2> QED
    BY <1>18, <2>5, <2>7 DEF WriteStats, Goto
<1>19. ASSUME NEW w \in Workers, TtlHash(w) PROVE TypeInv'
  BY <1>19 DEF TtlHash, Goto
<1>20. ASSUME NEW w \in Workers, ExpireHash(w) PROVE TypeInv'
  <2>1. hash[req[w].key] \in HashRec
    BY DEF Request
  <2>2. TTL \in TTLs
    BY <1>20, StoreAssumption DEF ExpireHash, TTLs
  <2>3. [hash[req[w].key] EXCEPT !.ttl = TTL] \in HashRec
    BY <2>1, <2>2 DEF HashRec
  <2> QED
    BY <1>20, <2>3 DEF ExpireHash, Goto
<1>21. ASSUME NEW w \in Workers, CountTotal(w) PROVE TypeInv'
  <2>1. hash[req[w].key] \in HashRec
    BY DEF Request
  <2>2. [hash[req[w].key] EXCEPT !.total = @ + 1] \in HashRec
    BY <2>1 DEF HashRec
  <2>3. hash' \in [Key -> HashRec]
    BY <1>21, <2>2 DEF CountTotal
  <2>4. CASE req[w].timeout
    BY <1>21, <2>3, <2>4 DEF CountTotal, Goto
  <2>5. CASE ~req[w].timeout
    <3>1. Saved(w)
      BY <1>21, <2>5 DEF CountTotal, Saved
    <3> QED
      BY <1>21, <2>3, <3>1, SavedType DEF CountTotal
  <2> QED
    BY <2>4, <2>5
<1>22. ASSUME NEW w \in Workers, CountTimeout(w) PROVE TypeInv'
  <2>1. hash[req[w].key] \in HashRec
    BY DEF Request
  <2>2. [hash[req[w].key] EXCEPT !.timeouts = @ + 1] \in HashRec
    BY <2>1 DEF HashRec
  <2> QED
    BY <1>22, <2>2, DoneType DEF CountTimeout
<1>23. ASSUME NEW w \in Workers, RedisError(w) PROVE TypeInv'
  BY <1>23, DoneType, SavedType, KeyType DEF RedisError
<1>24. CASE UNCHANGED vars
  BY <1>24 DEF vars
<1>25. ASSUME NEW w \in Workers, Reply(w) PROVE TypeInv'
  BY <1>25, DoneType DEF Reply
<1>26. ASSUME NEW w \in Workers, Stall(w) PROVE TypeInv'
  <2>1. PICK d \in 0 .. Longest :
          req' = [req EXCEPT ![w].duration = d, ![w].timeout = TRUE]
    BY <1>26 DEF Stall
  <2>2. req[w] \in Request /\ d \in Age
    BY AgeAssumption, StoreAssumption DEF Age
  <2>3. [req[w] EXCEPT !.duration = d, !.timeout = TRUE] \in Request
    BY <2>2 DEF Request
  <2> QED
    BY <1>26, <2>1, <2>3 DEF Stall, Goto
<1>27. ASSUME NEW w \in Workers, Hang(w) PROVE TypeInv'
  BY <1>27, IdleType, KeyType DEF Hang, Goto
<1> QED
  BY <1>1, <1>2, <1>3, <1>4, <1>5, <1>6, <1>7, <1>8, <1>9, <1>10, <1>11,
     <1>12, <1>13, <1>14, <1>15, <1>16, <1>17, <1>18, <1>19, <1>20, <1>21,
     <1>22, <1>23, <1>24, <1>25, <1>26, <1>27 DEF Next, Handle

(* Type correctness: ages and durations stay within MaxAge, a TTL is never *)
(* 0 or beyond db.expire, and the counters are natural numbers.            *)
THEOREM TypeCorrect == Spec => []TypeOK
<1>1. Spec => []TypeInv
  BY TypeInit, TypeStep, PTL DEF Spec
<1>2. TypeInv => TypeOK
  BY DEF TypeInv
<1> QED
  BY <1>1, <1>2, PTL

-----------------------------------------------------------------------------
(* First occurrences                                                       *)

(* Inductive: a thread between HEXISTS and HMSET carries the field unless  *)
(* the hash has it, and no hash loses it, as none expires.                 *)
FirstInv ==
  TTL = 0 =>
    /\ \A k \in Key : Stamped(hash[k]) => hash[k].first
    /\ \A w \in Workers :
         pc[w] = "hmset" => req[w].first \/ hash[req[w].key].first

LEMMA FirstInit == Init => FirstInv
  BY DEF Init, FirstInv, NoHash, Stamped

(* One thread moves, no hash loses its first_occurrence or gets a record,  *)
(* and the thread does not come to HMSET.                                  *)
LEMMA FirstFrame ==
  ASSUME TypeOK, TypeOK', FirstInv, NEW w \in Workers, OthersStay(w), pc'[w] # "hmset",
         \A k \in Key : /\ Stamped(hash[k])' => Stamped(hash[k])
                        /\ hash[k].first => hash'[k].first
  PROVE  FirstInv'
<1> SUFFICES ASSUME TTL = 0 PROVE FirstInv'
  BY DEF FirstInv
<1>1. \A k \in Key : Stamped(hash[k])' => hash'[k].first
  BY DEF FirstInv
<1>2. ASSUME NEW v \in Workers, pc'[v] = "hmset"
      PROVE  req'[v].first \/ hash'[req'[v].key].first
  <2>1. pc[v] = "hmset" /\ req'[v].first = req[v].first /\ req'[v].key = req[v].key
    BY <1>2 DEF OthersStay
  <2>2. req[v].key \in Key
    BY DEF TypeOK, Request
  <2> QED
    BY <2>1, <2>2 DEF FirstInv
<1> QED
  BY <1>1, <1>2 DEF FirstInv

LEMMA FirstStep == TypeInv /\ TypeInv' /\ FirstInv /\ [Next]_vars => FirstInv'
<1> SUFFICES ASSUME TypeInv, TypeInv', FirstInv, [Next]_vars, TTL = 0
             PROVE  FirstInv'
  BY DEF FirstInv
<1>0. TypeOK /\ TypeOK'
  BY DEF TypeInv
<1>1. CASE Tick
  <2>1. ASSUME NEW k \in Key
        PROVE  /\ Stamped(hash[k])' => Stamped(hash[k])
               /\ hash'[k].first = hash[k].first
    <3>1. hash[k] \in HashRec /\ hash[k].ttl # 1
      BY <1>0 DEF TypeOK, HashRec, TTLs, NoTTL
    <3>2. hash'[k] = [hash[k] EXCEPT
                        !.elapsed = IF @ = Absent THEN @ ELSE Older(@),
                        !.ttl = Left(@)]
      BY <1>1, <3>1 DEF Tick
    <3> QED
      BY <3>1, <3>2 DEF Stamped, HashRec
  <2>2. ASSUME NEW w \in Workers
        PROVE  /\ pc'[w] = pc[w] /\ req[w].key \in Key
               /\ req'[w].key = req[w].key /\ req'[w].first = req[w].first
    BY <1>0, <1>1 DEF Tick, TypeOK, Request
  <2> QED
    BY <2>1, <2>2 DEF FirstInv
<1>2. CASE Crash
  BY <1>2 DEF Crash, FirstInv, redis
<1>3. ASSUME NEW w \in Workers, CheckFirst(w) PROVE FirstInv'
  <2>1. /\ req' = [req EXCEPT ![w].first = ~hash[req[w].key].first]
        /\ pc' = [pc EXCEPT ![w] = "hmset"] /\ hash' = hash
    BY <1>3 DEF CheckFirst, Goto, redis
  <2>2. ASSUME NEW v \in Workers, v # w
        PROVE  pc'[v] = pc[v] /\ req'[v] = req[v]
    BY <1>0, <2>1, <2>2 DEF TypeOK
  <2>3. req'[w].key = req[w].key /\ req'[w].first = ~hash[req[w].key].first
    BY <1>0, <2>1 DEF TypeOK, Request
  <2> QED
    BY <2>1, <2>2, <2>3 DEF FirstInv
<1>4. ASSUME NEW w \in Workers, WriteStats(w) PROVE FirstInv'
  <2> DEFINE k == req[w].key
  <2>1. /\ k \in Key /\ hash[k] \in HashRec /\ pc[w] = "hmset"
        /\ hash' = [hash EXCEPT ![k] = Overwritten(@, req[w])]
    BY <1>0, <1>4 DEF WriteStats, TypeOK, Request
  <2>2. hash'[k].first = (hash[k].first \/ req[w].first)
    BY <1>0, <2>1 DEF Overwritten, HashRec, TypeOK
  <2>3. hash'[k].first
    BY <2>1, <2>2 DEF FirstInv
  <2>4. \A j \in Key : j # k => hash'[j] = hash[j]
    BY <1>0, <2>1 DEF TypeOK
  <2>5. OthersStay(w) /\ pc'[w] # "hmset"
    BY <1>0, <1>4, OneThread DEF Moves, Handle, WriteStats, Goto, TypeOK
  <2>6. \A v \in Workers : req[v].key \in Key
    BY <1>0 DEF TypeOK, Request
  <2> QED
    BY <2>1, <2>3, <2>4, <2>5, <2>6 DEF FirstInv, Stamped, OthersStay
<1>5. ASSUME NEW w \in Workers,
             \/ Receive(w) \/ LoadStats(w) \/ LoadBlind(w) \/ Decide(w)
             \/ BackendReply(w) \/ BackendTimeout(w) \/ BackendError(w) \/ Reply(w)
             \/ Stall(w) \/ SaveBegin(w) \/ SaveSkip(w) \/ CheckQuery(w) \/ StoreQuery(w)
             \/ PushStats(w) \/ RedisError(w) \/ Hang(w)
      PROVE  FirstInv'
  <2>1. pc'[w] # "hmset"
    BY <1>0, <1>5 DEF Receive, LoadStats, LoadBlind, Decide, BackendReply, BackendTimeout,
       BackendError, Reply, Stall, SaveBegin, SaveSkip, CheckQuery, StoreQuery, PushStats,
       RedisError, Hang, Saved, Return, Goto, Done, TypeOK
  <2>2. hash' = hash
    BY <1>5 DEF Receive, LoadStats, LoadBlind, Decide, BackendReply, BackendTimeout,
       BackendError, Reply, Stall, SaveBegin, SaveSkip, CheckQuery, StoreQuery, PushStats,
       RedisError, Hang, redis
  <2>3. OthersStay(w)
    BY <1>0, <1>5, OneThread DEF Moves, Handle
  <2> QED
    BY <1>0, <2>1, <2>2, <2>3, FirstFrame DEF Stamped
<1>6. ASSUME NEW w \in Workers,
             TtlList(w) \/ ExpireList(w) \/ TtlHash(w) \/ ExpireHash(w)
      PROVE  FirstInv'
  BY <1>0, <1>6 DEF TypeInv, TtlSteps, TtlList, ExpireList, TtlHash, ExpireHash
<1>7. ASSUME NEW w \in Workers, CountTotal(w) \/ CountTimeout(w)
      PROVE  FirstInv'
  <2>1. pc'[w] # "hmset" /\ OthersStay(w)
    BY <1>0, <1>7, OneThread
    DEF Moves, Handle, CountTotal, CountTimeout, Return, Goto, Done, TypeOK
  <2>2. ASSUME NEW k \in Key
        PROVE  hash'[k].elapsed = hash[k].elapsed /\ hash'[k].first = hash[k].first
    BY <1>0, <1>7 DEF CountTotal, CountTimeout, TypeOK, HashRec
  <2> QED
    BY <1>0, <2>1, <2>2, FirstFrame DEF Stamped
<1>8. CASE UNCHANGED vars
  BY <1>8 DEF vars, FirstInv
<1> QED
  BY <1>1, <1>2, <1>3, <1>4, <1>5, <1>6, <1>7, <1>8 DEF Next, Handle

(* With statistics kept for ever every record has its first_occurrence,    *)
(* however many threads save at once and whatever fails                    *)
(* (protector_main.py:207-210).                                            *)
THEOREM FirstOccurrence == Spec => []FirstOccurrenceKept
<1>1. Init => TypeInv /\ FirstInv
  BY TypeInit, FirstInit
<1>2. TypeInv /\ FirstInv /\ [Next]_vars => (TypeInv /\ FirstInv)'
  BY TypeStep, FirstStep
<1>3. FirstInv => FirstOccurrenceKept
  BY DEF FirstInv, FirstOccurrenceKept
<1> QED
  BY <1>1, <1>2, <1>3, PTL DEF Spec

-----------------------------------------------------------------------------
(* Expiry                                                                  *)

(* A thread that is not about to set a TTL may go anywhere as long as it   *)
(* does not touch the data, and so may one whose save is cut short.        *)
LEMMA HashesFrame ==
  ASSUME HashesExpire, NEW w \in Workers, OthersStay(w), hash' = hash, torn \subseteq torn',
         pc[w] \notin {"ttlHash", "expireHash"} \/ req[w].key[1] \in torn'
  PROVE  HashesExpire'
<1> SUFFICES ASSUME NEW k \in Key, Stamped(hash[k])', hash'[k].ttl = NoTTL, k[1] \notin torn'
             PROVE  \E v \in Workers : req'[v].key = k /\ pc'[v] \in {"ttlHash", "expireHash"}
  BY DEF HashesExpire
<1>1. PICK v \in Workers : req[v].key = k /\ pc[v] \in {"ttlHash", "expireHash"}
  BY DEF HashesExpire, Stamped
<1>2. v # w
  BY <1>1
<1> QED
  BY <1>1, <1>2 DEF OthersStay

LEMMA ListsFrame ==
  ASSUME ListsExpire, NEW w \in Workers, OthersStay(w), list' = list, torn \subseteq torn',
         pc[w] \notin {"ttlList", "expireList"} \/ req[w].key[1] \in torn'
  PROVE  ListsExpire'
<1> SUFFICES ASSUME NEW q \in Queries \ torn', list'[q].len > 0, list'[q].ttl = NoTTL
             PROVE  \E v \in Workers : req'[v].key[1] = q /\ pc'[v] \in {"ttlList", "expireList"}
  BY DEF ListsExpire
<1>1. PICK v \in Workers : req[v].key[1] = q /\ pc[v] \in {"ttlList", "expireList"}
  BY DEF ListsExpire
<1>2. v # w
  BY <1>1
<1> QED
  BY <1>1, <1>2 DEF OthersStay

LEMMA ExpiryInit == Init => HashesExpire /\ ListsExpire /\ DocsExpire
  BY DEF Init, NoHash, NoList, Stamped, HashesExpire, ListsExpire, DocsExpire,
     Absent, NoTTL

LEMMA ExpiryStep ==
  ASSUME TypeInv, TypeInv', TTL > 0,
         HashesExpire, ListsExpire, DocsExpire, [Next]_vars
  PROVE  HashesExpire' /\ ListsExpire' /\ DocsExpire'
<1>0. TypeOK /\ TypeOK'
  BY DEF TypeInv
<1>1. CASE Tick
  <2>1. ASSUME NEW w \in Workers
        PROVE  pc'[w] = pc[w] /\ req'[w].key = req[w].key
    BY <1>0, <1>1 DEF Tick, TypeOK, Request
  <2>6. torn' = torn
    BY <1>1 DEF Tick
  <2>2. ASSUME NEW t \in TTLs PROVE Left(t) = NoTTL => t = NoTTL
    BY StoreAssumption DEF TTLs, Left, NoTTL
  <2>3. HashesExpire'
    <3>1. ASSUME NEW k \in Key, Stamped(hash[k])', hash'[k].ttl = NoTTL
          PROVE  Stamped(hash[k]) /\ hash[k].ttl = NoTTL
      <4>1. hash[k] \in HashRec
        BY <1>0 DEF TypeOK
      <4>2. hash[k].ttl # 1
        BY <1>1, <3>1 DEF Tick, NoHash, Stamped
      <4>3. hash'[k] = [hash[k] EXCEPT
                          !.elapsed = IF @ = Absent THEN @ ELSE Older(@),
                          !.ttl = Left(@)]
        BY <1>1, <4>2 DEF Tick
      <4>4. Left(hash[k].ttl) = NoTTL
        BY <3>1, <4>1, <4>3 DEF HashRec
      <4> QED
        BY <2>2, <3>1, <4>1, <4>3, <4>4 DEF HashRec, Stamped
    <3> QED
      BY <2>1, <2>6, <3>1 DEF HashesExpire
  <2>4. ListsExpire'
    <3>1. ASSUME NEW q \in Queries, list'[q].len > 0, list'[q].ttl = NoTTL
          PROVE  list[q].len > 0 /\ list[q].ttl = NoTTL
      <4>1. list[q] \in [len : Nat, ttl : TTLs]
        BY <1>0 DEF TypeOK
      <4>2. list[q].ttl # 1
        <5>1. list[q].ttl = 1 => list'[q] = NoList
          BY <1>1 DEF Tick
        <5>2. NoList.len = 0
          BY DEF NoList
        <5> QED
          BY <3>1, <5>1, <5>2
      <4>3. list'[q] = [list[q] EXCEPT !.ttl = Left(@)]
        BY <1>1, <4>2 DEF Tick
      <4> QED
        BY <2>2, <3>1, <4>1, <4>3
    <3> QED
      BY <2>1, <2>6, <3>1 DEF ListsExpire
  <2>5. DocsExpire'
    <3> SUFFICES ASSUME NEW q \in Queries PROVE doc'[q] # NoTTL
      BY DEF DocsExpire
    <3>1. doc[q] \in {Absent} \cup 1 .. TTL
      BY <1>0 DEF TypeOK, DocsExpire, TTLs
    <3>2. doc'[q] = CASE doc[q] \in {Absent, NoTTL} -> doc[q]
                      [] doc[q] = 1                 -> Absent
                      [] OTHER                      -> doc[q] - 1
      BY <1>1 DEF Tick
    <3>3. CASE doc[q] = Absent
      BY <3>2, <3>3 DEF Absent, NoTTL
    <3>4. CASE doc[q] = 1
      BY <3>2, <3>4 DEF Absent, NoTTL
    <3>5. CASE doc[q] \in 2 .. TTL
      BY <3>2, <3>5, StoreAssumption DEF Absent, NoTTL
    <3> QED
      BY <3>1, <3>3, <3>4, <3>5, StoreAssumption
  <2> QED
    BY <2>3, <2>4, <2>5
<1>2. ASSUME NEW w \in Workers,
             \/ Receive(w) \/ LoadStats(w) \/ LoadBlind(w) \/ Decide(w)
             \/ BackendReply(w) \/ BackendTimeout(w) \/ BackendError(w) \/ Reply(w)
             \/ Stall(w) \/ SaveBegin(w) \/ SaveSkip(w) \/ CheckQuery(w) \/ CheckFirst(w)
             \/ RedisError(w) \/ Hang(w)
      PROVE  HashesExpire' /\ ListsExpire' /\ DocsExpire'
  <2>1. /\ hash' = hash /\ list' = list /\ doc' = doc /\ torn \subseteq torn'
        /\ pc[w] \notin TtlSteps \/ req[w].key[1] \in torn'
    BY <1>2 DEF Receive, LoadStats, LoadBlind, Decide, BackendReply, BackendTimeout,
       BackendError, Reply, Stall, SaveBegin, SaveSkip, CheckQuery, CheckFirst, RedisError,
       Hang, redis, TtlSteps, SaveSteps
  <2>2. OthersStay(w)
    BY <1>0, <1>2, OneThread DEF Moves, Handle
  <2> QED
    BY <2>1, <2>2, HashesFrame, ListsFrame DEF DocsExpire, TtlSteps
<1>3. ASSUME NEW w \in Workers, StoreQuery(w)
      PROVE  HashesExpire' /\ ListsExpire' /\ DocsExpire'
  <2>1. /\ OthersStay(w) /\ hash' = hash /\ list' = list /\ torn' = torn
        /\ pc[w] = "setDoc"
    BY <1>0, <1>3, OneThread DEF Moves, Handle, StoreQuery
  <2>2. DocsExpire'
    BY <1>0, <1>3, StoreAssumption DEF StoreQuery, TypeOK, DocsExpire, NoTTL
  <2> QED
    BY <2>1, <2>2, HashesFrame, ListsFrame
<1>4. ASSUME NEW w \in Workers, PushStats(w)
      PROVE  HashesExpire' /\ ListsExpire' /\ DocsExpire'
  <2>1. /\ OthersStay(w) /\ torn' = torn /\ req' = req /\ hash' = hash /\ doc' = doc /\ pc[w] = "rpush"
        /\ pc'[w] = "ttlList"
    BY <1>0, <1>4, OneThread DEF Moves, Handle, PushStats, Goto, TypeOK, redis
  <2>2. \A q \in Queries : q # req[w].key[1] => list'[q] = list[q]
    BY <1>0, <1>4 DEF PushStats, TypeOK
  <2>3. ListsExpire'
    BY <2>1, <2>2 DEF ListsExpire, OthersStay
  <2> QED
    BY <2>1, <2>3, HashesFrame DEF DocsExpire
<1>5. ASSUME NEW w \in Workers, TtlList(w)
      PROVE  HashesExpire' /\ ListsExpire' /\ DocsExpire'
  <2>1. /\ OthersStay(w) /\ torn' = torn /\ req' = req /\ hash' = hash /\ doc' = doc /\ list' = list
        /\ pc[w] = "ttlList"
    BY <1>0, <1>5, OneThread DEF Moves, Handle, TtlList, Goto, TypeOK, redis
  <2>2. list[req[w].key[1]].len > 0 /\ list[req[w].key[1]].ttl = NoTTL
          => pc'[w] = "expireList"
    BY <1>0, <1>5 DEF TtlList, Goto, TypeOK
  <2>3. ListsExpire'
    BY <2>1, <2>2 DEF ListsExpire, OthersStay
  <2> QED
    BY <2>1, <2>3, HashesFrame DEF DocsExpire
<1>6. ASSUME NEW w \in Workers, ExpireList(w)
      PROVE  HashesExpire' /\ ListsExpire' /\ DocsExpire'
  <2> DEFINE q == req[w].key[1]
  <2>1. /\ OthersStay(w) /\ torn' = torn /\ req' = req /\ hash' = hash /\ doc' = doc
        /\ pc[w] = "expireList"
    BY <1>0, <1>6, OneThread DEF Moves, Handle, ExpireList, Goto, TypeOK, redis
  <2>2. q \in Queries /\ list[q] \in [len : Nat, ttl : TTLs]
    BY <1>0 DEF TypeOK, Request, Key
  <2>3. list'[q].len = 0 \/ list'[q].ttl # NoTTL
    BY <1>0, <1>6, <2>2, StoreAssumption DEF ExpireList, TypeOK, NoTTL
  <2>4. \A p \in Queries : p # q => list'[p] = list[p]
    BY <1>0, <1>6, <2>2 DEF ExpireList, TypeOK
  <2>5. ListsExpire'
    BY <2>1, <2>2, <2>3, <2>4 DEF ListsExpire, OthersStay
  <2> QED
    BY <2>1, <2>5, HashesFrame DEF DocsExpire
<1>7. ASSUME NEW w \in Workers, WriteStats(w)
      PROVE  HashesExpire' /\ ListsExpire' /\ DocsExpire'
  <2>1. /\ OthersStay(w) /\ torn' = torn /\ list' = list /\ doc' = doc
        /\ pc[w] = "hmset" /\ pc'[w] = "ttlHash"
    BY <1>0, <1>7, OneThread DEF Moves, Handle, WriteStats, Goto, TypeOK, redis
  <2>4. req'[w].key = req[w].key
    <3>1. req[w] \in Request
      BY <1>0 DEF TypeOK
    <3>2. req'[w] = req[w] \/ req'[w] = [req[w] EXCEPT !.look = "overtaken"]
      BY <1>7 DEF WriteStats
    <3> QED
      BY <3>1, <3>2 DEF Request
  <2>2. \A k \in Key : k # req[w].key => hash'[k] = hash[k]
    BY <1>0, <1>7 DEF WriteStats, TypeOK
  <2>3. HashesExpire'
    BY <2>1, <2>2, <2>4 DEF HashesExpire, OthersStay, Stamped
  <2> QED
    BY <2>1, <2>3, ListsFrame DEF DocsExpire
<1>8. ASSUME NEW w \in Workers, TtlHash(w)
      PROVE  HashesExpire' /\ ListsExpire' /\ DocsExpire'
  <2>1. /\ OthersStay(w) /\ torn' = torn /\ req' = req /\ hash' = hash /\ doc' = doc /\ list' = list
        /\ pc[w] = "ttlHash"
    BY <1>0, <1>8, OneThread DEF Moves, Handle, TtlHash, Goto, TypeOK, redis
  <2>2. Stamped(hash[req[w].key]) /\ hash[req[w].key].ttl = NoTTL
          => pc'[w] = "expireHash"
    BY <1>0, <1>8 DEF TtlHash, Goto, TypeOK, Exists
  <2>3. HashesExpire'
    BY <2>1, <2>2 DEF HashesExpire, OthersStay, Stamped
  <2> QED
    BY <2>1, <2>3, ListsFrame DEF DocsExpire
<1>9. ASSUME NEW w \in Workers, ExpireHash(w)
      PROVE  HashesExpire' /\ ListsExpire' /\ DocsExpire'
  <2> DEFINE k == req[w].key
  <2>1. /\ OthersStay(w) /\ torn' = torn /\ req' = req /\ list' = list /\ doc' = doc
        /\ pc[w] = "expireHash"
    BY <1>0, <1>9, OneThread DEF Moves, Handle, ExpireHash, Goto, TypeOK, redis
  <2>2. k \in Key /\ hash[k] \in HashRec
    BY <1>0 DEF TypeOK, Request
  <2>3. ~Stamped(hash[k])' \/ hash'[k].ttl # NoTTL
    BY <1>0, <1>9, <2>2, StoreAssumption
       DEF ExpireHash, TypeOK, HashRec, Exists, Stamped, NoTTL
  <2>4. \A j \in Key : j # k => hash'[j] = hash[j]
    BY <1>0, <1>9, <2>2 DEF ExpireHash, TypeOK
  <2>5. HashesExpire'
    BY <2>1, <2>2, <2>3, <2>4 DEF HashesExpire, OthersStay, Stamped
  <2> QED
    BY <2>1, <2>5, ListsFrame DEF DocsExpire
<1>10. ASSUME NEW w \in Workers, CountTotal(w) \/ CountTimeout(w)
       PROVE  HashesExpire' /\ ListsExpire' /\ DocsExpire'
  <2>1. /\ OthersStay(w) /\ list' = list /\ doc' = doc /\ torn' = torn
        /\ pc[w] \in {"total", "timeouts"}
    BY <1>0, <1>10, OneThread DEF Moves, Handle, CountTotal, CountTimeout
  <2>2. ASSUME NEW k \in Key
        PROVE  hash'[k].elapsed = hash[k].elapsed /\ hash'[k].ttl = hash[k].ttl
    BY <1>0, <1>10 DEF CountTotal, CountTimeout, TypeOK, HashRec
  <2>3. HashesExpire'
    BY <2>1, <2>2 DEF HashesExpire, OthersStay, Stamped
  <2> QED
    BY <2>1, <2>3, ListsFrame DEF DocsExpire
<1>11. CASE UNCHANGED vars
  BY <1>11 DEF vars, HashesExpire, ListsExpire, DocsExpire, Stamped
<1>12. CASE Crash
  <2>1. hash' = hash /\ list' = list /\ doc' = doc
    BY <1>12 DEF Crash, redis
  <2>2. torn \subseteq torn' /\ \A w \in Workers : pc[w] \in SaveSteps => req[w].key[1] \in torn'
    BY <1>12 DEF Crash
  <2>3. HashesExpire'
    BY <2>1, <2>2 DEF HashesExpire, Stamped, SaveSteps
  <2>4. ListsExpire'
    BY <2>1, <2>2 DEF ListsExpire, SaveSteps
  <2> QED
    BY <2>1, <2>3, <2>4 DEF DocsExpire
<1> QED
  BY <1>1, <1>2, <1>3, <1>4, <1>5, <1>6, <1>7, <1>8, <1>9, <1>10, <1>11, <1>12
     DEF Next, Handle

(* The inductive invariant behind RecordsWillExpire.                       *)
ExpiryInv == TypeInv /\ RecordsWillExpire

(* With db.expire set, no record that can throttle a query stays for ever, *)
(* whatever the interleaving of the saves, the expiries and the clock,     *)
(* unless a save of that very query was cut short: no other failure, and   *)
(* none of another query, can do it (protector_main.py:186-221).           *)
THEOREM Expiry == Spec => []RecordsWillExpire
<1>1. Init => ExpiryInv
  BY TypeInit, ExpiryInit DEF ExpiryInv, RecordsWillExpire
<1>2. ExpiryInv /\ [Next]_vars => ExpiryInv'
  <2> SUFFICES ASSUME TypeInv, RecordsWillExpire, [Next]_vars
               PROVE  TypeInv' /\ RecordsWillExpire'
    BY DEF ExpiryInv
  <2>1. TypeInv'
    BY TypeStep
  <2>2. RecordsWillExpire'
    BY <2>1, ExpiryStep DEF RecordsWillExpire
  <2> QED
    BY <2>1, <2>2
<1>3. ExpiryInv => RecordsWillExpire
  BY DEF ExpiryInv
<1> QED
  BY <1>1, <1>2, <1>3, PTL DEF Spec
=============================================================================
