--------------------------- MODULE CounterProofs ---------------------------
(***************************************************************************)
(* The counters of StatsStore agree with the length of the list of runs,   *)
(* for any number of threads, queries and intervals: save_stats updates    *)
(* them with separate commands, which those of other saves come between.   *)
(*                                                                         *)
(* A sum of counters is the number of the runs they count.  Once this is   *)
(* proved, HINCRBY adds one run to a set.                                  *)
(***************************************************************************)
EXTENDS StatsStoreProofs, RulesProofs, FiniteSetTheorems

(* What total_counter adds up to over some intervals of a query, and the   *)
(* runs that it counts.                                                    *)
Total(h, q, S) == MapThenSumSet(LAMBDA i : h[<<q, i>>].total, S)

CountedRuns(h, q, S) == {run \in S \X Nat : run[2] < h[<<q, run[1]>>].total}

(* The recursion equation behind Total.                                    *)
Adds(h, q, S, sum) ==
  sum = [T \in SUBSET S |->
           IF T = {} THEN 0
           ELSE h[<<q, CHOOSE i \in T : TRUE>>].total
                  + sum[T \ {CHOOSE i \in T : TRUE}]]

-----------------------------------------------------------------------------
(* Sums                                                                    *)

LEMMA TotalIsChosen ==
  ASSUME NEW h, NEW q, NEW S
  PROVE  Total(h, q, S) = (CHOOSE sum : Adds(h, q, S, sum))[S]
  BY DEF Total, MapThenSumSet, MapThenFoldSet, Adds

(* An interval more is as many runs more as its counter says.              *)
LEMMA MoreRuns ==
  ASSUME NEW h, NEW q, NEW T, NEW x \in T, h[<<q, x>>].total \in Nat,
         IsFiniteSet(CountedRuns(h, q, T \ {x}))
  PROVE  /\ IsFiniteSet(CountedRuns(h, q, T))
         /\ Cardinality(CountedRuns(h, q, T)) =
              h[<<q, x>>].total + Cardinality(CountedRuns(h, q, T \ {x}))
<1> DEFINE n == h[<<q, x>>].total
           own == {run \in {x} \X Nat : run[2] < n}
           rest == CountedRuns(h, q, T \ {x})
<1>1. IsFiniteSet(own) /\ Cardinality(own) = n
  <2> DEFINE f == [j \in 1 .. n |-> <<x, j - 1>>]
  <2>1. f \in Bijection(1 .. n, own)
    <3>1. \A j \in 1 .. n : f[j] \in own
      OBVIOUS
    <3>2. \A j, k \in 1 .. n : f[j] = f[k] => j = k
      OBVIOUS
    <3>3. ASSUME NEW run \in own PROVE \E j \in 1 .. n : f[j] = run
      <4>1. run = <<x, run[2]>> /\ run[2] \in Nat /\ run[2] < n
        OBVIOUS
      <4>2. run[2] + 1 \in 1 .. n /\ f[run[2] + 1] = run
        BY <4>1
      <4> QED
        BY <4>2
    <3> QED
      BY <3>1, <3>2, <3>3 DEF Bijection, Injection, Surjection, IsInjective
  <2>2. ExistsBijection(1 .. n, own)
    BY <2>1 DEF ExistsBijection
  <2> QED
    BY <2>2, FS_CountingElements, FS_NatBijection
<1>2. CountedRuns(h, q, T) = own \cup rest
  BY DEF CountedRuns
<1>3. own \cap rest = {}
  BY DEF CountedRuns
<1>4. Cardinality(own \cap rest) = 0
  BY <1>3, FS_EmptySet
<1>5. Cardinality(rest) \in Nat
  BY FS_CardinalityType
<1> HIDE DEF own, rest
<1>6. /\ IsFiniteSet(own \cup rest)
      /\ Cardinality(own \cup rest) = n + Cardinality(rest) - 0
  BY <1>1, <1>4, FS_Union DEF rest
<1> QED
  BY <1>2, <1>5, <1>6 DEF rest

LEMMA RunsFinite ==
  ASSUME NEW h, NEW q, NEW S, IsFiniteSet(S), \A i \in S : h[<<q, i>>].total \in Nat
  PROVE  \A T \in SUBSET S : IsFiniteSet(CountedRuns(h, q, T))
<1> DEFINE B == {T \in SUBSET S : ~IsFiniteSet(CountedRuns(h, q, T))}
<1> SUFFICES ASSUME B # {} PROVE FALSE
  OBVIOUS
<1>1. PICK T \in B : \A x \in T : T \ {x} \notin B
  BY LeastSubset
<1>2. CASE T = {}
  <2>1. CountedRuns(h, q, T) = {}
    BY <1>2 DEF CountedRuns
  <2> QED
    BY <1>1, <2>1, FS_EmptySet
<1>3. ASSUME NEW x \in T PROVE FALSE
  <2>1. IsFiniteSet(CountedRuns(h, q, T \ {x})) /\ h[<<q, x>>].total \in Nat
    BY <1>1
  <2> QED
    BY <1>1, <2>1, MoreRuns
<1> QED
  BY <1>2, <1>3

(* The sum of the counters is the number of the runs they count.           *)
LEMMA TotalIsCount ==
  ASSUME NEW h, NEW q, NEW S, IsFiniteSet(S), \A i \in S : h[<<q, i>>].total \in Nat
  PROVE  Total(h, q, S) = Cardinality(CountedRuns(h, q, S))
<1> DEFINE pick(T) == CHOOSE i \in T : TRUE
           count == [T \in SUBSET S |-> Cardinality(CountedRuns(h, q, T))]
           sum == CHOOSE f : Adds(h, q, S, f)
<1>1. ASSUME NEW T \in SUBSET S
      PROVE  count[T] = IF T = {} THEN 0
                        ELSE h[<<q, pick(T)>>].total + count[T \ {pick(T)}]
  <2>1. CASE T = {}
    <3>1. CountedRuns(h, q, T) = {}
      BY <2>1 DEF CountedRuns
    <3> QED
      BY <2>1, <3>1, FS_EmptySet
  <2>2. CASE T # {}
    <3>1. pick(T) \in T
      BY <2>2
    <3> HIDE DEF pick
    <3>2. IsFiniteSet(CountedRuns(h, q, T \ {pick(T)})) /\ h[<<q, pick(T)>>].total \in Nat
      BY <3>1, RunsFinite
    <3>3. Cardinality(CountedRuns(h, q, T)) = h[<<q, pick(T)>>].total
            + Cardinality(CountedRuns(h, q, T \ {pick(T)}))
      BY <3>1, <3>2, MoreRuns
    <3> QED
      BY <2>2, <3>3
  <2> QED
    BY <2>1, <2>2
<1>2. Adds(h, q, S, count)
  <2> DEFINE next == [T \in SUBSET S |-> IF T = {} THEN 0
                        ELSE h[<<q, pick(T)>>].total + count[T \ {pick(T)}]]
  <2>1. \A T \in SUBSET S : count[T] = next[T]
    BY <1>1
  <2>2. count = next
    BY <2>1, Zenon
  <2> QED
    BY <2>2 DEF Adds
<1>3. Adds(h, q, S, sum)
  BY <1>2
<1>4. ASSUME NEW T \in SUBSET S
      PROVE  sum[T] = IF T = {} THEN 0
                      ELSE h[<<q, pick(T)>>].total + sum[T \ {pick(T)}]
  BY <1>3, Zenon DEF Adds
<1> HIDE DEF sum, count
<1>5. \A T \in SUBSET S : sum[T] = count[T]
  <2> DEFINE B == {T \in SUBSET S : sum[T] # count[T]}
  <2> SUFFICES ASSUME B # {} PROVE FALSE
    OBVIOUS
  <2>1. PICK T \in B : \A x \in T : T \ {x} \notin B
    BY LeastSubset
  <2>2. CASE T = {}
    BY <1>1, <1>4, <2>1, <2>2
  <2>3. CASE T # {}
    <3>1. pick(T) \in T
      BY <2>3
    <3>2. sum[T \ {pick(T)}] = count[T \ {pick(T)}]
      BY <2>1, <3>1
    <3>3. T \in SUBSET S /\ sum[T] # count[T]
      BY <2>1
    <3>4. sum[T] = h[<<q, pick(T)>>].total + sum[T \ {pick(T)}]
      BY <1>4, <2>3, <3>3
    <3>5. count[T] = h[<<q, pick(T)>>].total + count[T \ {pick(T)}]
      BY <1>1, <2>3, <3>3
    <3> QED
      BY <3>2, <3>3, <3>4, <3>5
  <2> QED
    BY <2>2, <2>3
<1> QED
  BY <1>5, TotalIsChosen DEF sum, count

-----------------------------------------------------------------------------
(* The counters                                                            *)

AtTimeouts(k) == {w \in Workers : req[w].key = k /\ pc[w] = "timeouts"}

ListCountsRuns ==
  \A q \in Queries \ torn :
    list[q].len = Cardinality(CountedRuns(hash, q, Intervals))
                  + Cardinality(Saving(q, Uncounted))

TimeoutsAreRuns ==
  \A k \in Key : hash[k].total >= hash[k].timeouts + Cardinality(AtTimeouts(k))

(* CountersMatchList with the runs for the sum of their counters.          *)
CountInv == TTL = 0 => ListCountsRuns /\ TimeoutsAreRuns

LEMMA CountInvIsMatch ==
  ASSUME IsFiniteSet(Intervals), TypeOK
  PROVE  CountInv <=> CountersMatchList
<1>1. ASSUME NEW q \in Queries
      PROVE  MapThenSumSet(LAMBDA i : hash[<<q, i>>].total, Intervals)
               = Cardinality(CountedRuns(hash, q, Intervals))
  <2>1. \A i \in Intervals : hash[<<q, i>>].total \in Nat
    BY DEF TypeOK, HashRec, Key
  <2> QED
    BY <2>1, TotalIsCount DEF Total
<1> QED
  BY <1>1 DEF CountInv, ListCountsRuns, TimeoutsAreRuns, AtTimeouts, CountersMatchList

LEMMA CountInit == Init => ListCountsRuns /\ TimeoutsAreRuns
<1> SUFFICES ASSUME Init PROVE ListCountsRuns /\ TimeoutsAreRuns
  OBVIOUS
<1>1. \A q \in Queries : CountedRuns(hash, q, Intervals) = {} /\ Saving(q, Uncounted) = {}
  BY DEF Init, CountedRuns, NoHash, Key, Saving, Uncounted
<1>2. \A k \in Key : AtTimeouts(k) = {}
  BY DEF Init, AtTimeouts
<1>3. Cardinality({}) = 0
  BY FS_EmptySet
<1>4. \A q \in Queries : list[q].len = 0
  BY DEF Init, NoList
<1>5. \A k \in Key : hash[k].total = 0 /\ hash[k].timeouts = 0
  BY DEF Init, NoHash
<1>6. ListCountsRuns
  BY <1>1, <1>3, <1>4 DEF ListCountsRuns
<1>7. TimeoutsAreRuns
  BY <1>2, <1>3, <1>5 DEF TimeoutsAreRuns
<1> QED
  BY <1>6, <1>7

(* No command of a save counts, and a thread comes or leaves only if that  *)
(* cuts the save of its query short.                                       *)
LEMMA CountFrame ==
  ASSUME IsFiniteSet(Workers), TypeOK, TypeOK', ListCountsRuns, TimeoutsAreRuns,
         torn \subseteq torn',
         \A k \in Key : /\ hash'[k].total = hash[k].total
                        /\ hash'[k].timeouts = hash[k].timeouts,
         \A q \in Queries : list'[q].len = list[q].len,
         \A w \in Workers :
           \/ /\ pc'[w] \in Uncounted <=> pc[w] \in Uncounted
              /\ pc'[w] = "timeouts" <=> pc[w] = "timeouts"
              /\ pc[w] \in Uncounted \cup {"timeouts"} => req'[w].key = req[w].key
           \/ /\ req[w].key[1] \in torn'
              /\ pc'[w] \notin Uncounted \cup {"timeouts"}
  PROVE  ListCountsRuns' /\ TimeoutsAreRuns'
<1>1. ASSUME NEW q \in Queries \ torn'
      PROVE  /\ CountedRuns(hash', q, Intervals) = CountedRuns(hash, q, Intervals)
             /\ Saving(q, Uncounted)' = Saving(q, Uncounted)
  <2>1. CountedRuns(hash', q, Intervals) = CountedRuns(hash, q, Intervals)
    BY DEF CountedRuns, Key
  <2>2. Saving(q, Uncounted)' = Saving(q, Uncounted)
    BY DEF Saving
  <2> QED
    BY <2>1, <2>2
<1>2. ASSUME NEW k \in Key PROVE hash'[k].total >= hash'[k].timeouts + Cardinality(AtTimeouts(k)')
  <2>1. AtTimeouts(k)' \subseteq AtTimeouts(k)
    BY DEF AtTimeouts
  <2>2. IsFiniteSet(AtTimeouts(k))
    BY FS_Subset DEF AtTimeouts
  <2> DEFINE m == Cardinality(AtTimeouts(k)')
             n == Cardinality(AtTimeouts(k))
  <2>3. m <= n /\ m \in Nat /\ n \in Nat
    BY <2>1, <2>2, FS_Subset, FS_CardinalityType
  <2>4. hash[k].total \in Nat /\ hash[k].timeouts \in Nat /\ hash[k].total >= hash[k].timeouts + n
    BY DEF TypeOK, HashRec, TimeoutsAreRuns
  <2> HIDE DEF m, n
  <2>5. hash'[k].total >= hash'[k].timeouts + m
    BY <2>3, <2>4
  <2> QED
    BY <2>5 DEF m
<1>3. ListCountsRuns'
  BY <1>1 DEF ListCountsRuns
<1>4. TimeoutsAreRuns'
  BY <1>2 DEF TimeoutsAreRuns
<1> QED
  BY <1>3, <1>4

LEMMA CountStep ==
  ASSUME IsFiniteSet(Workers), IsFiniteSet(Intervals),
         TTL = 0,
         TypeInv, TypeInv', ListCountsRuns, TimeoutsAreRuns, [Next]_vars
  PROVE  ListCountsRuns' /\ TimeoutsAreRuns'
<1>0. TypeOK /\ TypeOK'
  BY DEF TypeInv
<1>1. \A w \in Workers : req[w] \in Request /\ req[w].key \in Key /\ req[w].key[1] \in Queries
  BY <1>0 DEF TypeOK, Request, Key
<1>2. \A q \in Queries : /\ IsFiniteSet(Saving(q, Uncounted))
                         /\ Cardinality(Saving(q, Uncounted)) \in Nat
  BY FS_Subset, FS_CardinalityType DEF Saving
<1>3. \A k \in Key : IsFiniteSet(AtTimeouts(k)) /\ Cardinality(AtTimeouts(k)) \in Nat
  BY FS_Subset, FS_CardinalityType DEF AtTimeouts
<1>4. \A q \in Queries : /\ IsFiniteSet(CountedRuns(hash, q, Intervals))
                         /\ Cardinality(CountedRuns(hash, q, Intervals)) \in Nat
  <2>1. \A q \in Queries, i \in Intervals : hash[<<q, i>>].total \in Nat
    BY <1>0 DEF TypeOK, HashRec, Key
  <2> QED
    BY <2>1, RunsFinite, FS_CardinalityType
<1>5. CASE Tick
  <2>1. ASSUME NEW k \in Key
        PROVE  hash'[k].total = hash[k].total /\ hash'[k].timeouts = hash[k].timeouts
    <3>1. hash[k] \in HashRec /\ hash[k].ttl # 1
      BY <1>0 DEF TypeOK, HashRec, TTLs, NoTTL
    <3> QED
      BY <1>5, <3>1 DEF Tick, HashRec
  <2>2. ASSUME NEW q \in Queries PROVE list'[q].len = list[q].len
    <3>1. list[q] \in [len : Nat, ttl : TTLs] /\ list[q].ttl # 1
      BY <1>0 DEF TypeOK, TTLs, NoTTL
    <3> QED
      BY <1>5, <3>1 DEF Tick
  <2>3. ASSUME NEW w \in Workers PROVE pc'[w] = pc[w] /\ req'[w].key = req[w].key
    BY <1>1, <1>5 DEF Tick, Request
  <2> QED
    BY <1>0, <1>5, <2>1, <2>2, <2>3, CountFrame DEF Tick
<1>6. CASE Crash
  <2>1. hash' = hash /\ list' = list /\ torn \subseteq torn'
    BY <1>6 DEF Crash, redis
  <2>2. ASSUME NEW w \in Workers
        PROVE  /\ pc'[w] \notin Uncounted \cup {"timeouts"}
               /\ pc[w] \in Uncounted \cup {"timeouts"} => req[w].key[1] \in torn'
    BY <1>6 DEF Crash, Uncounted, SaveSteps
  <2> QED
    BY <1>0, <2>1, <2>2, CountFrame
<1>7. ASSUME NEW w \in Workers,
             \/ Receive(w) \/ LoadStats(w) \/ LoadBlind(w) \/ Decide(w)
             \/ BackendReply(w) \/ BackendTimeout(w) \/ BackendError(w) \/ Reply(w) \/ Stall(w)
             \/ SaveBegin(w) \/ SaveSkip(w) \/ CheckQuery(w) \/ StoreQuery(w)
      PROVE  ListCountsRuns' /\ TimeoutsAreRuns'
  <2>1. hash' = hash /\ list' = list /\ torn' = torn
    BY <1>7 DEF Receive, LoadStats, LoadBlind, Decide, BackendReply, BackendTimeout,
       BackendError, Reply, Stall, SaveBegin, SaveSkip, CheckQuery, StoreQuery, redis
  <2>2. /\ pc[w] \notin Uncounted \cup {"timeouts"}
        /\ pc'[w] \notin Uncounted \cup {"timeouts"}
    BY <1>0, <1>7 DEF Receive, LoadStats, LoadBlind, Decide, BackendReply, BackendTimeout,
       BackendError, Reply, Stall, SaveBegin, SaveSkip, CheckQuery, StoreQuery, Saved, Return,
       Goto, Done, TypeOK, Uncounted
  <2>3. OthersStay(w)
    BY <1>0, <1>7, OneThread DEF Moves, Handle
  <2> QED
    BY <1>0, <2>1, <2>2, <2>3, CountFrame DEF OthersStay
<1>8. ASSUME NEW w \in Workers, PushStats(w)
      PROVE  ListCountsRuns' /\ TimeoutsAreRuns'
  <2> DEFINE q == req[w].key[1]
  <2>1. /\ hash' = hash /\ req' = req /\ torn' = torn /\ pc[w] = "rpush"
        /\ pc' = [pc EXCEPT ![w] = "hexists"]
        /\ list' = [list EXCEPT ![q].len = @ + 1]
    BY <1>8 DEF PushStats, Goto
  <2>2. /\ Saving(q, Uncounted)' = Saving(q, Uncounted) \cup {w}
        /\ w \notin Saving(q, Uncounted)
    BY <1>0, <2>1 DEF Saving, Uncounted, TypeOK
  <2>3. Cardinality(Saving(q, Uncounted))' = Cardinality(Saving(q, Uncounted)) + 1
    BY <1>1, <1>2, <2>2, FS_AddElement
  <2>4. \A p \in Queries \ {q} : Saving(p, Uncounted)' = Saving(p, Uncounted)
    BY <1>0, <2>1 DEF Saving, Uncounted, TypeOK
  <2>5. list'[q].len = list[q].len + 1 /\ \A p \in Queries \ {q} : list'[p] = list[p]
    BY <1>0, <1>1, <2>1 DEF TypeOK
  <2>6. \A k \in Key : AtTimeouts(k)' = AtTimeouts(k)
    BY <1>0, <2>1 DEF AtTimeouts, TypeOK
  <2>7. list[q].len \in Nat
    BY <1>0, <1>1 DEF TypeOK
  <2>8. ListCountsRuns'
    BY <1>1, <1>2, <1>4, <2>1, <2>3, <2>4, <2>5, <2>7 DEF ListCountsRuns
  <2> QED
    BY <2>1, <2>6, <2>8 DEF TimeoutsAreRuns
<1>9. ASSUME NEW w \in Workers,
             CheckFirst(w) \/ WriteStats(w)
      PROVE  ListCountsRuns' /\ TimeoutsAreRuns'
  <2>1. /\ pc[w] \in Uncounted /\ list' = list /\ torn' = torn
        /\ \E s \in {"hmset", "total"} : pc' = [pc EXCEPT ![w] = s]
    BY <1>9 DEF CheckFirst, WriteStats, Goto, redis, Uncounted
  <2>2. \A v \in Workers : req'[v].key = req[v].key
    <3>1. ASSUME NEW v \in Workers
          PROVE  [req[v] EXCEPT !.look = "overtaken"].key = req[v].key
      BY <1>1 DEF Request
    <3> QED
      BY <1>0, <1>1, <1>9, <3>1 DEF CheckFirst, WriteStats, TypeOK, Request
  <2>3. ASSUME NEW k \in Key
        PROVE  hash'[k].total = hash[k].total /\ hash'[k].timeouts = hash[k].timeouts
    <3>1. hash[k] \in HashRec /\ hash[req[w].key] \in HashRec
      BY <1>0, <1>1 DEF TypeOK
    <3>2. CASE CheckFirst(w)
      BY <3>2 DEF CheckFirst, redis
    <3>3. CASE WriteStats(w)
      <4>1. hash'[k] = hash[k] \/ hash'[k] = Overwritten(hash[k], req[w])
        BY <1>0, <3>3 DEF WriteStats, TypeOK
      <4> QED
        BY <3>1, <4>1 DEF Overwritten, HashRec
    <3> QED
      BY <1>9, <3>2, <3>3
  <2>4. \A v \in Workers : /\ pc'[v] \in Uncounted <=> pc[v] \in Uncounted
                           /\ pc'[v] = "timeouts" <=> pc[v] = "timeouts"
    BY <1>0, <2>1 DEF TypeOK, Uncounted
  <2> QED
    BY <1>0, <2>1, <2>2, <2>3, <2>4, CountFrame
<1>10. ASSUME NEW w \in Workers,
              TtlList(w) \/ ExpireList(w) \/ TtlHash(w) \/ ExpireHash(w)
       PROVE  ListCountsRuns' /\ TimeoutsAreRuns'
  BY <1>0, <1>10 DEF TypeInv, TtlSteps, TtlList, ExpireList, TtlHash, ExpireHash
<1>11. ASSUME NEW w \in Workers, CountTotal(w)
       PROVE  ListCountsRuns' /\ TimeoutsAreRuns'
  <2>0. PICK k \in Key, q \in Queries, i \in Intervals, n \in Nat :
          k = req[w].key /\ k = <<q, i>> /\ n = hash[k].total
    <3>1. hash[req[w].key].total \in Nat
      BY <1>0, <1>1 DEF TypeOK, HashRec
    <3> QED
      BY <1>1, <3>1 DEF Key
  <2>1. /\ pc[w] = "total" /\ list' = list /\ torn' = torn /\ k = <<q, i>> /\ n = hash[k].total
        /\ hash[k] \in HashRec /\ req[w].key = k
        /\ hash' = [hash EXCEPT ![k].total = @ + 1]
    <3>1. hash[k] \in HashRec
      BY <1>0 DEF TypeOK
    <3>2. /\ pc[w] = "total" /\ list' = list /\ torn' = torn
          /\ hash' = [hash EXCEPT ![req[w].key].total = @ + Runs(req[w])]
      BY <1>11 DEF CountTotal
    <3>3. hash' = [hash EXCEPT ![k].total = @ + 1]
      BY <2>0, <3>2 DEF Runs
    <3> QED
      BY <2>0, <3>1, <3>2, <3>3
  <2>2. /\ hash'[k].total = n + 1 /\ hash'[k].timeouts = hash[k].timeouts
        /\ \A j \in Key \ {k} : hash'[j] = hash[j]
    BY <1>0, <2>1 DEF TypeOK, HashRec
  <2>3. /\ OthersStay(w) /\ pc'[w] \in {"timeouts", "reply"}
        /\ pc'[w] = "timeouts" => req'[w] = req[w]
    BY <1>0, <1>11, OneThread DEF Moves, Handle, CountTotal, Return, Goto, TypeOK
  <2>4. /\ CountedRuns(hash', q, Intervals) = CountedRuns(hash, q, Intervals) \cup {<<i, n>>}
        /\ <<i, n>> \notin CountedRuns(hash, q, Intervals)
    <3>1. ASSUME NEW j \in Intervals, NEW m \in Nat
          PROVE  m < hash'[<<q, j>>].total <=>
                   m < hash[<<q, j>>].total \/ <<j, m>> = <<i, n>>
      <4>1. <<q, j>> \in Key
        BY <2>1 DEF Key
      <4>2. CASE j = i
        BY <2>1, <2>2, <4>2
      <4>3. CASE j # i
        BY <2>1, <2>2, <4>1, <4>3
      <4> QED
        BY <4>2, <4>3
    <3> QED
      BY <2>1, <3>1 DEF CountedRuns
  <2>5. Cardinality(CountedRuns(hash', q, Intervals))
          = Cardinality(CountedRuns(hash, q, Intervals)) + 1
    BY <1>4, <2>4, FS_AddElement
  <2>6. /\ Saving(q, Uncounted)' = Saving(q, Uncounted) \ {w}
        /\ w \in Saving(q, Uncounted)
    BY <2>1, <2>3 DEF Saving, Uncounted, OthersStay
  <2>7. Cardinality(Saving(q, Uncounted))' = Cardinality(Saving(q, Uncounted)) - 1
    BY <1>2, <2>1, <2>6, FS_RemoveElement
  <2>8. ASSUME NEW p \in Queries \ {q}
        PROVE  /\ CountedRuns(hash', p, Intervals) = CountedRuns(hash, p, Intervals)
               /\ Saving(p, Uncounted)' = Saving(p, Uncounted)
    <3>1. \A j \in Intervals : <<p, j>> \in Key \ {k}
      BY <2>1 DEF Key
    <3>2. CountedRuns(hash', p, Intervals) = CountedRuns(hash, p, Intervals)
      BY <2>2, <3>1 DEF CountedRuns
    <3>3. Saving(p, Uncounted)' = Saving(p, Uncounted)
      BY <2>1, <2>3 DEF Saving, Uncounted, OthersStay
    <3> QED
      BY <3>2, <3>3
  <2>9. ListCountsRuns'
    <3>1. q \notin torn =>
            list[q].len + 0 = Cardinality(CountedRuns(hash', q, Intervals))
                              + Cardinality(Saving(q, Uncounted))'
      BY <1>2, <1>4, <2>1, <2>5, <2>7 DEF ListCountsRuns
    <3>2. list[q].len \in Nat
      BY <1>0, <2>1 DEF TypeOK
    <3>3. q \notin torn => list'[q].len = Cardinality(CountedRuns(hash', q, Intervals))
                            + Cardinality(Saving(q, Uncounted))'
      BY <2>1, <3>1, <3>2
    <3>4. ASSUME NEW p \in Queries \ {q}, p \notin torn
          PROVE  list'[p].len = Cardinality(CountedRuns(hash', p, Intervals))
                                + Cardinality(Saving(p, Uncounted)')
      BY <2>1, <2>8, <3>4 DEF ListCountsRuns
    <3>5. ASSUME NEW p \in Queries \ torn
          PROVE  list'[p].len = Cardinality(CountedRuns(hash', p, Intervals))
                                + Cardinality(Saving(p, Uncounted)')
      BY <3>3, <3>4
    <3> QED
      BY <2>1, <3>5 DEF ListCountsRuns
  <2>10. Cardinality(AtTimeouts(k))' <= Cardinality(AtTimeouts(k)) + 1
    <3>1. AtTimeouts(k)' = AtTimeouts(k) \/ AtTimeouts(k)' = AtTimeouts(k) \cup {w}
      BY <2>1, <2>3 DEF AtTimeouts, OthersStay
    <3>2. IsFiniteSet(AtTimeouts(k)) /\ Cardinality(AtTimeouts(k)) \in Nat
      BY <1>3
    <3>3. CASE AtTimeouts(k)' = AtTimeouts(k)
      BY <3>2, <3>3
    <3>4. CASE AtTimeouts(k)' = AtTimeouts(k) \cup {w}
      <4>1. w \notin AtTimeouts(k)
        BY <2>1 DEF AtTimeouts
      <4>2. Cardinality(AtTimeouts(k) \cup {w}) = Cardinality(AtTimeouts(k)) + 1
        BY <3>2, <4>1, FS_AddElement
      <4> QED
        BY <3>2, <3>4, <4>2
    <3> QED
      BY <3>1, <3>3, <3>4
  <2>11. ASSUME NEW j \in Key \ {k} PROVE AtTimeouts(j)' = AtTimeouts(j)
    BY <2>1, <2>3 DEF AtTimeouts, OthersStay
  <2>12. TimeoutsAreRuns'
    <3>1. Cardinality(AtTimeouts(k))' \in Nat /\ hash[k].timeouts \in Nat
      <4>1. IsFiniteSet(AtTimeouts(k)')
        BY FS_Subset DEF AtTimeouts
      <4> QED
        BY <2>1, <4>1, FS_CardinalityType DEF HashRec
    <3>2. hash'[k].total >= hash'[k].timeouts + Cardinality(AtTimeouts(k))'
      BY <1>3, <2>1, <2>2, <2>10, <3>1 DEF TimeoutsAreRuns
    <3> QED
      BY <2>2, <2>11, <3>2 DEF TimeoutsAreRuns
  <2> QED
    BY <2>9, <2>12
<1>12. ASSUME NEW w \in Workers, CountTimeout(w)
       PROVE  ListCountsRuns' /\ TimeoutsAreRuns'
  <2>0. PICK k \in Key : k = req[w].key
    BY <1>1
  <2>1. /\ pc[w] = "timeouts" /\ list' = list /\ torn' = torn /\ req[w].key = k /\ hash[k] \in HashRec
        /\ hash' = [hash EXCEPT ![k].timeouts = @ + 1]
        /\ OthersStay(w) /\ pc'[w] = "idle"
    BY <1>0, <2>0, <1>12, OneThread DEF Moves, Handle, CountTimeout, Done, Goto, TypeOK
  <2>2. /\ \A j \in Key : hash'[j].total = hash[j].total
        /\ hash'[k].timeouts = hash[k].timeouts + 1
        /\ \A j \in Key \ {k} : hash'[j] = hash[j]
    BY <1>0, <2>1 DEF TypeOK, HashRec
  <2>3. ASSUME NEW q \in Queries
        PROVE  /\ CountedRuns(hash', q, Intervals) = CountedRuns(hash, q, Intervals)
               /\ Saving(q, Uncounted)' = Saving(q, Uncounted)
    <3>1. CountedRuns(hash', q, Intervals) = CountedRuns(hash, q, Intervals)
      BY <2>2 DEF CountedRuns, Key
    <3>2. Saving(q, Uncounted)' = Saving(q, Uncounted)
      BY <2>1 DEF Saving, Uncounted, OthersStay
    <3> QED
      BY <3>1, <3>2
  <2>4. AtTimeouts(k)' = AtTimeouts(k) \ {w} /\ w \in AtTimeouts(k)
    BY <2>1 DEF AtTimeouts, OthersStay
  <2>5. Cardinality(AtTimeouts(k))' = Cardinality(AtTimeouts(k)) - 1
    BY <1>3, <2>1, <2>4, FS_RemoveElement
  <2>6. ASSUME NEW j \in Key \ {k} PROVE AtTimeouts(j)' = AtTimeouts(j)
    BY <2>1 DEF AtTimeouts, OthersStay
  <2>7. hash'[k].total >= hash'[k].timeouts + Cardinality(AtTimeouts(k))'
    BY <1>3, <2>1, <2>2, <2>5 DEF TimeoutsAreRuns, HashRec
  <2>8. TimeoutsAreRuns'
    BY <2>2, <2>6, <2>7 DEF TimeoutsAreRuns
  <2> QED
    BY <2>1, <2>3, <2>8 DEF ListCountsRuns
<1>13. ASSUME NEW w \in Workers, RedisError(w) \/ Hang(w)
       PROVE  ListCountsRuns' /\ TimeoutsAreRuns'
  <2>1. hash' = hash /\ list' = list /\ torn \subseteq torn'
    BY <1>13 DEF RedisError, Hang, redis
  <2>2. /\ pc[w] \in Uncounted \cup {"timeouts"} => req[w].key[1] \in torn'
        /\ pc'[w] \notin Uncounted \cup {"timeouts"}
    BY <1>0, <1>13 DEF RedisError, Hang, Saved, Return, Done, Goto, TypeOK, Uncounted, SaveSteps
  <2>3. OthersStay(w)
    BY <1>0, <1>13, OneThread DEF Moves
  <2> QED
    BY <1>0, <2>1, <2>2, <2>3, CountFrame DEF OthersStay
<1>14. CASE UNCHANGED vars
  BY <1>0, <1>14, CountFrame DEF vars
<1> QED
  BY <1>5, <1>6, <1>7, <1>8, <1>9, <1>10, <1>11, <1>12, <1>13, <1>14 DEF Next, Handle

(* With statistics kept for ever, total_counter over the intervals of a    *)
(* query is the length of its list of runs up to the saves under way,      *)
(* unless a save of that very query was cut short, and no hash ever counts *)
(* more timeouts than runs, whatever commands of other saves come in       *)
(* between and whatever fails (protector_main.py:186-221).                 *)
THEOREM CountersMatch ==
  ASSUME IsFiniteSet(Workers), IsFiniteSet(Intervals)
  PROVE  Spec => []CountersMatchList
<1>1. Init => TypeInv /\ CountInv
  BY TypeInit, CountInit DEF CountInv
<1>2. TypeInv /\ CountInv /\ [Next]_vars => (TypeInv /\ CountInv)'
  BY TypeStep, CountStep DEF CountInv
<1>3. TypeInv /\ CountInv => CountersMatchList
  BY CountInvIsMatch DEF TypeInv
<1> QED
  BY <1>1, <1>2, <1>3, PTL DEF Spec
=============================================================================
