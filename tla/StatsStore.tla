----------------------------- MODULE StatsStore -----------------------------
(***************************************************************************)
(* The statistics of executed queries and the requests that read and write *)
(* them: Protector.check, load_stats and save_stats, run by the handler    *)
(* threads of ThreadingHTTPServer against one Redis server.                *)
(*                                                                         *)
(* An operator named Bad... is a slip that this code could have made; the  *)
(* properties below notice it.                                             *)
(*                                                                         *)
(* Redis runs each command atomically and nothing protects a sequence of   *)
(* commands, so every command that save_stats sends is an action of its    *)
(* own.  A thread can be delayed at any of them, the command can fail, the *)
(* process can be killed (the threads are daemon threads) and a key can    *)
(* expire in between.                                                      *)
(*                                                                         *)
(* Times are kept relative to now: a stored 'timestamp' is the number of   *)
(* seconds elapsed since it, saturated at MaxAge, and a TTL is the number  *)
(* of seconds left.  Only these differences are used by the code.          *)
(***************************************************************************)
EXTENDS Rules, FiniteSets

CONSTANTS
  Workers,    \* handler threads
  Queries,    \* query ids: the md5 of a query without its time range
  Shape,      \* Shape[q]: the query as the rules see it
  Intervals,  \* lengths of the time range in minutes
  Drifts,     \* how intervals move between load_stats and save_stats, by the
              \* forms of the ranges that clients send: see QueryWindow
  DPs,        \* values of 'emittedDPs' in a response summary
  TTL,        \* db.expire, 0 when statistics are kept for ever
  SafeMode,   \* the safe_mode flag
  Timeout,    \* the socket timeout, in seconds: it bounds each single wait
              \* for the backend, not the exchange
  Faults,     \* which failures happen, see FaultKinds
  Longest,    \* bound: the longest exchange, in seconds; a longer duration
              \* counts as this one
  MaxAge,     \* bound: ages saturate here
  MaxList     \* bound: no request for a query with this many stored runs

FaultKinds == {"unreachable", "silent", "error", "crash"}

ASSUME StoreAssumption ==
  /\ Workers # {} /\ Queries # {} /\ Intervals # {}
  /\ Intervals \subseteq Nat /\ DPs \subseteq Nat
  /\ Drifts \subseteq SUBSET {-1, 1} /\ SafeMode \in BOOLEAN
  /\ TTL \in Nat /\ Timeout \in Nat /\ MaxList \in Nat
  /\ Longest \in Nat /\ Timeout <= Longest
  /\ Faults \subseteq FaultKinds

(* The cap on ages is above everything that the rules compare an age with. *)
ASSUME AgeAssumption ==
  /\ MaxAge \in Nat /\ Longest <= MaxAge
  /\ "exceed_frequency" \in Applied => MinFreq < MaxAge
  /\ "exceed_time_limit" \in Applied =>
       Throttle <= MaxAge /\ Adaptive * Longest <= MaxAge

VARIABLES
  hash,  \* hash[<<q, i>>]: the Redis hash "{id}_{interval}"
  list,  \* list[q]: the Redis list "{id}_stats", its length and TTL
  doc,   \* doc[q]: the Redis string "{id}_query", as its TTL
  pc,    \* pc[w]: the next step of thread w
  req,   \* req[w]: the local variables of the request thread w handles
  torn   \* history: the queries of which a save was cut short

vars == <<hash, list, doc, pc, req, torn>>

Key == Queries \X Intervals

Absent == -1   \* a field or a string that is not there
NoTTL  == -2   \* a key that does not expire: TTL replies -1

NoHash == [elapsed |-> Absent, duration |-> Absent, emittedDPs |-> Absent,
           first |-> FALSE, total |-> 0, timeouts |-> 0, ttl |-> NoTTL]
NoList == [len |-> 0, ttl |-> NoTTL]

Stamped(h) == h.elapsed # Absent
Exists(h)  == Stamped(h) \/ h.total > 0 \/ h.timeouts > 0

(* look, a history: at the guard, what load_stats has seen of the record   *)
(* is "current", or "overtaken" by a run saved since, or it saw nothing    *)
(* because Redis was "unreachable".                                        *)
Idle == [key |-> CHOOSE k \in Key : TRUE, drift |-> {}, stats |-> NoStats,
         clock |-> 0, duration |-> 0, emittedDPs |-> 0,
         timeout |-> FALSE, first |-> FALSE, look |-> "none"]

(* The commands of a save after PING.                                      *)
SaveSteps == {"doc", "setDoc", "rpush", "ttlList", "expireList", "hexists",
              "hmset", "ttlHash", "expireHash", "total", "timeouts"}

Steps == SaveSteps \cup {"load", "guard", "backend", "save", "reply", "resave"}

Init ==
  /\ hash = [k \in Key |-> NoHash]
  /\ list = [q \in Queries |-> NoList]
  /\ doc  = [q \in Queries |-> Absent]
  /\ pc   = [w \in Workers |-> "idle"]
  /\ req  = [w \in Workers |-> Idle]
  /\ torn = {}

redis == <<hash, list, doc>>

Goto(w, step) == pc' = [pc EXCEPT ![w] = step]

(* The request of thread w is over, answered or not.                       *)
Done(w) == Goto(w, "idle") /\ req' = [req EXCEPT ![w] = Idle]

-----------------------------------------------------------------------------
(* Protector.check                                                         *)

(* A query arrives and the blocked and allowed lists are consulted.        *)
Receive(w) ==
  /\ pc[w] = "idle"
  /\ \E k \in Key, drift \in Drifts :
       /\ list[k[1]].len < MaxList
       /\ req' = [req EXCEPT ![w].key = k, ![w].drift = drift]
       /\ LET verdict == ListVerdict(Shape[k[1]])
          IN  \/ verdict = "guard" /\ Goto(w, "load")
              \/ verdict = "allowedlist" /\ Goto(w, "backend")
              \/ verdict = "blockedlist" /\ SafeMode /\ Goto(w, "backend")
  /\ UNCHANGED <<redis, torn>>

StatsOf(h) ==
  IF ~Exists(h) THEN NoStats
  ELSE [found      |-> TRUE,
        elapsed    |-> IF Stamped(h) THEN h.elapsed ELSE MaxAge,
        duration   |-> IF h.duration = Absent THEN 0 ELSE h.duration,
        emittedDPs |-> IF h.emittedDPs = Absent THEN 0 ELSE h.emittedDPs]

(* Bad: the interval is not part of the key.                               *)
BadLoadKey(w) == <<req[w].key[1], Min(Intervals)>>

LoadKey(w) == req[w].key

(* load_stats.  EXISTS and HGETALL are one step: if the key appears after  *)
(* EXISTS the result is that of EXISTS, else that of HGETALL, which        *)
(* returns {} for a key that has just expired.                             *)
LoadStats(w) ==
  /\ pc[w] = "load"
  /\ req' = [req EXCEPT ![w].stats = StatsOf(hash[LoadKey(w)]), ![w].look = "current"]
  /\ Goto(w, "guard")
  /\ UNCHANGED <<redis, torn>>

(* load_stats when PING fails: the query keeps its empty statistics.       *)
LoadBlind(w) ==
  /\ "unreachable" \in Faults
  /\ pc[w] = "load"
  /\ req' = [req EXCEPT ![w].look = "unreachable"]
  /\ Goto(w, "guard")
  /\ UNCHANGED <<redis, torn>>

(* Bad: the rules see the class attribute stats = {}.                      *)
BadVerdict(w) == IsAllowed(Shape[req[w].key[1]], NoStats)

Verdict(w) == IsAllowed(Shape[req[w].key[1]], req[w].stats)

(* Guard.is_allowed and what do_POST makes of its result: a refused query  *)
(* is answered at once, an allowed one is sent to the backend.             *)
Decide(w) ==
  /\ pc[w] = "guard"
  /\ IF Verdict(w) = "ok" \/ SafeMode
     THEN /\ req' = [req EXCEPT ![w].stats = NoStats, ![w].look = "none",
                                ![w].clock = 0]
          /\ Goto(w, "backend")
     ELSE Done(w)
  /\ UNCHANGED <<redis, torn>>

-----------------------------------------------------------------------------
(* The exchange with the backend, timed by _handle_request                 *)

BackendReply(w) ==
  /\ pc[w] = "backend"
  /\ \E dps \in DPs :
       req' = [req EXCEPT ![w].duration = req[w].clock, ![w].emittedDPs = dps]
  /\ Goto(w, "save")
  /\ UNCHANGED <<redis, torn>>

BackendTimeout(w) ==
  /\ pc[w] = "backend"
  /\ req[w].clock >= Timeout
  /\ req' = [req EXCEPT ![w].duration = req[w].clock, ![w].timeout = TRUE]
  /\ Goto(w, "save")
  /\ UNCHANGED <<redis, torn>>

(* Any other status, or a body that is not read or not parsed: nothing is  *)
(* saved.  The client gets an error reply, or that of the backend.         *)
BackendError(w) ==
  /\ pc[w] = "backend"
  /\ \/ Done(w)
     \/ req' = [req EXCEPT ![w].duration = req[w].clock, ![w].clock = 0] /\ Goto(w, "reply")
  /\ UNCHANGED <<redis, torn>>

(* The save of a run that did not time out is over, complete or not: the   *)
(* reply of the backend is written to the client.                          *)
Return(w) ==
  /\ req' = [req EXCEPT ![w] = [Idle EXCEPT !.key = req[w].key, !.drift = req[w].drift,
                                            !.duration = req[w].duration]]
  /\ Goto(w, "reply")

(* After a run that timed out only the error reply is left.                *)
Saved(w) == IF req[w].timeout THEN Done(w) ELSE Return(w)

(* The client takes the reply, or goes away ...                            *)
Reply(w) ==
  /\ pc[w] = "reply"
  /\ Done(w)
  /\ UNCHANGED <<redis, torn>>

(* Bad: the second save is taken for a run of its own.                     *)
BadStall(w) ==
  /\ pc[w] = "reply" /\ req[w].clock >= Timeout
  /\ Goto(w, "resave")
  /\ UNCHANGED <<redis, req, torn>>

(* ... or is slower than the socket timeout, which _handle_request takes   *)
(* for a timeout of the backend: the run is saved again.  How long the     *)
(* first save took is not kept, so that any longer duration is possible.   *)
Stall(w) ==
  /\ pc[w] = "reply" /\ req[w].clock >= Timeout
  /\ \E d \in 0 .. Longest :
       /\ d >= Min({Longest, req[w].duration + req[w].clock})
       /\ req' = [req EXCEPT ![w].duration = d, ![w].timeout = TRUE]
  /\ Goto(w, "resave")
  /\ UNCHANGED <<redis, torn>>

-----------------------------------------------------------------------------
(* save_stats                                                              *)

(* Bad: the TTL is given in milliseconds.                                  *)
BadExpireTTL == 1000 * TTL

(* The TTL that EXPIRE sets: self.ttl.                                     *)
ExpireTTL == TTL

(* Bad: -2, a key that is not there, instead of -1.                        *)
BadUnexpiring(exists, ttl) == ~exists

(* TTL replies -1.                                                         *)
Unexpiring(exists, ttl) == exists /\ ttl = NoTTL

(* After PING, save_stats takes its current_time and computes the interval *)
(* anew: it may have moved since load_stats.                               *)
SaveBegin(w) ==
  /\ pc[w] \in {"save", "resave"}
  /\ \E i \in Intervals :
       /\ i - req[w].key[2] \in {0} \cup req[w].drift
       /\ req' = [req EXCEPT ![w].key = <<req[w].key[1], i>>, ![w].clock = 0]
  /\ Goto(w, "doc")
  /\ UNCHANGED <<redis, torn>>

SaveSkip(w) ==
  /\ "unreachable" \in Faults
  /\ pc[w] \in {"save", "resave"}
  /\ Saved(w)
  /\ UNCHANGED <<redis, torn>>

(* The stored query: written, never read by the program.                   *)
CheckQuery(w) ==
  /\ pc[w] = "doc"
  /\ Goto(w, IF doc[req[w].key[1]] = Absent THEN "setDoc" ELSE "rpush")
  /\ UNCHANGED <<redis, req, torn>>

StoreQuery(w) ==
  /\ pc[w] = "setDoc"
  /\ doc' = [doc EXCEPT ![req[w].key[1]] = IF TTL = 0 THEN NoTTL ELSE ExpireTTL]
  /\ Goto(w, "rpush")
  /\ UNCHANGED <<hash, list, req, torn>>

PushStats(w) ==
  /\ pc[w] = "rpush"
  /\ list' = [list EXCEPT ![req[w].key[1]].len = @ + 1]
  /\ Goto(w, IF TTL > 0 THEN "ttlList" ELSE "hexists")
  /\ UNCHANGED <<hash, doc, req, torn>>

(* Bad: leaves EXPIRE to the thread that created the list, and waits.      *)
BadAfterTtlList(l) ==
  IF l.len > 1 /\ l.ttl = NoTTL THEN "ttlList" ELSE "expireList"

AfterTtlList(l) ==
  IF Unexpiring(l.len > 0, l.ttl) THEN "expireList" ELSE "hexists"

TtlList(w) ==
  /\ pc[w] = "ttlList"
  /\ Goto(w, AfterTtlList(list[req[w].key[1]]))
  /\ UNCHANGED <<redis, req, torn>>

ExpireList(w) ==
  /\ pc[w] = "expireList"
  /\ LET q == req[w].key[1]
     IN  list' = IF list[q].len = 0 THEN list
                 ELSE [list EXCEPT ![q].ttl = ExpireTTL]
  /\ Goto(w, "hexists")
  /\ UNCHANGED <<hash, doc, req, torn>>

CheckFirst(w) ==
  /\ pc[w] = "hexists"
  /\ req' = [req EXCEPT ![w].first = ~hash[req[w].key].first]
  /\ Goto(w, "hmset")
  /\ UNCHANGED <<redis, torn>>

(* Bad: the hash is replaced as a whole.                                   *)
BadOverwritten(h, run) ==
  [h EXCEPT !.elapsed    = run.clock,
            !.duration   = run.duration,
            !.emittedDPs = IF run.timeout THEN Absent ELSE run.emittedDPs,
            !.first      = run.first]

(* HMSET of global_stats: a timeout leaves the stored 'emittedDPs' as it   *)
(* is, and a run that is not the first the first_occurrence.               *)
Overwritten(h, run) ==
  [h EXCEPT !.elapsed    = run.clock,
            !.duration   = run.duration,
            !.emittedDPs = IF run.timeout THEN @ ELSE run.emittedDPs,
            !.first      = @ \/ run.first]

WriteStats(w) ==
  /\ pc[w] = "hmset"
  /\ hash' = [hash EXCEPT ![req[w].key] = Overwritten(@, req[w])]
  /\ req' = [v \in Workers |->
       IF req[v].look = "current" /\ req[v].key = req[w].key
       THEN [req[v] EXCEPT !.look = "overtaken"] ELSE req[v]]
  /\ Goto(w, IF TTL > 0 THEN "ttlHash" ELSE "total")
  /\ UNCHANGED <<list, doc, torn>>

TtlHash(w) ==
  /\ pc[w] = "ttlHash"
  /\ LET h == hash[req[w].key]
     IN  Goto(w, IF Unexpiring(Exists(h), h.ttl) THEN "expireHash" ELSE "total")
  /\ UNCHANGED <<redis, req, torn>>

ExpireHash(w) ==
  /\ pc[w] = "expireHash"
  /\ LET k == req[w].key
     IN  hash' = IF ~Exists(hash[k]) THEN hash
                 ELSE [hash EXCEPT ![k].ttl = ExpireTTL]
  /\ Goto(w, "total")
  /\ UNCHANGED <<list, doc, req, torn>>

(* Bad: runs that timed out have a counter of their own.                   *)
BadRuns(run) == IF run.timeout THEN 0 ELSE 1

(* What a run adds to total_counter.                                       *)
Runs(run) == 1

(* HINCRBY creates the hash when it is not there, without a TTL.           *)
CountTotal(w) ==
  /\ pc[w] = "total"
  /\ hash' = [hash EXCEPT ![req[w].key].total = @ + Runs(req[w])]
  /\ IF req[w].timeout
     THEN Goto(w, "timeouts") /\ UNCHANGED req
     ELSE Return(w)
  /\ UNCHANGED <<list, doc, torn>>

CountTimeout(w) ==
  /\ pc[w] = "timeouts"
  /\ hash' = [hash EXCEPT ![req[w].key].timeouts = @ + 1]
  /\ Done(w)
  /\ UNCHANGED <<list, doc, torn>>

-----------------------------------------------------------------------------
(* The environment                                                         *)

(* A Redis command after PING fails: what was written stays.  load_stats,  *)
(* and save_stats of a timeout, end the request without a reply; with any  *)
(* other run the exception of save_stats is caught.                        *)
RedisError(w) ==
  /\ "error" \in Faults
  /\ \/ pc[w] = "load" /\ Done(w) /\ UNCHANGED torn
     \/ pc[w] \in SaveSteps /\ Saved(w) /\ torn' = torn \cup {req[w].key[1]}
  /\ UNCHANGED redis

(* Redis does not answer: redis.Redis is built without a socket timeout,   *)
(* and the thread waits for ever.                                          *)
Hang(w) ==
  /\ "silent" \in Faults
  /\ pc[w] \in SaveSteps \cup {"load", "save", "resave"}
  /\ Goto(w, "hung") /\ req' = [req EXCEPT ![w] = Idle]
  /\ torn' = IF pc[w] \in SaveSteps THEN torn \cup {req[w].key[1]} ELSE torn
  /\ UNCHANGED redis

(* The daemon is stopped or killed: its threads die where they are, Redis  *)
(* keeps its data, and the restarted daemon begins with idle threads.      *)
Crash ==
  /\ "crash" \in Faults
  /\ \E w \in Workers : pc[w] # "idle"
  /\ pc'  = [w \in Workers |-> "idle"]
  /\ req' = [w \in Workers |-> Idle]
  /\ torn' = torn \cup {req[w].key[1] : w \in {v \in Workers : pc[v] \in SaveSteps}}
  /\ UNCHANGED redis

(* Where a thread still uses the time at which it began something.         *)
Timed == {"backend", "reply", "doc", "setDoc", "rpush", "ttlList", "expireList",
          "hexists", "hmset"}

Older(age)   == IF age < MaxAge THEN age + 1 ELSE age
Left(ttl)    == IF ttl = NoTTL THEN NoTTL ELSE ttl - 1

(* One second passes: ages grow, TTLs shrink and keys expire.  The socket  *)
(* timeout ends an exchange that makes no progress.                        *)
Tick ==
  /\ \A w \in Workers : pc[w] \in {"backend", "reply"} => req[w].clock < Longest
  /\ hash' = [k \in Key |->
       IF hash[k].ttl = 1 THEN NoHash
       ELSE [hash[k] EXCEPT !.elapsed = IF @ = Absent THEN @ ELSE Older(@),
                            !.ttl = Left(@)]]
  /\ list' = [q \in Queries |->
       IF list[q].ttl = 1 THEN NoList ELSE [list[q] EXCEPT !.ttl = Left(@)]]
  /\ doc' = [q \in Queries |->
       CASE doc[q] \in {Absent, NoTTL} -> doc[q]
         [] doc[q] = 1                 -> Absent
         [] OTHER                      -> doc[q] - 1]
  /\ req' = [w \in Workers |->
       [req[w] EXCEPT !.clock = IF pc[w] \in Timed THEN Older(@) ELSE @,
                      !.stats.elapsed =
                         IF req[w].stats.found THEN Older(@) ELSE @]]
  /\ UNCHANGED <<pc, torn>>

-----------------------------------------------------------------------------
(* What a handler thread does of itself once it has a request.             *)
Handle(w) ==
  \/ LoadStats(w) \/ Decide(w)
  \/ BackendReply(w) \/ BackendTimeout(w) \/ BackendError(w) \/ Reply(w)
  \/ SaveBegin(w) \/ CheckQuery(w) \/ StoreQuery(w) \/ PushStats(w)
  \/ TtlList(w) \/ ExpireList(w) \/ CheckFirst(w) \/ WriteStats(w)
  \/ TtlHash(w) \/ ExpireHash(w) \/ CountTotal(w) \/ CountTimeout(w)

Next ==
  \/ Tick
  \/ Crash
  \/ \E w \in Workers :
       \/ Receive(w) \/ Handle(w) \/ Stall(w)
       \/ LoadBlind(w) \/ SaveSkip(w) \/ RedisError(w) \/ Hang(w)

Spec == Init /\ [][Next]_vars

(* Threads are scheduled, time passes, and a wait for the backend or the   *)
(* client ends with an answer, an error or the socket timeout.  Redis      *)
(* answers, raises, or leaves the thread hung for good.                    *)
Fairness == WF_vars(Tick) /\ \A w \in Workers : WF_vars(Handle(w))

FairSpec == Spec /\ Fairness

-----------------------------------------------------------------------------
(* Properties                                                              *)

Age     == 0 .. MaxAge
TTLs    == {NoTTL} \cup 1 .. TTL
HashRec == [elapsed : Age \cup {Absent}, duration : Age \cup {Absent},
            emittedDPs : DPs \cup {0, Absent}, first : BOOLEAN,
            total : Nat, timeouts : Nat, ttl : TTLs]
StatsRec == [found : BOOLEAN, elapsed : Age, duration : Age,
             emittedDPs : DPs \cup {0}]
Request == [key : Key, drift : SUBSET {-1, 1}, stats : StatsRec, clock : Age,
            duration : Age, emittedDPs : DPs \cup {0},
            timeout : BOOLEAN, first : BOOLEAN,
            look : {"none", "current", "overtaken", "unreachable"}]

TypeOK ==
  /\ hash \in [Key -> HashRec]
  /\ list \in [Queries -> [len : Nat, ttl : TTLs]]
  /\ doc  \in [Queries -> {Absent} \cup TTLs]
  /\ pc   \in [Workers -> Steps \cup {"idle", "hung"}]
  /\ req  \in [Workers -> Request]
  /\ torn \subseteq Queries

(* Save steps after RPUSH, and those of them before HINCRBY total_counter. *)
Uncounted == {"ttlList", "expireList", "hexists", "hmset", "ttlHash",
              "expireHash", "total"}

Saving(q, steps) == {w \in Workers : req[w].key[1] = q /\ pc[w] \in steps}

(* The counters of all the intervals of a query add up to the length of    *)
(* its list, up to the saves under way, unless a save of that query was    *)
(* cut short, and a hash never counts more timeouts than runs              *)
(* (protector_main.py:186-221): what the comment of line 217 says of one   *)
(* counter holds of their sum.  For statistics kept for ever.              *)
CountersMatchList ==
  TTL = 0 =>
    /\ \A q \in Queries \ torn :
         list[q].len = MapThenSumSet(LAMBDA i : hash[<<q, i>>].total, Intervals)
                       + Cardinality(Saving(q, Uncounted))
    /\ \A k \in Key :
         hash[k].total >= hash[k].timeouts
            + Cardinality({w \in Workers : req[w].key = k /\ pc[w] = "timeouts"})

(* With statistics kept for ever, a record has its first_occurrence        *)
(* whatever the interleaving of HEXISTS and HMSET of several saves, and    *)
(* whichever of them fail (protector_main.py:207-210).                     *)
FirstOccurrenceKept ==
  TTL = 0 => \A k \in Key : Stamped(hash[k]) => hash[k].first

HashesExpire ==
  \A k \in Key : Stamped(hash[k]) /\ hash[k].ttl = NoTTL /\ k[1] \notin torn =>
    \E w \in Workers : req[w].key = k /\ pc[w] \in {"ttlHash", "expireHash"}

ListsExpire ==
  \A q \in Queries \ torn : list[q].len > 0 /\ list[q].ttl = NoTTL =>
    \E w \in Workers : req[w].key[1] = q /\ pc[w] \in {"ttlList", "expireList"}

DocsExpire == \A q \in Queries : doc[q] # NoTTL

(* With db.expire set, every record that can throttle a query, and every   *)
(* list, goes away: it has a TTL or a thread is about to set one, unless a *)
(* save of that query was cut short; and so does every stored query        *)
(* (protector_main.py:167, 190-192, 213-215).                              *)
RecordsWillExpire ==
  TTL > 0 => HashesExpire /\ ListsExpire /\ DocsExpire

(* Taken literally, the comment "Set TTL if supplied" and the setting      *)
(* "data ttl 1 week": a hash whose save is over has a TTL.                 *)
EveryHashExpires ==
  TTL > 0 => \A k \in Key : Exists(hash[k]) /\ hash[k].ttl = NoTTL =>
     \E w \in Workers : req[w].key = k /\ pc[w] \in SaveSteps

(* The guard would let a request of this query and interval through now.   *)
Permitted(k) == IsAllowed(Shape[k[1]], StatsOf(hash[k])) = "ok"

(* "Throttling ends": a query that the stateful rules refuse is permitted  *)
(* again some time later, whatever else the clients do.                    *)
RefusalEnds ==
  \A k \in Key : (~Permitted(k) /\ Stamped(hash[k])) ~> Permitted(k)

(* ... and so it is whatever fails, unless a save of the query was cut     *)
(* short (protector_main.py:212-215, too_many_datapoints.py:34).           *)
RefusalEndsUnlessTorn ==
  \A k \in Key : (~Permitted(k) /\ Stamped(hash[k])) ~>
                    (Permitted(k) \/ k[1] \in torn)

(* The record is read before the guard decides, and nothing holds it: a    *)
(* request is sent to the backend although the rules refuse it on the      *)
(* record as it is by then only if another thread has saved a run of the   *)
(* same query and interval since it looked, or it could not look           *)
(* (request_handler.py:161-172, protector_main.py:94-95).                  *)
AdmittedOnCurrentRecord ==
  [][\A w \in Workers : pc[w] = "guard" /\ pc'[w] = "backend" /\ ~SafeMode =>
       Permitted(req[w].key) \/ req[w].look # "current"]_vars

(* Every request comes to its end, do_POST returns, unless Redis leaves    *)
(* its thread waiting for ever, which only Redis does                      *)
(* (request_handler.py:133-178, 205-230, protector_main.py:48-52).         *)
RequestsEnd == \A w \in Workers : pc[w] # "idle" ~> pc[w] \in {"idle", "hung"}

-----------------------------------------------------------------------------
(* What StatsStore implements                                              *)

Known(stats) ==
  IF stats.found
  THEN [elapsed |-> stats.elapsed, duration |-> stats.duration,
        emittedDPs |-> stats.emittedDPs]
  ELSE [elapsed |-> MaxAge, duration |-> 0, emittedDPs |-> 0]

Unrecorded == Timed \ {"backend", "reply"}

StepOf(step, timeout) ==
  CASE step \in {"idle", "hung"}             -> "idle"
    [] step = "load"                         -> "asking"
    [] step = "guard"                        -> "judging"
    [] step \in {"backend", "save"}          -> "running"
    [] step \in Unrecorded                   -> "answered"
    [] step \in {"reply", "resave"}          -> "replying"
    [] OTHER               -> IF timeout THEN "over" ELSE "replying"

(* HMSET is where a run enters the memory, HGETALL where it is looked up.  *)
Promise == INSTANCE Breaker WITH
  Blind   <- "unreachable" \in Faults,
  Forgets <- TTL > 0,
  memory <- [k \in Key |-> Known(StatsOf(hash[k]))],
  work   <- [w \in Workers |->
    [step   |-> StepOf(pc[w], req[w].timeout),
     key    |-> req[w].key,
     known  |-> Known(req[w].stats),
     result |-> IF pc[w] \in Unrecorded
                THEN [elapsed |-> req[w].clock, duration |-> req[w].duration,
                      emittedDPs |-> req[w].emittedDPs,
                      timeout |-> req[w].timeout]
                ELSE [elapsed |-> 0, duration |-> 0, emittedDPs |-> 0,
                      timeout |-> FALSE]]]

(* Whatever the interleaving, the expiries and the failures, the commands  *)
(* of load_stats and save_stats behave as one look and one update of a     *)
(* memory that forgets only what expires: no request runs that the rules   *)
(* refuse on the record it looked up, no record appears without a run, a   *)
(* run is recorded twice only for a client that stalls, the second time as *)
(* a timeout, and no record mixes two runs, but that one of a timeout has  *)
(* the data points of the record before it (protector_main.py:67-95,       *)
(* 145-221, 239-254, request_handler.py:205-230).                          *)
KeepsPromise == Promise!Spec
=============================================================================
