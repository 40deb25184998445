------------------------------ MODULE Breaker -------------------------------
(***************************************************************************)
(* What the protector promises about repeated queries, without Redis: it   *)
(* remembers the last run of a query over an interval, lets a request run  *)
(* only when the rules permit it on what it remembered when the request    *)
(* looked, and overwrites that memory only with the result of a request    *)
(* that has run: once, and a second time as a timeout when the client is   *)
(* slow to take the reply.  It may forget.                                 *)
(*                                                                         *)
(* A request looks at the memory in one step and records its run in one    *)
(* step; StatsStore implements this with some ten Redis commands.          *)
(***************************************************************************)
EXTENDS Rules

CONSTANTS
  Workers,    \* the requests under way
  Queries, Shape, Intervals, DPs, SafeMode, MaxAge,  \* as in StatsStore
  Blind,      \* the memory may be out of reach
  Forgets     \* what is remembered may be forgotten

VARIABLES
  memory,  \* memory[<<q, i>>]: the last run, as the rules see it
  work     \* work[w]: where request w is and what it knows

vars == <<memory, work>>

Key == Queries \X Intervals
Age == 0 .. MaxAge

(* Nothing is remembered, or only what no rule objects to.                 *)
Blank == [elapsed |-> MaxAge, duration |-> 0, emittedDPs |-> 0]

NoResult == [elapsed |-> 0, duration |-> 0, emittedDPs |-> 0, timeout |-> FALSE]

Idle == [step |-> "idle", key |-> CHOOSE k \in Key : TRUE,
         known |-> Blank, result |-> NoResult]

Verdict(k, known) ==
  IsAllowed(Shape[k[1]], [found |-> TRUE, elapsed |-> known.elapsed,
                          duration |-> known.duration,
                          emittedDPs |-> known.emittedDPs])

Init ==
  /\ memory = [k \in Key |-> Blank]
  /\ work = [w \in Workers |-> Idle]

(* A request arrives; the lists may exempt it from the rules, or drop it.  *)
Ask(w) ==
  /\ work[w].step = "idle"
  /\ \E k \in Key :
       \/ /\ ListVerdict(Shape[k[1]]) = "guard"
          /\ work' = [work EXCEPT ![w].step = "asking", ![w].key = k]
       \/ /\ \/ ListVerdict(Shape[k[1]]) = "allowedlist"
             \/ ListVerdict(Shape[k[1]]) = "blockedlist" /\ SafeMode
          /\ work' = [work EXCEPT ![w].step = "running", ![w].key = k]
  /\ UNCHANGED memory

Look(w) ==
  /\ work[w].step = "asking"
  /\ \E known \in {memory[work[w].key]} \cup (IF Blind THEN {Blank} ELSE {}) :
       work' = [work EXCEPT ![w].step = "judging", ![w].known = known]
  /\ UNCHANGED memory

Admit(w) ==
  /\ work[w].step = "judging"
  /\ Verdict(work[w].key, work[w].known) = "ok" \/ SafeMode
  /\ work' = [work EXCEPT ![w].step = "running", ![w].known = Blank]
  /\ UNCHANGED memory

(* What a request has to record after the step given: how long it took,    *)
(* its data points, and under which interval, which may have moved.        *)
Result(w, step, timeouts) ==
  /\ work[w].step = step
  /\ \E i \in {j \in Intervals : j - work[w].key[2] \in -1 .. 1},
        d \in Age, dps \in DPs \cup {0}, timeout \in timeouts :
       work' = [work EXCEPT
         ![w].step = "answered", ![w].key[2] = i,
         ![w].result = [elapsed |-> 0, duration |-> d, emittedDPs |-> dps,
                        timeout |-> timeout]]
  /\ UNCHANGED memory

Answer(w) == Result(w, "running", BOOLEAN)

(* The client is slow to take the reply: the run counts as a timeout too.  *)
Again(w) == Result(w, "replying", {TRUE})

(* A run is not recorded, and the client gets its reply all the same.      *)
Forgo(w) ==
  /\ work[w].step \in {"running", "answered"} /\ ~work[w].result.timeout
  /\ work' = [work EXCEPT ![w].step = "replying", ![w].result = NoResult]
  /\ UNCHANGED memory

Remember(run, known) ==
  [elapsed    |-> run.elapsed,
   duration   |-> run.duration,
   emittedDPs |-> IF run.timeout THEN known.emittedDPs ELSE run.emittedDPs]

Record(w) ==
  /\ work[w].step = "answered"
  /\ memory' = [memory EXCEPT ![work[w].key] = Remember(work[w].result, @)]
  /\ work' = [work EXCEPT
       ![w].step = IF work[w].result.timeout THEN "over" ELSE "replying",
       ![w].result = NoResult]

(* A request may end, or fail, at any point.                               *)
End ==
  /\ \E ended \in SUBSET Workers :
       work' = [w \in Workers |-> IF w \in ended THEN Idle ELSE work[w]]
  /\ UNCHANGED memory

Older(m) == [m EXCEPT !.elapsed = IF @ < MaxAge THEN @ + 1 ELSE @]

(* A second passes for all that is remembered, known or not yet recorded.  *)
Pass ==
  /\ \A k \in Key : memory'[k] = Older(memory[k]) \/ (Forgets /\ memory'[k] = Blank)
  /\ memory' \in [Key -> [elapsed : Age, duration : Age, emittedDPs : DPs \cup {0}]]
  /\ work' = [w \in Workers |->
       [work[w] EXCEPT !.known = Older(@),
                       !.result = IF work[w].step = "answered"
                                  THEN Older(@) ELSE @]]

Next ==
  \/ Pass
  \/ End
  \/ \E w \in Workers :
       \/ Ask(w) \/ Look(w) \/ Admit(w)
       \/ Answer(w) \/ Again(w) \/ Forgo(w) \/ Record(w)

Spec == Init /\ [][Next]_vars
=============================================================================
