------------------------------ MODULE TopStats ------------------------------
(***************************************************************************)
(* The hourly top lists: set_top_duration and set_top_dps at the end of    *)
(* save_stats, and get_top, which serves them.  The two lists have keys of *)
(* their own and the same commands, so that the module has one of them.    *)
(*                                                                         *)
(* A list is a Redis sorted set whose key has the day of the month and the *)
(* hour, and nothing else: the key comes again a month later.  The clock   *)
(* counts hours.                                                           *)
(*                                                                         *)
(* An operator named Bad... is a slip that this code could have made.      *)
(***************************************************************************)
EXTENDS Integers

CONSTANTS
  Workers,      \* threads that save a run
  Members,      \* the members of the sets: query and interval
  Values,       \* durations or data points of a run
  TTL,          \* db.expire in hours, 0 when statistics are kept for ever
  HoursPerDay,  \* 24 hours and 28 to 31 days in the life of the program
  DaysPerMonth,
  MaxHour       \* bound: the last hour of the model

ASSUME TopAssumption ==
  /\ Members # {}
  /\ Values \subseteq Nat
  /\ TTL \in Nat /\ MaxHour \in Nat
  /\ HoursPerDay \in Nat \ {0} /\ DaysPerMonth \in Nat \ {0}

Absent == -1   \* no score, or no score yet
NoTTL  == -2   \* the key does not expire, or is not there

VARIABLES
  now,     \* the hour
  top,     \* top[slot]: the sorted set of that day and hour
  pc,      \* pc[w]: the next command of thread w
  save,    \* save[w]: the local variables of set_top_* in thread w
  reader,  \* get_top: the hour in which it began and the next hour to read
  best,    \* history: the highest value that was saved undisturbed, of the
           \* sets that a save can still write to
  failed   \* history: whether a save has ended between ZADD and EXPIRE

vars == <<now, top, pc, save, reader, best, failed>>

(* Bad: the day is not part of the key.                                    *)
BadSlot(hour) == hour % HoursPerDay

(* The key "top_..._{day}_{hour}".                                         *)
Slot(hour) == hour % (HoursPerDay * DaysPerMonth)

Slots == {Slot(hour) : hour \in 0 .. HoursPerDay * DaysPerMonth - 1}

(* A score, and the hour of the run that it comes from (history).          *)
NoScore == [value |-> Absent, hour |-> 0]

Empty == [scores |-> [m \in Members |-> NoScore], ttl |-> NoTTL]

Present(key) == \E m \in Members : key.scores[m] # NoScore

NotReading == [began |-> 0, hour |-> -1]

Idle == [member |-> CHOOSE m \in Members : TRUE, value |-> 0,
         hour |-> 0, alone |-> FALSE]

Init ==
  /\ now = 0
  /\ top = [s \in Slots |-> Empty]
  /\ pc = [w \in Workers |-> "idle"]
  /\ save = [w \in Workers |-> Idle]
  /\ reader = NotReading
  /\ best = [s \in Slots |-> [m \in Members |-> Absent]]
  /\ failed = FALSE

Goto(w, step) == pc' = [pc EXCEPT ![w] = step]

(* set_top_* begins and takes the day and the hour.                        *)
Begin(w) ==
  /\ pc[w] = "idle"
  /\ Goto(w, "zscore")
  /\ \E m \in Members, value \in Values :
       LET met == {v \in Workers : /\ pc[v] # "idle"
                                   /\ Slot(save[v].hour) = Slot(now)
                                   /\ save[v].member = m}
       IN  save' = [v \in Workers |->
             IF v = w THEN [member |-> m, value |-> value, hour |-> now,
                            alone |-> met = {}]
             ELSE IF v \in met THEN [save[v] EXCEPT !.alone = FALSE]
             ELSE save[v]]
  /\ UNCHANGED <<now, top, reader, best, failed>>

(* The save of thread w is complete.                                       *)
Done(w) ==
  LET s == Slot(save[w].hour)
      m == save[w].member
  IN  /\ Goto(w, "idle")
      /\ save' = [save EXCEPT ![w] = Idle]
      /\ best' = IF save[w].alone /\ save[w].value > best[s][m]
                 THEN [best EXCEPT ![s][m] = save[w].value]
                 ELSE best

Score(w) == top[Slot(save[w].hour)].scores[save[w].member]

(* Bad: the new value is not compared with the score.                      *)
BadReadScore(w) ==
  /\ pc[w] = "zscore"
  /\ Goto(w, "zaddNew")
  /\ UNCHANGED <<now, top, save, reader, best, failed>>

(* ZSCORE and what is made of it.  A score of 0 is taken for none.         *)
ReadScore(w) ==
  /\ pc[w] = "zscore"
  /\ LET sc == Score(w).value
     IN  IF sc \in {Absent, 0}
         THEN Goto(w, "zaddNew") /\ UNCHANGED <<save, best>>
         ELSE IF save[w].value > sc
         THEN Goto(w, "zaddHigher") /\ UNCHANGED <<save, best>>
         ELSE Done(w)
  /\ UNCHANGED <<now, top, reader, failed>>

Add(w) ==
  top' = [top EXCEPT ![Slot(save[w].hour)].scores[save[w].member] =
            [value |-> save[w].value, hour |-> save[w].hour]]

(* Bad: EXPIRE is left to a set that has a TTL already.                    *)
BadAddNew(w) ==
  /\ pc[w] = "zaddNew"
  /\ Add(w)
  /\ IF top[Slot(save[w].hour)].ttl # NoTTL
     THEN Goto(w, "expire") /\ UNCHANGED <<save, best>>
     ELSE Done(w)
  /\ UNCHANGED <<now, reader, failed>>

AddNew(w) ==
  /\ pc[w] = "zaddNew"
  /\ Add(w)
  /\ IF TTL > 0
     THEN Goto(w, "expire") /\ UNCHANGED <<save, best>>
     ELSE Done(w)
  /\ UNCHANGED <<now, reader, failed>>

Expire(w) ==
  /\ pc[w] = "expire"
  /\ LET s == Slot(save[w].hour)
     IN  top' = IF Present(top[s]) THEN [top EXCEPT ![s].ttl = TTL] ELSE top
  /\ Done(w)
  /\ UNCHANGED <<now, reader, failed>>

(* Bad: ZINCRBY in place of ZADD.                                          *)
BadAddHigher(w) ==
  /\ pc[w] = "zaddHigher"
  /\ top' = [top EXCEPT
       ![Slot(save[w].hour)].scores[save[w].member].value = @ + save[w].value]
  /\ Done(w)
  /\ UNCHANGED <<now, reader, failed>>

AddHigher(w) ==
  /\ pc[w] = "zaddHigher"
  /\ Add(w)
  /\ Done(w)
  /\ UNCHANGED <<now, reader, failed>>

(* A command fails, or the process ends.                                   *)
Fail(w) ==
  /\ pc[w] # "idle"
  /\ Goto(w, "idle")
  /\ save' = [save EXCEPT ![w] = Idle]
  /\ failed' = (failed \/ pc[w] = "expire")
  /\ UNCHANGED <<now, top, reader, best>>

-----------------------------------------------------------------------------
(* get_top takes the hour and reads today's sets backwards from it, one    *)
(* ZRANGE for each hour.                                                   *)

NextRead == IF reader = NotReading
            THEN [began |-> now, hour |-> now % HoursPerDay] ELSE reader

(* The hour whose set is read next.                                        *)
Reading == (NextRead.began - (NextRead.began % HoursPerDay)) + NextRead.hour

ReadTop ==
  /\ reader' = IF NextRead.hour = 0 THEN NotReading
               ELSE [NextRead EXCEPT !.hour = @ - 1]
  /\ UNCHANGED <<now, top, pc, save, best, failed>>

-----------------------------------------------------------------------------
(* An hour ends.  Bounds: what has begun in an hour ends within the next,  *)
(* and no hour ends once a set was left without a TTL, since nothing is    *)
(* said of the expiry of sets from then on.                                *)
Tick ==
  /\ now < MaxHour
  /\ ~failed
  /\ \A w \in Workers : pc[w] # "idle" => save[w].hour = now
  /\ reader # NotReading => reader.began = now
  /\ now' = now + 1
  /\ top' = [s \in Slots |->
       CASE top[s].ttl = 1     -> Empty
         [] top[s].ttl = NoTTL -> top[s]
         [] OTHER              -> [top[s] EXCEPT !.ttl = @ - 1]]
  /\ best' = [s \in Slots |->
       IF s = Slot(now) /\ top[s].ttl # 1 THEN best[s]
       ELSE [m \in Members |-> Absent]]
  /\ UNCHANGED <<pc, save, reader, failed>>

Next ==
  \/ Tick \/ ReadTop
  \/ \E w \in Workers : \/ Begin(w) \/ ReadScore(w) \/ AddNew(w) \/ Expire(w)
                        \/ AddHigher(w) \/ Fail(w)

Spec == Init /\ [][Next]_vars

-----------------------------------------------------------------------------
(* Properties                                                              *)

TypeOK ==
  /\ now \in 0 .. MaxHour
  /\ top \in [Slots -> [scores : [Members -> [value : Values \cup {Absent},
                                              hour : 0 .. MaxHour]],
                        ttl : {NoTTL} \cup 1 .. TTL]]
  /\ pc \in [Workers -> {"idle", "zscore", "zaddNew", "expire", "zaddHigher"}]
  /\ save \in [Workers -> [member : Members, value : Nat,
                           hour : 0 .. MaxHour, alone : BOOLEAN]]
  /\ reader \in [began : 0 .. MaxHour, hour : -1 .. HoursPerDay - 1]
  /\ best \in [Slots -> [Members -> Values \cup {Absent}]]
  /\ failed \in BOOLEAN

(* Two saves that meet can lose the higher of their values, but a run that *)
(* was saved without meeting another of the same query and interval stays  *)
(* in the list of its hour, or a higher one does, whatever other saves do  *)
(* or leave undone before and after it (protector_main.py:112-120).        *)
TopOfUndisturbed ==
  \A s \in Slots, m \in Members : top[s].scores[m].value >= best[s][m]

(* A set that expires keeps doing so although ZADD comes after ZSCORE, and *)
(* only a new member sets the TTL (protector_main.py:114-120).             *)
TopsExpire ==
  TTL > 0 /\ ~failed =>
    \A s \in Slots : Present(top[s]) /\ top[s].ttl = NoTTL =>
      \E w \in Workers : pc[w] = "expire" /\ Slot(save[w].hour) = s

Month == HoursPerDay * DaysPerMonth

(* db.expire is set, to less than a month.                                 *)
ShortExpiry == TTL \in 2 .. Month - 1

(* "Dump all hourly tops for today" (protector_main.py:274) is what        *)
(* get_top does if the sets expire within a month: what it reads for an    *)
(* hour comes from runs of that hour of this day, not of the same day of   *)
(* an earlier month.  Nothing but EXPIRE sees to that, so the line is not  *)
(* true of a configuration without db.expire, which is the default: from   *)
(* the second month on it serves what earlier months left.                 *)
TodaysTops ==
  ShortExpiry /\ ~failed => \A m \in Members :
    LET score == top[Slot(Reading)].scores[m]
    IN  score # NoScore => score.hour = Reading
=============================================================================
