----------------------------- MODULE QueryWindow ----------------------------
(***************************************************************************)
(* The time range of a query: how OpenTSDBQuery reads its start and its    *)
(* end, and the interval in minutes that is part of the key of its record. *)
(*                                                                         *)
(* Times count thirds of a second, so that rounding a time and cutting off *)
(* its fraction differ, and no time is half-way between two seconds.  A    *)
(* range is a record                                                       *)
(*    start   [form |-> "seconds", n]  a number of up to 12 digits         *)
(*            [form |-> "millis", n]   a longer one; n in thirds of a      *)
(*                                     second stands for milliseconds      *)
(*            [form |-> "ago", n]      n thirds of a second ago: of the    *)
(*                                     units only the length is told apart *)
(*    end     "seconds" or "millis" as above, or [form |-> "none"]         *)
(*                                                                         *)
(* An operator named Bad... is a slip that this code could have made.      *)
(***************************************************************************)
EXTENDS Integers

CONSTANTS
  Minute,   \* the seconds of a minute
  Starts,   \* the starts and the ends that clients send
  Ends

ASSUME RangeAssumption ==
  /\ Minute \in Nat \ {0, 1}
  /\ Starts \subseteq [form : {"seconds", "millis", "ago"}, n : Nat]
  /\ Ends \subseteq [form : {"seconds", "millis"}, n : Nat] \cup [form : {"none"}]

TimeRange == [start : Starts, end : Ends]

(* int(round(t)), and the whole seconds that timetuple leaves of t.        *)
Rounded(t)   == (t + 1) \div 3
Truncated(t) == t \div 3

(* A number by its digits: int(n), or int(n) / 1000 with its fraction.     *)
Absolute(time) == IF time.form = "seconds" THEN 3 * time.n ELSE time.n

(* Bad: the fraction of a second stays.                                    *)
BadStart(range, t) ==
  IF range.start.form = "ago" THEN t - range.start.n ELSE Absolute(range.start)

(* get_start_timestamp at time t.                                          *)
Start(range, t) ==
  IF range.start.form = "ago" THEN 3 * Truncated(t - range.start.n)
  ELSE Absolute(range.start)

(* Bad: int(time.time()).                                                  *)
BadEnd(range, t) ==
  IF range.end.form = "none" THEN 3 * Truncated(t) ELSE Absolute(range.end)

(* get_end_timestamp at time t.                                            *)
End(range, t) ==
  IF range.end.form = "none" THEN 3 * Rounded(t) ELSE Absolute(range.end)

(* int(length / 60), which cuts towards zero, also when end is before      *)
(* start.                                                                  *)
Minutes(length) ==
  IF length >= 0 THEN length \div (3 * Minute) ELSE -((-length) \div (3 * Minute))

(* load_stats and save_stats read the end at t and then, at u, the start.  *)
Interval(range, t, u) == Minutes(End(range, t) - Start(range, u))

(* query_old_data reads the clock at t and the start at u.                 *)
StartAge(range, t, u) == t - Start(range, u)

-----------------------------------------------------------------------------
(* What can become of the interval between load_stats and save_stats, by   *)
(* the form of the range.  A relative start without an end is steady, but  *)
(* for a length like 59 seconds, which is a minute or not by the fraction  *)
(* of the second in which it is read.                                      *)

Steady(n) == n % 3 = 0 /\ (n \div 3 + 1) % Minute # 0

Drift(range) ==
  LET ago  == range.start.form = "ago"
      open == range.end.form = "none"
  IN  CASE ~ago /\ open -> {1}
        [] ago /\ ~open -> {-1}
        [] ago /\ open  -> IF Steady(range.start.n) THEN {} ELSE {-1, 1}
        [] OTHER        -> {}
=============================================================================
