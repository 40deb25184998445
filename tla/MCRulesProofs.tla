--------------------------- MODULE MCRulesProofs ----------------------------
(***************************************************************************)
(* The key under which a run is recorded is the key under which it is      *)
(* looked up: theorems about the interval of a time range, for every       *)
(* range, every time and every length of a minute.  And what time does to  *)
(* the verdict on a query.                                                 *)
(***************************************************************************)
EXTENDS MCRules, RulesProofs

(* Division of numbers that are at most one divisor apart.                 *)
LEMMA DivStep ==
  ASSUME NEW d \in Nat, d > 0, NEW a \in Nat, NEW b \in Nat, a <= b, b - a <= d
  PROVE  (b \div d) - (a \div d) \in {0, 1}
<1> DEFINE p == a \div d
           q == b \div d
<1>1. p \in Int /\ q \in Int /\ d * p <= a /\ a < d * p + d /\ d * q <= b /\ b < d * q + d
  OBVIOUS
<1> HIDE DEF p, q
<1>2. d * (q - p) < 2 * d /\ d * (q - p) > - d
  BY <1>1
<1>3. q - p < 2 /\ q - p > -1
  BY <1>1, <1>2
<1> QED
  BY <1>1, <1>3 DEF p, q

(* The same of minutes, which are cut towards zero.                        *)
LEMMA MinutesStep ==
  ASSUME NEW a \in Int, NEW b \in Int, a <= b, b - a <= 3 * Minute
  PROVE  Minutes(b) - Minutes(a) \in {0, 1}
<1> DEFINE d == 3 * Minute
<1>1. d \in Nat /\ d > 0
  BY RangeAssumption DEF RangeAssumption
<1>2. Minutes(a) = (IF a >= 0 THEN a \div d ELSE -((-a) \div d))
  BY DEF Minutes
<1>3. Minutes(b) = (IF b >= 0 THEN b \div d ELSE -((-b) \div d))
  BY DEF Minutes
<1>4. b - a <= d
  OBVIOUS
<1> HIDE DEF d
<1>5. CASE a >= 0
  BY <1>1, <1>2, <1>3, <1>4, <1>5, DivStep
<1>6. CASE b < 0
  <2>1. -b \in Nat /\ -a \in Nat /\ -b <= -a /\ (-a) - (-b) <= d
    BY <1>4, <1>6
  <2>2. ((-a) \div d) - ((-b) \div d) \in {0, 1}
    BY <1>1, <2>1, DivStep
  <2>3. (-a) \div d \in Int /\ (-b) \div d \in Int
    BY <1>1, <2>1
  <2> QED
    BY <1>2, <1>3, <1>6, <2>2, <2>3
<1>7. CASE a < 0 /\ b >= 0
  <2>1. -a \in Nat /\ b \in Nat /\ -a <= d /\ b < d
    BY <1>1, <1>4, <1>7
  <2>2. b \div d = 0
    BY <1>1, <2>1
  <2>3. (-a) \div d \in {0, 1}
    <3>1. 0 \div d = 0
      BY <1>1
    <3>2. ((-a) \div d) - (0 \div d) \in {0, 1}
      BY <1>1, <2>1, DivStep
    <3>3. (-a) \div d \in Int
      BY <1>1, <2>1
    <3> QED
      BY <3>1, <3>2, <3>3
  <2> QED
    BY <1>2, <1>3, <1>7, <2>2, <2>3
<1> QED
  BY <1>5, <1>6, <1>7

(* The whole seconds of two times, the later one within a minute.          *)
LEMMA ClockStep ==
  ASSUME NEW t \in Int
  PROVE  /\ Rounded(t) \in Int /\ 3 * Rounded(t) >= t - 1 /\ 3 * Rounded(t) <= t + 1
         /\ Truncated(t) \in Int /\ 3 * Truncated(t) >= t - 2 /\ 3 * Truncated(t) <= t
  BY DEF Rounded, Truncated

(* What TimeRange says of the start and the end of a range.                *)
LEMMA RangeParts ==
  ASSUME NEW range \in TimeRange, NEW t \in Int
  PROVE  /\ Start(range, t) \in Int /\ End(range, t) \in Int
         /\ range.start.n \in Nat
         /\ range.start.form = "ago" =>
              Start(range, t) = 3 * Truncated(t - range.start.n)
         /\ range.start.form # "ago" => Start(range, t) = Absolute(range.start)
         /\ range.end.form = "none" => End(range, t) = 3 * Rounded(t)
         /\ range.end.form # "none" => End(range, t) = Absolute(range.end)
<1>1. /\ range.start \in [form : {"seconds", "millis", "ago"}, n : Nat]
      /\ \/ range.end \in [form : {"seconds", "millis"}, n : Nat]
         \/ range.end \in [form : {"none"}]
  BY RangeAssumption DEF RangeAssumption, TimeRange
<1>2. range.start.n \in Nat /\ Absolute(range.start) \in Int
  BY <1>1 DEF Absolute
<1>3. range.end.form # "none" => Absolute(range.end) \in Int
  BY <1>1 DEF Absolute
<1>4. Rounded(t) \in Int /\ Truncated(t - range.start.n) \in Int
  BY <1>2 DEF Rounded, Truncated
<1> QED
  BY <1>2, <1>3, <1>4 DEF Start, End

(* A relative range without an end is as long as it says, or a second      *)
(* longer, although the clock may tick between the two readings.           *)
LEMMA RelativeLength ==
  ASSUME NEW n \in Nat, NEW t \in Int, NEW u \in {t, t + 1}
  PROVE  LET length == 3 * Rounded(t) - 3 * Truncated(u - n)
         IN  /\ length >= n - 2 /\ length <= n + 3
             /\ n % 3 = 0 => length \in {n, n + 3}
<1>1. u - n \in Int
  OBVIOUS
<1>2. /\ 3 * Rounded(t) - 3 * Truncated(u - n) >= n - 2
      /\ 3 * Rounded(t) - 3 * Truncated(u - n) <= n + 3
  BY <1>1, ClockStep
<1>3. n % 3 = 0 => 3 * Rounded(t) - 3 * Truncated(u - n) \in {n, n + 3}
  BY DEF Rounded, Truncated
<1> QED
  BY <1>2, <1>3

(* A steady length is the same number of minutes when it is a second       *)
(* longer.                                                                 *)
LEMMA SteadyMinutes ==
  ASSUME NEW n \in Nat, Steady(n)
  PROVE  Minutes(n + 3) = Minutes(n)
<1> DEFINE k == n \div 3
<1>1. k \in Nat /\ n = 3 * k /\ (k + 1) % Minute # 0
  BY DEF Steady
<1>2. Minute \in Nat /\ Minute > 1
  BY RangeAssumption DEF RangeAssumption
<1> HIDE DEF k
<1>3. \A m \in Nat : (3 * m) \div (3 * Minute) = m \div Minute
  BY <1>2
<1>4. Minutes(n) = k \div Minute /\ Minutes(n + 3) = (k + 1) \div Minute
  <2>1. n >= 0 /\ n + 3 = 3 * (k + 1) /\ n + 3 >= 0 /\ k + 1 \in Nat
    BY <1>1
  <2> QED
    BY <1>1, <1>3, <2>1 DEF Minutes
<1>5. (k + 1) \div Minute = k \div Minute
  BY <1>1, <1>2
<1> QED
  BY <1>4, <1>5

(* The interval of a range whose form is steady is always the same.        *)
LEMMA IntervalSteady ==
  ASSUME NEW range \in TimeRange, Drift(range) = {},
         NEW l \in Int, NEW u \in {l, l + 1}, NEW t \in Int, NEW v \in {t, t + 1}
  PROVE  Interval(range, t, v) = Interval(range, l, u)
<1>1. u \in Int /\ v \in Int
  OBVIOUS
<1>2. \/ range.start.form # "ago" /\ range.end.form # "none"
      \/ range.start.form = "ago" /\ range.end.form = "none" /\ Steady(range.start.n)
  BY DEF Drift
<1>3. CASE range.start.form # "ago" /\ range.end.form # "none"
  BY <1>1, <1>3, RangeParts DEF Interval
<1>4. CASE range.start.form = "ago" /\ range.end.form = "none" /\ Steady(range.start.n)
  <2> DEFINE n == range.start.n
             L(a, b) == 3 * Rounded(a) - 3 * Truncated(b - n)
  <2>1. n \in Nat /\ n % 3 = 0
    BY RangeParts, <1>4 DEF Steady
  <2>2. Minutes(n + 3) = Minutes(n)
    BY <1>4, <2>1, SteadyMinutes
  <2>3. L(l, u) \in {n, n + 3} /\ L(t, v) \in {n, n + 3}
    BY <2>1, RelativeLength
  <2>4. Interval(range, l, u) = Minutes(L(l, u)) /\ Interval(range, t, v) = Minutes(L(t, v))
    BY <1>1, <1>4, RangeParts DEF Interval
  <2> QED
    BY <2>2, <2>3, <2>4
<1> QED
  BY <1>2, <1>3, <1>4

(* Within a minute the interval of any range moves by at most one, in the  *)
(* direction of its form.                                                  *)
LEMMA IntervalMoves ==
  ASSUME NEW range \in TimeRange, NEW l \in Int, NEW u \in {l, l + 1},
         NEW t \in Int, u <= t, t <= l + 3 * Minute - 1, NEW v \in {t, t + 1}
  PROVE  Interval(range, t, v) - Interval(range, l, u) \in {0} \cup Drift(range)
<1> DEFINE a == End(range, l) - Start(range, u)
           b == End(range, t) - Start(range, v)
           n == range.start.n
<1>1. u \in Int /\ v \in Int /\ l <= t /\ n \in Nat /\ Minute \in Nat /\ Minute >= 2
  BY RangeParts, RangeAssumption DEF RangeAssumption
<1>2. a \in Int /\ b \in Int
  BY <1>1, RangeParts
<1>3. Minutes(a) \in Int /\ Minutes(b) \in Int
  BY <1>1, <1>2 DEF Minutes
<1>4. Interval(range, l, u) = Minutes(a) /\ Interval(range, t, v) = Minutes(b)
  BY DEF Interval
<1>5. CASE Drift(range) = {}
  BY <1>5, IntervalSteady, <1>3, <1>4
<1>6. CASE range.start.form # "ago" /\ range.end.form = "none"
  <2>1. a = 3 * Rounded(l) - Absolute(range.start) /\ b = 3 * Rounded(t) - Absolute(range.start)
    BY <1>1, <1>6, RangeParts
  <2>2. Absolute(range.start) \in Int
    BY <1>1, <1>6, RangeParts
  <2>3. Rounded(l) <= Rounded(t) /\ Rounded(t) - Rounded(l) <= Minute
    BY <1>1 DEF Rounded
  <2>4. Rounded(l) \in Int /\ Rounded(t) \in Int
    BY ClockStep
  <2>5. a <= b /\ b - a <= 3 * Minute
    BY <1>1, <2>1, <2>2, <2>3, <2>4
  <2>6. Drift(range) = {1}
    BY <1>6 DEF Drift
  <2> QED
    BY <1>2, <1>4, <2>5, <2>6, MinutesStep
<1>7. CASE range.start.form = "ago" /\ range.end.form # "none"
  <2>1. /\ a = Absolute(range.end) - 3 * Truncated(u - n)
        /\ b = Absolute(range.end) - 3 * Truncated(v - n)
    BY <1>1, <1>7, RangeParts
  <2>2. Absolute(range.end) \in Int
    BY <1>1, <1>7, RangeParts
  <2>3. /\ Truncated(u - n) <= Truncated(v - n)
        /\ Truncated(v - n) - Truncated(u - n) <= Minute
    BY <1>1 DEF Truncated
  <2>4. Truncated(u - n) \in Int /\ Truncated(v - n) \in Int
    BY <1>1 DEF Truncated
  <2>5. b <= a /\ a - b <= 3 * Minute
    BY <1>1, <2>1, <2>2, <2>3, <2>4
  <2>6. Drift(range) = {-1}
    BY <1>7 DEF Drift
  <2>7. Minutes(a) - Minutes(b) \in {0, 1}
    BY <1>2, <2>5, MinutesStep
  <2> QED
    BY <1>3, <1>4, <2>6, <2>7
<1>8. CASE /\ range.start.form = "ago" /\ range.end.form = "none"
           /\ ~Steady(range.start.n)
  <2>1. a = 3 * Rounded(l) - 3 * Truncated(u - n) /\ b = 3 * Rounded(t) - 3 * Truncated(v - n)
    BY <1>1, <1>8, RangeParts
  <2>2. a >= n - 2 /\ a <= n + 3 /\ b >= n - 2 /\ b <= n + 3
    BY <1>1, <2>1, RelativeLength
  <2>3. Drift(range) = {-1, 1}
    BY <1>8 DEF Drift
  <2>4. CASE a <= b
    <3>1. b - a <= 3 * Minute
      BY <1>1, <1>2, <2>2
    <3>2. Minutes(b) - Minutes(a) \in {0, 1}
      BY <1>2, <2>4, <3>1, MinutesStep
    <3> QED
      BY <1>4, <2>3, <3>2
  <2>5. CASE b <= a
    <3>1. a - b <= 3 * Minute
      BY <1>1, <1>2, <2>2
    <3>2. Minutes(a) - Minutes(b) \in {0, 1}
      BY <1>2, <2>5, <3>1, MinutesStep
    <3> QED
      BY <1>3, <1>4, <2>3, <3>2
  <2> QED
    BY <1>2, <2>4, <2>5
<1> QED
  BY <1>5, <1>6, <1>7, <1>8 DEF Drift

-----------------------------------------------------------------------------
(* A record is the one of some time at which the query ran.                *)
RanAt(t) ==
  /\ t <= now /\ record.timestamp = Rounded(t)
  /\ record.interval = Interval(query.range, t, t)

RecordInv ==
  /\ query.range \in TimeRange /\ now \in Int
  /\ record.found => /\ \E t \in Int : RanAt(t)
                     /\ record.duration \in Nat /\ record.emittedDPs \in Nat

LEMMA RecordInvariant == Spec => []RecordInv
<1>1. Init => RecordInv
  <2> SUFFICES ASSUME Init PROVE RecordInv
    OBVIOUS
  <2>1. now \in Int /\ query.range \in TimeRange
    BY DEF Init, Began
  <2>2. record.found =>
          RanAt(now) /\ record.duration \in Nat /\ record.emittedDPs \in Nat
    <3>1. CASE record = NoRecord
      BY <3>1 DEF NoRecord
    <3>2. CASE record \in [found : {TRUE}, timestamp : {Rounded(now)},
                           interval : {Interval(query.range, now, now)},
                           duration : Durations, emittedDPs : DataPoints]
      <4>1. /\ record.timestamp = Rounded(now) /\ now <= now
            /\ record.interval = Interval(query.range, now, now)
        BY <2>1, <3>2
      <4>2. record.duration \in Durations /\ record.emittedDPs \in DataPoints
        BY <3>2
      <4> QED
        BY <4>1, <4>2, RunAssumption DEF RanAt, RunAssumption
    <3> QED
      BY <3>1, <3>2 DEF Init
  <2> QED
    BY <2>1, <2>2 DEF RecordInv
<1>2. ASSUME RecordInv, [Next]_vars PROVE RecordInv'
  <2>1. /\ query' = query /\ record' = record /\ now \in Int
        /\ now' \in Int /\ now <= now'
    BY <1>2 DEF RecordInv, Next, Elapse, vars
  <2>2. \A t \in Int : RanAt(t) => RanAt(t)'
    BY <2>1 DEF RanAt
  <2> QED
    BY <1>2, <2>1, <2>2 DEF RecordInv
<1> QED
  BY <1>1, <1>2, PTL DEF Spec

(* A record that a range with a steady interval has left is found by every *)
(* later request for it, for any length of a minute and any such range,    *)
(* although the clock may tick once (a third of a second) between reading  *)
(* the end and the start                                                   *)
(* (query.py:83-84, 102; protector_main.py:159-161, 247-250).              *)
THEOREM RecordsAreFound == Spec => []RecordIsFound
<1>1. RecordInv => RecordIsFound
  BY IntervalSteady DEF RecordInv, RanAt, RecordIsFound
<1> QED
  BY <1>1, RecordInvariant, PTL

(* Between load_stats and save_stats, if they are less than a minute       *)
(* apart, an interval moves by at most one, in the direction that its form *)
(* allows, for every range (protector_main.py:161, 249).                   *)
THEOREM KeysMoveByOne == Spec => []KeyMoves
<1>1. RecordInv => KeyMoves
  <2> SUFFICES ASSUME RecordInv,
                      NEW u \in {now, now + 1}, NEW t \in u .. now + 3 * Minute - 1,
                      NEW v \in {t, t + 1}
               PROVE  Interval(query.range, t, v) - Interval(query.range, now, u)
                        \in {0} \cup Drift(query.range)
    BY DEF KeyMoves
  <2>1. now \in Int /\ u \in Int /\ Minute \in Nat /\ query.range \in TimeRange
    BY RangeAssumption DEF RecordInv, RangeAssumption
  <2>2. t \in Int /\ u <= t /\ t <= now + 3 * Minute - 1
    BY <2>1
  <2> QED
    BY <2>1, <2>2, IntervalMoves
<1> QED
  BY <1>1, RecordInvariant, PTL

-----------------------------------------------------------------------------
(* Time                                                                    *)

LEMMA MinutesMonotone ==
  ASSUME NEW a \in Int, NEW b \in Int, a <= b
  PROVE  Minutes(a) <= Minutes(b)
<1> DEFINE d == 3 * Minute
<1>1. d \in Nat /\ d > 0
  BY RangeAssumption DEF RangeAssumption
<1>2. Minutes(a) = (IF a >= 0 THEN a \div d ELSE -((-a) \div d))
  BY DEF Minutes
<1>3. Minutes(b) = (IF b >= 0 THEN b \div d ELSE -((-b) \div d))
  BY DEF Minutes
<1> HIDE DEF d
<1>4. ASSUME NEW m \in Nat, NEW n \in Nat, m <= n PROVE m \div d <= n \div d
  <2> DEFINE p == m \div d
             q == n \div d
  <2>1. p \in Int /\ q \in Int /\ d * p <= m /\ m < d * p + d /\ d * q <= n /\ n < d * q + d
    BY <1>1
  <2> HIDE DEF p, q
  <2>2. d * (q - p) > - d
    BY <1>1, <1>4, <2>1
  <2>3. q - p > -1
    BY <1>1, <2>1, <2>2
  <2> QED
    BY <2>1, <2>3 DEF p, q
<1>5. \A m \in Nat : m \div d \in Nat
  BY <1>1
<1>6. CASE a >= 0
  BY <1>2, <1>3, <1>4, <1>6
<1>7. CASE b < 0
  <2>1. -b \in Nat /\ -a \in Nat /\ -b <= -a
    BY <1>7
  <2>2. (-b) \div d <= (-a) \div d /\ (-b) \div d \in Nat /\ (-a) \div d \in Nat
    BY <1>4, <1>5, <2>1
  <2> QED
    BY <1>2, <1>3, <1>7, <2>2
<1>8. CASE a < 0 /\ b >= 0
  <2>1. -a \in Nat /\ b \in Nat
    BY <1>8
  <2>2. (-a) \div d \in Nat /\ b \div d \in Nat
    BY <1>5, <2>1
  <2> QED
    BY <1>2, <1>3, <1>8, <2>2
<1> QED
  BY <1>6, <1>7, <1>8

(* An interval that moves in one direction does not come back.             *)
LEMMA IntervalStays ==
  ASSUME NEW range \in TimeRange, Drift(range) # {-1, 1},
         NEW t \in Int, NEW u \in Int, NEW v \in Int, t <= u, u <= v,
         Interval(range, t, t) = Interval(range, v, v)
  PROVE  Interval(range, t, t) = Interval(range, u, u)
<1> DEFINE length(x) == End(range, x) - Start(range, x)
           n == range.start.n
<1>1. \A x \in {t, u, v} : length(x) \in Int /\ Interval(range, x, x) = Minutes(length(x))
                           /\ Minutes(length(x)) \in Int
  <2>1. 3 * Minute \in Nat /\ 3 * Minute > 0
    BY RangeAssumption DEF RangeAssumption
  <2>2. \A x \in {t, u, v} : length(x) \in Int
    BY RangeParts
  <2>3. \A a \in Int : Minutes(a) \in Int
    BY <2>1 DEF Minutes
  <2> QED
    BY <2>2, <2>3 DEF Interval
<1>2. CASE Drift(range) = {}
  <2>1. t \in {t, t + 1} /\ u \in {u, u + 1}
    OBVIOUS
  <2> QED
    BY <1>2, <2>1, IntervalSteady
<1>3. CASE range.start.form # "ago" /\ range.end.form = "none"
  <2>1. length(t) <= length(u) /\ length(u) <= length(v)
    <3>1. \A x \in {t, u, v} : length(x) = 3 * Rounded(x) - Absolute(range.start)
      BY <1>3, RangeParts
    <3>2. Rounded(t) <= Rounded(u) /\ Rounded(u) <= Rounded(v)
      BY DEF Rounded
    <3>3. Absolute(range.start) \in Int
      BY <1>3, RangeParts
    <3>4. \A x \in {t, u, v} : Rounded(x) \in Int
      BY ClockStep
    <3> QED
      BY <3>1, <3>2, <3>3, <3>4
  <2> HIDE DEF length
  <2>2. length(t) \in Int /\ length(u) \in Int /\ length(v) \in Int
    BY <1>1
  <2>3. Minutes(length(t)) <= Minutes(length(u))
    BY <2>1, <2>2, MinutesMonotone
  <2>4. Minutes(length(u)) <= Minutes(length(v))
    BY <2>1, <2>2, MinutesMonotone
  <2>5. /\ Interval(range, t, t) = Minutes(length(t)) /\ Minutes(length(t)) \in Int
        /\ Interval(range, u, u) = Minutes(length(u)) /\ Minutes(length(u)) \in Int
        /\ Interval(range, v, v) = Minutes(length(v)) /\ Minutes(length(v)) \in Int
    BY <1>1
  <2>6. Minutes(length(t)) = Minutes(length(v))
    BY <2>5
  <2> QED
    BY <2>3, <2>4, <2>5, <2>6
<1>4. CASE range.start.form = "ago" /\ range.end.form # "none"
  <2>1. length(v) <= length(u) /\ length(u) <= length(t)
    <3>1. \A x \in {t, u, v} : length(x) = Absolute(range.end) - 3 * Truncated(x - n)
      BY <1>4, RangeParts
    <3>2. n \in Nat /\ Absolute(range.end) \in Int
      BY <1>4, RangeParts
    <3>3. Truncated(t - n) <= Truncated(u - n) /\ Truncated(u - n) <= Truncated(v - n)
      BY <3>2 DEF Truncated
    <3>4. \A x \in {t, u, v} : Truncated(x - n) \in Int
      BY <3>2, ClockStep
    <3> QED
      BY <3>1, <3>2, <3>3, <3>4
  <2> HIDE DEF length
  <2>2. length(t) \in Int /\ length(u) \in Int /\ length(v) \in Int
    BY <1>1
  <2>3. Minutes(length(v)) <= Minutes(length(u))
    BY <2>1, <2>2, MinutesMonotone
  <2>4. Minutes(length(u)) <= Minutes(length(t))
    BY <2>1, <2>2, MinutesMonotone
  <2>5. /\ Interval(range, t, t) = Minutes(length(t)) /\ Minutes(length(t)) \in Int
        /\ Interval(range, u, u) = Minutes(length(u)) /\ Minutes(length(u)) \in Int
        /\ Interval(range, v, v) = Minutes(length(v)) /\ Minutes(length(v)) \in Int
    BY <1>1
  <2>6. Minutes(length(t)) = Minutes(length(v))
    BY <2>5
  <2> QED
    BY <2>3, <2>4, <2>5, <2>6
<1> QED
  BY <1>2, <1>3, <1>4 DEF Drift

(* What the rules find later, they have found before, and it was younger.  *)
LEMMA RecordAges ==
  ASSUME RecordInv, Elapse, Drift(query.range) # {-1, 1}, Stats'.found
  PROVE  /\ Stats \in Numbers /\ Stats' \in Numbers
         /\ Stats'.found = Stats.found /\ Stats'.duration = Stats.duration
         /\ Stats'.emittedDPs = Stats.emittedDPs /\ Stats.elapsed <= Stats'.elapsed
<1>1. /\ query' = query /\ record' = record /\ now' = now + 1
      /\ now \in Int /\ query.range \in TimeRange
  BY DEF Elapse, RecordInv
<1>2. record.found /\ record.interval = Interval(query.range, now + 1, now + 1)
  BY <1>1 DEF Stats, NoStats
<1>3. PICK t \in Int : RanAt(t)
  BY <1>2 DEF RecordInv
<1>4. record.interval = Interval(query.range, now, now)
  <2>1. now + 1 \in Int /\ t <= now /\ now <= now + 1
    BY <1>1, <1>3 DEF RanAt
  <2>2. Interval(query.range, t, t) = Interval(query.range, now + 1, now + 1)
    BY <1>2, <1>3 DEF RanAt
  <2>3. Interval(query.range, t, t) = Interval(query.range, now, now)
    BY <1>1, <2>1, <2>2, IntervalStays
  <2> QED
    BY <1>3, <2>3 DEF RanAt
<1>5. /\ Stats = [found |-> TRUE, elapsed |-> Rounded(now) - Rounded(t),
                  duration |-> record.duration, emittedDPs |-> record.emittedDPs]
      /\ Stats' = [found |-> TRUE, elapsed |-> Rounded(now + 1) - Rounded(t),
                   duration |-> record.duration, emittedDPs |-> record.emittedDPs]
  BY <1>1, <1>2, <1>3, <1>4 DEF Stats, RanAt
<1>6. /\ Rounded(now) - Rounded(t) \in Nat /\ Rounded(now + 1) - Rounded(t) \in Nat
      /\ Rounded(now) - Rounded(t) <= Rounded(now + 1) - Rounded(t)
  BY <1>1, <1>3 DEF RanAt, Rounded
<1>7. record.duration \in Nat /\ record.emittedDPs \in Nat
  BY <1>2 DEF RecordInv
<1> QED
  BY <1>5, <1>6, <1>7 DEF Numbers

(* No stateful rule turns against a query that was let through and is not  *)
(* run in between: not for any rules, record and time, nor for any range   *)
(* whose interval does not move back and forth.  What can refuse it later  *)
(* is the age of a fixed start (exceed_frequency.py:35-40,                 *)
(* exceed_time_limit.py:45-61, protector_main.py:247-254).                 *)
THEOREM TimeLifts == Spec => TimeOnlyLifts
<1>1. ASSUME RecordInv, Next, Drift(query.range) # {-1, 1}, Verdict = "ok"
      PROVE  Verdict' \in {"ok", "query_old_data"}
  <2>1. Elapse /\ query' = query /\ Asked'.subs = Asked.subs
    BY <1>1 DEF Next, Elapse, Asked
  <2>2. \A i \in DOMAIN RuleOrder : Permits(RuleOrder[i], Asked, Stats)
    BY <1>1, GuardVerdict DEF Verdict
  <2>3. ASSUME NEW rule \in AllRules, rule # "query_old_data", Permits(rule, Asked, Stats)
        PROVE  Permits(rule, Asked', Stats')
    <3>1. CASE rule \in {"query_no_tags_filters", "query_no_aggregator"}
      BY <2>1, <2>3, <3>1 DEF Permits, QueryNoTagsFilters, QueryNoAggregator
    <3>2. CASE rule \in {"too_many_datapoints", "exceed_time_limit", "exceed_frequency"}
      <4>1. CASE ~Stats'.found
        BY <3>2, <4>1 DEF Permits, TooManyDatapoints, ExceedTimeLimit, ExceedFrequency
      <4>2. CASE Stats'.found
        <5>1. Permits(rule, Asked, Stats')
          BY <1>1, <2>1, <2>3, <4>2, RecordAges, RuleLifts
        <5> QED
          BY <3>2, <5>1 DEF Permits
      <4> QED
        BY <4>1, <4>2
    <3> QED
      BY <2>3, <3>1, <3>2 DEF AllRules
  <2>4. \A i \in DOMAIN RuleOrder :
          RuleOrder[i] # "query_old_data" => Permits(RuleOrder[i], Asked', Stats')
    BY <2>2, <2>3, RuleNames
  <2>5. \/ IsAllowed(Asked', Stats') = "ok"
        \/ \E i \in DOMAIN RuleOrder : IsAllowed(Asked', Stats') = RuleOrder[i]
    <3>1. ASSUME NEW S \in SUBSET DOMAIN RuleOrder, S # {}
          PROVE  RuleOrder[Min(S)] \in {RuleOrder[i] : i \in DOMAIN RuleOrder}
      BY <3>1, FirstRefusing
    <3> QED
      BY <3>1 DEF IsAllowed
  <2>6. \A i \in DOMAIN RuleOrder :
          IsAllowed(Asked', Stats') = RuleOrder[i] => ~Permits(RuleOrder[i], Asked', Stats')
    BY GuardVerdict
  <2> QED
    BY <2>4, <2>5, <2>6 DEF Verdict
<1>2. ASSUME Drift(query.range) # {-1, 1}, Verdict = "ok", UNCHANGED vars
      PROVE  Verdict' \in {"ok", "query_old_data"}
  BY <1>2 DEF vars, Verdict, Asked, Stats
<1>3. RecordInv /\ [Next]_vars =>
        [Drift(query.range) # {-1, 1} /\ Verdict = "ok"
           => Verdict' \in {"ok", "query_old_data"}]_vars
  BY <1>1, <1>2
<1> QED
  BY <1>3, RecordInvariant, PTL DEF Spec, TimeOnlyLifts
=============================================================================
