--------------------------- MODULE TopStatsProofs ---------------------------
(***************************************************************************)
(* The properties of TopStats for any number of threads and any length of  *)
(* its clock.  They rest on db.expire being none, or at least two hours    *)
(* and shorter than a month: a set neither expires between ZSCORE and ZADD *)
(* of one save nor lives to see its key again.                             *)
(***************************************************************************)
EXTENDS TopStats, TLAPS

At(w) == Slot(save[w].hour)

SameScore(v, w) == At(v) = At(w) /\ save[v].member = save[w].member

(* A save or a reading ends in the hour after that of its beginning at the *)
(* latest.                                                                 *)
Recent ==
  \A w \in Workers : pc[w] # "idle" =>
    save[w].hour \in {now - 1, now} /\ save[w].value \in Values

Readings ==
  reader # NotReading =>
    reader.began \in {now - 1, now} /\ reader.hour \in 0 .. reader.began % HoursPerDay

TypesInv == /\ TypeOK /\ Recent /\ Readings
            /\ \A w \in Workers : pc[w] = "expire" => TTL > 0

(* A TTL was set for an hour of its key, in that hour or the next.         *)
Expiries ==
  \A s \in Slots : top[s].ttl # NoTTL =>
    /\ TTL > 0
    /\ \E e \in 0 .. now : Slot(e) = s /\ now + top[s].ttl \in {e + TTL, e + TTL + 1}

(* Of two saves of one score neither is undisturbed.                       *)
Meetings ==
  \A v, w \in Workers :
    v # w /\ pc[v] # "idle" /\ pc[w] # "idle" /\ SameScore(v, w) => ~save[v].alone

(* What a thread knows of the score that it is about to write, or wrote.   *)
Claim(w) ==
  LET b == best[At(w)][save[w].member]
  IN  /\ pc[w] = "zaddNew" => b <= 0
      /\ pc[w] = "zaddHigher" => b <= save[w].value
      /\ pc[w] = "expire" =>
           TTL > 0 /\ (save[w].alone => Score(w).value >= save[w].value)

Claims == \A w \in Workers : Claim(w)

TopInv == /\ TypeOK /\ Recent /\ Readings /\ Expiries
          /\ Meetings /\ Claims /\ TopOfUndisturbed

(* A thread that raises a score finds it in its set.                       *)
Raised ==
  TTL > 0 /\ ~failed =>
    \A w \in Workers : pc[w] = "zaddHigher" => Score(w) # NoScore

ExpireInv == TopInv /\ TopsExpire /\ Raised

(* A score comes from the last hour of its key, which is not a month ago.  *)
Months ==
  ~failed => \A s \in Slots, m \in Members :
    LET score == top[s].scores[m]
    IN  score # NoScore =>
          Slot(score.hour) = s /\ score.hour <= now /\ now - score.hour < Month

TodayInv == ExpireInv /\ Months

-----------------------------------------------------------------------------
(* Hours and keys                                                          *)

LEMMA Division ==
  ASSUME NEW x \in Nat, NEW p \in Nat \ {0}
  PROVE  x % p \in 0 .. p - 1 /\ \E q \in Nat : x = p * q + (x % p)
<1>1. x = p * (x \div p) + (x % p)
  OBVIOUS
<1>2. x \div p \in Nat
  OBVIOUS
<1>3. x % p \in 0 .. p - 1
  OBVIOUS
<1> QED
  BY <1>1, <1>2, <1>3

LEMMA MonthType == Month \in Nat \ {0}
  BY TopAssumption DEF Month, TopAssumption

LEMMA SlotType == \A hour \in Nat : Slot(hour) \in Slots
<1> TAKE hour \in Nat
<1>1. hour % Month \in 0 .. Month - 1
  BY MonthType, Division
<1>2. (hour % Month) % Month = hour % Month
  BY <1>1, MonthType
<1> QED
  BY <1>1, <1>2 DEF Slot, Slots, Month

(* A key comes again after a month at the earliest.                        *)
LEMMA SlotAgain ==
  ASSUME NEW a \in Nat, NEW b \in Nat, Slot(a) = Slot(b), a < b
  PROVE  b - a >= Month
<1>1. a % Month = b % Month
  BY DEF Slot, Month
<1>2. PICK q \in Nat : a = Month * q + (a % Month)
  BY MonthType, Division
<1>3. PICK r \in Nat : b = Month * r + (b % Month)
  BY MonthType, Division
<1>4. a % Month \in 0 .. Month - 1
  BY MonthType, Division
<1>5. b - a = Month * (r - q)
  BY <1>1, <1>2, <1>3, <1>4, MonthType
<1>6. r - q >= 1
  BY <1>5, MonthType
<1> QED
  BY <1>5, <1>6, MonthType

LEMMA SlotOnce ==
  ASSUME NEW a \in Nat, NEW b \in Nat, Slot(a) = Slot(b), a - b < Month, b - a < Month
  PROVE  a = b
<1>1. ~(a < b) /\ ~(b < a)
  BY SlotAgain, MonthType
<1> QED
  BY <1>1

-----------------------------------------------------------------------------
(* Types                                                                   *)

Scores == [value : Values \cup {Absent}, hour : 0 .. MaxHour]
Sets   == [scores : [Members -> Scores], ttl : {NoTTL} \cup 1 .. TTL]

LEMMA Typed ==
  ASSUME TypeOK, NEW w \in Workers
  PROVE  /\ save[w] \in [member : Members, value : Nat, hour : 0 .. MaxHour,
                         alone : BOOLEAN]
         /\ save[w].member \in Members /\ save[w].value \in Nat
         /\ save[w].hour \in 0 .. MaxHour /\ save[w].hour \in Nat
         /\ At(w) \in Slots
         /\ top[At(w)] \in Sets
         /\ Score(w) \in Scores
<1>1. save[w] \in [member : Members, value : Nat, hour : 0 .. MaxHour, alone : BOOLEAN]
  BY DEF TypeOK
<1>2. /\ save[w].member \in Members /\ save[w].value \in Nat
      /\ save[w].hour \in 0 .. MaxHour /\ save[w].hour \in Nat
  BY <1>1, TopAssumption DEF TopAssumption
<1>3. At(w) \in Slots
  BY <1>2, SlotType DEF At
<1>4. top[At(w)] \in Sets
  BY <1>3 DEF TypeOK, Sets, Scores
<1> QED
  BY <1>1, <1>2, <1>3, <1>4 DEF Sets, Score, At

LEMMA IdleType == Idle \in [member : Members, value : Nat, hour : 0 .. MaxHour,
                            alone : BOOLEAN]
<1>1. (CHOOSE m \in Members : TRUE) \in Members
  BY TopAssumption DEF TopAssumption
<1> QED
  BY <1>1, TopAssumption DEF Idle, TopAssumption

LEMMA EmptyType == Empty \in Sets
  BY TopAssumption DEF Empty, NoScore, Sets, Scores, TopAssumption, Absent

(* What ZADD writes, and what it leaves.                                   *)
LEMMA Added ==
  ASSUME TypeOK, NEW w \in Workers, save[w].value \in Values, Add(w)
  PROVE  /\ top' \in [Slots -> Sets]
         /\ \A s \in Slots : top'[s].ttl = top[s].ttl
         /\ \A s \in Slots, m \in Members :
              top'[s].scores[m] =
                IF s = At(w) /\ m = save[w].member
                THEN [value |-> save[w].value, hour |-> save[w].hour]
                ELSE top[s].scores[m]
<1> DEFINE x == [value |-> save[w].value, hour |-> save[w].hour]
           set == [top[At(w)] EXCEPT !.scores[save[w].member] = x]
<1>1. x \in Scores
  BY Typed DEF Scores
<1> HIDE DEF x
<1>2. set \in Sets /\ set.ttl = top[At(w)].ttl
  BY <1>1, Typed DEF Sets
<1>3. \A m \in Members : set.scores[m] = IF m = save[w].member THEN x
                                         ELSE top[At(w)].scores[m]
  BY Typed DEF Sets
<1>4. top' = [top EXCEPT ![At(w)] = set]
  BY DEF Add, At, TypeOK, x
<1> HIDE DEF set
<1>5. top \in [Slots -> Sets]
  BY DEF TypeOK, Sets, Scores
<1> QED
  BY <1>2, <1>3, <1>4, <1>5, Typed DEF x

(* What the end of a save changes.                                         *)
LEMMA Ended ==
  ASSUME TypeOK, NEW w \in Workers, save[w].value \in Values, Done(w)
  PROVE  /\ pc' = [pc EXCEPT ![w] = "idle"] /\ save' = [save EXCEPT ![w] = Idle]
         /\ best' \in [Slots -> [Members -> Values \cup {Absent}]]
         /\ \A s \in Slots, m \in Members :
              best'[s][m] = IF /\ s = At(w) /\ m = save[w].member
                               /\ save[w].alone /\ save[w].value > best[s][m]
                            THEN save[w].value ELSE best[s][m]
  BY Typed DEF Done, Goto, At, TypeOK

LEMMA TypesInit == Init => TypesInv
<1> SUFFICES ASSUME Init PROVE TypesInv
  OBVIOUS
<1>1. now \in 0 .. MaxHour /\ reader \in [began : 0 .. MaxHour, hour : -1 .. HoursPerDay - 1]
  BY TopAssumption DEF Init, NotReading, TopAssumption
<1>2. top \in [Slots -> Sets]
  BY EmptyType DEF Init
<1>3. save \in [Workers -> [member : Members, value : Nat, hour : 0 .. MaxHour,
                            alone : BOOLEAN]]
  BY IdleType DEF Init
<1>4. TypeOK
  BY <1>1, <1>2, <1>3 DEF Init, TypeOK, Sets, Scores
<1> QED
  BY <1>4 DEF Init, TypesInv, Recent, Readings

(* What the end of an hour makes of a set.                                 *)
LEMMA HourEnds ==
  ASSUME TypeOK, Tick, NEW s \in Slots
  PROVE  /\ top'[s] \in Sets
         /\ \/ top[s].ttl = 1 /\ top'[s] = Empty
            \/ top[s].ttl = NoTTL /\ top'[s] = top[s]
            \/ /\ top[s].ttl \notin {NoTTL, 1}
               /\ top'[s].scores = top[s].scores /\ top'[s].ttl = top[s].ttl - 1
<1>1. top[s] \in Sets
  BY DEF TypeOK, Sets, Scores
<1>2. top'[s] = CASE top[s].ttl = 1     -> Empty
                  [] top[s].ttl = NoTTL -> top[s]
                  [] OTHER              -> [top[s] EXCEPT !.ttl = @ - 1]
  BY DEF Tick
<1>3. CASE top[s].ttl = 1
  BY <1>2, <1>3, EmptyType DEF NoTTL
<1>4. CASE top[s].ttl = NoTTL
  BY <1>1, <1>2, <1>4 DEF NoTTL
<1>5. CASE top[s].ttl \notin {NoTTL, 1}
  <2>1. top'[s] = [top[s] EXCEPT !.ttl = @ - 1]
    BY <1>2, <1>5
  <2>2. top[s].ttl \in 2 .. TTL
    BY <1>1, <1>5, TopAssumption DEF Sets, TopAssumption
  <2> QED
    BY <1>1, <1>5, <2>1, <2>2, TopAssumption DEF Sets, TopAssumption
<1> QED
  BY <1>3, <1>4, <1>5

LEMMA TypesStep == TypesInv /\ [Next]_vars => TypesInv'
<1> SUFFICES ASSUME TypesInv, [Next]_vars PROVE TypesInv'
  OBVIOUS
<1>0. /\ TypeOK /\ Recent /\ Readings
      /\ \A w \in Workers : pc[w] = "expire" => TTL > 0
  BY DEF TypesInv
<1>1. CASE UNCHANGED vars
  BY <1>0, <1>1 DEF vars, TypesInv, TypeOK, Recent, Readings
<1>2. CASE ReadTop
  <2>1. now \in Nat /\ now % HoursPerDay \in 0 .. HoursPerDay - 1
    BY <1>0, Division, TopAssumption DEF TypeOK, TopAssumption
  <2>2. /\ NextRead \in [began : 0 .. MaxHour, hour : -1 .. HoursPerDay - 1]
        /\ NextRead.began \in {now - 1, now}
        /\ NextRead.hour \in 0 .. NextRead.began % HoursPerDay
    BY <1>0, <2>1 DEF TypeOK, NextRead, Readings
  <2>3. CASE NextRead.hour = 0
    <3>1. reader' = NotReading
      BY <1>2, <2>3 DEF ReadTop
    <3>2. NotReading \in [began : 0 .. MaxHour, hour : -1 .. HoursPerDay - 1]
      BY TopAssumption DEF NotReading, TopAssumption
    <3> QED
      BY <1>0, <1>2, <3>1, <3>2 DEF ReadTop, TypesInv, TypeOK, Recent, Readings
  <2>4. CASE NextRead.hour # 0
    <3>1. reader' = [NextRead EXCEPT !.hour = @ - 1]
      BY <1>2, <2>4 DEF ReadTop
    <3>2. NextRead.began % HoursPerDay \in 0 .. HoursPerDay - 1
      <4>1. NextRead.began \in Nat
        BY <2>2, TopAssumption DEF TopAssumption
      <4> QED
        BY <4>1, Division, TopAssumption DEF TopAssumption
    <3>3. /\ reader' \in [began : 0 .. MaxHour, hour : -1 .. HoursPerDay - 1]
          /\ reader'.began = NextRead.began /\ reader'.hour = NextRead.hour - 1
      <4> DEFINE r == NextRead
      <4>1. r \in [began : 0 .. MaxHour, hour : -1 .. HoursPerDay - 1]
            /\ r.hour \in 0 .. HoursPerDay - 1 /\ r.hour # 0
            /\ reader' = [r EXCEPT !.hour = @ - 1]
        BY <2>2, <2>4, <3>1, <3>2, TopAssumption DEF TopAssumption
      <4> HIDE DEF r
      <4>2. r.hour - 1 \in -1 .. HoursPerDay - 1
        BY <4>1, TopAssumption DEF TopAssumption
      <4>3. /\ reader' \in [began : 0 .. MaxHour, hour : -1 .. HoursPerDay - 1]
            /\ reader'.began = r.began /\ reader'.hour = r.hour - 1
        BY <4>1, <4>2
      <4> QED
        BY <4>3 DEF r
    <3>4. TypeOK' /\ Recent'
      BY <1>0, <1>2, <3>3 DEF ReadTop, TypeOK, Recent
    <3>5. Readings'
      BY <1>2, <2>2, <2>4, <3>2, <3>3 DEF ReadTop, Readings
    <3> QED
      BY <1>0, <1>2, <3>4, <3>5 DEF ReadTop, TypesInv
  <2> QED
    BY <2>3, <2>4
<1>3. CASE Tick
  <2>1. now \in Nat /\ now' = now + 1 /\ pc' = pc /\ save' = save /\ reader' = reader
    BY <1>0, <1>3, TopAssumption DEF Tick, TypeOK, TopAssumption
  <2>2. top' \in [Slots -> Sets]
    BY <1>0, <1>3, HourEnds DEF Tick
  <2>3. best' \in [Slots -> [Members -> Values \cup {Absent}]]
    BY <1>0, <1>3 DEF Tick, TypeOK
  <2>4. now' \in 0 .. MaxHour /\ failed' = failed
    BY <1>0, <1>3, TopAssumption DEF Tick, TypeOK, TopAssumption
  <2>5. TypeOK'
    BY <1>0, <2>1, <2>2, <2>3, <2>4 DEF TypeOK, Sets, Scores
  <2>6. Recent' /\ Readings'
    BY <1>0, <1>3, <2>1 DEF Tick, Recent, Readings
  <2> QED
    BY <1>0, <2>1, <2>5, <2>6 DEF TypesInv
<1>4. ASSUME NEW w \in Workers, Begin(w) PROVE TypesInv'
  <2>1. PICK m \in Members, value \in Values :
          LET met == {v \in Workers : /\ pc[v] # "idle"
                                      /\ Slot(save[v].hour) = Slot(now)
                                      /\ save[v].member = m}
          IN  save' = [v \in Workers |->
                IF v = w THEN [member |-> m, value |-> value, hour |-> now,
                               alone |-> met = {}]
                ELSE IF v \in met THEN [save[v] EXCEPT !.alone = FALSE]
                ELSE save[v]]
    BY <1>4 DEF Begin
  <2>2. /\ pc' = [pc EXCEPT ![w] = "zscore"] /\ now' = now /\ top' = top
        /\ reader' = reader /\ best' = best /\ failed' = failed
    BY <1>4 DEF Begin, Goto
  <2>3. /\ save'[w] \in [member : Members, value : Nat, hour : 0 .. MaxHour,
                         alone : BOOLEAN]
        /\ save'[w].value = value /\ save'[w].hour = now
    BY <1>0, <2>1, TopAssumption DEF TypeOK, TopAssumption
  <2>4. ASSUME NEW v \in Workers \ {w}
        PROVE  /\ save'[v] \in [member : Members, value : Nat, hour : 0 .. MaxHour,
                                alone : BOOLEAN]
               /\ save'[v].hour = save[v].hour /\ save'[v].value = save[v].value
    <3>1. save[v] \in [member : Members, value : Nat, hour : 0 .. MaxHour, alone : BOOLEAN]
      BY <1>0 DEF TypeOK
    <3>2. save'[v] \in {save[v], [save[v] EXCEPT !.alone = FALSE]}
      BY <2>1
    <3> QED
      BY <3>1, <3>2
  <2>5. save' \in [Workers -> [member : Members, value : Nat, hour : 0 .. MaxHour,
                               alone : BOOLEAN]]
    BY <2>1, <2>3, <2>4
  <2>6. TypeOK' /\ Readings'
    BY <1>0, <2>2, <2>5 DEF TypeOK, Readings
  <2>7. Recent'
    BY <1>0, <2>2, <2>3, <2>4 DEF Recent, TypeOK
  <2>8. \A v \in Workers : pc'[v] = "expire" => pc[v] = "expire"
    BY <1>0, <2>2 DEF TypeOK
  <2> QED
    BY <1>0, <2>6, <2>7, <2>8 DEF TypesInv
<1>5. ASSUME NEW w \in Workers,
             ReadScore(w) \/ AddNew(w) \/ Expire(w) \/ AddHigher(w) \/ Fail(w)
      PROVE  TypesInv'
  <2>1. /\ now' = now /\ reader' = reader /\ failed' \in BOOLEAN
        /\ pc[w] # "idle" /\ save[w].value \in Values
    BY <1>0, <1>5 DEF ReadScore, AddNew, Expire, AddHigher, Fail, Recent, TypeOK
  <2>2. /\ best' \in [Slots -> [Members -> Values \cup {Absent}]]
        /\ \/ pc' = [pc EXCEPT ![w] = "idle"] /\ save' = [save EXCEPT ![w] = Idle]
           \/ /\ save' = save
              /\ \E step \in {"zaddNew", "zaddHigher", "expire"} :
                   pc' = [pc EXCEPT ![w] = step] /\ (step = "expire" => TTL > 0)
    <3>1. CASE Done(w)
      BY <1>0, <2>1, <3>1, Ended
    <3>2. CASE ~Done(w)
      BY <1>0, <1>5, <3>2 DEF ReadScore, AddNew, Expire, AddHigher, Fail, Goto, TypeOK
    <3> QED
      BY <3>1, <3>2
  <2>3. top' \in [Slots -> Sets]
    <3>1. top \in [Slots -> Sets]
      BY <1>0 DEF TypeOK, Sets, Scores
    <3>2. CASE ReadScore(w) \/ Fail(w)
      BY <3>1, <3>2 DEF ReadScore, Fail
    <3>3. CASE AddNew(w) \/ AddHigher(w)
      BY <1>0, <2>1, <3>3, Added DEF AddNew, AddHigher
    <3>4. CASE Expire(w)
      <4>1. At(w) \in Slots /\ top[At(w)] \in Sets /\ TTL > 0
        BY <1>0, <3>4, Typed DEF Expire
      <4>2. [top[At(w)] EXCEPT !.ttl = TTL] \in Sets
        BY <4>1, TopAssumption DEF Sets, TopAssumption
      <4>3. \/ top' = top
            \/ top' = [top EXCEPT ![At(w)] = [top[At(w)] EXCEPT !.ttl = TTL]]
        BY <3>1, <3>4, <4>1 DEF Expire, At
      <4> QED
        BY <3>1, <4>1, <4>2, <4>3
    <3> QED
      BY <1>5, <3>2, <3>3, <3>4
  <2>4. TypeOK'
    <3>1. /\ pc' \in [Workers -> {"idle", "zscore", "zaddNew", "expire", "zaddHigher"}]
          /\ save' \in [Workers -> [member : Members, value : Nat, hour : 0 .. MaxHour,
                                    alone : BOOLEAN]]
      <4>1. CASE pc' = [pc EXCEPT ![w] = "idle"] /\ save' = [save EXCEPT ![w] = Idle]
        BY <1>0, <4>1, IdleType DEF TypeOK
      <4>2. ASSUME NEW step \in {"zaddNew", "zaddHigher", "expire"},
                   pc' = [pc EXCEPT ![w] = step], save' = save
            PROVE  /\ pc' \in [Workers -> {"idle", "zscore", "zaddNew", "expire", "zaddHigher"}]
                   /\ save' \in [Workers -> [member : Members, value : Nat,
                                             hour : 0 .. MaxHour, alone : BOOLEAN]]
        BY <1>0, <4>2 DEF TypeOK
      <4> QED
        BY <2>2, <4>1, <4>2
    <3> QED
      BY <1>0, <2>1, <2>2, <2>3, <3>1 DEF TypeOK, Sets, Scores
  <2>5. Recent' /\ Readings'
    BY <1>0, <2>1, <2>2 DEF Recent, Readings, TypeOK
  <2>6. \A v \in Workers : pc'[v] = "expire" => TTL > 0
    BY <1>0, <2>2 DEF TypeOK
  <2> QED
    BY <2>4, <2>5, <2>6 DEF TypesInv
<1> QED
  BY <1>1, <1>2, <1>3, <1>4, <1>5 DEF Next

(* A step of thread w of one save: of the others it changes nothing, of    *)
(* the scores only its own, and what it counts as best only undisturbed.   *)
OfItsOwn(w) ==
  /\ now' = now /\ save[w].value \in Values /\ pc[w] # "idle"
  /\ \A v \in Workers \ {w} : pc'[v] = pc[v] /\ save'[v] = save[v]
  /\ \/ save'[w] = save[w]
     \/ pc'[w] = "idle"
  /\ \A s \in Slots, m \in Members : ~(s = At(w) /\ m = save[w].member) =>
       top'[s].scores[m] = top[s].scores[m] /\ best'[s][m] = best[s][m]
  /\ ~save[w].alone => \A s \in Slots, m \in Members : best'[s][m] = best[s][m]

LEMMA OthersKeep ==
  ASSUME TypeOK, Recent, Meetings, Claims, NEW w \in Workers, OfItsOwn(w)
  PROVE  /\ Recent' /\ Meetings'
         /\ \A v \in Workers \ {w} : Claim(v)'
<1>1. Recent'
  BY DEF OfItsOwn, Recent
<1>2. Meetings'
  BY DEF OfItsOwn, Meetings, SameScore, At
<1>3. ASSUME NEW v \in Workers \ {w} PROVE Claim(v)'
  <2>1. At(v) \in Slots /\ save[v].member \in Members
    BY Typed
  <2>2. pc'[v] = pc[v] /\ save'[v] = save[v] /\ At(v)' = At(v)
    BY DEF OfItsOwn, At
  <2>3. CASE pc[v] = "idle"
    BY <2>2, <2>3 DEF Claim
  <2>4. CASE pc[v] # "idle" /\ SameScore(v, w)
    <3>1. ~save[v].alone /\ ~save[w].alone
      BY <2>4 DEF OfItsOwn, Meetings, SameScore
    <3>2. best'[At(v)][save[v].member] = best[At(v)][save[v].member]
      BY <2>1, <3>1 DEF OfItsOwn
    <3> QED
      BY <2>2, <3>1, <3>2 DEF Claim, Claims
  <2>5. CASE ~SameScore(v, w)
    <3>1. /\ best'[At(v)][save[v].member] = best[At(v)][save[v].member]
          /\ top'[At(v)].scores[save[v].member] = top[At(v)].scores[save[v].member]
      BY <2>1, <2>5 DEF OfItsOwn, SameScore
    <3> QED
      BY <2>2, <3>1 DEF Claim, Claims, Score, At
  <2> QED
    BY <2>3, <2>4, <2>5
<1> QED
  BY <1>1, <1>2, <1>3

-----------------------------------------------------------------------------
(* The tops                                                                *)

LEMMA TopInit == Init => TopInv
<1> SUFFICES ASSUME Init PROVE TopInv
  OBVIOUS
<1>1. TypesInv
  BY TypesInit
<1>2. Meetings /\ Claims
  BY DEF Init, Meetings, Claims, Claim
<1>3. Expiries
  BY DEF Init, Expiries, Empty
<1>4. TopOfUndisturbed
  BY DEF Init, TopOfUndisturbed, Empty, NoScore, Absent
<1> QED
  BY <1>1, <1>2, <1>3, <1>4 DEF TopInv, TypesInv

(* A set whose key is that of this hour does not expire at its end.        *)
LEMMA NotYet ==
  ASSUME TypeOK, Expiries, TTL = 0 \/ ShortExpiry,
         NEW s \in Slots, s = Slot(now), top[s].ttl # NoTTL
  PROVE  top[s].ttl >= 2
<1>1. TTL > 0 /\ TTL \in 2 .. Month - 1
  BY DEF Expiries, ShortExpiry
<1>2. PICK e \in 0 .. now : Slot(e) = s /\ now + top[s].ttl \in {e + TTL, e + TTL + 1}
  BY DEF Expiries
<1>3. now \in Nat /\ e \in Nat /\ top[s].ttl \in 1 .. TTL /\ Month \in Nat
  BY TopAssumption, MonthType DEF TypeOK, TopAssumption
<1>4. now - e < Month
  BY <1>1, <1>2, <1>3
<1>5. e = now
  BY <1>2, <1>3, <1>4, SlotOnce, MonthType
<1> QED
  BY <1>1, <1>2, <1>3, <1>5

LEMMA TopStep ==
  ASSUME TTL = 0 \/ ShortExpiry, TopInv, [Next]_vars
  PROVE  TopInv'
<1>0. TypeOK /\ Recent /\ Readings /\ Expiries /\ Meetings /\ Claims /\ TopOfUndisturbed
  BY DEF TopInv
<1>t. TypeOK' /\ Recent' /\ Readings'
  <2>1. TypesInv
    BY <1>0 DEF TypesInv, Claims, Claim
  <2> QED
    BY <2>1, TypesStep DEF TypesInv
<1>1. CASE UNCHANGED vars
  BY <1>0, <1>1 DEF vars, TopInv, TypeOK, Recent, Readings, Expiries, Meetings, SameScore, At,
       Claims, Claim, Score, TopOfUndisturbed
<1>2. CASE ReadTop
  BY <1>0, <1>t, <1>2 DEF ReadTop, TopInv, Expiries, Meetings, SameScore, At, Claims,
       Claim, Score, TopOfUndisturbed
<1>3. CASE Tick
  <2>0. now \in Nat /\ now' = now + 1 /\ pc' = pc /\ save' = save
    BY <1>0, <1>3, TopAssumption DEF Tick, TypeOK, TopAssumption
  <2>1. ASSUME NEW s \in Slots
        PROVE  /\ top'[s] \in Sets
               /\ \/ top[s].ttl = 1 /\ top'[s] = Empty
                  \/ top[s].ttl = NoTTL /\ top'[s] = top[s]
                  \/ /\ top[s].ttl \notin {NoTTL, 1}
                     /\ top'[s].scores = top[s].scores /\ top'[s].ttl = top[s].ttl - 1
    BY <1>0, <1>3, HourEnds
  <2>2. ASSUME NEW s \in Slots, NEW m \in Members
        PROVE  /\ best'[s][m] \in {Absent, best[s][m]}
               /\ s # Slot(now) => best'[s][m] = Absent
    BY <1>0, <1>3 DEF Tick
  <2>3. ASSUME NEW s \in Slots, s = Slot(now)
        PROVE  top'[s].scores = top[s].scores
    <3>1. top[s].ttl # 1
      BY <1>0, <2>3, NotYet DEF NoTTL
    <3> QED
      BY <2>1, <3>1
  <2>4. Expiries'
    <3> SUFFICES ASSUME NEW s \in Slots, top'[s].ttl # NoTTL
                 PROVE  /\ TTL > 0
                        /\ \E e \in 0 .. now' : Slot(e) = s
                             /\ now' + top'[s].ttl \in {e + TTL, e + TTL + 1}
      BY DEF Expiries
    <3>1. top[s].ttl \in Nat /\ top[s].ttl # NoTTL /\ top'[s].ttl = top[s].ttl - 1
      <4>1. top[s].ttl \in {NoTTL} \cup 1 .. TTL
        BY <1>0 DEF TypeOK
      <4> QED
        BY <2>1, <4>1, TopAssumption DEF Empty, TopAssumption
    <3>2. PICK e \in 0 .. now : Slot(e) = s /\ now + top[s].ttl \in {e + TTL, e + TTL + 1}
      BY <1>0, <3>1 DEF Expiries
    <3>3. TTL > 0 /\ e \in 0 .. now' /\ now' + top'[s].ttl = now + top[s].ttl
      BY <1>0, <2>0, <3>1 DEF Expiries
    <3> QED
      BY <3>2, <3>3
  <2>5. Meetings'
    BY <1>0, <2>0 DEF Meetings, SameScore, At
  <2>6. ASSUME NEW w \in Workers PROVE Claim(w)'
    <3>1. At(w) \in Slots /\ save[w].member \in Members /\ save[w].value \in Nat
      BY <1>0, Typed
    <3>2. CASE pc[w] = "idle"
      BY <2>0, <3>2 DEF Claim
    <3>3. CASE pc[w] # "idle"
      <4>1. save[w].hour = now
        BY <1>3, <3>3 DEF Tick
      <4>2. top'[At(w)].scores = top[At(w)].scores
        BY <2>3, <3>1, <4>1 DEF At
      <4>3. Score(w)' = Score(w) /\ At(w)' = At(w)
        BY <2>0, <4>2 DEF Score, At
      <4>4. best'[At(w)][save[w].member] \in {Absent, best[At(w)][save[w].member]}
        BY <2>2, <3>1
      <4>5. Absent <= 0 /\ Absent <= save[w].value
        BY <3>1 DEF Absent
      <4>6. Claim(w)
        BY <1>0 DEF Claims
      <4> QED
        BY <2>0, <4>3, <4>4, <4>5, <4>6 DEF Claim
    <3> QED
      BY <3>2, <3>3
  <2>7. TopOfUndisturbed'
    <3> SUFFICES ASSUME NEW s \in Slots, NEW m \in Members
                 PROVE  top'[s].scores[m].value >= best'[s][m]
      BY DEF TopOfUndisturbed
    <3>1. top'[s].scores[m].value \in Values \cup {Absent}
      BY <2>1 DEF Sets, Scores
    <3>2. top'[s].scores[m].value >= Absent
      <4> DEFINE x == top'[s].scores[m].value
      <4>1. x \in Nat \/ x = -1
        BY <3>1, TopAssumption DEF TopAssumption, Absent
      <4> HIDE DEF x
      <4>2. x >= -1
        BY <4>1
      <4> QED
        BY <4>2 DEF x, Absent
    <3>3. top[s].scores[m].value >= best[s][m]
      BY <1>0 DEF TopOfUndisturbed
    <3> QED
      BY <2>2, <2>3, <3>2, <3>3
  <2> QED
    BY <1>t, <2>4, <2>5, <2>6, <2>7 DEF TopInv, Claims
<1>4. ASSUME NEW w \in Workers, Begin(w) PROVE TopInv'
  <2>1. PICK m \in Members, value \in Values :
          LET met == {v \in Workers : /\ pc[v] # "idle"
                                      /\ Slot(save[v].hour) = Slot(now)
                                      /\ save[v].member = m}
          IN  save' = [v \in Workers |->
                IF v = w THEN [member |-> m, value |-> value, hour |-> now,
                               alone |-> met = {}]
                ELSE IF v \in met THEN [save[v] EXCEPT !.alone = FALSE]
                ELSE save[v]]
    BY <1>4 DEF Begin
  <2> DEFINE Met(v) == pc[v] # "idle" /\ At(v) = Slot(now) /\ save[v].member = m
  <2>2. /\ pc[w] = "idle" /\ pc' = [pc EXCEPT ![w] = "zscore"]
        /\ now' = now /\ top' = top /\ reader' = reader /\ best' = best /\ failed' = failed
    BY <1>4 DEF Begin, Goto
  <2>3. /\ save'[w] \in [member : Members, value : Nat, hour : 0 .. MaxHour, alone : BOOLEAN]
        /\ save'[w].member = m /\ save'[w].value = value /\ save'[w].hour = now
        /\ save'[w].alone => \A v \in Workers : ~Met(v)
    BY <1>0, <2>1, TopAssumption DEF TypeOK, At, TopAssumption
  <2>4. ASSUME NEW v \in Workers \ {w}
        PROVE  /\ save'[v] \in [member : Members, value : Nat, hour : 0 .. MaxHour,
                                alone : BOOLEAN]
               /\ save'[v].member = save[v].member /\ save'[v].value = save[v].value
               /\ save'[v].hour = save[v].hour
               /\ save'[v].alone => save[v].alone /\ ~Met(v)
               /\ pc'[v] = pc[v] /\ At(v)' = At(v)
    <3>1. save[v] \in [member : Members, value : Nat, hour : 0 .. MaxHour, alone : BOOLEAN]
      BY <1>0 DEF TypeOK
    <3>2. save'[v] = IF Met(v) THEN [save[v] EXCEPT !.alone = FALSE] ELSE save[v]
      BY <2>1 DEF At
    <3> QED
      BY <1>0, <2>2, <3>1, <3>2 DEF At, TypeOK
  <2>5. Expiries' /\ TopOfUndisturbed'
    BY <1>0, <2>2 DEF Expiries, TopOfUndisturbed
  <2>6. Meetings'
    <3> SUFFICES ASSUME NEW u \in Workers, NEW v \in Workers, u # v, pc'[u] # "idle",
                        pc'[v] # "idle", At(u)' = At(v)', save'[u].member = save'[v].member,
                        save'[u].alone
                 PROVE  FALSE
      BY DEF Meetings, SameScore
    <3>1. At(w)' = Slot(now)
      BY <2>3 DEF At
    <3>2. CASE u = w
      <4>1. Met(v)
        BY <2>3, <2>4, <3>1, <3>2
      <4> QED
        BY <2>3, <3>2, <4>1
    <3>3. CASE v = w
      <4>1. Met(u)
        BY <2>3, <2>4, <3>1, <3>3
      <4> QED
        BY <2>4, <3>3, <4>1
    <3>4. CASE u # w /\ v # w
      BY <1>0, <2>4, <3>4 DEF Meetings, SameScore
    <3> QED
      BY <3>2, <3>3, <3>4
  <2>7. ASSUME NEW v \in Workers PROVE Claim(v)'
    <3>1. CASE v = w
      BY <1>0, <2>2, <3>1 DEF Claim, TypeOK
    <3>2. CASE v # w
      BY <1>0, <2>2, <2>4, <3>2 DEF Claim, Claims, Score, At
    <3> QED
      BY <3>1, <3>2
  <2> QED
    BY <1>t, <2>5, <2>6, <2>7 DEF TopInv, Claims
<1>5. ASSUME NEW w \in Workers,
             ReadScore(w) \/ AddNew(w) \/ Expire(w) \/ AddHigher(w) \/ Fail(w)
      PROVE  TopInv'
  <2> DEFINE s == At(w)
             m == save[w].member
  <2>1. /\ s \in Slots /\ m \in Members /\ save[w].value \in Nat /\ top[s] \in Sets
        /\ Score(w) = top[s].scores[m] /\ Score(w).value \in Values \cup {Absent}
        /\ best[s][m] \in Values \cup {Absent} /\ Score(w).value >= best[s][m]
    BY <1>0, Typed DEF Score, At, Scores, TypeOK, TopOfUndisturbed
  <2>0. Score(w).value \in Int /\ best[s][m] \in Int /\ save[w].value \in Int
    <3>1. Values \cup {Absent} \subseteq Int
      BY TopAssumption DEF TopAssumption, Absent
    <3> QED
      BY <2>1, <3>1
  <2>2. pc[w] # "idle" /\ save[w].value \in Values
        /\ save[w].hour \in {now - 1, now}
    BY <1>0, <1>5 DEF ReadScore, AddNew, Expire, AddHigher, Fail, Recent
  <2>3. now' = now /\ reader' = reader
    BY <1>5 DEF ReadScore, AddNew, Expire, AddHigher, Fail
  <2>4. ASSUME OfItsOwn(w), Expiries', Claim(w)',
               top'[s].scores[m].value >= best'[s][m]
        PROVE  TopInv'
    <3>1. Recent' /\ Meetings' /\ \A v \in Workers \ {w} : Claim(v)'
      BY <1>0, <2>4, OthersKeep
    <3>2. TopOfUndisturbed'
      BY <1>0, <2>4 DEF OfItsOwn, TopOfUndisturbed
    <3> QED
      BY <1>t, <2>4, <3>1, <3>2 DEF TopInv, Claims
  <2> DEFINE Scored == top' \in [Slots -> Sets] /\ \A t \in Slots, n \in Members :
                         ~(t = s /\ n = m) => top'[t].scores[n] = top[t].scores[n]
  <2>5. ASSUME Done(w), Scored, Expiries', failed' = failed,
               top'[s].scores[m].value >= best[s][m],
               save[w].alone => top'[s].scores[m].value >= save[w].value
        PROVE  TopInv'
    <3>1. /\ pc' = [pc EXCEPT ![w] = "idle"] /\ save' = [save EXCEPT ![w] = Idle]
          /\ best' \in [Slots -> [Members -> Values \cup {Absent}]]
          /\ \A t \in Slots, n \in Members :
               best'[t][n] = IF /\ t = s /\ n = m /\ save[w].alone
                                /\ save[w].value > best[t][n]
                             THEN save[w].value ELSE best[t][n]
      BY <1>0, <2>2, <2>5, Ended
    <3>2. OfItsOwn(w)
      <4>1. pc'[w] = "idle" /\ \A v \in Workers \ {w} : pc'[v] = pc[v] /\ save'[v] = save[v]
        BY <1>0, <3>1 DEF TypeOK
      <4> QED
        BY <2>2, <2>3, <2>5, <3>1, <4>1 DEF OfItsOwn
    <3>3. Claim(w)'
      BY <1>0, <3>1 DEF Claim, TypeOK
    <3>4. top'[s].scores[m].value >= best'[s][m]
      BY <2>1, <2>5, <3>1
    <3> QED
      BY <2>4, <2>5, <3>2, <3>3, <3>4
  <2>6. ASSUME NEW step \in {"zaddNew", "zaddHigher", "expire"}, Goto(w, step),
               UNCHANGED <<save, best, failed>>, Scored, Expiries', Claim(w)',
               top'[s].scores[m].value >= best[s][m]
        PROVE  TopInv'
    <3>1. OfItsOwn(w)
      BY <1>0, <2>2, <2>3, <2>6 DEF OfItsOwn, Goto, TypeOK
    <3> QED
      BY <2>4, <2>6, <3>1
  <2>7. ASSUME UNCHANGED top PROVE Scored /\ Expiries'
    BY <1>0, <2>3, <2>7 DEF TypeOK, Sets, Scores, Expiries
  <2>8. ASSUME Add(w)
        PROVE  /\ Scored /\ Expiries'
               /\ top'[s].scores[m] = [value |-> save[w].value, hour |-> save[w].hour]
    <3>1. /\ top' \in [Slots -> Sets]
          /\ \A t \in Slots : top'[t].ttl = top[t].ttl
          /\ \A t \in Slots, n \in Members :
               top'[t].scores[n] =
                 IF t = At(w) /\ n = save[w].member
                 THEN [value |-> save[w].value, hour |-> save[w].hour]
                 ELSE top[t].scores[n]
      BY <1>0, <2>2, <2>8, Added
    <3>2. Expiries'
      BY <1>0, <2>3, <3>1 DEF Expiries
    <3> QED
      BY <2>1, <3>1, <3>2
  <2>9. CASE ReadScore(w)
    <3>1. top' = top /\ failed' = failed
      BY <2>9 DEF ReadScore
    <3>2. CASE Done(w) /\ ~(save[w].value > Score(w).value)
      <4>1. Score(w).value >= save[w].value
        BY <2>0, <3>2
      <4> QED
        BY <2>1, <2>5, <2>7, <3>1, <3>2, <4>1
    <3>3. CASE /\ Score(w).value \in {Absent, 0} /\ Goto(w, "zaddNew")
               /\ UNCHANGED <<save, best>>
      <4>0. best[s][m] <= 0
        BY <2>0, <2>1, <3>3 DEF Absent
      <4>1. Claim(w)'
        BY <1>0, <3>3, <4>0 DEF Claim, At, Goto, TypeOK
      <4> QED
        BY <2>1, <2>6, <2>7, <3>1, <3>3, <4>1
    <3>4. CASE /\ save[w].value > Score(w).value /\ Goto(w, "zaddHigher")
               /\ UNCHANGED <<save, best>>
      <4>0. best[s][m] <= save[w].value
        BY <2>0, <2>1, <3>4
      <4>1. Claim(w)'
        BY <1>0, <3>4, <4>0 DEF Claim, At, Goto, TypeOK
      <4> QED
        BY <2>1, <2>6, <2>7, <3>1, <3>4, <4>1
    <3> QED
      BY <2>9, <3>2, <3>3, <3>4 DEF ReadScore
  <2>10. CASE AddNew(w) \/ AddHigher(w)
    <3>1. Add(w) /\ failed' = failed
      BY <2>10 DEF AddNew, AddHigher
    <3>2. top'[s].scores[m].value = save[w].value
      BY <2>8, <3>1
    <3>3. save[w].value >= best[s][m]
      <4>1. best[s][m] <= 0 \/ best[s][m] <= save[w].value
        BY <1>0, <2>10 DEF AddNew, AddHigher, Claims, Claim
      <4> QED
        BY <2>0, <2>1, <4>1
    <3>4. CASE Done(w)
      BY <2>1, <2>5, <2>8, <3>1, <3>2, <3>3, <3>4
    <3>5. CASE TTL > 0 /\ Goto(w, "expire") /\ UNCHANGED <<save, best>>
      <4>1. Claim(w)'
        BY <1>0, <2>1, <3>2, <3>5 DEF Claim, At, Score, Goto, TypeOK
      <4> QED
        BY <2>6, <2>8, <3>1, <3>2, <3>3, <3>5, <4>1
    <3> QED
      BY <2>10, <3>4, <3>5 DEF AddNew, AddHigher
  <2>11. CASE Expire(w)
    <3>1. Done(w) /\ failed' = failed /\ pc[w] = "expire"
          /\ top' = IF Present(top[s]) THEN [top EXCEPT ![s].ttl = TTL] ELSE top
      BY <2>11 DEF Expire, At
    <3>2. TTL > 0 /\ (save[w].alone => Score(w).value >= save[w].value)
      BY <1>0, <3>1 DEF Claims, Claim
    <3>3. CASE top' = top
      BY <2>1, <2>5, <2>7, <3>1, <3>2, <3>3
    <3>4. CASE top' = [top EXCEPT ![s].ttl = TTL]
      <4>1. top \in [Slots -> Sets]
        BY <1>0 DEF TypeOK, Sets, Scores
      <4>2. top' = [top EXCEPT ![s] = [top[s] EXCEPT !.ttl = TTL]]
        BY <3>4, <4>1
      <4>3. [top[s] EXCEPT !.ttl = TTL] \in Sets
        BY <2>1, <3>2, TopAssumption DEF Sets, TopAssumption
      <4>4. top' \in [Slots -> Sets]
        BY <2>1, <4>1, <4>2, <4>3
      <4>5. top'[s].ttl = TTL /\ \A t \in Slots : top'[t].scores = top[t].scores
        BY <2>1, <4>1, <4>2 DEF Sets
      <4>6. \A t \in Slots \ {s} : top'[t] = top[t]
        BY <4>1, <4>2
      <4>7. Expiries'
        <5>1. now \in Nat /\ save[w].hour \in 0 .. now
              /\ now + TTL \in {save[w].hour + TTL, save[w].hour + TTL + 1}
          <6>1. now \in Nat /\ save[w].hour \in Nat /\ TTL \in Nat
            BY <1>0, Typed, TopAssumption DEF TypeOK, TopAssumption
          <6> QED
            BY <2>2, <6>1
        <5> QED
          BY <1>0, <2>3, <3>2, <4>5, <4>6, <5>1 DEF Expiries, At
      <4>8. Scored
        BY <4>4, <4>5
      <4> QED
        BY <2>1, <2>5, <3>1, <3>2, <4>5, <4>7, <4>8
    <3> QED
      BY <3>1, <3>3, <3>4
  <2>12. CASE Fail(w)
    <3>1. /\ pc' = [pc EXCEPT ![w] = "idle"] /\ save' = [save EXCEPT ![w] = Idle]
          /\ UNCHANGED <<now, top, reader, best>> /\ failed' \in BOOLEAN
      BY <1>0, <2>12 DEF Fail, Goto, TypeOK
    <3>2. OfItsOwn(w)
      BY <1>0, <2>2, <3>1 DEF OfItsOwn, TypeOK
    <3>3. Claim(w)'
      BY <1>0, <3>1 DEF Claim, TypeOK
    <3> QED
      BY <2>1, <2>4, <2>7, <3>1, <3>2, <3>3
  <2> QED
    BY <1>5, <2>9, <2>10, <2>11, <2>12
<1> QED
  BY <1>1, <1>2, <1>3, <1>4, <1>5 DEF Next

-----------------------------------------------------------------------------
(* Expiry                                                                  *)

LEMMA ExpireStep ==
  ASSUME ShortExpiry, ExpireInv, TopInv', [Next]_vars
  PROVE  ExpireInv'
<1>0. /\ TypeOK /\ Recent /\ Expiries /\ TopsExpire /\ Raised /\ TypeOK'
      /\ top \in [Slots -> Sets]
  BY DEF ExpireInv, TopInv, TypeOK, Sets, Scores
<1> SUFFICES ASSUME TTL > 0, ~failed' PROVE TopsExpire' /\ Raised'
  BY DEF ExpireInv, TopsExpire, Raised
<1>1. ~failed
  BY <1>0 DEF Next, Tick, ReadTop, Begin, ReadScore, AddNew, Expire, AddHigher, Fail, vars,
       TypeOK
<1>2. \A s \in Slots : Present(top[s]) /\ top[s].ttl = NoTTL =>
        \E w \in Workers : pc[w] = "expire" /\ At(w) = s
  BY <1>0, <1>1 DEF TopsExpire, At
<1>3. \A w \in Workers : pc[w] = "zaddHigher" => Score(w) # NoScore
  BY <1>0, <1>1 DEF Raised
<1>4. CASE UNCHANGED vars \/ ReadTop
  BY <1>2, <1>3, <1>4 DEF vars, ReadTop, TopsExpire, Raised, Score, At
<1>5. CASE Tick
  <2>1. pc' = pc /\ save' = save /\ \A w \in Workers : pc[w] # "idle" => save[w].hour = now
    BY <1>5 DEF Tick
  <2>2. ASSUME NEW s \in Slots
        PROVE  /\ top'[s] # Empty => top'[s].scores = top[s].scores
               /\ top'[s].ttl = NoTTL => top'[s] = Empty \/ top[s].ttl = NoTTL
               /\ top[s].ttl # 1 => top'[s].scores = top[s].scores
    <3>1. top[s] \in Sets
      BY <1>0
    <3>2. top'[s] = CASE top[s].ttl = 1     -> Empty
                      [] top[s].ttl = NoTTL -> top[s]
                      [] OTHER              -> [top[s] EXCEPT !.ttl = @ - 1]
      BY <1>5 DEF Tick
    <3> QED
      BY <3>1, <3>2, TopAssumption DEF Sets, NoTTL, TopAssumption
  <2>3. ~Present(Empty)
    BY DEF Present, Empty
  <2>4. TopsExpire'
    BY <1>2, <2>1, <2>2, <2>3 DEF TopsExpire, At, Present
  <2>5. Raised'
    <3> SUFFICES ASSUME NEW w \in Workers, pc[w] = "zaddHigher" PROVE Score(w)' # NoScore
      BY <2>1 DEF Raised
    <3>1. At(w) \in Slots /\ At(w) = Slot(now)
      BY <1>0, <2>1, Typed DEF At
    <3>2. top[At(w)].ttl # 1
      BY <1>0, <3>1, NotYet DEF NoTTL
    <3> QED
      BY <1>3, <2>1, <2>2, <3>1, <3>2 DEF Score, At
  <2> QED
    BY <2>4, <2>5
<1>6. ASSUME NEW w \in Workers, Begin(w) PROVE TopsExpire' /\ Raised'
  <2>1. pc[w] = "idle" /\ pc' = [pc EXCEPT ![w] = "zscore"] /\ top' = top
    BY <1>6 DEF Begin, Goto
  <2>2. ASSUME NEW v \in Workers, v # w
        PROVE  save'[v].hour = save[v].hour /\ save'[v].member = save[v].member
    BY <1>0, <1>6, <2>2 DEF Begin, TypeOK
  <2>3. \A v \in Workers : pc'[v] \in {"expire", "zaddHigher"} => v # w
    BY <1>0, <2>1 DEF TypeOK
  <2>4. \A v \in Workers : pc[v] = "expire" => v # w /\ pc'[v] = "expire"
    BY <1>0, <2>1 DEF TypeOK
  <2>5. TopsExpire'
    BY <1>2, <2>1, <2>2, <2>4 DEF TopsExpire, At
  <2>6. Raised'
    BY <1>0, <1>3, <2>1, <2>2, <2>3 DEF Raised, Score, At, TypeOK
  <2> QED
    BY <2>5, <2>6
<1>7. ASSUME NEW w \in Workers,
             ReadScore(w) \/ AddNew(w) \/ Expire(w) \/ AddHigher(w) \/ Fail(w)
      PROVE  TopsExpire' /\ Raised'
  <2>1. /\ At(w) \in Slots /\ save[w].member \in Members /\ pc[w] # "idle"
        /\ save[w].value \in Values
    BY <1>0, <1>7, Typed DEF ReadScore, AddNew, Expire, AddHigher, Fail, Recent
  <2>2. \A v \in Workers \ {w} : pc'[v] = pc[v] /\ save'[v] = save[v]
    BY <1>0, <1>7 DEF ReadScore, AddNew, Expire, AddHigher, Fail, Done, Goto, TypeOK
  <2>3. \A s \in Slots, m \in Members : top[s].scores[m] # NoScore => top'[s].scores[m] # NoScore
    <3>1. CASE Add(w)
      <4>1. \A s \in Slots, m \in Members :
              \/ top'[s].scores[m] = top[s].scores[m]
              \/ top'[s].scores[m] = [value |-> save[w].value, hour |-> save[w].hour]
        BY <1>0, <2>1, <3>1, Added
      <4>2. [value |-> save[w].value, hour |-> save[w].hour] # NoScore
        BY <2>1, TopAssumption DEF NoScore, Absent, TopAssumption
      <4> QED
        BY <4>1, <4>2
    <3>2. CASE Expire(w)
      BY <1>0, <3>2 DEF Expire, Sets
    <3>3. CASE ReadScore(w) \/ Fail(w)
      BY <3>3 DEF ReadScore, Fail
    <3> QED
      BY <1>7, <3>1, <3>2, <3>3 DEF AddNew, AddHigher
  <2>4. ASSUME NEW v \in Workers, v # w, pc[v] = "zaddHigher" PROVE Score(v)' # NoScore
    BY <1>0, <1>3, <2>2, <2>3, <2>4, Typed DEF Score, At
  <2>5. Raised'
    <3>1. ASSUME pc'[w] = "zaddHigher" PROVE Score(w)' # NoScore
      <4>1. ReadScore(w)
        BY <1>0, <1>7, <3>1 DEF AddNew, Expire, AddHigher, Fail, Done, Goto, TypeOK
      <4>2. Score(w).value # Absent /\ save' = save /\ top' = top
        BY <1>0, <3>1, <4>1 DEF ReadScore, Done, Goto, TypeOK
      <4> QED
        BY <4>2 DEF NoScore, Score
    <3> QED
      BY <2>2, <2>4, <3>1 DEF Raised
  <2>6. CASE Expire(w)
    <3>1. \A s \in Slots : s # At(w) => top'[s] = top[s]
      BY <1>0, <2>6 DEF Expire, At
    <3>2. Present(top'[At(w)]) => top'[At(w)].ttl # NoTTL
      BY <1>0, <2>1, <2>6, TopAssumption DEF Expire, At, Sets, NoTTL, TopAssumption
    <3> QED
      BY <1>2, <2>2, <2>5, <3>1, <3>2 DEF TopsExpire, At
  <2>7. CASE AddNew(w)
    <3>1. Add(w) /\ pc'[w] = "expire" /\ save' = save /\ pc[w] = "zaddNew"
      BY <1>0, <2>7 DEF AddNew, Goto, TypeOK
    <3>2. \A s \in Slots : top'[s].ttl = top[s].ttl
      BY <1>0, <2>1, <3>1, Added
    <3>3. \A s \in Slots : s # At(w) => \A m \in Members : top'[s].scores[m] = top[s].scores[m]
      BY <1>0, <2>1, <3>1, Added
    <3>4. TopsExpire'
      BY <1>2, <2>2, <3>1, <3>2, <3>3 DEF TopsExpire, Present, At
    <3> QED
      BY <2>5, <3>4
  <2>8. CASE AddHigher(w)
    <3>1. Add(w) /\ pc[w] = "zaddHigher"
      BY <2>8 DEF AddHigher
    <3>2. \A s \in Slots : top'[s].ttl = top[s].ttl
      BY <1>0, <2>1, <3>1, Added
    <3>3. \A s \in Slots : s # At(w) => \A m \in Members : top'[s].scores[m] = top[s].scores[m]
      BY <1>0, <2>1, <3>1, Added
    <3>4. Present(top[At(w)])
      BY <1>3, <2>1, <3>1 DEF Present, Score, At
    <3>5. TopsExpire'
      BY <1>2, <2>2, <3>1, <3>2, <3>3, <3>4 DEF TopsExpire, Present, At
    <3> QED
      BY <2>5, <3>5
  <2>9. CASE Fail(w)
    <3>1. pc[w] # "expire" /\ top' = top
      BY <2>9 DEF Fail
    <3> QED
      BY <1>2, <2>2, <2>5, <3>1 DEF TopsExpire, At
  <2>10. CASE ReadScore(w)
    <3>1. pc[w] # "expire" /\ top' = top
      BY <2>10 DEF ReadScore
    <3> QED
      BY <1>2, <2>2, <2>5, <3>1 DEF TopsExpire, At
  <2> QED
    BY <1>7, <2>6, <2>7, <2>8, <2>9, <2>10
<1> QED
  BY <1>4, <1>5, <1>6, <1>7 DEF Next

-----------------------------------------------------------------------------
(* Today                                                                   *)

LEMMA MonthsStep ==
  ASSUME ShortExpiry, TodayInv, [Next]_vars
  PROVE  Months'
<1>0. /\ TypeOK /\ Recent /\ Expiries /\ TopsExpire /\ Months
      /\ top \in [Slots -> Sets] /\ now \in Nat
      /\ TTL \in Nat /\ TTL >= 2 /\ Month \in Nat /\ TTL < Month
  BY TopAssumption, MonthType
  DEF TodayInv, ExpireInv, TopInv, TypeOK, Sets, Scores, ShortExpiry, TopAssumption
<1> SUFFICES ASSUME ~failed', NEW s \in Slots, NEW m \in Members,
                    top'[s].scores[m] # NoScore
             PROVE  LET score == top'[s].scores[m]
                    IN  Slot(score.hour) = s /\ score.hour <= now' /\ now' - score.hour < Month
  BY DEF Months
<1>1. ~failed
  BY <1>0 DEF Next, Tick, ReadTop, Begin, ReadScore, AddNew, Expire, AddHigher, Fail, vars,
       TypeOK
<1> DEFINE old == top[s].scores[m]
<1>2. old # NoScore =>
        Slot(old.hour) = s /\ old.hour <= now /\ now - old.hour < Month
  BY <1>0, <1>1 DEF Months
<1>3. CASE now' = now /\ top'[s].scores[m] = old
  BY <1>2, <1>3
<1>4. CASE Tick
  <2>1. now' = now + 1 /\ \A w \in Workers : pc[w] # "idle" => save[w].hour = now
    BY <1>4 DEF Tick
  <2>2. top'[s].scores = top[s].scores /\ top[s].ttl # 1
    <3>1. top'[s] = CASE top[s].ttl = 1     -> Empty
                      [] top[s].ttl = NoTTL -> top[s]
                      [] OTHER              -> [top[s] EXCEPT !.ttl = @ - 1]
      BY <1>4 DEF Tick
    <3>2. top[s].ttl # 1
      <4>1. top'[s] # Empty
        BY DEF Empty
      <4> QED
        BY <3>1, <4>1 DEF NoTTL
    <3> QED
      BY <1>0, <3>1, <3>2 DEF Sets
  <2>3. /\ old # NoScore /\ Slot(old.hour) = s /\ old.hour <= now
        /\ now - old.hour < Month /\ old.hour \in Nat
    BY <1>0, <1>2, <2>2, TopAssumption DEF Sets, Scores, TopAssumption
  <2>4. CASE top[s].ttl = NoTTL
    <3>1. PICK w \in Workers : pc[w] = "expire" /\ At(w) = s
      BY <1>0, <1>1, <2>3, <2>4 DEF TopsExpire, Present, At
    <3>2. Slot(now) = s
      BY <2>1, <3>1 DEF At
    <3>3. old.hour = now
      BY <1>0, <2>3, <3>2, SlotOnce
    <3> QED
      BY <1>0, <2>1, <2>2, <2>3, <3>3
  <2>5. CASE top[s].ttl # NoTTL
    <3>1. PICK e \in 0 .. now : Slot(e) = s /\ now + top[s].ttl \in {e + TTL, e + TTL + 1}
      BY <1>0, <2>5 DEF Expiries
    <3>2. top[s].ttl \in Nat /\ top[s].ttl >= 2
      <4>1. top[s].ttl \in 1 .. TTL
        BY <1>0, <2>5 DEF Sets
      <4>2. top[s].ttl # 1
        BY <2>2
      <4> QED
        BY <1>0, <4>1, <4>2
    <3>3. e \in Nat /\ now + 1 - e < Month
      BY <1>0, <3>1, <3>2
    <3>4. old.hour = e
      BY <1>0, <2>3, <3>1, <3>3, SlotOnce
    <3> QED
      BY <1>0, <2>1, <2>2, <2>3, <3>3, <3>4
  <2> QED
    BY <2>4, <2>5
<1>5. ASSUME NEW w \in Workers, Add(w), now' = now, pc[w] # "idle"
      PROVE  \/ now' = now /\ top'[s].scores[m] = old
             \/ /\ Slot(top'[s].scores[m].hour) = s /\ top'[s].scores[m].hour <= now'
                /\ now' - top'[s].scores[m].hour < Month
  <2>1. save[w].value \in Values /\ save[w].hour \in {now - 1, now} /\ save[w].hour \in Nat
    BY <1>0, <1>5, Typed DEF Recent
  <2>2. \/ top'[s].scores[m] = old
        \/ s = At(w) /\ top'[s].scores[m].hour = save[w].hour
    <3>1. top'[s].scores[m] =
            IF s = At(w) /\ m = save[w].member
            THEN [value |-> save[w].value, hour |-> save[w].hour]
            ELSE old
      BY <1>0, <1>5, <2>1, Added
    <3> QED
      BY <3>1
  <2> QED
    BY <1>0, <1>5, <2>1, <2>2 DEF At
<1>6. ASSUME NEW w \in Workers, AddNew(w) \/ AddHigher(w)
      PROVE  \/ now' = now /\ top'[s].scores[m] = old
             \/ /\ Slot(top'[s].scores[m].hour) = s /\ top'[s].scores[m].hour <= now'
                /\ now' - top'[s].scores[m].hour < Month
  BY <1>5, <1>6 DEF AddNew, AddHigher
<1>7. ASSUME NEW w \in Workers, Expire(w) PROVE now' = now /\ top'[s].scores[m] = old
  BY <1>0, <1>7 DEF Expire, Sets
<1>8. CASE \/ UNCHANGED vars \/ ReadTop
           \/ \E w \in Workers : Begin(w) \/ ReadScore(w) \/ Fail(w)
  BY <1>3, <1>8 DEF vars, ReadTop, Begin, ReadScore, Fail
<1> QED
  BY <1>3, <1>4, <1>6, <1>7, <1>8 DEF Next

(* Months ago are not read.                                                *)
LEMMA TodayFollows ==
  ASSUME ShortExpiry, DaysPerMonth >= 2, TodayInv
  PROVE  TodaysTops
<1>0. /\ TypeOK /\ Readings /\ Months /\ top \in [Slots -> Sets]
      /\ now \in Nat /\ Month \in Nat /\ HoursPerDay \in Nat \ {0}
  BY TopAssumption, MonthType
  DEF TodayInv, ExpireInv, TopInv, TypeOK, Sets, Scores, TopAssumption
<1>1. HoursPerDay < Month
  BY TopAssumption DEF Month, TopAssumption
<1>2. /\ NextRead.began \in {now - 1, now} /\ NextRead.began \in Nat
      /\ NextRead.hour \in 0 .. NextRead.began % HoursPerDay
  <2>1. now % HoursPerDay \in 0 .. HoursPerDay - 1
    BY <1>0, Division
  <2>2. CASE reader = NotReading
    BY <1>0, <2>1, <2>2 DEF NextRead
  <2>3. CASE reader # NotReading
    <3>1. NextRead = reader /\ reader.began \in 0 .. MaxHour
      BY <1>0, <2>3 DEF NextRead, TypeOK
    <3> QED
      BY <1>0, <2>3, <3>1, TopAssumption DEF Readings, TopAssumption
  <2> QED
    BY <2>2, <2>3
<1> DEFINE began == NextRead.began
           hour == NextRead.hour
           day == began - (began % HoursPerDay)
<1>3. began % HoursPerDay \in 0 .. HoursPerDay - 1 /\ day \in Nat
  <2>1. PICK q \in Nat : began = HoursPerDay * q + (began % HoursPerDay)
    BY <1>0, <1>2, Division
  <2>2. began % HoursPerDay \in 0 .. HoursPerDay - 1
    BY <1>0, <1>2, Division
  <2>3. HoursPerDay * q \in Nat
    BY <1>0
  <2> QED
    BY <1>2, <2>1, <2>2, <2>3
<1>4. Reading = day + hour
  BY DEF Reading
<1>5. Reading \in Nat /\ Reading <= now /\ now - Reading < Month
  <2> HIDE DEF began, hour
  <2>1. began \in {now - 1, now} /\ began \in Nat /\ hour \in 0 .. began % HoursPerDay
    BY <1>2 DEF began, hour
  <2> QED
    BY <1>0, <1>1, <1>3, <1>4, <2>1
<1>6. SUFFICES ASSUME ~failed, NEW m \in Members, top[Slot(Reading)].scores[m] # NoScore
               PROVE  top[Slot(Reading)].scores[m].hour = Reading
  BY DEF TodaysTops
<1> DEFINE score == top[Slot(Reading)].scores[m]
<1>7. Slot(Reading) \in Slots
  BY <1>5, SlotType
<1>8. Slot(score.hour) = Slot(Reading) /\ score.hour <= now /\ now - score.hour < Month
      /\ score.hour \in Nat
  BY <1>0, <1>6, <1>7, TopAssumption DEF Months, Sets, Scores, TopAssumption
<1> HIDE DEF score
<1>9. score.hour = Reading
  BY <1>0, <1>5, <1>8, SlotOnce
<1> QED
  BY <1>9 DEF score

-----------------------------------------------------------------------------
(* Theorems                                                                *)

(* Whatever db.expire is: a score is the value of a run and not a sum, a   *)
(* TTL is at most db.expire, and get_top reads hours of the day            *)
(* (protector_main.py:101-143, 269-280).                                   *)
THEOREM TopTypeCorrect == Spec => []TypeOK
<1>1. TypesInv => TypeOK
  BY DEF TypesInv
<1> QED
  BY <1>1, TypesInit, TypesStep, PTL DEF Spec

(* Without db.expire, or with one of at least two hours and less than a    *)
(* month: a value that is saved without meeting another save of the same   *)
(* query is not lost to whatever other saves do (protector_main.py:112).   *)
THEOREM UndisturbedKept ==
  ASSUME TTL = 0 \/ ShortExpiry
  PROVE  Spec => [](TypeOK /\ TopOfUndisturbed)
<1>1. TopInv /\ [Next]_vars => TopInv'
  BY TopStep
<1>2. TopInv => TypeOK /\ TopOfUndisturbed
  BY DEF TopInv
<1> QED
  BY <1>1, <1>2, TopInit, PTL DEF Spec

LEMMA TodayInit == Init => TodayInv
<1> SUFFICES ASSUME Init PROVE TodayInv
  OBVIOUS
<1>1. \A s \in Slots, m \in Members : top[s].scores[m] = NoScore
  BY DEF Init, Empty
<1>2. TopsExpire /\ Raised /\ Months
  BY <1>1 DEF Init, TopsExpire, Present, Raised, Months
<1> QED
  BY <1>2, TopInit DEF TodayInv, ExpireInv

LEMMA TodayStep ==
  ASSUME ShortExpiry, TodayInv, [Next]_vars
  PROVE  TodayInv'
<1>1. TopInv'
  BY TopStep DEF TodayInv, ExpireInv
<1>2. ExpireInv'
  BY <1>1, ExpireStep DEF TodayInv
<1> QED
  BY <1>2, MonthsStep DEF TodayInv

(* With such a db.expire every set goes away, although only the first run  *)
(* of a member sets a TTL (protector_main.py:114-120).                     *)
THEOREM SetsExpire ==
  ASSUME ShortExpiry
  PROVE  Spec => []TopsExpire
<1>1. TodayInv /\ [Next]_vars => TodayInv'
  BY TodayStep
<1>2. TodayInv => TopsExpire
  BY DEF TodayInv, ExpireInv
<1> QED
  BY <1>1, <1>2, TodayInit, PTL DEF Spec

(* And get_top serves today's runs, the key of an hour having lost those   *)
(* of a month ago when it comes again, if it expires within a month        *)
(* (protector_main.py:269-280).                                            *)
THEOREM TodayServed ==
  ASSUME DaysPerMonth >= 2
  PROVE  Spec => []TodaysTops
<1>1. CASE ShortExpiry
  <2>1. TodayInv /\ [Next]_vars => TodayInv'
    BY <1>1, TodayStep
  <2>2. TodayInv => TodaysTops
    BY <1>1, TodayFollows
  <2> QED
    BY <2>1, <2>2, TodayInit, PTL DEF Spec
<1>2. CASE ~ShortExpiry
  <2>1. TodaysTops
    BY <1>2 DEF TodaysTops
  <2> QED
    BY <2>1, PTL
<1> QED
  BY <1>1, <1>2
=============================================================================
