-------------------------- MODULE TorqueCoilsProofs --------------------------
(***************************************************************************)
(* Proofs about the actions of a control cycle: for any firing times, pulse*)
(* lengths, durations and losses, where a script stands determines what the*)
(* coils have been driven for and what is still to be sent.                *)
(***************************************************************************)
EXTENDS TorqueCoils, SequenceTheorems, TLAPS

\* What a script has left when k of its operations are done.
Left(s, k) == SubSeq(s, k + 1, Len(s))

-----------------------------------------------------------------------------
(* The inductive invariant.                                                *)

\* What TypeOK says, apart from the end of an action.
Types ==
    /\ measuring \in BOOLEAN /\ lostHere \in BOOLEAN /\ begun \in BOOLEAN
    /\ measurement \in [read : Nat, step : Int, slept : Nat \cup {-1}]
    /\ ~measuring => measurement = NotYet
    /\ action \in {"idle", "detumble", "sunpoint"}
    /\ pack \in [Coil -> Direction] /\ coil \in [Coil -> Direction]
    /\ fire \in [Coil -> Direction] /\ command \in [Coil -> 0 .. ActionTime]
    /\ elapsed \in Nat /\ onTime \in [Coil -> 0 .. elapsed]
    /\ lost \in 0 .. MaxLost

\* What a measurement sleeps after a reading and a step of the clock, as CycleTakesItsTime
\* has it.
TakesItsShare(read, step, slept) ==
    LET left == IF read > MEASURE_TIME THEN 0 ELSE MEASURE_TIME - read
    IN  /\ step = 0 => slept = left
        /\ step > 0 => slept <= left \/ Below(MEASURE_TIME - read, step)
        /\ step < 0 => slept + step <= left

MeasuredInv ==
    measurement # NotYet =>
        TakesItsShare(measurement.read, measurement.step, measurement.slept)

\* A measurement begins after an action, with everything about it reset.
MeasuringInv ==
    measuring =>
        /\ action = "idle" /\ script = << >>
        /\ elapsed = 0 /\ onTime = AllOff /\ ~lostHere

\* The idle action transmits nothing, and an action before it commanded all coils off.
IdleInv ==
    action = "idle" =>
        /\ begun => pack = AllOff
        /\ ~measuring => \/ script = IdleScript /\ elapsed = 0
                         \/ script = << >> /\ elapsed = ActionTime

\* The bridge differs from the configuration only when the last transmission was lost.
LostInv == coil # pack => lost >= 1

\* When the nth pause of a detumble action with these commands is due to end: with the
\* firing time of the nth coil to be turned off, or with the action.
Due(n, time) ==
    IF n = 0 THEN 0 ELSE IF n = 4 THEN MAX_DETUMBLE_FIRING_TIME ELSE time[FiringOrder(time)[n]]

\* After k operations of a detumble action: pauses slept, coils turned off, and
\* transmissions that left no coil on.
Slept(k) == IF k < 8 THEN k \div 2 ELSE 4
TurnedOff(k) == IF k < 3 THEN 0 ELSE IF k < 7 THEN (k - 1) \div 2 ELSE 3
OffSent(k) == IF k < 9 THEN 1 ELSE k - 7

\* A coil that is off by now has been driven for its time, the others for all of it.
DrivenSoFar(k) ==
    \A n \in 1 .. 3 :
        LET c == FiringOrder(command)[n]
        IN  /\ fire[c] = 0 => onTime[c] = 0
            /\ fire[c] # 0 /\ n <= TurnedOff(k) =>
                   onTime[c] \in Due(n, command) .. Due(n, command) + n
            /\ fire[c] # 0 /\ n > TurnedOff(k) => onTime[c] = elapsed

DetumblePlace(k) ==
    /\ script = Left(DetumbleScript(fire, command), k)
    /\ elapsed \in Due(Slept(k), command) .. Due(Slept(k), command) + Slept(k)
    /\ k = 0 => elapsed = 0 /\ onTime = AllOff
    /\ k > 0 => \A n \in 1 .. 3 :
                   LET c == FiringOrder(command)[n]
                   IN  pack[c] = IF n <= TurnedOff(k) THEN 0 ELSE fire[c]
    /\ ~lostHere /\ k > 0 => coil = pack
    /\ ~lostHere => DrivenSoFar(k)
    /\ k >= 7 /\ coil # AllOff => lost >= OffSent(k)

DetumbleInv ==
    action = "detumble" =>
        /\ ~measuring
        /\ \E k \in 0 .. 11 : DetumblePlace(k)

\* The length of a period: without a rest it is just the pulse.
Steps(on) == IF on < SUNPOINT_DUTY_CYCLE THEN 4 ELSE 2

\* b operations into period n of a pulse train, or, when all periods are over, before
\* and after the last transmission.
SunpointPlace(on, n, b) ==
    LET part == IF b < 2 THEN 0 ELSE on
        full == on = SUNPOINT_DUTY_CYCLE
    IN  /\ script = Left(SunpointScript(fire, on), Steps(on) * n + b)
        /\ elapsed = n * SUNPOINT_DUTY_CYCLE + part
        /\ n > 0 \/ b > 0 =>
               /\ pack[0] = 0 /\ pack[1] = 0
               /\ pack[Z] = IF n = Periods THEN IF full /\ b = 0 THEN fire[Z] ELSE 0
                            ELSE IF b \in {1, 2} \/ (b = 0 /\ full) THEN fire[Z] ELSE 0
        /\ n = 0 /\ b = 0 => onTime = AllOff
        /\ ~lostHere /\ (n > 0 \/ b > 0) => coil = pack
        /\ ~lostHere => onTime[0] = 0 /\ onTime[1] = 0 /\ onTime[Z] = n * on + part
        /\ n = Periods /\ b = 1 /\ ~full /\ coil # AllOff => lost >= 2

\* The places there are in a pulse train.
InTrain(on, n, b) ==
    n \in 0 .. Periods /\ b \in 0 .. 3 /\ b < Steps(on) /\ (n = Periods => b < 2)

\* Only the z coil has a direction.
AlongZ == fire[0] = 0 /\ fire[1] = 0 /\ fire[Z] \in {-1, 1}

SunpointInv ==
    action = "sunpoint" =>
        /\ ~measuring
        /\ AlongZ
        /\ \E on \in 0 .. SUNPOINT_DUTY_CYCLE :
               /\ command = [AllOff EXCEPT ![Z] = Periods * on]
               /\ \E n \in 0 .. Periods, b \in 0 .. 3 :
                      InTrain(on, n, b) /\ SunpointPlace(on, n, b)

IInv ==
    /\ Types
    /\ MeasuredInv /\ MeasuringInv
    /\ IdleInv /\ LostInv
    /\ DetumbleInv /\ SunpointInv

-----------------------------------------------------------------------------
(* Times.                                                                  *)

\* What the assumption says of them, apart from the widths.
LEMMA TimesAre ==
    /\ DETUMBLE_TIME_STEP \in Nat /\ MEASURE_TIME \in Nat
    /\ MIN_DETUMBLE_FIRING_TIME \in Nat /\ MAX_DETUMBLE_FIRING_TIME \in Nat
    /\ MIN_DETUMBLE_FIRING_TIME < MAX_DETUMBLE_FIRING_TIME
    /\ MAX_DETUMBLE_FIRING_TIME = DETUMBLE_TIME_STEP - MEASURE_TIME
    /\ SUNPOINT_DUTY_CYCLE \in Nat \ {0}
    /\ SUNPOINT_DUTY_CYCLE % 10000 = 0
    /\ MAX_DETUMBLE_FIRING_TIME % SUNPOINT_DUTY_CYCLE = 0
    /\ MaxLost \in Nat
BY TimesAssumption, SMT

\* And what it says of the inputs.
LEMMA InputsAre ==
    /\ FiringTimes \subseteq Int /\ PulseTimes \subseteq Int /\ ReadTimes \subseteq Nat
    /\ SetOn \subseteq Nat /\ SetBack \subseteq Nat
BY TimesAssumption, SMT

\* Readings and steps of the clock are what a signed number of 32 bits can hold.
LEMMA InputsFit ==
    /\ \A r \in ReadTimes : r <= 2147483647
    /\ \A t \in SetOn : t <= 2147483647
BY TimesAssumption, SMT

-----------------------------------------------------------------------------
(* Sequences.                                                              *)

\* The next operation and what is left after it.
LEMMA Popped ==
    ASSUME NEW S, NEW s \in Seq(S), NEW k \in Nat, k < Len(s)
    PROVE  /\ Left(s, k) # << >> /\ Head(Left(s, k)) = s[k + 1]
           /\ Tail(Left(s, k)) = Left(s, k + 1)
<1>1. k + 1 \in 1 .. Len(s) /\ Len(s) \in k + 1 .. Len(s)
  OBVIOUS
<1>2. Len(Left(s, k)) = Len(s) - k
  BY DEF Left
<1>3. Left(s, k) # << >>
  BY <1>2
<1> QED
  BY <1>1, <1>3, HeadTailOfSubSeq DEF Left

\* Nothing is left when all of it is done, and all of it before.
LEMMA LeftEnds ==
    ASSUME NEW S, NEW s \in Seq(S)
    PROVE  /\ Left(s, 0) = s /\ Left(s, Len(s)) = << >>
           /\ \A k \in Nat : k <= Len(s) /\ Left(s, k) = << >> => k = Len(s)
<1>1. Left(s, 0) = s
  BY DEF Left
<1>2. Left(s, Len(s)) = << >>
  BY DEF Left
<1>3. ASSUME NEW k \in Nat, k <= Len(s), Left(s, k) = << >> PROVE k = Len(s)
  BY <1>3, Popped
<1> QED
  BY <1>1, <1>2, <1>3

-----------------------------------------------------------------------------
(* The sort.                                                               *)

\* The first n coils of an order are sorted by time, and no coil is in it twice.
Sorted(order, n, time) ==
    /\ order \in [1 .. 3 -> Coil]
    /\ \A i, k \in 1 .. 3 : i < k => order[i] # order[k]
    /\ \A i, k \in 1 .. n : i < k => time[order[i]] <= time[order[k]]

\* A round of insertionSort sorts one coil more.
LEMMA InsertSorts ==
    ASSUME NEW time \in [Coil -> Nat], NEW n \in 2 .. 3, NEW order, Sorted(order, n - 1, time)
    PROVE  Sorted(Insert(order, n, time), n, time)
<1> DEFINE key == order[n]
           Place(i) == /\ i = 0 \/ ~(time[key] < time[order[i]])
                       /\ \A k \in i + 1 .. n - 1 : time[key] < time[order[k]]
           j == CHOOSE i \in 0 .. n - 1 : Place(i)
<1>1. order \in [1 .. 3 -> Coil] /\ \A i \in 1 .. 3 : time[order[i]] \in Nat
  BY DEF Sorted
<1>2. \E i \in 0 .. n - 1 : Place(i)
  <2>1. CASE n = 2
    BY <1>1, <2>1
  <2>2. CASE n = 3
    BY <1>1, <2>2 DEF Sorted
  <2> QED
    BY <2>1, <2>2
<1>3. j \in 0 .. n - 1 /\ Place(j)
  BY <1>2
<1>4. Insert(order, n, time) =
          [i \in 1 .. 3 |-> IF i <= j \/ i > n THEN order[i]
                            ELSE IF i = j + 1 THEN key ELSE order[i - 1]]
  BY DEF Insert
<1> HIDE DEF j
<1>5. CASE n = 2
  BY <1>1, <1>3, <1>4, <1>5 DEF Sorted
<1>6. CASE n = 3
  BY <1>1, <1>3, <1>4, <1>6 DEF Sorted
<1> QED
  BY <1>5, <1>6

\* firingOrder goes through all coils, by increasing firing time.
LEMMA OrderSorts ==
    ASSUME NEW time \in [Coil -> Nat]
    PROVE  /\ FiringOrder(time) \in [1 .. 3 -> Coil]
           /\ \A i, k \in 1 .. 3 :
                  i < k => /\ FiringOrder(time)[i] # FiringOrder(time)[k]
                           /\ time[FiringOrder(time)[i]] <= time[FiringOrder(time)[k]]
           /\ \A c \in Coil : \E n \in 1 .. 3 : c = FiringOrder(time)[n]
<1>1. Sorted(<<0, 1, 2>>, 1, time)
  BY DEF Sorted, Coil
<1>2. Sorted(FiringOrder(time), 3, time)
  BY <1>1, InsertSorts DEF FiringOrder
<1> DEFINE o == FiringOrder(time)
<1> HIDE DEF o
<1>3. ASSUME NEW c \in Coil PROVE \E n \in 1 .. 3 : c = FiringOrder(time)[n]
  <2>1. /\ o[1] \in 0 .. 2 /\ o[2] \in 0 .. 2 /\ o[3] \in 0 .. 2
        /\ o[1] # o[2] /\ o[1] # o[3] /\ o[2] # o[3]
    BY <1>2 DEF Sorted, Coil, o
  <2>2. c = o[1] \/ c = o[2] \/ c = o[3]
    BY <2>1 DEF Coil
  <2> QED
    BY <2>2 DEF o
<1> QED
  BY <1>2, <1>3 DEF Sorted

-----------------------------------------------------------------------------
(* Products.                                                               *)

\* A product grows with its factors, strictly if the other is not zero.
LEMMA Monotone ==
    ASSUME NEW d \in Nat, NEW m \in Nat, NEW n \in Nat, m <= n
    PROVE  /\ (d * m) \in Nat /\ (d * n) \in Nat /\ d * m <= d * n
           /\ d * m = m * d /\ d * n = n * d
           /\ 0 < d /\ d * m = d * n => m = n
<1>1. PICK x \in Nat : n = m + x
  <2>1. n - m \in Nat
    OBVIOUS
  <2> QED
    BY <2>1
<1>2. d * n = d * m + d * x /\ (d * m) \in Nat /\ (d * x) \in Nat
  BY <1>1
<1>3. 0 < d /\ 0 < x => 0 < d * x
  BY <1>1
<1> QED
  BY <1>1, <1>2, <1>3

\* Dividing what is less than a divisor short of, or above, a multiple of it.
LEMMA DivOf ==
    ASSUME NEW d \in Nat \ {0}, NEW n \in Nat
    PROVE  (d * n + d - 1) \div d = n
<1> DEFINE q == (d * n + d - 1) \div d
<1>1. (d * n) \in Nat /\ q \in Nat
  OBVIOUS
<1>2. d * q <= d * n + d - 1 /\ d * n + d - 1 < d * q + d
  OBVIOUS
<1> HIDE DEF q
<1>3. ~(q >= n + 1)
  <2>1. SUFFICES ASSUME q >= n + 1 PROVE FALSE
    OBVIOUS
  <2>2. d * q >= d * (n + 1)
    BY <1>1, <2>1, Monotone
  <2> QED
    BY <1>1, <1>2, <2>2
<1>4. ~(q + 1 <= n)
  <2>1. SUFFICES ASSUME q + 1 <= n PROVE FALSE
    OBVIOUS
  <2>2. d * (q + 1) <= d * n
    BY <1>1, <2>1, Monotone
  <2> QED
    BY <1>1, <1>2, <2>2
<1> QED
  BY <1>1, <1>3, <1>4 DEF q

-----------------------------------------------------------------------------
(* What the scripts hold.                                                  *)

\* The action's share of the cycle is a whole number of periods, at least one.
LEMMA PeriodsFit ==
    /\ ActionTime \in Nat /\ ActionTime = MAX_DETUMBLE_FIRING_TIME
    /\ Periods \in Nat /\ 0 < Periods
    /\ Periods * SUNPOINT_DUTY_CYCLE = ActionTime
<1> DEFINE duty == SUNPOINT_DUTY_CYCLE
           n == ActionTime \div duty
<1>1. ActionTime \in Nat /\ 0 < ActionTime /\ ActionTime = MAX_DETUMBLE_FIRING_TIME
  BY TimesAre DEF ActionTime
<1>2. duty \in Nat \ {0} /\ ActionTime % duty = 0
  BY TimesAre, <1>1
<1> HIDE DEF duty
<1>3. n \in Nat /\ ActionTime = duty * n
  BY <1>1, <1>2
<1>4. (ActionTime + duty - 1) \div duty = n
  BY <1>2, <1>3, DivOf
<1> HIDE DEF n
<1>5. 0 < n
  BY <1>1, <1>2, <1>3
<1>6. Periods = n
  BY <1>4 DEF Periods, duty
<1>7. n * duty = duty * n
  BY <1>2, <1>3
<1> QED
  BY <1>1, <1>3, <1>5, <1>6, <1>7 DEF duty

\* The pulse of any request lasts no longer than a period.
LEMMA PulseFits ==
    ASSUME NEW t \in Int
    PROVE  PulseLength(t) \in 0 .. SUNPOINT_DUTY_CYCLE
<1> DEFINE duty == SUNPOINT_DUTY_CYCLE
           asked  == IF t > 0 THEN t ELSE -t
           capped == IF asked > duty THEN duty ELSE asked
           raised == IF capped < 5000 /\ capped > 2499 THEN 5000 ELSE capped
           tens == (raised + 5000) \div 10000
<1>1. duty \in Nat \ {0} /\ duty % 10000 = 0
  BY TimesAre
<1> HIDE DEF duty
<1>2. PICK m \in Nat : duty = 10000 * m
  BY <1>1
<1>3. raised \in Nat /\ raised <= duty
  BY <1>1, <1>2
<1> HIDE DEF raised
<1>4. tens \in Nat /\ 10000 * tens <= duty
  BY <1>2, <1>3
<1>5. PulseLength(t) = 10000 * tens
  BY DEF PulseLength, duty, raised, tens
<1> HIDE DEF tens
<1> QED
  BY <1>1, <1>4, <1>5 DEF duty

\* detumbleAction, operation by operation.
LEMMA DetumbleOps ==
    ASSUME NEW dir, NEW time
    PROVE  LET s == DetumbleScript(dir, time)
               order == FiringOrder(time)
           IN  /\ s \in Seq({s[i] : i \in 1 .. 11}) /\ Len(s) = 11
               /\ s[1] = Enable(dir)
               /\ s[2] = Pause(time[order[1]])
               /\ s[3] = Disable(order[1])
               /\ s[4] = Pause(time[order[2]] - time[order[1]])
               /\ s[5] = Disable(order[2])
               /\ s[6] = Pause(time[order[3]] - time[order[2]])
               /\ s[7] = Disable(order[3])
               /\ s[8] = Pause(MAX_DETUMBLE_FIRING_TIME - time[order[3]])
               /\ s[9] = Disable(0) /\ s[10] = Disable(1) /\ s[11] = Disable(2)
<1> DEFINE s == DetumbleScript(dir, time)
           order == FiringOrder(time)
<1>1. s = << Enable(dir),
             Pause(time[order[1]]),                   Disable(order[1]),
             Pause(time[order[2]] - time[order[1]]),  Disable(order[2]),
             Pause(time[order[3]] - time[order[2]]),  Disable(order[3]),
             Pause(MAX_DETUMBLE_FIRING_TIME - time[order[3]]),
             Disable(0), Disable(1), Disable(2) >>
  BY DEF DetumbleScript
<1> HIDE DEF s, order
<1> QED
  BY <1>1 DEF s, order

\* sunpointAction, operation by operation: its periods, and the coil off.
LEMMA SunpointOps ==
    ASSUME NEW dir, NEW on \in 0 .. SUNPOINT_DUTY_CYCLE
    PROVE  LET s == SunpointScript(dir, on)
           IN  /\ s \in Seq({s[i] : i \in 1 .. Steps(on) * Periods + 1})
               /\ Len(s) = Steps(on) * Periods + 1
               /\ s[Steps(on) * Periods + 1] = Disable(Z)
               /\ \A n \in Nat :
                      n < Periods =>
                          /\ s[Steps(on) * n + 1] = Enable(dir)
                          /\ s[Steps(on) * n + 2] = Sleep(on)
                          /\ on < SUNPOINT_DUTY_CYCLE =>
                                 /\ s[Steps(on) * n + 3] = Disable(Z)
                                 /\ s[Steps(on) * n + 4] = Sleep(SUNPOINT_DUTY_CYCLE - on)
<1> DEFINE s == SunpointScript(dir, on)
           w == Steps(on)
           period == Period(dir, on)
<1>1. SUNPOINT_DUTY_CYCLE \in Nat
  BY TimesAre
<1>2. /\ w \in {2, 4} /\ Len(period) = w
      /\ period[1] = Enable(dir) /\ period[2] = Sleep(on)
      /\ on < SUNPOINT_DUTY_CYCLE =>
             w = 4 /\ period[3] = Disable(Z) /\ period[4] = Sleep(SUNPOINT_DUTY_CYCLE - on)
  <2>1. CASE on < SUNPOINT_DUTY_CYCLE
    <3>1. period = << Enable(dir), Sleep(on), Disable(Z), Sleep(SUNPOINT_DUTY_CYCLE - on) >>
      BY <1>1, <2>1 DEF Period
    <3> QED
      BY <2>1, <3>1 DEF Steps
  <2>2. CASE ~(on < SUNPOINT_DUTY_CYCLE)
    <3>1. period = << Enable(dir), Sleep(on) >>
      BY <1>1, <2>2 DEF Period
    <3> QED
      BY <2>2, <3>1 DEF Steps
  <2> QED
    BY <2>1, <2>2
<1>3. s = [i \in 1 .. Periods * w + 1 |->
              IF i > Periods * w THEN Disable(Z) ELSE period[((i - 1) % w) + 1]]
  BY <1>2 DEF SunpointScript
<1> HIDE DEF s, w, period
<1>4. Periods \in Nat /\ Periods * w = w * Periods
  BY <1>2, PeriodsFit
<1>5. /\ s \in Seq({s[i] : i \in 1 .. w * Periods + 1}) /\ Len(s) = w * Periods + 1
      /\ s[w * Periods + 1] = Disable(Z)
  <2> DEFINE last == w * Periods + 1
  <2>1. last \in Nat /\ s = [i \in 1 .. last |-> s[i]]
    BY <1>2, <1>3, <1>4
  <2> HIDE DEF last
  <2>2. s \in Seq({s[i] : i \in 1 .. last}) /\ Len(s) = last
    BY <2>1
  <2> QED
    BY <1>2, <1>3, <1>4, <2>2 DEF last
<1>6. ASSUME NEW n \in Nat, n < Periods, NEW b \in 1 .. w PROVE s[w * n + b] = period[b]
  <2>1. w * n + b \in 1 .. Periods * w
    BY <1>2, <1>4, <1>6
  <2>2. ((w * n + b - 1) % w) + 1 = b
    BY <1>2
  <2> QED
    BY <1>2, <1>3, <1>4, <2>1, <2>2
<1>7. ASSUME NEW n \in Nat, n < Periods
      PROVE  /\ s[w * n + 1] = Enable(dir) /\ s[w * n + 2] = Sleep(on)
             /\ on < SUNPOINT_DUTY_CYCLE =>
                    /\ s[w * n + 3] = Disable(Z)
                    /\ s[w * n + 4] = Sleep(SUNPOINT_DUTY_CYCLE - on)
  BY <1>2, <1>6, <1>7
<1> QED
  BY <1>5, <1>7 DEF s, w

-----------------------------------------------------------------------------
(* The operations of a detumble action.                                    *)

\* Commands are due in order, and each pause is the difference of two.
LEMMA DueInOrder ==
    ASSUME NEW time \in [Coil -> 0 .. ActionTime]
    PROVE  /\ \A n \in 0 .. 4 : Due(n, time) \in Nat
           /\ \A n \in 1 .. 4 : Due(n - 1, time) <= Due(n, time)
<1> DEFINE order == FiringOrder(time)
<1>1. time \in [Coil -> Nat] /\ \A c \in Coil : time[c] <= MAX_DETUMBLE_FIRING_TIME
  BY PeriodsFit
<1>2. /\ order \in [1 .. 3 -> Coil]
      /\ time[order[1]] <= time[order[2]] /\ time[order[2]] <= time[order[3]]
  BY <1>1, OrderSorts
<1>3. MAX_DETUMBLE_FIRING_TIME \in Nat
  BY TimesAre
<1> HIDE DEF order
<1>4. /\ Due(0, time) = 0 /\ Due(4, time) = MAX_DETUMBLE_FIRING_TIME
      /\ Due(1, time) = time[order[1]] /\ Due(2, time) = time[order[2]]
      /\ Due(3, time) = time[order[3]]
  BY DEF Due, order
<1>5. \A n \in 1 .. 3 : time[order[n]] \in Nat /\ time[order[n]] <= MAX_DETUMBLE_FIRING_TIME
  BY <1>1, <1>2
<1>6. \A n \in 0 .. 4 : Due(n, time) \in Nat
  BY <1>3, <1>4, <1>5
<1>7. \A n \in 1 .. 4 : Due(n - 1, time) <= Due(n, time)
  <2>1. Due(0, time) <= Due(1, time) /\ Due(3, time) <= Due(4, time)
    BY <1>3, <1>4, <1>5
  <2>2. Due(1, time) <= Due(2, time) /\ Due(2, time) <= Due(3, time)
    BY <1>2, <1>4
  <2> QED
    BY <2>1, <2>2
<1> QED
  BY <1>6, <1>7

\* The operation after the first k.
LEMMA DetumbleOp ==
    ASSUME NEW dir, NEW time \in [Coil -> 0 .. ActionTime], NEW k \in 0 .. 10
    PROVE  LET op == DetumbleScript(dir, time)[k + 1]
           IN  \/ k = 0 /\ op = Enable(dir)
               \/ \E n \in 1 .. 4 : /\ k = 2 * n - 1
                                    /\ op = Pause(Due(n, time) - Due(n - 1, time))
               \/ \E n \in 1 .. 3 : k = 2 * n /\ op = Disable(FiringOrder(time)[n])
               \/ \E c \in Coil : k = 8 + c /\ op = Disable(c)
<1> DEFINE order == FiringOrder(time)
           s == DetumbleScript(dir, time)
<1> HIDE DEF order, s
<1>1. /\ s[1] = Enable(dir) /\ s[3] = Disable(order[1]) /\ s[5] = Disable(order[2])
      /\ s[7] = Disable(order[3])
      /\ s[9] = Disable(0) /\ s[10] = Disable(1) /\ s[11] = Disable(2)
  BY DetumbleOps DEF order, s
<1>2. /\ Due(0, time) = 0 /\ Due(4, time) = MAX_DETUMBLE_FIRING_TIME
      /\ Due(1, time) = time[order[1]] /\ Due(2, time) = time[order[2]]
      /\ Due(3, time) = time[order[3]]
  BY DEF Due, order
<1>3. /\ s[2] = Pause(Due(1, time) - Due(0, time))
      /\ s[4] = Pause(Due(2, time) - Due(1, time))
      /\ s[6] = Pause(Due(3, time) - Due(2, time))
      /\ s[8] = Pause(Due(4, time) - Due(3, time))
  <2>1. Due(1, time) - Due(0, time) = Due(1, time)
    BY <1>2, DueInOrder
  <2>2. /\ s[2] = Pause(time[order[1]])
        /\ s[4] = Pause(time[order[2]] - time[order[1]])
        /\ s[6] = Pause(time[order[3]] - time[order[2]])
        /\ s[8] = Pause(MAX_DETUMBLE_FIRING_TIME - time[order[3]])
    BY DetumbleOps DEF order, s
  <2> QED
    BY <1>2, <2>1, <2>2
<1>4. CASE k \in {1, 3, 5, 7}
  <2>1. PICK n \in 1 .. 4 : k = 2 * n - 1
    BY <1>4
  <2>2. s[2 * n] = Pause(Due(n, time) - Due(n - 1, time))
    BY <1>3
  <2> QED
    BY <2>1, <2>2 DEF s
<1>5. CASE k \in {2, 4, 6}
  <2>1. PICK n \in 1 .. 3 : k = 2 * n
    BY <1>5
  <2>2. s[2 * n + 1] = Disable(order[n])
    BY <1>1
  <2> QED
    BY <2>1, <2>2 DEF s, order
<1>6. CASE k \in {8, 9, 10}
  <2>1. PICK c \in Coil : k = 8 + c
    BY <1>6 DEF Coil
  <2>2. s[9 + c] = Disable(c)
    BY <1>1 DEF Coil
  <2> QED
    BY <2>1, <2>2 DEF s, Coil
<1>7. CASE k = 0
  BY <1>1, <1>7 DEF s
<1> QED
  BY <1>4, <1>5, <1>6, <1>7

-----------------------------------------------------------------------------
(* A detumble action, from one operation to the next.                      *)

\* Where a detumble action stands determines its next operation.
LEMMA DetumbleNext ==
    ASSUME Types, NEW k \in 0 .. 11, DetumblePlace(k), script # << >>
    PROVE  /\ k < 11
           /\ Head(script) = DetumbleScript(fire, command)[k + 1]
           /\ Tail(script) = Left(DetumbleScript(fire, command), k + 1)
<1> DEFINE s == DetumbleScript(fire, command)
           S == {s[i] : i \in 1 .. 11}
<1>1. s \in Seq(S) /\ Len(s) = 11
  BY DetumbleOps
<1>2. script = Left(s, k)
  BY DEF DetumblePlace
<1> HIDE DEF s, S
<1>3. k < 11
  <2>1. Left(s, 11) = << >>
    BY <1>1, LeftEnds
  <2> QED
    BY <1>2, <2>1
<1>4. Head(script) = s[k + 1] /\ Tail(script) = Left(s, k + 1)
  <2>1. k \in Nat /\ k < Len(s)
    BY <1>1, <1>3
  <2>2. Head(Left(s, k)) = s[k + 1] /\ Tail(Left(s, k)) = Left(s, k + 1)
    BY <1>1, <2>1, Popped
  <2> QED
    BY <1>2, <2>2
<1> QED
  BY <1>3, <1>4 DEF s

\* Sending a configuration leaves the bridge with it, or counts one more loss.
LEMMA Transmitted ==
    ASSUME Types, NEW config \in [Coil -> Direction], Transmit(config)
    PROVE  /\ pack' \in [Coil -> Direction] /\ coil' \in [Coil -> Direction]
           /\ lost' \in 0 .. MaxLost /\ lostHere' \in BOOLEAN
           /\ pack' = config
           /\ ~lostHere' => ~lostHere /\ coil' = config
           /\ coil' # config => lost' >= 1 /\ lost' = lost + 1 /\ coil' = coil
<1>1. CASE coil' = config /\ lost' = 0 /\ UNCHANGED lostHere
  <2>1. lostHere' \in BOOLEAN /\ (~lostHere' => ~lostHere)
    BY <1>1, Zenon DEF Types
  <2>2. pack' = config /\ lost' \in 0 .. MaxLost
    BY <1>1, TimesAre DEF Transmit
  <2> QED
    BY <1>1, <2>1, <2>2
<1>2. CASE lost < MaxLost /\ lost' = lost + 1 /\ lostHere' = TRUE /\ UNCHANGED coil
  <2>1. lostHere' \in BOOLEAN /\ lostHere'
    BY <1>2
  <2>2. lost' \in 0 .. MaxLost /\ lost' >= 1 /\ coil' \in [Coil -> Direction]
    BY <1>2, TimesAre DEF Types
  <2>3. pack' = config
    BY DEF Transmit
  <2> QED
    BY <1>2, <2>1, <2>2, <2>3
<1> QED
  BY <1>1, <1>2 DEF Transmit

\* Coils of a detumble action.
LEMMA AllInOrder ==
    ASSUME Types
    PROVE  /\ FiringOrder(command) \in [1 .. 3 -> Coil]
           /\ \A i, k \in 1 .. 3 : i < k => FiringOrder(command)[i] # FiringOrder(command)[k]
           /\ \A c \in Coil : \E n \in 1 .. 3 : c = FiringOrder(command)[n]
<1>1. command \in [Coil -> Nat]
  BY PeriodsFit DEF Types
<1> QED
  BY <1>1, OrderSorts

\* hbridge_enable at the beginning: all coils of a direction are driven from now on.
LEMMA DetumbleEnable ==
    ASSUME Types, action = "detumble", NEW k \in 0 .. 11, DetumblePlace(k), EnableCoils
    PROVE  k = 0 /\ Head(script)[2] = fire /\ DetumblePlace(k + 1)'
<1>1. /\ k \in 0 .. 10 /\ Head(script) = DetumbleScript(fire, command)[k + 1]
      /\ script' = Left(DetumbleScript(fire, command), k + 1)
  BY DetumbleNext DEF EnableCoils
<1>2. command \in [Coil -> 0 .. ActionTime]
  BY DEF Types
<1>3. k = 0 /\ Head(script) = Enable(fire)
  <2>1. Head(script)[1] = "enable"
    BY DEF EnableCoils
  <2> QED
    BY <1>1, <1>2, <2>1, DetumbleOp DEF Enable, Pause, Sleep, Disable
<1>4. Head(script)[2] = fire /\ Transmit(fire)
  BY <1>3 DEF EnableCoils, Enable
<1>5. fire \in [Coil -> Direction]
  BY DEF Types
<1>6. pack' = fire /\ (~lostHere' => coil' = pack')
  BY <1>4, <1>5, Transmitted
<1>7. fire' = fire /\ command' = command /\ elapsed' = elapsed /\ onTime' = onTime
  BY DEF EnableCoils
<1>8. elapsed = 0 /\ onTime = AllOff
  BY <1>3 DEF DetumblePlace
<1>9. Slept(1) = 0 /\ TurnedOff(1) = 0 /\ Due(0, command) = 0
  BY DEF Slept, TurnedOff, Due
<1>10. DrivenSoFar(1)'
  <2>1. \A n \in 1 .. 3 : onTime[FiringOrder(command)[n]] = 0
    BY <1>8, AllInOrder DEF AllOff
  <2> QED
    BY <1>7, <1>8, <1>9, <2>1 DEF DrivenSoFar
<1>11. DetumblePlace(1)'
  BY <1>1, <1>3, <1>6, <1>7, <1>8, <1>9, <1>10 DEF DetumblePlace
<1> QED
  BY <1>3, <1>4, <1>11

\* HBRIDGE_DISABLE: the next coil in order is off, or, when all are, they are sent again.
LEMMA DetumbleDisable ==
    ASSUME Types, action = "detumble", NEW k \in 0 .. 11, DetumblePlace(k), DisableCoil
    PROVE  /\ k < 11 /\ Head(script)[2] \in Coil
           /\ DetumblePlace(k + 1)'
<1> DEFINE order == FiringOrder(command)
<1>1. /\ k \in 0 .. 10 /\ Head(script) = DetumbleScript(fire, command)[k + 1]
      /\ script' = Left(DetumbleScript(fire, command), k + 1)
  BY DetumbleNext DEF DisableCoil
<1>2. command \in [Coil -> 0 .. ActionTime]
  BY DEF Types
<1>3. order \in [1 .. 3 -> Coil] /\ \A i, j \in 1 .. 3 : i < j => order[i] # order[j]
  BY AllInOrder
<1>4. \/ \E n \in 1 .. 3 : k = 2 * n /\ Head(script) = Disable(order[n])
      \/ \E c \in Coil : k = 8 + c /\ Head(script) = Disable(c)
  <2>1. Head(script)[1] = "disable"
    BY DEF DisableCoil
  <2> QED
    BY <1>1, <1>2, <2>1, DetumbleOp DEF Enable, Pause, Sleep, Disable
<1>5. UNCHANGED <<fire, command, elapsed, onTime>>
  BY DEF DisableCoil
<1>6. /\ pack \in [Coil -> Direction] /\ fire \in [Coil -> Direction]
      /\ \A c \in Coil : onTime[c] \in Nat
      /\ elapsed \in Nat
  BY DEF Types
<1>7. /\ \A n \in 1 .. 3 : pack[order[n]] = IF n <= TurnedOff(k) THEN 0 ELSE fire[order[n]]
      /\ ~lostHere => DrivenSoFar(k)
      /\ elapsed \in Due(Slept(k), command) .. Due(Slept(k), command) + Slept(k)
      /\ k >= 7 /\ coil # AllOff => lost >= OffSent(k)
  BY <1>4 DEF DetumblePlace, Coil
<1>8. CASE \E n \in 1 .. 3 : k = 2 * n /\ Head(script) = Disable(order[n])
  <2>1. PICK n \in 1 .. 3 : k = 2 * n /\ Head(script) = Disable(order[n])
    BY <1>8
  <2> DEFINE config == [pack EXCEPT ![order[n]] = 0]
  <2>2. Head(script)[2] = order[n] /\ order[n] \in Coil
    BY <1>3, <2>1 DEF Disable
  <2>3. config \in [Coil -> Direction] /\ Transmit(config)
    BY <1>6, <2>2 DEF DisableCoil, Direction
  <2>4. pack' = config /\ (~lostHere' => ~lostHere /\ coil' = config)
        /\ (coil' # config => lost' >= 1)
    BY <2>3, Transmitted
  <2>5. /\ Slept(k) = n /\ Slept(k + 1) = n
        /\ TurnedOff(k) = n - 1 /\ TurnedOff(k + 1) = n
    BY <2>1 DEF Slept, TurnedOff
  <2>6. \A m \in 1 .. 3 : pack'[order[m]] = IF m <= n THEN 0 ELSE fire[order[m]]
    <3> SUFFICES ASSUME NEW m \in 1 .. 3
                 PROVE  pack'[order[m]] = IF m <= n THEN 0 ELSE fire[order[m]]
      OBVIOUS
    <3>1. CASE m = n
      BY <1>6, <2>2, <2>4, <3>1
    <3>2. CASE m # n
      <4>1. order[m] \in Coil /\ order[m] # order[n]
        BY <1>3, <3>2
      <4>2. pack'[order[m]] = pack[order[m]]
        BY <1>6, <2>4, <4>1
      <4> QED
        BY <1>7, <2>5, <3>2, <4>2
    <3> QED
      BY <3>1, <3>2
  <2>7. ~lostHere' => DrivenSoFar(k + 1)'
    <3> SUFFICES ASSUME ~lostHere', NEW m \in 1 .. 3
                 PROVE  /\ fire[order[m]] = 0 => onTime[order[m]] = 0
                        /\ fire[order[m]] # 0 /\ m <= n =>
                               onTime[order[m]] \in Due(m, command) .. Due(m, command) + m
                        /\ fire[order[m]] # 0 /\ m > n => onTime[order[m]] = elapsed
      BY <1>5, <2>5 DEF DrivenSoFar
    <3>1. /\ fire[order[m]] = 0 => onTime[order[m]] = 0
          /\ fire[order[m]] # 0 /\ m <= n - 1 =>
                 onTime[order[m]] \in Due(m, command) .. Due(m, command) + m
          /\ fire[order[m]] # 0 /\ m > n - 1 => onTime[order[m]] = elapsed
      BY <1>7, <2>4, <2>5 DEF DrivenSoFar
    <3>2. elapsed \in Due(n, command) .. Due(n, command) + n
      BY <1>7, <2>5
    <3> QED
      BY <3>1, <3>2
  <2>8. k + 1 >= 7 /\ coil' # AllOff => lost' >= OffSent(k + 1)
    <3> SUFFICES ASSUME k + 1 >= 7, coil' # AllOff PROVE lost' >= OffSent(k + 1)
      OBVIOUS
    <3>1. n = 3 /\ OffSent(k + 1) = 1
      BY <2>1 DEF OffSent
    <3>2. \A c \in Coil : config[c] = 0
      BY <2>4, <2>6, <3>1, AllInOrder
    <3>3. config = AllOff
      BY <2>3, <3>2 DEF AllOff
    <3> QED
      BY <2>4, <3>1, <3>3
  <2>9. DetumblePlace(k + 1)'
    BY <1>1, <1>5, <1>7, <2>1, <2>4, <2>5, <2>6, <2>7, <2>8 DEF DetumblePlace
  <2> QED
    BY <1>1, <2>2, <2>9
<1>9. CASE \E c \in Coil : k = 8 + c /\ Head(script) = Disable(c)
  <2>1. PICK c \in Coil : k = 8 + c /\ Head(script) = Disable(c)
    BY <1>9
  <2>2. Head(script)[2] = c
    BY <2>1 DEF Disable
  <2>3. /\ Slept(k) = 4 /\ Slept(k + 1) = 4
        /\ TurnedOff(k) = 3 /\ TurnedOff(k + 1) = 3
        /\ OffSent(k + 1) = OffSent(k) + 1
    BY <2>1 DEF Slept, TurnedOff, OffSent, Coil
  <2>4. \A d \in Coil : pack[d] = 0
    BY <1>7, <2>3, AllInOrder
  <2>5. pack = AllOff /\ [pack EXCEPT ![c] = 0] = pack
    BY <1>6, <2>4 DEF AllOff
  <2>6. Transmit(pack)
    BY <2>2, <2>5 DEF DisableCoil
  <2>7. /\ pack' = pack /\ (~lostHere' => ~lostHere /\ coil' = pack)
        /\ (coil' # pack => lost' >= 1 /\ lost' = lost + 1 /\ coil' = coil)
    BY <1>6, <2>6, Transmitted
  <2>8. ~lostHere' => DrivenSoFar(k + 1)'
    BY <1>5, <1>7, <2>3, <2>7 DEF DrivenSoFar
  <2>9. k + 1 >= 7 /\ coil' # AllOff => lost' >= OffSent(k + 1)
    <3>1. lost \in Nat /\ OffSent(k) \in Nat /\ k >= 7
      BY <2>1 DEF Types, OffSent, Coil
    <3> QED
      BY <1>7, <2>3, <2>5, <2>7, <3>1
  <2>10. DetumblePlace(k + 1)'
    <3>1. k > 0
      BY <2>1 DEF Coil
    <3> QED
      BY <1>1, <1>5, <1>7, <2>3, <2>7, <2>8, <2>9, <3>1 DEF DetumblePlace
  <2> QED
    BY <1>1, <2>2, <2>10
<1> QED
  BY <1>4, <1>8, <1>9

\* usleep: the coils that are not off yet are driven up to the next command.
LEMMA DetumblePause ==
    ASSUME Types, action = "detumble", NEW k \in 0 .. 11, DetumblePlace(k), Usleep
    PROVE  k < 11 /\ Head(script)[2] \in Nat /\ DetumblePlace(k + 1)'
<1> DEFINE order == FiringOrder(command)
           pause == Head(script)[2]
<1>1. /\ k \in 0 .. 10 /\ Head(script) = DetumbleScript(fire, command)[k + 1]
      /\ script' = Left(DetumbleScript(fire, command), k + 1)
  BY DetumbleNext DEF Usleep
<1>2. command \in [Coil -> 0 .. ActionTime]
  BY DEF Types
<1>3. PICK n \in 1 .. 4 : /\ k = 2 * n - 1
                          /\ Head(script) = Pause(Due(n, command) - Due(n - 1, command))
  <2>1. Head(script)[1] = "sleep"
    BY DEF Usleep
  <2> QED
    BY <1>1, <1>2, <2>1, DetumbleOp DEF Enable, Disable
<1>4. /\ Due(n, command) \in Nat /\ Due(n - 1, command) \in Nat
      /\ Due(n - 1, command) <= Due(n, command)
  BY <1>2, DueInOrder
<1>5. /\ pause \in Nat
      /\ Due(n - 1, command) + pause \in Due(n, command) .. Due(n, command) + 1
  <2>1. pause = IF Due(n, command) - Due(n - 1, command) < 1 THEN 1
                ELSE Due(n, command) - Due(n - 1, command)
    BY <1>3 DEF Pause, Sleep
  <2> QED
    BY <1>4, <2>1
<1> HIDE DEF pause
<1>6. /\ UNCHANGED <<fire, command, pack, coil, lost, lostHere>>
      /\ elapsed' = elapsed + pause
      /\ onTime' = [c \in Coil |-> IF coil[c] # 0 THEN onTime[c] + pause ELSE onTime[c]]
  BY DEF Usleep, pause
<1>7. /\ Slept(k) = n - 1 /\ Slept(k + 1) = n
      /\ TurnedOff(k) = n - 1 /\ TurnedOff(k + 1) = n - 1
      /\ OffSent(k + 1) = OffSent(k)
      /\ k > 0 /\ (k + 1 >= 7 => k >= 7)
  BY <1>3 DEF Slept, TurnedOff, OffSent
<1>8. /\ elapsed \in Due(n - 1, command) .. Due(n - 1, command) + (n - 1)
      /\ \A m \in 1 .. 3 : pack[order[m]] = IF m <= n - 1 THEN 0 ELSE fire[order[m]]
      /\ ~lostHere => coil = pack
      /\ k >= 7 /\ coil # AllOff => lost >= OffSent(k)
  BY <1>7 DEF DetumblePlace
<1>9. elapsed' \in Due(n, command) .. Due(n, command) + n
  BY <1>4, <1>5, <1>6, <1>8
<1>10. ~lostHere => DrivenSoFar(k + 1)'
  <2> SUFFICES ASSUME ~lostHere, NEW m \in 1 .. 3
               PROVE  /\ fire[order[m]] = 0 => onTime'[order[m]] = 0
                      /\ fire[order[m]] # 0 /\ m <= n - 1 =>
                             onTime'[order[m]] \in Due(m, command) .. Due(m, command) + m
                      /\ fire[order[m]] # 0 /\ m > n - 1 => onTime'[order[m]] = elapsed'
    BY <1>6, <1>7 DEF DrivenSoFar
  <2>1. /\ fire[order[m]] = 0 => onTime[order[m]] = 0
        /\ fire[order[m]] # 0 /\ m <= n - 1 =>
               onTime[order[m]] \in Due(m, command) .. Due(m, command) + m
        /\ fire[order[m]] # 0 /\ m > n - 1 => onTime[order[m]] = elapsed
    BY <1>7 DEF DrivenSoFar, DetumblePlace
  <2>2. order[m] \in Coil
    BY AllInOrder
  <2>3. coil[order[m]] = IF m <= n - 1 THEN 0 ELSE fire[order[m]]
    BY <1>8
  <2> QED
    BY <1>6, <2>1, <2>2, <2>3
<1>11. DetumblePlace(k + 1)'
  <2>1. k + 1 > 0
    BY <1>7
  <2> QED
    BY <1>1, <1>6, <1>7, <1>8, <1>9, <1>10, <2>1 DEF DetumblePlace
<1> QED
  BY <1>1, <1>5, <1>11 DEF pause

-----------------------------------------------------------------------------
(* A pulse train, from one operation to the next.                          *)

\* Where a pulse train stands determines its next operation.
LEMMA SunpointNext ==
    ASSUME NEW on \in 0 .. SUNPOINT_DUTY_CYCLE, NEW n, NEW b, InTrain(on, n, b),
           SunpointPlace(on, n, b), script # << >>
    PROVE  LET place == Steps(on) * n + b
           IN  /\ Tail(script) = Left(SunpointScript(fire, on), place + 1)
               /\ \/ n = Periods /\ b = 0 /\ Head(script) = Disable(Z)
                  \/ n < Periods /\ b = 0 /\ Head(script) = Enable(fire)
                  \/ n < Periods /\ b = 1 /\ Head(script) = Sleep(on)
                  \/ n < Periods /\ b = 2 /\ Head(script) = Disable(Z)
                  \/ n < Periods /\ b = 3 /\ Head(script) = Sleep(SUNPOINT_DUTY_CYCLE - on)
<1> DEFINE s == SunpointScript(fire, on)
           w == Steps(on)
           last == w * Periods + 1
           S == {s[i] : i \in 1 .. last}
           place == w * n + b
<1>1. /\ s \in Seq(S) /\ Len(s) = last /\ s[last] = Disable(Z)
      /\ \A m \in Nat :
             m < Periods =>
                 /\ s[w * m + 1] = Enable(fire) /\ s[w * m + 2] = Sleep(on)
                 /\ on < SUNPOINT_DUTY_CYCLE =>
                        /\ s[w * m + 3] = Disable(Z)
                        /\ s[w * m + 4] = Sleep(SUNPOINT_DUTY_CYCLE - on)
  BY SunpointOps
<1>2. script = Left(s, place)
  BY DEF SunpointPlace
<1>3. /\ n \in Nat /\ n <= Periods /\ Periods \in Nat
      /\ b \in 0 .. 3 /\ b < w /\ (n = Periods => b < 2)
      /\ w \in {2, 4} /\ (b >= 2 => on < SUNPOINT_DUTY_CYCLE)
  BY PeriodsFit DEF InTrain, Steps
<1> HIDE DEF s, w, S
<1>4. last \in Nat /\ place \in Nat /\ place <= last
      /\ (n = Periods => place = last - 1 + b)
  BY <1>3
<1>5. place # last
  <2>1. Left(s, last) = << >>
    BY <1>1, LeftEnds
  <2> QED
    BY <1>2, <2>1
<1>6. Head(script) = s[place + 1] /\ Tail(script) = Left(s, place + 1)
  <2>1. place < Len(s)
    BY <1>1, <1>4, <1>5
  <2>2. Head(Left(s, place)) = s[place + 1] /\ Tail(Left(s, place)) = Left(s, place + 1)
    BY <1>1, <1>4, <2>1, Popped
  <2> QED
    BY <1>2, <2>2
<1>7. CASE n = Periods
  <2>1. b = 0 /\ place + 1 = last
    BY <1>3, <1>4, <1>5, <1>7
  <2> QED
    BY <1>1, <1>6, <1>7, <2>1 DEF s, w
<1>8. CASE n < Periods
  <2>1. /\ s[w * n + 1] = Enable(fire) /\ s[w * n + 2] = Sleep(on)
        /\ on < SUNPOINT_DUTY_CYCLE =>
               /\ s[w * n + 3] = Disable(Z)
               /\ s[w * n + 4] = Sleep(SUNPOINT_DUTY_CYCLE - on)
    BY <1>1, <1>3, <1>8
  <2>2. /\ b = 0 => Head(script) = Enable(fire)
        /\ b = 1 => Head(script) = Sleep(on)
        /\ b = 2 => Head(script) = Disable(Z)
        /\ b = 3 => Head(script) = Sleep(SUNPOINT_DUTY_CYCLE - on)
    BY <1>3, <1>6, <2>1
  <2> QED
    BY <1>3, <1>6, <1>8, <2>2 DEF s, w
<1> QED
  BY <1>3, <1>7, <1>8

\* hbridge_enable at the beginning of a period.
LEMMA SunpointEnable ==
    ASSUME Types, AlongZ, NEW on \in 0 .. SUNPOINT_DUTY_CYCLE, NEW n, NEW b, InTrain(on, n, b),
           SunpointPlace(on, n, b), EnableCoils
    PROVE  Head(script)[2] = fire /\ InTrain(on, n, 1) /\ SunpointPlace(on, n, 1)'
<1>1. script # << >> /\ Head(script)[1] = "enable" /\ script' = Tail(script)
  BY DEF EnableCoils
<1>2. n < Periods /\ b = 0 /\ Head(script) = Enable(fire)
  BY <1>1, SunpointNext DEF Enable, Disable, Sleep
<1>3. script' = Left(SunpointScript(fire, on), Steps(on) * n + 1)
  <2>1. Steps(on) * n + b + 1 = Steps(on) * n + 1
    BY <1>2 DEF Steps, InTrain
  <2> QED
    BY <1>1, <2>1, SunpointNext
<1>4. Head(script)[2] = fire /\ Transmit(fire)
  BY <1>2 DEF EnableCoils, Enable
<1>5. fire \in [Coil -> Direction]
  BY DEF Types
<1>6. pack' = fire /\ (~lostHere' => ~lostHere /\ coil' = pack')
  BY <1>4, <1>5, Transmitted
<1>7. UNCHANGED <<fire, elapsed, onTime>>
  BY DEF EnableCoils
<1>8. InTrain(on, n, 1) /\ n \in Nat /\ Periods \in Nat
  BY <1>2, PeriodsFit DEF InTrain, Steps
<1>9. pack'[0] = 0 /\ pack'[1] = 0 /\ pack'[Z] = fire[Z]
  BY <1>6 DEF AlongZ
<1>10. SunpointPlace(on, n, 1)'
  <2>1. /\ elapsed = n * SUNPOINT_DUTY_CYCLE + 0
        /\ ~lostHere => onTime[0] = 0 /\ onTime[1] = 0 /\ onTime[Z] = n * on + 0
    BY <1>2 DEF SunpointPlace
  <2> QED
    BY <1>2, <1>3, <1>6, <1>7, <1>8, <1>9, <2>1 DEF SunpointPlace
<1> QED
  BY <1>4, <1>8, <1>10

\* HBRIDGE_DISABLE for the rest of a period, and at the end.
LEMMA SunpointDisable ==
    ASSUME Types, LostInv, AlongZ, NEW on \in 0 .. SUNPOINT_DUTY_CYCLE, NEW n, NEW b,
           InTrain(on, n, b), SunpointPlace(on, n, b), DisableCoil
    PROVE  /\ Head(script)[2] \in Coil
           /\ InTrain(on, n, b + 1) /\ SunpointPlace(on, n, b + 1)'
<1> DEFINE config == [pack EXCEPT ![Z] = 0]
<1>1. script # << >> /\ Head(script)[1] = "disable" /\ script' = Tail(script)
  BY DEF DisableCoil
<1>2. /\ Head(script) = Disable(Z)
      /\ \/ n = Periods /\ b = 0
         \/ n < Periods /\ b = 2
  <2>1. \A x : Enable(x)[1] # "disable" /\ Sleep(x)[1] # "disable"
    BY DEF Enable, Sleep
  <2> QED
    BY <1>1, <2>1, SunpointNext
<1>3. script' = Left(SunpointScript(fire, on), Steps(on) * n + (b + 1))
  <2>1. Steps(on) * n + b + 1 = Steps(on) * n + (b + 1)
    BY <1>2 DEF Steps, InTrain
  <2> QED
    BY <1>1, <2>1, SunpointNext
<1>4. Head(script)[2] = Z /\ Transmit(config)
  <2>1. Head(script)[2] = Z
    BY <1>2 DEF Disable
  <2> QED
    BY <2>1 DEF DisableCoil
<1>5. Z \in Coil /\ 0 \in Coil /\ 1 \in Coil /\ 0 # Z /\ 1 # Z
  BY DEF Z, Coil
<1>6. pack \in [Coil -> Direction] /\ config \in [Coil -> Direction]
  BY <1>5 DEF Types, Direction
<1>7. /\ pack' = config /\ (~lostHere' => ~lostHere /\ coil' = pack')
      /\ coil' # config => lost' = lost + 1 /\ coil' = coil
  BY <1>4, <1>6, Transmitted
<1>8. UNCHANGED <<fire, elapsed, onTime>>
  BY DEF DisableCoil
<1>9. InTrain(on, n, b + 1) /\ n \in Nat /\ Periods \in Nat /\ 0 < Periods
      /\ (b = 2 => on < SUNPOINT_DUTY_CYCLE)
  BY <1>2, PeriodsFit DEF InTrain, Steps
<1>10. /\ pack[0] = 0 /\ pack[1] = 0
       /\ n = Periods /\ on # SUNPOINT_DUTY_CYCLE => pack[Z] = 0
  <2>1. n > 0 \/ b > 0
    BY <1>2, <1>9
  <2> QED
    BY <1>2, <2>1 DEF SunpointPlace
<1>11. config = AllOff /\ pack'[0] = 0 /\ pack'[1] = 0 /\ pack'[Z] = 0
  <2>1. \A c \in Coil : config[c] = 0
    BY <1>6, <1>10 DEF Coil, Z
  <2>2. config = AllOff
    BY <1>6, <2>1 DEF AllOff
  <2> QED
    BY <1>5, <1>7, <2>1, <2>2
<1>12. n = Periods /\ on # SUNPOINT_DUTY_CYCLE /\ coil' # AllOff => lost' >= 2
  <2> SUFFICES ASSUME n = Periods, on # SUNPOINT_DUTY_CYCLE, coil' # AllOff
               PROVE  lost' >= 2
    OBVIOUS
  <2>1. pack = config
    <3>1. \A c \in Coil : pack[c] = config[c]
      BY <1>5, <1>6, <1>10
    <3> QED
      BY <1>6, <3>1
  <2>2. coil # pack /\ lost' = lost + 1
    BY <1>7, <1>11, <2>1
  <2>3. lost \in Nat /\ lost >= 1
    BY <2>2 DEF LostInv, Types
  <2> QED
    BY <2>2, <2>3
<1>13. SunpointPlace(on, n, b + 1)'
  <2>1. /\ elapsed = n * SUNPOINT_DUTY_CYCLE + (IF b < 2 THEN 0 ELSE on)
        /\ ~lostHere => onTime[0] = 0 /\ onTime[1] = 0
                        /\ onTime[Z] = n * on + (IF b < 2 THEN 0 ELSE on)
    BY DEF SunpointPlace
  <2>2. (b + 1 < 2 <=> b < 2) /\ b + 1 # 0 /\ (n = Periods => b + 1 = 1)
        /\ (n # Periods => b + 1 = 3)
    BY <1>2, <1>9
  <2> QED
    BY <1>3, <1>7, <1>8, <1>9, <1>11, <1>12, <2>1, <2>2 DEF SunpointPlace
<1> QED
  BY <1>4, <1>5, <1>9, <1>13

\* usleep: the pulse, and what is left of the period after it.
LEMMA SunpointSleep ==
    ASSUME Types, AlongZ, NEW on \in 0 .. SUNPOINT_DUTY_CYCLE, NEW n, NEW b,
           InTrain(on, n, b), SunpointPlace(on, n, b), Usleep
    PROVE  /\ Head(script)[2] \in Nat
           /\ \E m \in 0 .. Periods, c \in 0 .. 3 :
                  InTrain(on, m, c) /\ SunpointPlace(on, m, c)'
<1> DEFINE duty == SUNPOINT_DUTY_CYCLE
           t == Head(script)[2]
<1>1. script # << >> /\ Head(script)[1] = "sleep" /\ script' = Tail(script)
  BY DEF Usleep
<1>2. /\ n < Periods
      /\ \/ b = 1 /\ Head(script) = Sleep(on)
         \/ b = 3 /\ Head(script) = Sleep(duty - on)
  <2>1. \A x : Enable(x)[1] # "sleep" /\ Disable(x)[1] # "sleep"
    BY DEF Enable, Disable
  <2> QED
    BY <1>1, <2>1, SunpointNext
<1>3. script' = Left(SunpointScript(fire, on), Steps(on) * n + b + 1)
  BY <1>1, SunpointNext
<1>4. /\ duty \in Nat \ {0} /\ on \in Nat /\ on <= duty
      /\ n \in Nat /\ Periods \in Nat
      /\ Steps(on) = IF on = duty THEN 2 ELSE 4
      /\ b = 3 => on # duty
  BY TimesAre, PeriodsFit DEF InTrain, Steps
<1>5. t = (IF b = 1 THEN on ELSE duty - on) /\ t \in Nat
  BY <1>2, <1>4 DEF Sleep
<1> HIDE DEF t
<1>6. /\ UNCHANGED <<fire, pack, coil, lost, lostHere>>
      /\ elapsed' = elapsed + t
      /\ onTime' = [c \in Coil |-> IF coil[c] # 0 THEN onTime[c] + t ELSE onTime[c]]
  BY DEF Usleep, t
<1>7. /\ pack[0] = 0 /\ pack[1] = 0 /\ pack[Z] = IF b = 1 THEN fire[Z] ELSE 0
      /\ elapsed = n * duty + (IF b = 1 THEN 0 ELSE on)
      /\ ~lostHere => /\ coil = pack /\ onTime[0] = 0 /\ onTime[1] = 0
                      /\ onTime[Z] = n * on + (IF b = 1 THEN 0 ELSE on)
  BY <1>2, <1>4 DEF SunpointPlace
<1>8. fire[Z] # 0 /\ \A c \in Coil : onTime[c] \in Nat
  BY DEF AlongZ, Types
<1>9. ~lostHere => /\ onTime'[0] = 0 /\ onTime'[1] = 0
                   /\ onTime'[Z] = n * on + on
  <2> SUFFICES ASSUME ~lostHere
               PROVE  onTime'[0] = 0 /\ onTime'[1] = 0 /\ onTime'[Z] = n * on + on
    OBVIOUS
  <2>1. onTime'[0] = 0 /\ onTime'[1] = 0
    BY <1>6, <1>7 DEF Coil
  <2>2. onTime'[Z] = IF b = 1 THEN onTime[Z] + t ELSE onTime[Z]
    BY <1>2, <1>6, <1>7, <1>8 DEF Coil, Z
  <2>3. (n * on) \in Nat
    BY <1>4
  <2>4. onTime'[Z] = n * on + on
    BY <1>2, <1>4, <1>5, <1>7, <2>2, <2>3
  <2> QED
    BY <2>1, <2>4
<1>10. elapsed' = n * duty + (IF b = 1 THEN on ELSE duty)
  <2>1. (n * duty) \in Nat
    BY <1>4
  <2> QED
    BY <1>2, <1>4, <1>5, <1>6, <1>7, <2>1
<1>11. (n + 1) * duty = n * duty + duty /\ (n + 1) * on = n * on + on
  BY <1>4
<1>12. CASE b = 1 /\ on # duty
  <2>1. InTrain(on, n, 2)
    BY <1>2, <1>4, <1>12 DEF InTrain
  <2>2. Steps(on) * n + b + 1 = Steps(on) * n + 2
    BY <1>4, <1>12
  <2>3. script' = Left(SunpointScript(fire, on), Steps(on) * n + 2)
    BY <1>3, <2>2
  <2>4. SunpointPlace(on, n, 2)'
    BY <1>2, <1>4, <1>6, <1>7, <1>9, <1>10, <1>12, <2>3 DEF SunpointPlace
  <2> QED
    BY <1>4, <1>5, <2>1, <2>4 DEF t, InTrain
<1>13. CASE b = 3 \/ on = duty
  <2>1. InTrain(on, n + 1, 0)
    BY <1>2, <1>4 DEF InTrain
  <2>2. Steps(on) * n + b + 1 = Steps(on) * (n + 1) + 0
    BY <1>2, <1>4, <1>13
  <2>3. script' = Left(SunpointScript(fire, on), Steps(on) * (n + 1) + 0)
    BY <1>3, <2>2
  <2>4. elapsed' = (n + 1) * duty + 0 /\ (~lostHere => onTime'[Z] = (n + 1) * on + 0)
    <3>1. elapsed' = n * duty + duty
      BY <1>2, <1>4, <1>10, <1>13
    <3>2. (n * duty) \in Nat /\ (n * on) \in Nat
      BY <1>4
    <3> QED
      BY <1>4, <1>9, <1>11, <3>1, <3>2
  <2>5. /\ n + 1 \in Nat /\ n + 1 # 0
        /\ on = duty => b = 1
        /\ pack[Z] = IF on = duty THEN fire[Z] ELSE 0
    BY <1>2, <1>4, <1>7, <1>13
  <2>6. SunpointPlace(on, n + 1, 0)'
    BY <1>4, <1>6, <1>7, <1>9, <2>3, <2>4, <2>5 DEF SunpointPlace
  <2> QED
    BY <1>4, <1>5, <2>1, <2>6 DEF t, InTrain
<1> QED
  BY <1>2, <1>12, <1>13

-----------------------------------------------------------------------------
(* When an action is over.                                                 *)

\* A detumble action is over after all of its operations.
LEMMA DetumbleOver ==
    ASSUME Types, NEW k \in 0 .. 11, DetumblePlace(k), script = << >>
    PROVE  /\ k = 11 /\ pack = AllOff
           /\ elapsed \in ActionTime .. ActionTime + 4
           /\ ~lostHere => DrivenSoFar(11)
           /\ coil # AllOff => lost >= 4
<1> DEFINE s == DetumbleScript(fire, command)
           S == {s[i] : i \in 1 .. 11}
<1>1. s \in Seq(S) /\ Len(s) = 11
  BY DetumbleOps
<1>2. Left(s, k) = << >>
  BY DEF DetumblePlace
<1> HIDE DEF s, S
<1>3. k = 11
  <2>1. k \in Nat /\ k <= Len(s)
    BY <1>1
  <2> QED
    BY <1>1, <1>2, <2>1, LeftEnds
<1>4. /\ Slept(11) = 4 /\ TurnedOff(11) = 3 /\ OffSent(11) = 4
      /\ Due(4, command) = MAX_DETUMBLE_FIRING_TIME
  BY DEF Slept, TurnedOff, OffSent, Due
<1>5. elapsed \in ActionTime .. ActionTime + 4
  BY <1>3, <1>4, PeriodsFit DEF DetumblePlace
<1>6. /\ ~lostHere => DrivenSoFar(11)
      /\ coil # AllOff => lost >= 4
      /\ \A n \in 1 .. 3 : pack[FiringOrder(command)[n]] = 0
  BY <1>3, <1>4 DEF DetumblePlace
<1>7. pack = AllOff
  <2>1. \A c \in Coil : pack[c] = 0
    BY <1>6, AllInOrder
  <2> QED
    BY <2>1 DEF Types, AllOff
<1> QED
  BY <1>3, <1>5, <1>6, <1>7

\* A pulse train is over after all of its periods and the last transmission.
LEMMA SunpointOver ==
    ASSUME Types, NEW on \in 0 .. SUNPOINT_DUTY_CYCLE, NEW n, NEW b, InTrain(on, n, b),
           SunpointPlace(on, n, b), script = << >>
    PROVE  /\ n = Periods /\ b = 1 /\ pack = AllOff /\ elapsed = ActionTime
           /\ ~lostHere => onTime[0] = 0 /\ onTime[1] = 0 /\ onTime[Z] = Periods * on
           /\ on # SUNPOINT_DUTY_CYCLE /\ coil # AllOff => lost >= 2
<1> DEFINE s == SunpointScript(fire, on)
           w == Steps(on)
           last == w * Periods + 1
           S == {s[i] : i \in 1 .. last}
           place == w * n + b
<1>1. s \in Seq(S) /\ Len(s) = last
  BY SunpointOps
<1>2. Left(s, place) = << >>
  BY DEF SunpointPlace
<1>3. /\ n \in Nat /\ n <= Periods /\ Periods \in Nat /\ 0 < Periods
      /\ b \in 0 .. 3 /\ b < w /\ (n = Periods => b < 2)
      /\ w \in {2, 4}
  BY PeriodsFit DEF InTrain, Steps
<1> HIDE DEF s, w, S
<1>4. last \in Nat /\ place \in Nat /\ place <= last
  BY <1>3
<1>5. place = last
  <2>1. place <= Len(s)
    BY <1>1, <1>4
  <2> QED
    BY <1>1, <1>2, <1>4, <2>1, LeftEnds
<1>6. n = Periods /\ b = 1
  <2>1. ~(n < Periods)
    BY <1>3, <1>5
  <2> QED
    BY <1>3, <1>5, <2>1
<1>7. /\ elapsed = Periods * SUNPOINT_DUTY_CYCLE + 0
      /\ pack[0] = 0 /\ pack[1] = 0 /\ pack[Z] = 0
      /\ ~lostHere => onTime[0] = 0 /\ onTime[1] = 0 /\ onTime[Z] = Periods * on + 0
      /\ on # SUNPOINT_DUTY_CYCLE /\ coil # AllOff => lost >= 2
  BY <1>3, <1>6 DEF SunpointPlace
<1>8. pack = AllOff
  <2>1. \A c \in Coil : pack[c] = 0
    BY <1>7 DEF Coil, Z
  <2> QED
    BY <2>1 DEF Types, AllOff
<1>9. (Periods * on) \in Nat
  BY <1>3
<1> QED
  BY <1>6, <1>7, <1>8, <1>9, PeriodsFit

\* All coils were commanded off before an action ends, and stay so in idle cycles.
LEMMA AfterAction ==
    ASSUME IInv, ~measuring, script = << >>, begun
    PROVE  pack = AllOff
<1>1. Types /\ action \in {"idle", "detumble", "sunpoint"}
  BY DEF IInv, Types
<1>2. CASE action = "idle"
  BY <1>2 DEF IInv, IdleInv
<1>3. CASE action = "detumble"
  <2>1. PICK k \in 0 .. 11 : DetumblePlace(k)
    BY <1>3 DEF IInv, DetumbleInv
  <2> QED
    BY <1>1, <2>1, DetumbleOver
<1>4. CASE action = "sunpoint"
  <2>1. PICK on \in 0 .. SUNPOINT_DUTY_CYCLE, n \in 0 .. Periods, b \in 0 .. 3 :
            InTrain(on, n, b) /\ SunpointPlace(on, n, b)
    BY <1>4 DEF IInv, SunpointInv
  <2> QED
    BY <1>1, <2>1, SunpointOver
<1> QED
  BY <1>1, <1>2, <1>3, <1>4

-----------------------------------------------------------------------------
(* Every step keeps the invariant.                                         *)

\* Before the first cycle.
LEMMA InitInv == Init => IInv
<1> SUFFICES ASSUME Init PROVE IInv
  OBVIOUS
<1>1. Types
  <2>1. /\ measuring \in BOOLEAN /\ lostHere \in BOOLEAN /\ begun \in BOOLEAN
        /\ ~measuring => measurement = NotYet
    BY Zenon DEF Init
  <2>2. AllOff \in [Coil -> Direction] /\ AllOff \in [Coil -> 0 .. ActionTime]
        /\ AllOff \in [Coil -> 0 .. 0]
    BY PeriodsFit DEF AllOff, Direction
  <2>3. measurement \in [read : Nat, step : Int, slept : Nat \cup {-1}]
    BY DEF Init, NotYet
  <2> QED
    BY <2>1, <2>2, <2>3, TimesAre DEF Init, Types
<1>2. MeasuredInv
  BY DEF Init, MeasuredInv
<1>3. MeasuringInv /\ IdleInv /\ LostInv
  BY DEF Init, MeasuringInv, IdleInv, LostInv
<1>4. DetumbleInv /\ SunpointInv
  BY DEF Init, DetumbleInv, SunpointInv
<1> QED
  BY <1>1, <1>2, <1>3, <1>4 DEF IInv

\* What the next operation is about is of its type, whatever the action.
LEMMA NextOperation ==
    ASSUME IInv, script # << >>
    PROVE  /\ ~measuring
           /\ action = "idle" => script = << Sleep(ActionTime) >> /\ elapsed = 0
           /\ EnableCoils => Head(script)[2] \in [Coil -> Direction]
           /\ DisableCoil => Head(script)[2] \in Coil
           /\ Usleep => Head(script)[2] \in Nat
<1>1. Types /\ LostInv /\ ~measuring
  BY DEF IInv, MeasuringInv
<1>2. fire \in [Coil -> Direction] /\ action \in {"idle", "detumble", "sunpoint"}
  BY <1>1 DEF Types
<1>3. CASE action = "idle"
  <2>1. script = << Sleep(ActionTime) >> /\ elapsed = 0
    BY <1>1, <1>3 DEF IInv, IdleInv, IdleScript
  <2>2. Head(script) = Sleep(ActionTime)
    BY <2>1
  <2>3. Head(script)[1] = "sleep" /\ Head(script)[2] \in Nat
    BY <2>2, PeriodsFit DEF Sleep
  <2> QED
    BY <1>1, <2>1, <2>3 DEF EnableCoils, DisableCoil
<1>4. CASE action = "detumble"
  <2>1. PICK k \in 0 .. 11 : DetumblePlace(k)
    BY <1>4 DEF IInv, DetumbleInv
  <2>2. EnableCoils => Head(script)[2] = fire
    BY <1>1, <1>4, <2>1, DetumbleEnable
  <2>3. DisableCoil => Head(script)[2] \in Coil
    BY <1>1, <1>4, <2>1, DetumbleDisable
  <2>4. Usleep => Head(script)[2] \in Nat
    BY <1>1, <1>4, <2>1, DetumblePause
  <2> QED
    BY <1>1, <1>2, <1>4, <2>2, <2>3, <2>4
<1>5. CASE action = "sunpoint"
  <2>1. AlongZ
    BY <1>5 DEF IInv, SunpointInv
  <2>2. PICK on \in 0 .. SUNPOINT_DUTY_CYCLE, n \in 0 .. Periods, b \in 0 .. 3 :
            InTrain(on, n, b) /\ SunpointPlace(on, n, b)
    BY <1>5 DEF IInv, SunpointInv
  <2>3. EnableCoils => Head(script)[2] = fire
    BY <1>1, <2>1, <2>2, SunpointEnable
  <2>4. DisableCoil => Head(script)[2] \in Coil
    BY <1>1, <2>1, <2>2, SunpointDisable
  <2>5. Usleep => Head(script)[2] \in Nat
    BY <1>1, <2>1, <2>2, SunpointSleep
  <2> QED
    BY <1>1, <1>2, <1>5, <2>3, <2>4, <2>5
<1> QED
  BY <1>2, <1>3, <1>4, <1>5

\* A transmission is of configurations, and one that fails counts.
LEMMA Transmission ==
    ASSUME IInv, EnableCoils \/ DisableCoil
    PROVE  /\ pack' \in [Coil -> Direction] /\ coil' \in [Coil -> Direction]
           /\ lost' \in 0 .. MaxLost /\ lostHere' \in BOOLEAN
           /\ coil' # pack' => lost' >= 1
           /\ UNCHANGED <<action, measuring, measurement, command, fire, elapsed, onTime>>
           /\ script # << >>
<1>1. Types /\ script # << >>
  BY DEF IInv, EnableCoils, DisableCoil
<1>2. \E config \in [Coil -> Direction] : Transmit(config)
  <2>1. CASE EnableCoils
    BY <1>1, <2>1, NextOperation DEF EnableCoils
  <2>2. CASE DisableCoil
    <3>1. Head(script)[2] \in Coil /\ pack \in [Coil -> Direction]
      BY <1>1, <2>2, NextOperation DEF Types
    <3>2. [pack EXCEPT ![Head(script)[2]] = 0] \in [Coil -> Direction]
      BY <3>1 DEF Direction
    <3> QED
      BY <2>2, <3>2 DEF DisableCoil
  <2> QED
    BY <2>1, <2>2
<1>3. PICK config \in [Coil -> Direction] : Transmit(config)
  BY <1>2
<1>4. /\ pack' \in [Coil -> Direction] /\ coil' \in [Coil -> Direction]
      /\ lost' \in 0 .. MaxLost /\ lostHere' \in BOOLEAN
      /\ coil' # pack' => lost' >= 1
  BY <1>1, <1>3, Transmitted
<1>5. UNCHANGED <<action, measuring, measurement, command, fire, elapsed, onTime>>
  BY DEF EnableCoils, DisableCoil
<1> QED
  BY <1>1, <1>4, <1>5

\* What an action begins with.
LEMMA Beginnings ==
    ASSUME IInv
    PROVE  /\ \A dir \in [Coil -> Direction], asked \in [Coil -> FiringTimes] :
                  [c \in Coil |-> Clamped(asked[c])] \in [Coil -> 0 .. ActionTime]
           /\ \A asked \in PulseTimes :
                  /\ PulseLength(asked) \in 0 .. SUNPOINT_DUTY_CYCLE
                  /\ PulseDirection(asked) \in [Coil -> Direction]
                  /\ PulseDirection(asked)[0] = 0 /\ PulseDirection(asked)[1] = 0
                  /\ PulseDirection(asked)[Z] \in {-1, 1}
                  /\ [AllOff EXCEPT ![Z] = Periods * PulseLength(asked)]
                         \in [Coil -> 0 .. ActionTime]
           /\ AllOff \in [Coil -> Direction] /\ AllOff \in [Coil -> 0 .. ActionTime]
<1>1. ASSUME NEW t \in Int PROVE Clamped(t) \in 0 .. ActionTime
  BY TimesAre, PeriodsFit DEF Clamped
<1>2. ASSUME NEW asked \in [Coil -> FiringTimes]
      PROVE  [c \in Coil |-> Clamped(asked[c])] \in [Coil -> 0 .. ActionTime]
  <2>1. \A c \in Coil : asked[c] \in FiringTimes
    OBVIOUS
  <2>2. \A c \in Coil : asked[c] \in Int
    BY <2>1, InputsAre
  <2> QED
    BY <1>1, <2>2
<1>3. AllOff \in [Coil -> Direction] /\ AllOff \in [Coil -> 0 .. ActionTime]
  BY PeriodsFit DEF AllOff, Direction
<1>4. ASSUME NEW asked \in PulseTimes
      PROVE  /\ PulseLength(asked) \in 0 .. SUNPOINT_DUTY_CYCLE
             /\ PulseDirection(asked) \in [Coil -> Direction]
             /\ PulseDirection(asked)[0] = 0 /\ PulseDirection(asked)[1] = 0
             /\ PulseDirection(asked)[Z] \in {-1, 1}
             /\ [AllOff EXCEPT ![Z] = Periods * PulseLength(asked)] \in [Coil -> 0 .. ActionTime]
  <2>1. PulseLength(asked) \in 0 .. SUNPOINT_DUTY_CYCLE
    BY PulseFits, InputsAre
  <2>2. /\ PulseDirection(asked) \in [Coil -> Direction]
        /\ PulseDirection(asked)[0] = 0 /\ PulseDirection(asked)[1] = 0
        /\ PulseDirection(asked)[Z] \in {-1, 1}
    BY DEF PulseDirection, AllOff, Coil, Z, Direction
  <2>3. Periods * PulseLength(asked) \in 0 .. ActionTime
    <3>1. SUNPOINT_DUTY_CYCLE \in Nat /\ PulseLength(asked) \in Nat
          /\ PulseLength(asked) <= SUNPOINT_DUTY_CYCLE /\ Periods \in Nat
      BY <2>1, TimesAre, PeriodsFit
    <3>2. /\ (Periods * PulseLength(asked)) \in Nat
          /\ Periods * PulseLength(asked) <= Periods * SUNPOINT_DUTY_CYCLE
      BY <3>1, Monotone
    <3> QED
      BY <3>2, PeriodsFit
  <2>4. [AllOff EXCEPT ![Z] = Periods * PulseLength(asked)] \in [Coil -> 0 .. ActionTime]
    BY <1>3, <2>3
  <2> QED
    BY <2>1, <2>2, <2>4
<1> QED
  BY <1>2, <1>3, <1>4

\* Every Begin is of types, and of a measurement that is over.
LEMMA Begun ==
    ASSUME IInv, BeginDetumble \/ BeginSunpoint \/ BeginIdle
    PROVE  /\ measuring /\ measuring' = FALSE /\ measurement' = NotYet
           /\ action' \in {"detumble", "sunpoint", "idle"}
           /\ fire' \in [Coil -> Direction] /\ command' \in [Coil -> 0 .. ActionTime]
           /\ UNCHANGED <<pack, coil, elapsed, onTime, lost, lostHere>>
           /\ begun' = (begun \/ action' # "idle")
           /\ action = "idle" /\ script = << >>
           /\ elapsed = 0 /\ onTime = AllOff /\ ~lostHere
<1>1. PICK name \in {"detumble", "sunpoint", "idle"}, dir \in [Coil -> Direction],
           time \in [Coil -> 0 .. ActionTime], ops \in {script'} :
          Begin(name, dir, time, ops)
  <2>1. CASE BeginDetumble
    <3>1. PICK dir \in [Coil -> Direction], asked \in [Coil -> FiringTimes] :
              LET time == [c \in Coil |-> Clamped(asked[c])]
              IN  Begin("detumble", dir, time, DetumbleScript(dir, time))
      BY <2>1 DEF BeginDetumble
    <3>2. [c \in Coil |-> Clamped(asked[c])] \in [Coil -> 0 .. ActionTime]
      BY Beginnings
    <3> QED
      BY <3>1, <3>2 DEF Begin
  <2>2. CASE BeginSunpoint
    <3>1. PICK asked \in PulseTimes :
              LET on == PulseLength(asked)
                  dir == PulseDirection(asked)
              IN  Begin("sunpoint", dir, [AllOff EXCEPT ![Z] = Periods * on],
                        SunpointScript(dir, on))
      BY <2>2 DEF BeginSunpoint
    <3> QED
      BY <3>1, Beginnings DEF Begin
  <2>3. CASE BeginIdle
    BY <2>3, Beginnings DEF BeginIdle, Begin
  <2> QED
    BY <2>1, <2>2, <2>3
<1>2. /\ measuring /\ measuring' = FALSE /\ measurement' = NotYet
      /\ action' = name /\ fire' = dir /\ command' = time
      /\ UNCHANGED <<pack, coil, elapsed, onTime, lost, lostHere>>
  BY <1>1 DEF Begin
<1>3. begun' = (begun \/ action' # "idle")
  BY <1>1, Zenon DEF Begin
<1>4. /\ action = "idle" /\ script = << >>
      /\ elapsed = 0 /\ onTime = AllOff /\ ~lostHere
  BY <1>2 DEF IInv, MeasuringInv
<1> QED
  BY <1>2, <1>3, <1>4

\* What Sleep20ms sleeps, for any reading and any step of the clock.
LEMMA SleepIs ==
    ASSUME NEW read \in Nat, NEW step \in Int, read <= 2147483647, step <= 2147483647
    PROVE  /\ SleepTime(read, step) \in Nat
           /\ TakesItsShare(read, step, SleepTime(read, step))
<1>1. MEASURE_TIME \in Nat /\ MEASURE_TIME <= 2147483647
  BY TimesAssumption, SMT
<1> QED
  BY <1>1, SMT DEF SleepTime, Rest, Above, Below, TakesItsShare

\* Every action keeps the ranges.
LEMMA TypesStep ==
    ASSUME IInv, [Next]_vars
    PROVE  Types'
<1>0. Types
  BY DEF IInv
<1> begun' \in BOOLEAN
  <2>1. begun \in BOOLEAN
    BY <1>0 DEF Types
  <2>2. ASSUME BeginDetumble \/ BeginSunpoint \/ BeginIdle PROVE begun' \in BOOLEAN
    <3>1. begun' = (begun \/ action' # "idle")
      BY <2>2, Begun
    <3> QED
      BY <3>1, Zenon
  <2>3. ASSUME UNCHANGED begun PROVE begun' \in BOOLEAN
    BY <2>1, <2>3, Zenon
  <2> QED
    BY <2>2, <2>3, Zenon DEF Next, EnableCoils, DisableCoil, Usleep, Measure, Sleep20ms, vars
<1>1. CASE BeginDetumble \/ BeginSunpoint \/ BeginIdle
  <2>1. measuring' \in BOOLEAN /\ lostHere' \in BOOLEAN
    <3>1. measuring' = FALSE /\ lostHere' = lostHere
      BY <1>1, Begun
    <3> QED
      BY <1>0, <3>1, Zenon DEF Types
  <2>2. NotYet \in [read : Nat, step : Int, slept : Nat \cup {-1}]
    BY DEF NotYet
  <2>3. /\ measurement' \in [read : Nat, step : Int, slept : Nat \cup {-1}]
        /\ measurement' = NotYet
        /\ action' \in {"idle", "detumble", "sunpoint"}
        /\ fire' \in [Coil -> Direction] /\ command' \in [Coil -> 0 .. ActionTime]
        /\ UNCHANGED <<pack, coil, elapsed, onTime, lost>>
    BY <1>1, <2>2, Begun
  <2> QED
    BY <1>0, <2>1, <2>3 DEF Types
<1>2. CASE EnableCoils \/ DisableCoil
  BY <1>0, <1>2, Transmission DEF Types
<1>3. CASE Usleep
  <2> DEFINE t == Head(script)[2]
  <2>1. t \in Nat
    BY <1>3, NextOperation DEF Usleep
  <2> HIDE DEF t
  <2>2. /\ elapsed' = elapsed + t
        /\ onTime' = [c \in Coil |-> IF coil[c] # 0 THEN onTime[c] + t ELSE onTime[c]]
        /\ UNCHANGED <<action, measuring, measurement, pack, coil, command, fire, lost,
                       lostHere>>
    BY <1>3 DEF Usleep, t
  <2>3. elapsed \in Nat /\ \A c \in Coil : onTime[c] \in Nat /\ onTime[c] <= elapsed
    BY <1>0 DEF Types
  <2>4. elapsed' \in Nat /\ onTime' \in [Coil -> 0 .. elapsed']
    BY <2>1, <2>2, <2>3
  <2> QED
    BY <1>0, <2>2, <2>4 DEF Types
<1>4. CASE Measure
  <2>1. measuring' \in BOOLEAN /\ lostHere' \in BOOLEAN /\ measuring'
    BY <1>4, Zenon DEF Measure
  <2>2. AllOff \in [Coil -> Direction] /\ AllOff \in [Coil -> 0 .. ActionTime]
        /\ AllOff \in [Coil -> 0 .. 0]
    BY PeriodsFit DEF AllOff, Direction
  <2> QED
    BY <1>0, <1>4, <2>1, <2>2 DEF Measure, Types
<1>5. CASE Sleep20ms
  <2>1. PICK read \in ReadTimes, step \in SetOn \cup {-b : b \in SetBack} :
            measurement' = [read |-> read, step |-> step, slept |-> SleepTime(read, step)]
    BY <1>5 DEF Sleep20ms
  <2>2. read \in Nat /\ step \in Int /\ read <= 2147483647 /\ step <= 2147483647
    BY InputsAre, InputsFit, SMT
  <2>3. SleepTime(read, step) \in Nat
    BY <2>2, SleepIs, SMT
  <2>4. measurement' \in [read : Nat, step : Int, slept : Nat \cup {-1}]
    BY <2>1, <2>2, <2>3
  <2>5. measuring' /\ measuring' \in BOOLEAN /\ lostHere' \in BOOLEAN
    BY <1>0, <1>5, Zenon DEF Sleep20ms, Types
  <2>6. UNCHANGED <<action, script, pack, coil, command, fire, elapsed, onTime, lost>>
    BY <1>5 DEF Sleep20ms
  <2> QED
    BY <1>0, <2>4, <2>5, <2>6 DEF Types
<1>6. CASE UNCHANGED vars
  BY <1>0, <1>6 DEF vars, Types
<1> QED
  BY <1>1, <1>2, <1>3, <1>4, <1>5, <1>6 DEF Next

\* Only Sleep20ms ends a measurement.
LEMMA MeasuredStep ==
    ASSUME IInv, [Next]_vars
    PROVE  MeasuredInv'
<1>0. MeasuredInv
  BY DEF IInv
<1>1. CASE Sleep20ms
  <2>1. PICK read \in ReadTimes, step \in SetOn \cup {-b : b \in SetBack} :
            measurement' = [read |-> read, step |-> step, slept |-> SleepTime(read, step)]
    BY <1>1 DEF Sleep20ms
  <2>2. read \in Nat /\ step \in Int /\ read <= 2147483647 /\ step <= 2147483647
    BY InputsAre, InputsFit, SMT
  <2>3. /\ measurement'.read = read /\ measurement'.step = step
        /\ measurement'.slept = SleepTime(read, step)
    BY <2>1
  <2>4. TakesItsShare(read, step, SleepTime(read, step))
    BY <2>2, SleepIs, SMT
  <2> QED
    BY <2>3, <2>4 DEF MeasuredInv
<1>2. CASE BeginDetumble \/ BeginSunpoint \/ BeginIdle
  BY <1>2, Begun DEF MeasuredInv
<1>3. CASE UNCHANGED measurement
  BY <1>0, <1>3 DEF MeasuredInv
<1> QED
  BY <1>1, <1>2, <1>3 DEF Next, EnableCoils, DisableCoil, Usleep, Measure, vars

\* The measurement, the idle action and the bridge.
LEMMA IdleStep ==
    ASSUME IInv, [Next]_vars
    PROVE  MeasuringInv' /\ IdleInv' /\ LostInv'
<1>0. MeasuringInv /\ IdleInv /\ LostInv
  BY DEF IInv
<1>1. CASE BeginDetumble \/ BeginSunpoint
  <2>1. action' # "idle" /\ ~measuring' /\ UNCHANGED <<pack, coil, lost>>
    BY <1>1, Begun DEF BeginDetumble, BeginSunpoint, Begin
  <2> QED
    BY <1>0, <2>1 DEF MeasuringInv, IdleInv, LostInv
<1>2. CASE BeginIdle
  <2>1. /\ ~measuring' /\ UNCHANGED <<pack, coil, elapsed, lost>> /\ action = "idle"
        /\ elapsed = 0
    BY <1>2, Begun
  <2>2. script' = IdleScript
    BY <1>2 DEF BeginIdle, Begin
  <2>3. begun' => begun
    BY <1>2, Zenon DEF BeginIdle, Begin
  <2> QED
    BY <1>0, <2>1, <2>2, <2>3 DEF MeasuringInv, IdleInv, LostInv
<1>3. CASE EnableCoils \/ DisableCoil
  <2>1. /\ coil' # pack' => lost' >= 1
        /\ UNCHANGED <<action, measuring>> /\ script # << >>
    BY <1>3, Transmission
  <2>2. ~measuring
    BY <2>1, NextOperation
  <2>3. action # "idle"
    <3>1. ASSUME action = "idle" PROVE FALSE
      <4>1. Head(script) = Sleep(ActionTime)
        BY <2>1, <3>1, NextOperation
      <4>2. Head(script)[1] = "sleep"
        BY <4>1 DEF Sleep
      <4> QED
        BY <1>3, <4>2 DEF EnableCoils, DisableCoil
    <3> QED
      BY <3>1
  <2> QED
    BY <2>1, <2>2, <2>3 DEF MeasuringInv, IdleInv, LostInv
<1>4. CASE Usleep
  <2>1. /\ script # << >> /\ script' = Tail(script) /\ elapsed' = elapsed + Head(script)[2]
        /\ UNCHANGED <<action, measuring, pack, begun, coil, lost>>
    BY <1>4 DEF Usleep
  <2>2. ~measuring /\ (action = "idle" => script = << Sleep(ActionTime) >> /\ elapsed = 0)
    BY <2>1, NextOperation
  <2>3. action = "idle" => script' = << >> /\ elapsed' = ActionTime
    <3> SUFFICES ASSUME action = "idle" PROVE script' = << >> /\ elapsed' = ActionTime
      OBVIOUS
    <3>1. script = << Sleep(ActionTime) >> /\ elapsed = 0
      BY <2>2
    <3>2. Head(script) = Sleep(ActionTime) /\ Tail(script) = << >>
      BY <3>1
    <3>3. Head(script)[2] = ActionTime
      BY <3>2 DEF Sleep
    <3> QED
      BY <2>1, <3>1, <3>2, <3>3, PeriodsFit
  <2> QED
    BY <1>0, <2>1, <2>2, <2>3 DEF MeasuringInv, IdleInv, LostInv
<1>5. CASE Sleep20ms
  BY <1>0, <1>5 DEF Sleep20ms, MeasuringInv, IdleInv, LostInv
<1>6. CASE UNCHANGED vars
  BY <1>0, <1>6 DEF vars, MeasuringInv, IdleInv, LostInv
<1>7. CASE Measure
  <2>1. ~measuring /\ script = << >>
    BY <1>7 DEF Measure
  <2>2. begun => pack = AllOff
    BY <2>1, AfterAction
  <2>3. /\ measuring' /\ action' = "idle" /\ elapsed' = 0 /\ onTime' = AllOff /\ ~lostHere'
        /\ UNCHANGED <<script, pack, begun, coil, lost>>
    BY <1>7 DEF Measure
  <2> QED
    BY <1>0, <2>1, <2>2, <2>3 DEF MeasuringInv, IdleInv, LostInv
<1> QED
  BY <1>1, <1>2, <1>3, <1>4, <1>5, <1>6, <1>7 DEF Next

\* A detumble action begins with its whole script, and goes from place to place.
LEMMA DetumbleStep ==
    ASSUME IInv, [Next]_vars
    PROVE  DetumbleInv'
<1>0. Types /\ DetumbleInv
  BY DEF IInv
<1>1. CASE BeginDetumble
  <2>1. PICK dir \in [Coil -> Direction], asked \in [Coil -> FiringTimes] :
            LET time == [c \in Coil |-> Clamped(asked[c])]
            IN  Begin("detumble", dir, time, DetumbleScript(dir, time))
    BY <1>1 DEF BeginDetumble
  <2>2. /\ measuring' = FALSE /\ script' = DetumbleScript(fire', command')
        /\ elapsed' = 0 /\ onTime' = AllOff
        /\ command' \in [Coil -> 0 .. ActionTime]
    <3>1. script' = DetumbleScript(fire', command')
      BY <2>1 DEF Begin
    <3>2. measuring' = FALSE /\ elapsed' = 0 /\ onTime' = AllOff
          /\ command' \in [Coil -> 0 .. ActionTime]
      BY <1>1, Begun
    <3> QED
      BY <3>1, <3>2
  <2> DEFINE s == DetumbleScript(fire', command')
             S == {s[i] : i \in 1 .. 11}
  <2>3. s \in Seq(S)
    BY DetumbleOps
  <2> HIDE DEF s, S
  <2>4. script' = Left(s, 0)
    BY <2>2, <2>3, LeftEnds DEF s
  <2>5. /\ Slept(0) = 0 /\ TurnedOff(0) = 0 /\ Due(0, command') = 0
    BY DEF Slept, TurnedOff, Due
  <2>6. DrivenSoFar(0)'
    <3>1. command' \in [Coil -> Nat]
      BY <2>2, PeriodsFit
    <3>2. FiringOrder(command') \in [1 .. 3 -> Coil]
      BY <3>1, OrderSorts
    <3>3. \A n \in 1 .. 3 : onTime'[FiringOrder(command')[n]] = 0
      BY <2>2, <3>2 DEF AllOff
    <3> QED
      BY <2>2, <2>5, <3>3 DEF DrivenSoFar
  <2>7. DetumblePlace(0)'
    BY <2>2, <2>4, <2>5, <2>6 DEF DetumblePlace, s
  <2> QED
    BY <2>2, <2>7 DEF DetumbleInv
<1>2. CASE EnableCoils \/ DisableCoil \/ Usleep
  <2>1. UNCHANGED <<action, measuring>>
    BY <1>2 DEF EnableCoils, DisableCoil, Usleep
  <2>2. ASSUME action = "detumble" PROVE \E k \in 0 .. 11 : DetumblePlace(k)'
    <3>1. PICK k \in 0 .. 11 : DetumblePlace(k)
      BY <1>0, <2>2 DEF DetumbleInv
    <3>2. k < 11 /\ DetumblePlace(k + 1)'
      <4>1. CASE EnableCoils
        BY <1>0, <2>2, <3>1, <4>1, DetumbleEnable
      <4>2. CASE DisableCoil
        BY <1>0, <2>2, <3>1, <4>2, DetumbleDisable
      <4>3. CASE Usleep
        BY <1>0, <2>2, <3>1, <4>3, DetumblePause
      <4> QED
        BY <1>2, <4>1, <4>2, <4>3
    <3>3. k + 1 \in 0 .. 11
      BY <3>2
    <3> QED
      BY <3>2, <3>3
  <2> QED
    BY <1>0, <2>1, <2>2 DEF DetumbleInv
<1>3. CASE BeginSunpoint \/ BeginIdle \/ Measure
  BY <1>3 DEF BeginSunpoint, BeginIdle, Measure, Begin, DetumbleInv
<1>4. CASE Sleep20ms
  BY <1>4 DEF Sleep20ms, IInv, MeasuringInv, DetumbleInv
<1>5. CASE UNCHANGED vars
  BY <1>0, <1>5 DEF vars, DetumbleInv, DetumblePlace, DrivenSoFar
<1> QED
  BY <1>1, <1>2, <1>3, <1>4, <1>5 DEF Next

\* A pulse train begins with its first period, and goes from place to place.
LEMMA SunpointStep ==
    ASSUME IInv, [Next]_vars
    PROVE  SunpointInv'
<1>0. Types /\ LostInv /\ SunpointInv
  BY DEF IInv
<1>1. CASE BeginSunpoint
  <2>1. PICK asked \in PulseTimes :
            LET on == PulseLength(asked)
                dir == PulseDirection(asked)
            IN  Begin("sunpoint", dir, [AllOff EXCEPT ![Z] = Periods * on],
                      SunpointScript(dir, on))
    BY <1>1 DEF BeginSunpoint
  <2> DEFINE on == PulseLength(asked)
             s == SunpointScript(fire', on)
             S == {s[i] : i \in 1 .. Steps(on) * Periods + 1}
  <2>2. on \in 0 .. SUNPOINT_DUTY_CYCLE /\ AlongZ'
    <3>1. fire' = PulseDirection(asked)
      BY <2>1 DEF Begin
    <3> QED
      BY <3>1, Beginnings DEF AlongZ
  <2>3. script' = s /\ command' = [AllOff EXCEPT ![Z] = Periods * on]
    BY <2>1 DEF Begin
  <2>4. /\ measuring' = FALSE /\ elapsed' = 0 /\ onTime' = AllOff
    BY <1>1, Begun
  <2> HIDE DEF on
  <2>5. s \in Seq(S)
    BY <2>2, SunpointOps
  <2> HIDE DEF s, S
  <2>6. script' = Left(s, Steps(on) * 0 + 0)
    <3>1. Steps(on) * 0 + 0 = 0
      BY DEF Steps
    <3> QED
      BY <2>3, <2>5, <3>1, LeftEnds
  <2>7. /\ AllOff[0] = 0 /\ AllOff[1] = 0 /\ AllOff[Z] = 0
        /\ Periods # 0 /\ 0 \in 0 .. Periods
        /\ SUNPOINT_DUTY_CYCLE \in Nat /\ on \in Nat
        /\ 0 = 0 * SUNPOINT_DUTY_CYCLE + 0 /\ 0 = 0 * on + 0
    BY <2>2, TimesAre, PeriodsFit DEF AllOff, Coil, Z
  <2>8. InTrain(on, 0, 0)
    BY <2>7 DEF InTrain, Steps
  <2>9. SunpointPlace(on, 0, 0)'
    BY <2>4, <2>6, <2>7 DEF SunpointPlace, s
  <2>10. \E n \in 0 .. Periods, b \in 0 .. 3 : InTrain(on, n, b) /\ SunpointPlace(on, n, b)'
    BY <2>7, <2>8, <2>9
  <2> QED
    BY <2>2, <2>3, <2>4, <2>10 DEF SunpointInv
<1>2. CASE EnableCoils \/ DisableCoil \/ Usleep
  <2>1. UNCHANGED <<action, measuring, fire, command>>
    BY <1>2 DEF EnableCoils, DisableCoil, Usleep
  <2>2. ASSUME action = "sunpoint"
        PROVE  \E on \in 0 .. SUNPOINT_DUTY_CYCLE :
                   /\ command = [AllOff EXCEPT ![Z] = Periods * on]
                   /\ \E n \in 0 .. Periods, b \in 0 .. 3 :
                          InTrain(on, n, b) /\ SunpointPlace(on, n, b)'
    <3>1. AlongZ
      BY <1>0, <2>2 DEF SunpointInv
    <3>2. PICK on \in 0 .. SUNPOINT_DUTY_CYCLE :
              /\ command = [AllOff EXCEPT ![Z] = Periods * on]
              /\ \E n \in 0 .. Periods, b \in 0 .. 3 :
                     InTrain(on, n, b) /\ SunpointPlace(on, n, b)
      BY <1>0, <2>2 DEF SunpointInv
    <3>3. PICK n \in 0 .. Periods, b \in 0 .. 3 : InTrain(on, n, b) /\ SunpointPlace(on, n, b)
      BY <3>2
    <3>4. \E m \in 0 .. Periods, c \in 0 .. 3 : InTrain(on, m, c) /\ SunpointPlace(on, m, c)'
      <4>1. CASE EnableCoils
        BY <1>0, <3>1, <3>3, <4>1, SunpointEnable
      <4>2. CASE DisableCoil
        <5>1. InTrain(on, n, b + 1) /\ SunpointPlace(on, n, b + 1)'
          BY <1>0, <3>1, <3>3, <4>2, SunpointDisable
        <5>2. b + 1 \in 0 .. 3
          BY <5>1 DEF InTrain
        <5> QED
          BY <5>1, <5>2
      <4>3. CASE Usleep
        BY <1>0, <3>1, <3>3, <4>3, SunpointSleep
      <4> QED
        BY <1>2, <4>1, <4>2, <4>3
    <3> QED
      BY <3>2, <3>4
  <2> QED
    BY <1>0, <2>1, <2>2 DEF SunpointInv, AlongZ
<1>3. CASE BeginDetumble \/ BeginIdle \/ Measure
  BY <1>3 DEF BeginDetumble, BeginIdle, Measure, Begin, SunpointInv
<1>4. CASE Sleep20ms
  BY <1>4 DEF Sleep20ms, IInv, MeasuringInv, SunpointInv
<1>5. CASE UNCHANGED vars
  BY <1>0, <1>5 DEF vars, SunpointInv, SunpointPlace, AlongZ
<1> QED
  BY <1>1, <1>2, <1>3, <1>4, <1>5 DEF Next

-----------------------------------------------------------------------------
(* Results.                                                                *)

\* The inductive invariant holds whatever is asked for, lost, and read off the clock.
THEOREM Inductive == Spec => []IInv
<1>1. IInv /\ [Next]_vars => IInv'
  BY TypesStep, MeasuredStep, IdleStep, DetumbleStep, SunpointStep DEF IInv
<1> QED
  BY InitInv, <1>1, PTL DEF Spec

\* When an action is over, its place is the last one of its script.
LEMMA AtTheEnd ==
    ASSUME IInv, Over
    PROVE  /\ elapsed \in ActionTime .. ActionTime + 4
           /\ action = "detumble" =>
                  (~lostHere => DrivenSoFar(11)) /\ (coil # AllOff => lost >= 4)
           /\ action = "sunpoint" =>
                  AlongZ /\ \E on \in 0 .. SUNPOINT_DUTY_CYCLE :
                      /\ command = [AllOff EXCEPT ![Z] = Periods * on]
                      /\ ~lostHere => /\ onTime[0] = 0 /\ onTime[1] = 0
                                      /\ onTime[Z] = Periods * on
                      /\ on # SUNPOINT_DUTY_CYCLE /\ coil # AllOff => lost >= 2
<1>1. Types /\ ~measuring /\ script = << >> /\ ActionTime \in Nat
  BY PeriodsFit DEF IInv, Over
<1>2. action \in {"idle", "detumble", "sunpoint"}
  BY <1>1 DEF Types
<1>3. CASE action = "idle"
  <2>1. script # IdleScript
    BY <1>1 DEF IdleScript
  <2> QED
    BY <1>1, <1>3, <2>1 DEF IInv, IdleInv
<1>4. CASE action = "detumble"
  <2>1. PICK k \in 0 .. 11 : DetumblePlace(k)
    BY <1>4 DEF IInv, DetumbleInv
  <2> QED
    BY <1>1, <1>4, <2>1, DetumbleOver
<1>5. CASE action = "sunpoint"
  <2>1. AlongZ
    BY <1>5 DEF IInv, SunpointInv
  <2>2. PICK on \in 0 .. SUNPOINT_DUTY_CYCLE :
            /\ command = [AllOff EXCEPT ![Z] = Periods * on]
            /\ \E n \in 0 .. Periods, b \in 0 .. 3 :
                   InTrain(on, n, b) /\ SunpointPlace(on, n, b)
    BY <1>5 DEF IInv, SunpointInv
  <2>3. PICK n \in 0 .. Periods, b \in 0 .. 3 : InTrain(on, n, b) /\ SunpointPlace(on, n, b)
    BY <2>2
  <2>4. /\ elapsed = ActionTime
        /\ ~lostHere => onTime[0] = 0 /\ onTime[1] = 0 /\ onTime[Z] = Periods * on
        /\ on # SUNPOINT_DUTY_CYCLE /\ coil # AllOff => lost >= 2
    BY <1>1, <2>3, SunpointOver
  <2>5. elapsed \in ActionTime .. ActionTime + 4
    BY <1>1, <2>4
  <2>6. \E o \in 0 .. SUNPOINT_DUTY_CYCLE :
            /\ command = [AllOff EXCEPT ![Z] = Periods * o]
            /\ ~lostHere => onTime[0] = 0 /\ onTime[1] = 0 /\ onTime[Z] = Periods * o
            /\ o # SUNPOINT_DUTY_CYCLE /\ coil # AllOff => lost >= 2
    BY <2>2, <2>4
  <2> QED
    BY <1>5, <2>1, <2>5, <2>6
<1> QED
  BY <1>2, <1>3, <1>4, <1>5

\* How far every script has come at each place bounds the time of an action.
LEMMA Bounded ==
    ASSUME IInv
    PROVE  elapsed \in 0 .. ActionTime + 4
<1>1. Types /\ ActionTime \in Nat
  BY PeriodsFit DEF IInv
<1>2. action \in {"idle", "detumble", "sunpoint"}
  BY <1>1 DEF Types
<1>3. CASE action = "idle"
  BY <1>1, <1>3 DEF IInv, IdleInv, MeasuringInv
<1>4. CASE action = "detumble"
  <2>1. PICK k \in 0 .. 11 : DetumblePlace(k)
    BY <1>4 DEF IInv, DetumbleInv
  <2>2. Slept(k) \in 0 .. 4
    BY DEF Slept
  <2>3. command \in [Coil -> 0 .. ActionTime]
    BY <1>1 DEF Types
  <2>4. Due(Slept(k), command) \in Nat /\ Due(Slept(k), command) <= ActionTime
    <3>1. \A m \in 0 .. 4 : Due(m, command) \in Nat
      BY <2>3, DueInOrder
    <3>2. \A m \in 1 .. 4 : Due(m - 1, command) <= Due(m, command)
      BY <2>3, DueInOrder
    <3>3. Due(4, command) = ActionTime
      BY PeriodsFit DEF Due
    <3>4. /\ Due(3, command) <= ActionTime /\ Due(2, command) <= Due(3, command)
          /\ Due(1, command) <= Due(2, command) /\ Due(0, command) <= Due(1, command)
      BY <3>2, <3>3
    <3> QED
      BY <1>1, <2>2, <3>1, <3>3, <3>4
  <2> QED
    BY <1>1, <2>1, <2>2, <2>4 DEF DetumblePlace
<1>5. CASE action = "sunpoint"
  <2>1. PICK on \in 0 .. SUNPOINT_DUTY_CYCLE, n \in 0 .. Periods, b \in 0 .. 3 :
            InTrain(on, n, b) /\ SunpointPlace(on, n, b)
    BY <1>5 DEF IInv, SunpointInv
  <2> DEFINE duty == SUNPOINT_DUTY_CYCLE
  <2>2. /\ duty \in Nat /\ n \in Nat /\ Periods \in Nat /\ n <= Periods
        /\ on \in Nat /\ on <= duty /\ Periods * duty = ActionTime
    BY TimesAre, PeriodsFit
  <2>3. elapsed = n * duty + (IF b < 2 THEN 0 ELSE on) /\ (n = Periods => b < 2)
    BY <2>1 DEF InTrain, SunpointPlace
  <2> HIDE DEF duty
  <2>4. CASE n = Periods
    BY <1>1, <2>2, <2>3, <2>4
  <2>5. CASE n < Periods
    <3>1. duty * (n + 1) <= duty * Periods /\ duty * Periods = Periods * duty
      BY <2>2, <2>5, Monotone
    <3>2. duty * (n + 1) = n * duty + duty /\ (n * duty) \in Nat
      BY <2>2
    <3> QED
      BY <1>1, <2>2, <2>3, <3>1, <3>2
  <2> QED
    BY <2>2, <2>4, <2>5
<1> QED
  BY <1>2, <1>3, <1>4, <1>5

\* Commands, configurations and times keep their ranges.
THEOREM TypeCorrect == Spec => []TypeOK
<1>1. IInv => TypeOK
  <2> SUFFICES ASSUME IInv PROVE TypeOK
    OBVIOUS
  <2>1. Types
    BY DEF IInv
  <2>2. /\ measuring \in BOOLEAN /\ lostHere \in BOOLEAN /\ begun \in BOOLEAN
        /\ ~measuring => measurement = NotYet
    BY <2>1, Zenon DEF Types
  <2>3. /\ measurement.slept \in Nat \cup {-1}
        /\ action \in {"idle", "detumble", "sunpoint"}
        /\ pack \in [Coil -> Direction] /\ coil \in [Coil -> Direction]
        /\ fire \in [Coil -> Direction] /\ command \in [Coil -> 0 .. ActionTime]
        /\ \A c \in Coil : onTime[c] \in 0 .. elapsed
        /\ lost \in 0 .. MaxLost
    BY <2>1 DEF Types
  <2> QED
    BY <2>2, <2>3, Bounded DEF TypeOK
<1> QED
  BY Inductive, <1>1, PTL

\* Whatever the control law asks for, coils are driven for their commands and no longer,
\* if nothing is lost.
THEOREM DrivenAsCommanded == Spec => []FiredAsCommanded
<1>1. IInv => FiredAsCommanded
  <2> SUFFICES ASSUME IInv, Over, ~lostHere, action # "idle", NEW c \in Coil
               PROVE  IF fire[c] = 0 THEN onTime[c] = 0
                      ELSE onTime[c] \in command[c] .. command[c] + 3
    BY DEF FiredAsCommanded
  <2>1. /\ Types /\ command[c] \in Nat
        /\ action \in {"detumble", "sunpoint"}
    BY PeriodsFit DEF IInv, Types
  <2>2. CASE action = "detumble"
    <3>1. DrivenSoFar(11) /\ TurnedOff(11) = 3
      BY <2>2, AtTheEnd DEF TurnedOff
    <3>2. PICK n \in 1 .. 3 : c = FiringOrder(command)[n]
      BY <2>1, AllInOrder
    <3>3. Due(n, command) = command[c]
      BY <3>2 DEF Due
    <3>4. /\ fire[c] = 0 => onTime[c] = 0
          /\ fire[c] # 0 => onTime[c] \in Due(n, command) .. Due(n, command) + n
      BY <3>1, <3>2 DEF DrivenSoFar
    <3> QED
      BY <2>1, <3>3, <3>4
  <2>3. CASE action = "sunpoint"
    <3>1. AlongZ
      BY <2>3, AtTheEnd
    <3>2. PICK on \in 0 .. SUNPOINT_DUTY_CYCLE :
              /\ command = [AllOff EXCEPT ![Z] = Periods * on]
              /\ onTime[0] = 0 /\ onTime[1] = 0 /\ onTime[Z] = Periods * on
      BY <2>3, AtTheEnd
    <3>3. CASE c = Z
      <4>1. command[c] = Periods * on
        BY <3>2, <3>3 DEF AllOff
      <4> QED
        BY <2>1, <3>1, <3>2, <3>3, <4>1 DEF AlongZ
    <3>4. CASE c # Z
      <4>1. c = 0 \/ c = 1
        BY <3>4 DEF Coil, Z
      <4> QED
        BY <3>1, <3>2, <4>1 DEF AlongZ
    <3> QED
      BY <3>3, <3>4
  <2> QED
    BY <2>1, <2>2, <2>3
<1> QED
  BY Inductive, <1>1, PTL

\* Every action takes its share of the cycle, and every measurement what the clock allows.
THEOREM CycleIsKept == Spec => []CycleTakesItsTime
<1>1. IInv => CycleTakesItsTime
  <2> SUFFICES ASSUME IInv PROVE CycleTakesItsTime
    OBVIOUS
  <2>1. MeasuredInv
    BY DEF IInv
  <2>2. Over => elapsed \in ActionTime .. ActionTime + 4
    BY AtTheEnd
  <2> QED
    BY <2>1, <2>2 DEF MeasuredInv, TakesItsShare, CycleTakesItsTime
<1> QED
  BY Inductive, <1>1, PTL

\* Once an action has begun, a coil is left on only by as many losses in a row as
\* transmissions turn it off.
THEOREM OffForMeasurement == Spec => []CoilsOffForMeasurement
<1>1. IInv => CoilsOffForMeasurement
  <2> SUFFICES ASSUME IInv, Over, begun, coil # AllOff PROVE lost >= OffTransmissions
    BY DEF CoilsOffForMeasurement
  <2>1. Types /\ LostInv /\ ~measuring /\ script = << >>
    BY DEF IInv, Over
  <2>2. pack = AllOff
    BY <2>1, AfterAction
  <2>3. lost >= 1 /\ lost \in Nat
    BY <2>1, <2>2 DEF LostInv, Types
  <2>4. action \in {"idle", "detumble", "sunpoint"}
    BY <2>1 DEF Types
  <2>5. CASE action = "idle"
    BY <2>3, <2>5 DEF OffTransmissions
  <2>6. CASE action = "detumble"
    BY <2>6, AtTheEnd DEF OffTransmissions
  <2>7. CASE action = "sunpoint"
    <3>1. PICK on \in 0 .. SUNPOINT_DUTY_CYCLE :
              /\ command = [AllOff EXCEPT ![Z] = Periods * on]
              /\ on # SUNPOINT_DUTY_CYCLE => lost >= 2
      BY <2>7, AtTheEnd
    <3>2. command[Z] = Periods * on
      BY <3>1 DEF AllOff, Coil, Z
    <3>3. CASE on = SUNPOINT_DUTY_CYCLE
      BY <2>3, <2>7, <3>2, <3>3 DEF OffTransmissions
    <3>4. CASE on # SUNPOINT_DUTY_CYCLE
      BY <2>7, <2>3, <3>1, <3>4 DEF OffTransmissions
    <3> QED
      BY <3>3, <3>4
  <2> QED
    BY <2>4, <2>5, <2>6, <2>7
<1> QED
  BY Inductive, <1>1, PTL
=============================================================================
