----------------------------- MODULE TorqueCoils -----------------------------
(***************************************************************************)
(* The timing of a control cycle and the actuation in it (acs_thread,      *)
(* detumbleAction and sunpointAction in src/src/acs.c) with the H-bridge   *)
(* driver underneath (hbridge_enable, HBRIDGE_DISABLE, ncv7708_xfer).      *)
(*                                                                         *)
(* An action is a script of transmissions and sleeps, run one at a time:   *)
(* every transmission sends the whole configuration and may be lost, which *)
(* no caller looks at.  The measurement before it takes the rest of its    *)
(* share of the cycle by the wall clock, which can be set meanwhile.  Times*)
(* are in microseconds.                                                    *)
(***************************************************************************)
EXTENDS Integers, Sequences

CONSTANTS
    DETUMBLE_TIME_STEP, MEASURE_TIME, SUNPOINT_DUTY_CYCLE,
    MAX_DETUMBLE_FIRING_TIME, MIN_DETUMBLE_FIRING_TIME,
    FiringTimes,       \* firing times the control law asks for, whole microseconds
    PulseTimes,        \* signed pulse lengths the pointing law asks for
    ReadTimes,         \* what reading the sensors and deciding takes
    SetOn, SetBack,    \* by how much the clock may be set meanwhile: 31 bits, or the low 32
                       \* bits of more, signed
    MaxLost            \* transmissions lost in a row that are followed

ASSUME TimesAssumption ==
    /\ DETUMBLE_TIME_STEP \in Nat
    /\ MEASURE_TIME \in Nat /\ MEASURE_TIME <= 2147483647
    /\ MIN_DETUMBLE_FIRING_TIME \in Nat /\ MAX_DETUMBLE_FIRING_TIME \in Nat
    /\ 0 < MIN_DETUMBLE_FIRING_TIME
    /\ MIN_DETUMBLE_FIRING_TIME < MAX_DETUMBLE_FIRING_TIME
    /\ MAX_DETUMBLE_FIRING_TIME = DETUMBLE_TIME_STEP - MEASURE_TIME
    /\ SUNPOINT_DUTY_CYCLE \in Nat \ {0}
    /\ SUNPOINT_DUTY_CYCLE % 10000 = 0                      \* pulses are rounded to 10 ms,
    /\ MAX_DETUMBLE_FIRING_TIME % SUNPOINT_DUTY_CYCLE = 0   \* and an action has whole periods
    /\ FiringTimes \subseteq Int /\ PulseTimes \subseteq Int
    /\ \A r \in ReadTimes : r \in Nat /\ r <= 2147483647
    /\ \A s \in SetOn \cup SetBack : s \in Nat /\ s <= 2147483647
    /\ MaxLost \in Nat

Coil == 0 .. 2               \* x, y, z
Z == 2
Direction == {-1, 0, 1}
AllOff == [c \in Coil |-> 0]

\* What is left of the cycle after the measurement.
ActionTime == DETUMBLE_TIME_STEP - MEASURE_TIME

VARIABLES
    action,            \* the action of this cycle, or of the last one
    script,            \* what the action has left to do
    measuring,         \* the next measurement has begun
    measurement,       \* how it went, once it is over
    pack,              \* dev->pack: the configuration the next transmission sends
    begun,             \* an action that transmits has begun since acs_init
    coil,              \* what the bridge drives: the last configuration it got
    command,           \* firing time of each coil in this action
    fire,              \* direction of each coil in this action
    elapsed,           \* time since the action began
    onTime,            \* time each coil has been driven since then
    lost,              \* transmissions lost in a row, up to now
    lostHere           \* a transmission of this action was lost

vars == <<action, script, measuring, measurement, pack, begun, coil, command, fire, elapsed, onTime,
          lost, lostHere>>

NotYet == [read |-> 0, step |-> 0, slept |-> -1]

-----------------------------------------------------------------------------
(* Scripts.                                                                *)

Enable(dir) == <<"enable", dir>>
Disable(c)  == <<"disable", c>>
Sleep(t)    == <<"sleep", t>>

\* usleep(t < 1 ? 1 : t)
Pause(t) == Sleep(IF t < 1 THEN 1 ELSE t)

\* Mutant: the command is not capped.
Uncapped(t) == IF t < MIN_DETUMBLE_FIRING_TIME THEN 0 ELSE t

\* The command for a firing time: capped, and dropped when it is short.
Clamped(t) ==
    IF t > MAX_DETUMBLE_FIRING_TIME THEN MAX_DETUMBLE_FIRING_TIME
    ELSE IF t < MIN_DETUMBLE_FIRING_TIME THEN 0 ELSE t

\* Mutant: the key is swapped with its neighbour, and goes no further down.
InsertOnce(order, n, time) ==
    IF time[order[n]] < time[order[n - 1]]
    THEN [order EXCEPT ![n] = order[n - 1], ![n - 1] = order[n]] ELSE order

\* One round of insertionSort: element n goes after the last of the elements before
\* it that is not greater than it.
Insert(order, n, time) ==
    LET key == order[n]
        j   == CHOOSE i \in 0 .. n - 1 :
                 /\ i = 0 \/ ~(time[key] < time[order[i]])
                 /\ \A k \in i + 1 .. n - 1 : time[key] < time[order[k]]
    IN  [i \in 1 .. 3 |-> IF i <= j \/ i > n THEN order[i]
                          ELSE IF i = j + 1 THEN key ELSE order[i - 1]]

\* firingOrder: the coils by increasing firing time.
FiringOrder(time) == Insert(Insert(<<0, 1, 2>>, 2, time), 3, time)

\* Mutant: the last coil is left to the next action.
DetumbleScriptLeavesOn(dir, time) ==
    LET order == FiringOrder(time)
    IN  << Enable(dir),
           Pause(time[order[1]]),                   Disable(order[1]),
           Pause(time[order[2]] - time[order[1]]),  Disable(order[2]),
           Pause(MAX_DETUMBLE_FIRING_TIME - time[order[2]]) >>

DetumbleScript(dir, time) ==
    LET order == FiringOrder(time)
    IN  << Enable(dir),
           Pause(time[order[1]]),                   Disable(order[1]),
           Pause(time[order[2]] - time[order[1]]),  Disable(order[2]),
           Pause(time[order[3]] - time[order[2]]),  Disable(order[3]),
           Pause(MAX_DETUMBLE_FIRING_TIME - time[order[3]]),
           Disable(0), Disable(1), Disable(2) >>

IdleScript == << Sleep(ActionTime) >>

\* sunpointAction's pulse for a requested length: at most a duty cycle, the lengths
\* just below 5 ms raised to it, rounded to 10 ms.
PulseLength(t) ==
    LET asked  == IF t > 0 THEN t ELSE -t
        capped == IF asked > SUNPOINT_DUTY_CYCLE THEN SUNPOINT_DUTY_CYCLE ELSE asked
        raised == IF capped < 5000 /\ capped > 2499 THEN 5000 ELSE capped
    IN  10000 * ((raised + 5000) \div 10000)

PulseDirection(t) == [AllOff EXCEPT ![Z] = IF t > 0 THEN 1 ELSE -1]

\* One period of the pulse train.
Period(dir, on) ==
    LET off == SUNPOINT_DUTY_CYCLE - on
    IN  IF off > 0 THEN << Enable(dir), Sleep(on), Disable(Z), Sleep(off) >>
                   ELSE << Enable(dir), Sleep(on) >>

\* Periods are started while some of the firing time is left.
Periods == (ActionTime + SUNPOINT_DUTY_CYCLE - 1) \div SUNPOINT_DUTY_CYCLE

\* The periods one after the other, and the coil off.
SunpointScript(dir, on) ==
    LET period == Period(dir, on)
        length == Len(period)
    IN  [n \in 1 .. Periods * length + 1 |->
            IF n > Periods * length THEN Disable(Z) ELSE period[((n - 1) % length) + 1]]

-----------------------------------------------------------------------------

\* ncv7708_init sets the enable bits of a packet it has from malloc and transmits it:
\* acs_init leaves the bridge driving whatever the direction bits happen to be.
Init ==
    /\ action = "idle" /\ script = << >>
    /\ measuring = TRUE /\ measurement = NotYet
    /\ pack \in [Coil -> Direction] /\ coil = pack /\ begun = FALSE
    /\ command = AllOff /\ fire = AllOff
    /\ elapsed = 0 /\ onTime = AllOff
    /\ lost = 0 /\ lostHere = FALSE

\* The action is over; the next cycle begins.
Measure ==
    /\ ~measuring /\ script = << >>
    /\ measuring' = TRUE
    /\ action' = "idle" /\ command' = AllOff /\ fire' = AllOff
    /\ elapsed' = 0 /\ onTime' = AllOff /\ lostHere' = FALSE
    /\ UNCHANGED <<script, measurement, pack, begun, coil, lost>>

\* left - step does not fit a signed number of 32 bits: it is above them, or below.
Above(left, step) == left > 0 /\ step < left - 2147483647
Below(left, step) == left < 0 /\ left + 2147483647 < step - 1

\* The difference wrapped to 32 bits, all of which is slept if it is positive.
Rest(left, step) ==
    IF Below(left, step) THEN 2147483647 + ((left + 2147483647) - step + 2)
    ELSE IF step >= left \/ Above(left, step) THEN 0 ELSE left - step

\* Mutant: the sleep does not account for the reading.
SleepTimeAlone(read, step) == Rest(MEASURE_TIME, step)

\* MEASURE_TIME - e + s, computed in 64 bits and converted to an int.
SleepTime(read, step) == Rest(MEASURE_TIME - read, step)

\* readSensors and checkTransition take what they take, and what they leave of
\* MEASURE_TIME is slept.
Sleep20ms ==
    /\ measuring /\ measurement = NotYet
    /\ \E read \in ReadTimes, step \in SetOn \cup {-b : b \in SetBack} :
           measurement' = [read |-> read, step |-> step, slept |-> SleepTime(read, step)]
    /\ UNCHANGED <<action, script, measuring, pack, begun, coil, command, fire, elapsed, onTime,
                   lost, lostHere>>

\* The measurement is over and the action of the mode begins.
Begin(name, dir, time, ops) ==
    /\ measuring /\ measurement # NotYet
    /\ measuring' = FALSE /\ measurement' = NotYet
    /\ action' = name /\ script' = ops
    /\ fire' = dir /\ command' = time
    /\ begun' = (begun \/ name # "idle")
    /\ UNCHANGED <<pack, coil, elapsed, onTime, lost, lostHere>>

BeginDetumble ==
    \E dir \in [Coil -> Direction], asked \in [Coil -> FiringTimes] :
        LET time == [c \in Coil |-> Clamped(asked[c])]
        IN  Begin("detumble", dir, time, DetumbleScript(dir, time))

BeginSunpoint ==
    \E asked \in PulseTimes :
        LET on == PulseLength(asked)
            dir == PulseDirection(asked)
        IN  Begin("sunpoint", dir, [AllOff EXCEPT ![Z] = Periods * on], SunpointScript(dir, on))

\* Night mode, READY, and an action without data: nothing is transmitted.
BeginIdle == Begin("idle", AllOff, AllOff, IdleScript)

\* ncv7708_xfer: the whole configuration is sent, or lost without anyone noticing.
Transmit(config) ==
    /\ pack' = config
    /\ \/ coil' = config /\ lost' = 0 /\ UNCHANGED lostHere
       \/ /\ lost < MaxLost
          /\ lost' = lost + 1 /\ lostHere' = TRUE
          /\ UNCHANGED coil

EnableCoils ==
    /\ script # << >> /\ Head(script)[1] = "enable"
    /\ Transmit(Head(script)[2])
    /\ script' = Tail(script)
    /\ UNCHANGED <<action, measuring, measurement, begun, command, fire, elapsed, onTime>>

DisableCoil ==
    /\ script # << >> /\ Head(script)[1] = "disable"
    /\ Transmit([pack EXCEPT ![Head(script)[2]] = 0])
    /\ script' = Tail(script)
    /\ UNCHANGED <<action, measuring, measurement, begun, command, fire, elapsed, onTime>>

Usleep ==
    /\ script # << >> /\ Head(script)[1] = "sleep"
    /\ elapsed' = elapsed + Head(script)[2]
    /\ onTime' = [c \in Coil |-> IF coil[c] # 0 THEN onTime[c] + Head(script)[2]
                                 ELSE onTime[c]]
    /\ script' = Tail(script)
    /\ UNCHANGED <<action, measuring, measurement, pack, begun, coil, command, fire, lost,
                   lostHere>>

Next ==
    \/ BeginDetumble \/ BeginSunpoint \/ BeginIdle
    \/ EnableCoils \/ DisableCoil \/ Usleep
    \/ Measure \/ Sleep20ms

Spec == Init /\ [][Next]_vars

-----------------------------------------------------------------------------
(* Properties.                                                             *)

\* The action is over, and the coils are as the measurement will find them.
Over == ~measuring /\ script = << >>

TypeOK ==
    /\ measuring \in BOOLEAN
    /\ measurement.slept \in Nat \cup {-1} /\ (~measuring => measurement = NotYet)
    /\ action \in {"idle", "detumble", "sunpoint"}
    /\ pack \in [Coil -> Direction] /\ coil \in [Coil -> Direction] /\ begun \in BOOLEAN
    /\ fire \in [Coil -> Direction]
    /\ command \in [Coil -> 0 .. ActionTime]
    /\ elapsed \in 0 .. ActionTime + 4
    /\ \A c \in Coil : onTime[c] \in 0 .. elapsed
    /\ lost \in 0 .. MaxLost /\ lostHere \in BOOLEAN

\* "any torquer is fired for at most the allowed firing time" and for what the control
\* law asked: when nothing of the action is lost, each coil was driven for its command,
\* with at most the three one-microsecond pauses on top, and a coil of no direction not
\* at all.  The sort, the differences and the order of turning off all have to agree.
FiredAsCommanded ==
    Over /\ ~lostHere /\ action # "idle" =>
        \A c \in Coil : IF fire[c] = 0 THEN onTime[c] = 0
                        ELSE onTime[c] \in command[c] .. command[c] + 3

\* A cycle takes DETUMBLE_TIME_STEP, the step that the rates of change are divided by.
\* Every action takes what the measurement leaves of it, whatever is commanded or lost.
\* The measurement takes MEASURE_TIME, or the reading if that is longer, unless the clock
\* is set: one that is set back lengthens it by as much, and one set further than 32 bits
\* count by no more than they do; one that is set on ends it early, but never before the
\* reading.  The exception is a reading that overran and a clock set on to within the
\* overrun of all that 31 bits count: the difference wraps, and the loop sleeps 35 minutes.
CycleTakesItsTime ==
    /\ Over => elapsed \in ActionTime .. ActionTime + 4
    /\ measurement # NotYet =>
           LET m == measurement
               left == IF m.read > MEASURE_TIME THEN 0 ELSE MEASURE_TIME - m.read
           IN  /\ m.step = 0 => m.slept = left
               /\ m.step > 0 => m.slept <= left \/ Below(MEASURE_TIME - m.read, m.step)
               /\ m.step < 0 => m.slept + m.step <= left

\* "At the end of the action, all torquers are turned off for the next magnetic field
\* measurement": a detumble action fails to only when four transmissions in a row are
\* lost, a pulse train that rests only when two are, one that does not when one is.  Cycles
\* without an action turn nothing off: until the first one begins, the coils are as the
\* unset packet of acs_init left them.
OffTransmissions ==
    CASE action = "detumble" -> 4
      [] action = "sunpoint" -> IF command[Z] = Periods * SUNPOINT_DUTY_CYCLE THEN 1 ELSE 2
      [] action = "idle" -> 1

CoilsOffForMeasurement ==
    Over /\ begun /\ coil # AllOff => lost >= OffTransmissions
=============================================================================
