------------------------------ MODULE AcsCore ------------------------------
(***************************************************************************)
(* The attitude control loop of src/src/acs.c: the measurement pipeline    *)
(* (four circular buffers, their indices and "full" flags, readSensors,    *)
(* getOmega, getSVec), the error path of acs_thread that flushes it, and   *)
(* the mode machine checkTransition that decides from it.                  *)
(*                                                                         *)
(* A buffer slot holds the AGE of its sample: how many readings ago the    *)
(* sample it was computed from was taken.  Vectors are abstracted to that  *)
(* age and to the few comparisons checkTransition makes on them.           *)
(*                                                                         *)
(* C's int flags (0, 1) are Booleans here.  Definitions marked "Mutant"    *)
(* are not part of the model: they are plausible mistakes in the           *)
(* definition they precede, and show that the properties notice them.      *)
(***************************************************************************)
EXTENDS Integers

CONSTANT SH_BUFFER_SIZE      \* slots of each circular buffer (64 in the code)

ASSUME BufferSizeAssumption == SH_BUFFER_SIZE \in Nat /\ SH_BUFFER_SIZE >= 3

Slot == 0 .. SH_BUFFER_SIZE - 1

Index == -1 .. SH_BUFFER_SIZE - 1     \* -1: the buffer has not been started

Clear == -1                  \* a zeroed slot: never written since the last flush
Mixed == -2                  \* computed from two readings that are not consecutive
Aged  == SH_BUFFER_SIZE      \* older than the window, to be overwritten

Sample == Mixed .. Aged

Mode == {"DETUMBLE", "SUNPOINT", "NIGHT", "READY"}

\* What the newest sun vector shows: nothing (the zero vector), a sun within
\* MIN_SOL_ANGLE of the body Z axis, on that limit (equal, or NaN from acos), beyond.
SunView == {"Dark", "Aligned", "Limit", "Off"}

\* What the average of g_W shows.  "Settled": its angle from Z is below
\* MIN_DETUMBLE_ANGLE and its rate within OMEGA_TARGET_LEEWAY of the target.
\* "Tumbling": the angle is above the limit, or the rate three leeways off.
\* "Loose": neither, but the rate is more than one leeway off.  "Limit": the rest
\* (equality, or NaN from acos).
SpinView == {"Settled", "Limit", "Loose", "Tumbling"}

VARIABLES
    pc,                \* where acs_thread stands in its loop
    done,              \* set by the SIGINT handler
    mag_index, bdot_index, omega_index, sol_index,
    B_full, Bdot_full, W_full, S_full,
    g_B, g_Bt, g_W, g_S,
    sun,               \* what g_S[sol_index] shows
    spin,              \* what the average of g_W shows
    g_night,
    g_acs_mode,
    g_first_detumble

indices == <<mag_index, bdot_index, omega_index, sol_index>>
flags   == <<B_full, Bdot_full, W_full, S_full>>
buffers == <<g_B, g_Bt, g_W, g_S>>
modes   == <<g_acs_mode, g_first_detumble>>
views   == <<sun, spin, g_night>>
vars    == <<pc, done, indices, flags, buffers, views, modes>>

Empty == [s \in Slot |-> Clear]

Init ==
    /\ pc = "top"
    /\ done = FALSE
    /\ mag_index = -1 /\ bdot_index = -1 /\ omega_index = -1 /\ sol_index = -1
    /\ B_full = FALSE /\ Bdot_full = FALSE /\ W_full = FALSE /\ S_full = FALSE
    /\ g_B = Empty /\ g_Bt = Empty /\ g_W = Empty /\ g_S = Empty
    /\ sun = "Dark"
    /\ spin = "Tumbling"
    /\ g_night = FALSE
    /\ g_acs_mode = "DETUMBLE"
    /\ g_first_detumble = TRUE

-----------------------------------------------------------------------------
(* The circular buffers.                                                   *)

\* Mutants of the index arithmetic: the wrap-around forgotten; slot 0's predecessor
\* taken to be itself.
AdvanceUnwrapped(i) == i + 1
BeforeUnwrapped(i) == IF i - 1 < 0 THEN 0 ELSE i - 1

Advance(i) == (i + 1) % SH_BUFFER_SIZE

AtEnd(i) == i = SH_BUFFER_SIZE - 1

\* The slot before i, as the code computes it for the temporary address m0.
Before(i) == IF i - 1 < 0 THEN SH_BUFFER_SIZE - i - 1 ELSE i - 1

Older(a) == IF a < 0 \/ a = Aged THEN a ELSE a + 1

\* A new reading makes every stored sample one reading older.
Aging(buf) == [s \in Slot |-> Older(buf[s])]

\* The age of a quantity derived from a sample and its predecessor.
Derived(new, old) == IF new >= 0 /\ old = new + 1 THEN new ELSE Mixed

-----------------------------------------------------------------------------
(* acs_thread: the loop and its error path.                                *)

\* The SIGINT handler of main.c, at any moment.
RaiseDone ==
    /\ ~done
    /\ done' = TRUE
    /\ UNCHANGED <<pc, indices, flags, buffers, views, modes>>

Exit ==
    /\ pc = "top" /\ done
    /\ pc' = "exited"
    /\ UNCHANGED <<done, indices, flags, buffers, views, modes>>

StartCycle ==
    /\ pc = "top" /\ ~done
    /\ pc' = "mag"
    /\ UNCHANGED <<done, indices, flags, buffers, views, modes>>

\* Mutants of the error path: the full flags outlive the flush; omega_index does;
\* the mode is not reset.
FlushKeepsFull ==
    /\ pc' = "publish"
    /\ mag_index' = -1 /\ bdot_index' = -1 /\ omega_index' = -1 /\ sol_index' = -1
    /\ g_B' = Empty /\ g_Bt' = Empty /\ g_W' = Empty /\ g_S' = Empty
    /\ sun' = "Dark" /\ spin' = "Tumbling"
    /\ g_acs_mode' = "NIGHT"
    /\ UNCHANGED <<done, flags, g_night, g_first_detumble>>

FlushKeepsOmegaIndex ==
    /\ pc' = "publish"
    /\ mag_index' = -1 /\ bdot_index' = -1 /\ sol_index' = -1
    /\ B_full' = FALSE /\ W_full' = FALSE /\ S_full' = FALSE
    /\ g_B' = Empty /\ g_Bt' = Empty /\ g_W' = Empty /\ g_S' = Empty
    /\ sun' = "Dark" /\ spin' = "Tumbling"
    /\ g_acs_mode' = "NIGHT"
    /\ UNCHANGED <<done, omega_index, Bdot_full, g_night, g_first_detumble>>

FlushKeepsMode ==
    /\ pc' = "publish"
    /\ mag_index' = -1 /\ bdot_index' = -1 /\ omega_index' = -1 /\ sol_index' = -1
    /\ B_full' = FALSE /\ W_full' = FALSE /\ S_full' = FALSE
    /\ g_B' = Empty /\ g_Bt' = Empty /\ g_W' = Empty /\ g_S' = Empty
    /\ sun' = "Dark" /\ spin' = "Tumbling"
    /\ UNCHANGED <<done, Bdot_full, g_night, modes>>

\* readSensors returned a negative value: empty everything, fall back to night.
FlushAndFallBack ==
    /\ pc' = "publish"
    /\ mag_index' = -1 /\ bdot_index' = -1 /\ omega_index' = -1 /\ sol_index' = -1
    /\ B_full' = FALSE /\ W_full' = FALSE /\ S_full' = FALSE
    /\ g_B' = Empty /\ g_Bt' = Empty /\ g_W' = Empty /\ g_S' = Empty
    /\ sun' = "Dark" /\ spin' = "Tumbling"
    /\ g_acs_mode' = "NIGHT"
    /\ UNCHANGED <<done, Bdot_full, g_night, g_first_detumble>>

-----------------------------------------------------------------------------
(* readSensors, in the order of its statements.                            *)

\* The magnetometer (and the sun sensors) answer: store the field.  The first
\* reading after a flush has no predecessor, and readSensors returns there.
ReadField ==
    /\ pc = "mag"
    /\ B_full' = (B_full \/ AtEnd(mag_index))
    /\ mag_index' = Advance(mag_index)
    /\ g_B' = [Aging(g_B) EXCEPT ![mag_index'] = 0]
    /\ g_Bt' = Aging(g_Bt) /\ g_W' = Aging(g_W) /\ g_S' = Aging(g_S)
    /\ pc' = IF mag_index' < 1 /\ ~B_full' THEN "publish" ELSE "bdot"
    /\ UNCHANGED <<done, bdot_index, omega_index, sol_index, Bdot_full, W_full,
                   S_full, views, modes>>

\* The magnetometer or a sun sensor fails: readSensors returns before anything
\* is derived.
ReadFieldFails ==
    /\ pc = "mag"
    /\ FlushAndFallBack

\* The rate of change of the field, from the newest reading and the one before.
\* The flag it sets at the end of its buffer is B_full.
GetBdot ==
    /\ pc = "bdot"
    /\ B_full' = (B_full \/ AtEnd(bdot_index))
    /\ bdot_index' = Advance(bdot_index)
    /\ g_Bt' = [g_Bt EXCEPT ![bdot_index'] = Derived(g_B[mag_index], g_B[Before(mag_index)])]
    /\ pc' = "omega"
    /\ UNCHANGED <<done, mag_index, omega_index, sol_index, Bdot_full, W_full, S_full,
                   g_B, g_W, g_S, views, modes>>

NotEnoughForOmega == mag_index < 2 /\ ~B_full

\* Mutant: readSensors takes getOmega's "not enough measurements" for a failed reading.
SkipOmegaFails ==
    /\ pc = "omega" /\ NotEnoughForOmega
    /\ FlushAndFallBack

\* getOmega with fewer than three readings.
SkipOmega ==
    /\ pc = "omega" /\ NotEnoughForOmega
    /\ pc' = "svec"
    /\ UNCHANGED <<done, indices, flags, buffers, views, modes>>

\* getOmega: the angular velocity from the two newest rates of change.
GetOmega ==
    /\ pc = "omega" /\ ~NotEnoughForOmega
    /\ W_full' = (W_full \/ AtEnd(omega_index))
    /\ omega_index' = Advance(omega_index)
    /\ g_W' = [g_W EXCEPT ![omega_index'] =
                  Derived(g_Bt[bdot_index], g_Bt[Before(bdot_index)])]
    /\ spin' \in SpinView
    /\ pc' = "svec"
    /\ UNCHANGED <<done, mag_index, bdot_index, sol_index, B_full, Bdot_full, S_full,
                   g_B, g_Bt, g_S, sun, g_night, modes>>

\* getSVec: the fine sensor's answer is used when it is in its field of view, and
\* g_night is left alone; otherwise the coarse sensors decide, g_night included.
GetSVec ==
    /\ pc = "svec"
    /\ S_full' = (S_full \/ AtEnd(sol_index))
    /\ sol_index' = Advance(sol_index)
    /\ g_S' = [g_S EXCEPT ![sol_index'] = 0]
    /\ \/ /\ sun' \in SunView \ {"Dark"}              \* fine sensor
          /\ UNCHANGED g_night
       \/ /\ sun' \in SunView                         \* coarse sensors
          /\ g_night' = (sun' = "Dark")
    /\ pc' = "nan"
    /\ UNCHANGED <<done, mag_index, bdot_index, omega_index, B_full, Bdot_full, W_full,
                   g_B, g_Bt, g_W, spin, modes>>

\* The newest field, angular velocity and sun vector are numbers.
AllNumbers ==
    /\ pc = "nan"
    /\ pc' = "publish"
    /\ UNCHANGED <<done, indices, flags, buffers, views, modes>>

\* One of them is NaN, as an angular velocity is whose rate of change was zero.
\* With omega_index still -1 the code tests whatever lies before g_W.
NanFound ==
    /\ pc = "nan"
    /\ FlushAndFallBack

-----------------------------------------------------------------------------
(* checkTransition: the mode machine.                                      *)

\* Mutant: only the sun vector's buffer is asked for.
CanDecideOnSunOnly == S_full

CanDecide == W_full /\ S_full

Lit == sun # "Dark"

\* The answer in each mode.  The code assigns next_mode in a sequence of tests, and
\* the last assignment made stands: hence the order of the alternatives here.
FromDetumble(stillFirst) ==
    IF spin = "Settled" \/ (~stillFirst /\ ~Lit) THEN "NIGHT" ELSE "DETUMBLE"

FromSunpoint ==
    CASE sun = "Aligned" -> "READY"
      [] sun = "Dark" -> "NIGHT"
      [] sun \in {"Limit", "Off"} -> IF spin = "Tumbling" THEN "DETUMBLE" ELSE "SUNPOINT"

\* Mutants: night mode does not look for an aligned sun; READY does not look for night.
FromNightOnlyOff == IF sun = "Off" THEN "SUNPOINT" ELSE "NIGHT"

FromReadyBlind == IF sun = "Off" THEN "SUNPOINT" ELSE "READY"

\* The tumbling tests of the code come first here and are always overwritten.
FromNight ==
    CASE sun = "Aligned" -> "READY"
      [] sun = "Dark" -> "NIGHT"
      [] sun \in {"Limit", "Off"} -> "SUNPOINT"

FromReady ==
    CASE sun \in {"Aligned", "Limit"} -> "READY"
      [] sun = "Dark" -> "NIGHT"
      [] sun = "Off" -> "SUNPOINT"

Undecided ==
    /\ pc = "check" /\ ~CanDecide
    /\ pc' = "act"
    /\ UNCHANGED <<done, indices, flags, buffers, views, modes>>

CheckTransition ==
    /\ pc = "check" /\ CanDecide
    /\ pc' = "act"
    /\ g_first_detumble' =
          (g_first_detumble /\ ~(g_acs_mode = "DETUMBLE" /\ spin = "Settled"))
    /\ g_acs_mode' = CASE g_acs_mode = "DETUMBLE" -> FromDetumble(g_first_detumble')
                       [] g_acs_mode = "SUNPOINT" -> FromSunpoint
                       [] g_acs_mode = "NIGHT"    -> FromNight
                       [] g_acs_mode = "READY"    -> FromReady
    /\ UNCHANGED <<done, indices, flags, buffers, views>>

-----------------------------------------------------------------------------

\* DataVis gets the newest sample of each buffer once there is an angular velocity.
Publish ==
    /\ pc = "publish"
    /\ pc' = "check"
    /\ UNCHANGED <<done, indices, flags, buffers, views, modes>>

\* The rest of the measurement time, then the action of the mode.
DetumbleAction ==
    /\ pc = "act" /\ g_acs_mode = "DETUMBLE"
    /\ pc' = "top"
    /\ UNCHANGED <<done, indices, flags, buffers, views, modes>>

SunpointAction ==
    /\ pc = "act" /\ g_acs_mode = "SUNPOINT"
    /\ pc' = "top"
    /\ UNCHANGED <<done, indices, flags, buffers, views, modes>>

Idle ==
    /\ pc = "act" /\ g_acs_mode \notin {"DETUMBLE", "SUNPOINT"}
    /\ pc' = "top"
    /\ UNCHANGED <<done, indices, flags, buffers, views, modes>>

Loop ==
    \/ Exit \/ StartCycle
    \/ ReadField \/ ReadFieldFails \/ GetBdot \/ SkipOmega \/ GetOmega \/ GetSVec
    \/ AllNumbers \/ NanFound
    \/ Publish \/ Undecided \/ CheckTransition
    \/ DetumbleAction \/ SunpointAction \/ Idle

\* The thread has returned; nothing happens any more.
Exited == pc = "exited" /\ UNCHANGED vars

Next == Loop \/ RaiseDone \/ Exited

Spec == Init /\ [][Next]_vars /\ WF_vars(Loop)

-----------------------------------------------------------------------------
(* Properties.                                                             *)

TypeOK ==
    /\ pc \in {"top", "mag", "bdot", "omega", "svec", "nan", "publish", "check", "act",
               "exited"}
    /\ done \in BOOLEAN
    /\ mag_index \in Index /\ bdot_index \in Index
    /\ omega_index \in Index /\ sol_index \in Index
    /\ B_full \in BOOLEAN /\ Bdot_full \in BOOLEAN
    /\ W_full \in BOOLEAN /\ S_full \in BOOLEAN
    /\ g_B \in [Slot -> Sample] /\ g_Bt \in [Slot -> Sample]
    /\ g_W \in [Slot -> Sample] /\ g_S \in [Slot -> Sample]
    /\ sun \in SunView /\ spin \in SpinView /\ g_night \in BOOLEAN
    /\ g_acs_mode \in Mode /\ g_first_detumble \in BOOLEAN

\* Between readSensors and the next cycle.
AfterReading == pc \in {"publish", "check", "act"}

\* A mode is chosen from a whole window: when checkTransition decides, the slots it
\* averages hold the last SH_BUFFER_SIZE angular velocities, each once, and no
\* zeroed, repeated or stale one; the sun vectors likewise.  (A flag that outlives
\* a flush, or is set a cycle early, would break it.)
DecisionWindow ==
    pc = "check" /\ CanDecide =>
        \A age \in Slot : /\ \E s \in Slot : g_W[s] = age
                          /\ \E s \in Slot : g_S[s] = age

\* Once there is an angular velocity, the newest slot of every buffer exists and is
\* from this cycle's reading: what acs_thread hands to DataVis, and what the actions
\* compute from, are four quantities of one instant.
NewestCoherent ==
    AfterReading /\ omega_index >= 0 =>
        /\ mag_index >= 0 /\ g_B[mag_index] = 0
        /\ bdot_index >= 0 /\ g_Bt[bdot_index] = 0
        /\ sol_index >= 0 /\ g_S[sol_index] = 0
        /\ g_W[omega_index] = 0

\* d slots before i, around the buffer.
Back(i, d) == IF d <= i THEN i - d ELSE i - d + SH_BUFFER_SIZE

\* The Bessel filters walk back from the newest slot: they meet the samples in the
\* order they were taken, then only zeroed slots, never a gap or an older era.
Consecutive(buf, i) ==
    \A d \in Slot : buf[Back(i, d)] \in {d, Clear}

FilterWindows ==
    AfterReading =>
        /\ mag_index >= 0 => Consecutive(g_B, mag_index)
        /\ bdot_index >= 0 => Consecutive(g_Bt, bdot_index)
        /\ omega_index >= 0 => Consecutive(g_W, omega_index)

\* Until the buffers are full again the satellite is in night mode, "the safe mode"
\* of acs_thread's error path, unless it has never left its first detumbling: a
\* flush in any mode, at any point of a cycle, never leaves a mode that acts on the
\* sun standing without data.
SafeWithoutData ==
    ~CanDecide => \/ g_acs_mode = "NIGHT"
                  \/ g_acs_mode = "DETUMBLE" /\ g_first_detumble

\* sunpointAction checks sol_index only, yet uses g_W[omega_index] and divides by
\* nothing the sun vector does not give: it runs with a whole window and a sun in
\* view that is not already on the axis.  READY is held only with the sun on it.
SunModesSeeSun ==
    pc = "act" =>
        /\ g_acs_mode = "SUNPOINT" => CanDecide /\ omega_index >= 0 /\ sun \in {"Limit", "Off"}
        /\ g_acs_mode = "READY" => CanDecide /\ sun \in {"Aligned", "Limit"}

\* If readings stop failing, the loop gathers its windows and can decide from then
\* on, unless the program is told to stop.
Fault == ReadFieldFails \/ NanFound

Recovers == <>[][~Fault]_vars => <>[](done \/ CanDecide)

\* If readings stop failing and the satellite is spun up and aligned for good, it
\* ends up READY, whatever mode and buffers it had: from DETUMBLE through NIGHT,
\* also after a flush.
SettledBecomesReady ==
    /\ <>[][~Fault]_vars
    /\ <>[](sun = "Aligned" /\ spin = "Settled")
    => <>[](done \/ g_acs_mode = "READY")
=============================================================================
