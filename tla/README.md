# Formal model of shflight

TLA+ specifications of the flight program of SPACE HAUC's attitude control system (`src/`), the TLC
configurations that check them on finite instances, and TLAPS proofs of every invariant and of both
refinements for every value of the constants. Nothing here is generated from the code: each
definition names, in `PROJECT.json` under `map`, the lines it translates.

## 1. The system

The program is one process with up to three threads, chosen at compile time:

| build | threads (`module_exec`) | sensors and torquers |
| --- | --- | --- |
| HITL (default) | `acs_thread` | I2C and SPI devices |
| SITL | `acs_thread`, `sitl_comm` | a simulator on a serial line |
| SITL with DATAVIS | `acs_thread`, `datavis_thread`, `sitl_comm` | the same, plus a TCP client that watches |

### Components, their state, and what makes them correct

**Measurement pipeline** (`acs.c`: `readSensors`, `getOmega`, `getSVec`; `macros.h`). Four circular
buffers of 64 vectors (field `g_B`, its rate `g_Bt`, angular velocity `g_W`, sun vector `g_S`), an
index and a "full" flag each. Every 100 ms a reading is stored, and the others are derived from it
and its neighbours. Any failure, and any NaN, flushes all of them. *Hard*: the four buffers start
at different readings, wrap separately, and are flushed by hand. *Correct when* a decision sees the
last 64 values and nothing else, and what is used together was measured together.

**Mode machine** (`acs.c`: `checkTransition`, the error path of `acs_thread`). `g_acs_mode`
(DETUMBLE, SUNPOINT, NIGHT, READY) and `g_first_detumble`. *Hard*: sequences of tests that overwrite
each other's answer; a fault changes the mode from outside. *Correct when* a mode never outlives
the data it was chosen from, and good data ends in READY.

**Torquer actuation** (`detumbleAction`, `sunpointAction`, `insertionSort`, `hbridge_enable`,
`HBRIDGE_DISABLE`, `ncv7708.c`). The configuration in the driver's packet, the firing times of an
action. *Hard*: three coils turned off in sorted order with waits that are differences; a pulse
train; transmissions whose failure nobody looks at. *Correct when* each coil is on for its command,
the action takes its share of the cycle, and the coils are off for the next field measurement; all but
the time before the first action, when they are as an unset packet left them.

**Lifecycle** (`main.c`, `modules.h`). `done`, the thread table, the SIGINT handler and its
`wakeups`. *Hard*: condition variables waited on without a predicate or their mutex; joins in order.
*Correct when* a SIGINT ends every thread and devices are released after that.

**Boot counter** (`bootCount`). A file, rewritten at every boot, that names the log. *Hard*: crashes
between its steps. *Correct when* every boot has its own number.

**SITL serial exchange** (`sitl_comm.c`) and **DataVis** (`datavis.c`). Frames in, a firing byte out,
a packet to the client; `serial_read`, `serial_write`, and a `datavis_mutex` that only the waiting
thread uses. *Hard*: two threads at each of these; damaged frames. *Correct when* a reading is one
frame, a command gets out whatever comes in, and a packet is one cycle's.

**Devices of the HITL build** (`acs_init`, `acs_destroy`, the measurements of `readSensors`;
`ncv7708.c`, `tca9458a.c`, `tsl2561.c`, `lsm9ds1.c`). A descriptor for each device; nine coarse sun
sensors that share three addresses behind a multiplexer, which remembers its channel, as a sensor does
its power. *Hard*: any transfer can be lost and most results are not looked at, a measurement stops
half way with a channel selected, devices keep the state an earlier run left. *Correct when* a started
loop has its sensors on, a brightness is its own sensor's, release powers everything down, and the lux
arithmetic stays within its width.

**Cycle timing** (`acs_thread`, `get_usec`). The start of a cycle by the wall clock; the sleep that
fills the measurement up to 20 ms is computed from it and converted to an `int`. *Hard*: the clock
can be set in between, and the difference is of 64 unsigned bits. *Correct when* a cycle takes the
100 ms that the rates of change are divided by.

**Fine sun sensor's converter** (`ads1115.c`; with `FSS_READY`). A configuration register and one
conversion register; conversions run on their own. *Hard*: two polls without a bound; one register for
four inputs; transfers that are lost, some of which are only printed. *Correct when* what a success
stores are samples, the first converted from the input asked for, and the polls end.

**EPS telemetry** (`eps_telem.c`; in no build's table yet). Commands to the power supply and their
replies, 10 ms apart, shared by a telemetry and a watchdog thread. *Hard*: no mutex, so a reply may
be another command's. *Correct when* housekeeping data is the answer to its request, and outputs are
what a success says.

**Simulator server** (`visualization/sim_server.c`). The other program on the SITL line: a thread that
finds frames in a stream of bytes, one that hands the newest to clients, `done`. *Hard*: lost bytes
and starting in the middle; data that look like a preamble; the waits of `Lifecycle` again. *Correct
when* only whole frames are taken, frames are found again after a loss, and the server can be stopped.

**Others**: the Bessel filter and ground tools. Section 8 says what is done about each.

### Interactions

`main` creates and joins the threads. The SIGINT handler writes `done` and broadcasts. `sitl_comm`
broadcasts `data_available`, which releases `acs_thread`'s first run, and shares the sensor globals
and `g_Fire` with it. `acs_thread` fills `g_datavis_st` and broadcasts `datavis_drdy`. `acs_thread`
alone uses the H-bridge until `acs_destroy` frees it.

## 2. Modules

| module | models | state and actions against the code |
| --- | --- | --- |
| `AcsCore` | pipeline, flush, mode machine | one variable per global; `pc` is where `acs_thread` stands between two calls; one action per statement group (`ReadField`, `GetBdot`, `SkipOmega`/`GetOmega`, `GetSVec`, NaN check, `Publish`, `Undecided`/`CheckTransition`, the action) |
| `AcsModes` | abstract: the promise about the mode | counts good readings instead of buffers |
| `AcsRefinement` | the refinement mapping | `Streak` recovers the count from `W_full`, `B_full`, `mag_index` |
| `TorqueCoils` | cycle timing, actuation and the H-bridge driver | `measurement` is the reading, the clock's step and the sleep of the first part of a cycle; an action is a script of transmissions and sleeps; `pack` is the driver's packet, `coil` what the bridge drives |
| `Lifecycle` | `main`, SIGINT, the threads' waits | `build` picks the tables of `modules.h`; `pc[t]` is where thread `t` stands; `"asleep"` is inside `pthread_cond_wait` |
| `SitlExchange` | data shared by the threads of the SITL build | frames and packets move in pieces; `serial_read` is the mutex's holder |
| `SitlRegister` | abstract: an atomic register of frames and one of commands | |
| `BootCount` | `bootCount` and the log it names | `stage` is where `main` stands, `file` is what programs see, `disk` the medium |
| `AcsDevices` | set-up, measurement and release of the devices | `pass` is the function that runs, `step` and `at` the device it is at; `selected` and `powered` are hardware and outlive the program; one action per driver call |
| `CssLux` | `tsl2561_get_lux`, as operators | used by `AcsDevices` on the counts of each measurement |
| `Ads1115` | the converter and its driver | `converting`, `conversion`, `pointer` are the converter's; `pc` is where `ads1115_read_data` or `ads1115_read_cont` stands between two transfers; `Complete` is the converter's own step |
| `EpsTelemetry` | the commands of `eps_telem.c` | `pc[t]` is between a command's write and its reply's read; `reply` and `outputs` are the supply's; `hk` is what each structure of `p31u` holds |
| `SimServer` | `sim_server.c`, both threads, `main` and the handler | `line` holds bytes, each with the frame and place it was sent from; `serial`, `vis`, `main` are where each thread stands |
| `AcsCoreProofs`, `TorqueCoilsProofs`, `SitlExchangeProofs`, `AcsDevicesProofs`, `Ads1115Proofs`, `EpsTelemetryProofs`, `SimServerProofs` | the theorems about the module each is named after | section 6 |
| `MainProofs` | the theorems about `Lifecycle` and `BootCount`, both of `main.c`; names of the latter that the former has too begin with `Boot` | section 6 |
| `AcsCoreDocs`, `LifecycleDocs`, `SitlExchangeDocs` | statements of comments that the code breaks | one property per finding |

Definitions marked *Mutant* in a comment are no part of a model. They are plausible mistakes in the
definition they stand before; replacing the definition by the mutant makes TLC report the property
listed with it, which shows that the property says something about the code.

### Abstractions

* A buffer slot holds the *age* of its sample, counted in readings; `Mixed` marks a quantity derived
  from two readings that were not neighbours. The values themselves are reduced to the comparisons
  the mode machine makes: `SunView` for the newest sun vector and `SpinView` for the average spin,
  chosen anew at each reading. Comparisons of floating point have three outcomes: below, above, and
  neither (equality or NaN); `Limit` is the third.
* The magnetometer and NaN are choices: any reading can fail, any result can be NaN.
* In `TorqueCoils` the firing times asked for by the vector algebra are inputs; everything done to
  them afterwards is exact, in microseconds. A sleep takes exactly its time. Of a step of the clock
  only the low 32 bits, signed, reach `sleep_time`; the model starts from those, and the conversion
  wraps at both ends (`Above`, `Below`). Of the packet `ncv7708_init` sends without having set it,
  the half-bridge bits are any; its other bits (`ovlo`, `uldsc`, `hbsel`, `srr`), which the actions
  do not touch, and a bridge whose set-up failed with the 0 that passes for a success are left out.
  `insertionSort` also reads `a1[-1]` (`acs.c:932`), which its loop then does not use; the read is
  left out. A firing time of NaN is converted to 0 on the Pi's processor and is then one that is
  below the minimum.
* In `Lifecycle` a broadcast wakes who is asleep then and is otherwise lost; spurious wake-ups are
  allowed. The handler runs on the main thread, where Linux delivers a process-directed signal
  first. `sa_flags` is never assigned in the code, so `SA_RESETHAND` may or may not be set. Of the
  coils it keeps whether one is driven (`driven`) and whether the bridge was not told to turn them
  off (`unheeded`: the turn-offs of the last action were all lost, or no action has followed the
  first packet).
* In `SitlExchange` a frame is its number, or `Garbage` when a byte was lost. A section under
  `serial_write` handles one byte and is one step. An answer can fail to be written, and the
  `tcflush` after it can discard it.
* In `AcsDevices` a transfer reaches the sensor behind the channel that is selected, not the one the
  handle was made for, and `g_CSS` records which sensor a value came from. Any transfer can be lost,
  any number of times; `missed` and `dark` remember which, for the properties to excuse exactly
  those. The channel at the start, and the set of sensors that are on, are any an earlier run could
  have left. The bridge's configuration is in `TorqueCoils`; `CSS_LOW_GAIN` (`tsl2561_set_gain`),
  `FSS_READY`, and the values of the magnetometer are left out.
* `CssLux` computes with the code's integers. TLC's have 31 bits and the code's 32 without a sign, so a
  quotient is taken five bits at a time and `Fits` is written with divisions.
* In `Ads1115` a sample is the input it was converted from and whether its conversion began in the
  current call. A conversion may end at any moment after its start. At the start the configuration,
  the running conversion, the pointer and the register are any that power-up or an earlier run
  leaves. The multiplexer setting has its three bits, so the increment after the last input wraps.
* In `EpsTelemetry` a reply is its command, its error code, and which structure its body is for. The
  supply may refuse any command; it answers within the 10 ms. The byte of a ping is left out.
* In `SimServer` a byte is where it was sent from and whether it is 0xa0, 0xb0 or another. The
  lengths are scaled down from 10 and 88 to 2 and 3, the data still longer than the preamble. Data
  look as they like, and bytes are lost. Two things the framing cannot cope with, and the code does
  nothing about: data that hold a whole preamble (or would with a lost byte left out), and two bytes
  lost in two frames in a row. The history variable `disturbed` remembers that one of them has
  happened, and `OnlyWholeFrames` promises nothing from then on. The rate of losses is bounded by
  `MaxLost` in runs; the proofs hold for every value of it.

## 3. Runs that must pass

**`acs_loop`** (`AcsRefinement`, 64 slots as in the code, about 290,000 states).
`DecisionWindow`: a decision averages the last 64 angular velocities and sun vectors, each once.
`NewestCoherent`: what is published and acted on stems from one reading. `FilterWindows`: the
filters' walks meet consecutive samples. `SafeWithoutData`: without a window the mode is NIGHT, or
still the first DETUMBLE. `SunModesSeeSun`: what `sunpointAction` uses unchecked is there.
`ImplementsModes`: the refinement. `Recovers` and `SettledBecomesReady`: after the last fault the
window fills again, and a settled, aligned satellite becomes READY.
The shape of the buffers is deterministic between faults, so the real size is affordable; a fault
can hit at every reading of every turn, and the run covers more than two turns of every buffer.

**`torque_coils`** (about 1,525,000 states). The constants of `acs.h`; readings that take nothing, a
part of, exactly, and more than their 20 ms; clocks set on and back by little, by a second, by more
than a cycle, and by amounts that come out of the conversion to 32 bits near its ends; firing times
just below and at the minimum, in the middle, and above the cap, for three coils in every
combination and direction, so that ties, zeros and every order of sorting occur; pulses below, at
and above each threshold of `sunpointAction`; up to four lost transmissions in a row, one more than
any script can tolerate except the detumble script, whose tolerance is exactly four; a first packet
of any content. `CycleTakesItsTime`: the measurement takes 20 ms or its reading if that is longer,
unless the clock is set: set on, it ends early but not before the reading, and set back, it lasts
longer by at most the low 32 bits of the step, which can be half an hour; with one exception, named
in the property: a reading that overran its 20 ms while the clock was set on by almost 2^31
microseconds makes the difference wrap to a positive `int`; the action takes the other 80 ms (and up
to four one-microsecond pauses). `FiredAsCommanded`: each coil is on for its command.
`CoilsOffForMeasurement`: how many losses in a row each script survives, once an action has begun.
Before that coils can be on in every measurement without any loss (section 4).

**`lifecycle`** (about 15,600 states). All three builds; two SIGINTs, because the second meets a
handler that is running, threads already on their way out, or `SA_RESETHAND`. `JoinedBeforeDestroy`;
`CoilsOffAtReturn` (no coil is driven at an orderly end, except in the HITL build when the bridge
was not told: the thread always runs to the end of its action, but a turn-off is not acknowledged);
`InterruptEnds` (a SIGINT that finds no thread between its test of `done` and its wait ends the
program), `SerialEnds`.

**`sitl_exchange`** (about 142,000 states). Numbers up to 2 tell a newer frame or cycle from an
older one from none; the counters then stop and the threads go on, so liveness is not cut short. Two
commands, two packet pieces, three frame pieces. `WholeFrames`; `AtomicExchange`, the refinement of
`SitlRegister`, in which all three pieces of the stored and of the copied frame must agree whenever
neither a store nor a copy is under way, so that skipping `serial_read` on either side breaks it;
`CommandArrives`.

**`boot_count`** (about 1,000 states). Four boots: one to lose the count, one to restart it, one to
collide, one to continue. `OwnLog`, `DurableCount`.

**`acs_devices`** (about 3,503,000 states). Both builds (`CSS_READY` or not), three channels of two
sensors: three channels so that a walk has a first, a middle and a last one, two sensors because the
body of the inner loop does the same for the third. Counts at zero and one, at the limits of the
segments, on both sides of the clipping threshold, and at full scale. `InitFindsSensors`,
`OwnBrightness`, `PoweredDown`, `LuxExact`.

**`ads1115`** (about 1,110,000 states). All four inputs, every configuration, register and pointer
an earlier run leaves, every transfer lost or not, and a converter that finishes at any moment.
`SuccessIsSampled`: a success of `ads1115_read_data` stored four samples, never the configuration,
the zero of a lost read or the register of a converter that has not converted yet, and the first of
them was converted from AIN0 in this call if the converter was idle. Nothing like the last holds of
the other three entries (section 4), and `ads1115_read_cont` awaits nothing at all: on a converter
that has not converted yet, its success stores that register first, and samples only from the first
conversion on. `PollEnds`: the two unbounded polls end.

**`eps_telemetry`** (about 600,000 states). A telemetry thread that makes any call and a watchdog
thread whose command can come between any two of its steps; two modes of housekeeping data and the
structure of `eps_hk`, which tell an answer from another's; two channels; delays of zero and of more
than a byte. `HkIsAnswer`: the structures hold the answers to requests for them. `OutputsAsTold`: a
success of `eps_set_output` or `eps_set_single` with a reply that says so has set the outputs. Both
hold with a watchdog thread, whose reply names another command; two threads that ask for
housekeeping data would break `HkIsAnswer`, and `eps_telem.h` does not plan for two.

**`sim_server`** (about 2,459,000 states). A server that starts anywhere in a frame, data of any
look, one byte lost in any two frames in a row, SIGINTs at any time with `SA_RESETHAND` or without.
`OnlyWholeFrames`: only data of one frame are stored, until the line is disturbed (section 2).
`Resyncs`: after the last loss and the last data that hold a preamble, frames are found again and
again, also when the line was disturbed before. `ServerStops`: who keeps sending SIGINT ends the
server; that a single one can be lost is a fact it works around. One byte is the most the framing
tolerates: with two, TLC finds an end that is missing and data that end in 0xa0, which together pass
for a frame. With `MaxLost = 2` the invariants were checked too (6.3 million states); the temporal
properties take too long there. A line of five bytes holds all that is read after a preamble.

Every action of every module fires in its run. TLC's deadlock check is on everywhere.

## 4. Runs that show a disagreement

Each checks one statement of a comment and ends in a counterexample.

| run | statement | what happens |
| --- | --- | --- |
| `docs_nan_check` | `acs.c:550` "check if any of the values are NaN" | on the second reading after a flush `g_W[-1]` is tested |
| `docs_interrupt` | `main.c:94` the handler "Wakes up sitl_comm and datavis threads to ensure they exit" | a broadcast before the wait is lost and `main` joins for ever |
| `docs_packet` | `datavis.c:17` "Mutex to ensure atomicity of DataVis and ACS variable access" | the writer does not lock it; a packet mixes two cycles |

Disagreements met and not given a run. In the control loop and the devices: `acs.c:630` declares
READY "if the satellite is detumbled, it is not night and the sun angle is less than 4 deg", and the
sun angle alone decides, over a pending DETUMBLE; `acs.c:625` gives the change to night a full
buffer's cycles, and one dark sun vector makes it; `main.c:33` counts boots "to generate a different
log file at every boot", and a boot cut short between truncation and write restarts the count;
`acs.h:81` says `acs_init` returns "1 on success, error codes defined in SH_ERRORS on error", and
`ncv7708_init`'s 0 (`ncv7708.c:29`) is taken for a success; `acs.c:689` says "wait till there is
available data on serial" and the signal precedes the first frame; without `CSS_READY`,
`acs_destroy` closes a multiplexer that was never opened; a saturated sensor reports 65536, less
than the 69756 an unsaturated one can; `acs.c:600` says "go to Sunpointing mode" and the code goes
to NIGHT, which the next decision leaves; `acs.c:715` speaks of 64 cycles of reading after a flush
and the code takes 67 good readings (`WindowReadings`); `acs.c:662` "Detumble required" in READY is
always overwritten; `Bdot_full` is never set because `readSensors` sets `B_full` in its place, at a
moment when `B_full` is set already; `acs.c:914` says coil number 2 "turns off ALL hbridges";
`acs.c:257` says no torquer fires for less than 5 ms, and a coil whose time was dropped is on for a
microsecond.

In the loop's way of driving the coils: `acs.c:259` says "all torquers are turned off for the next
magnetic field measurement", and the packet `ncv7708_init` allocates is sent with the half-bridge
bits `malloc` left in it (`ncv7708.c:38`, `115-121`), while cycles without an action (`acs.c:770`)
transmit nothing, so coils may be driven in every measurement before the first action; a turn-off
whose transfer fails is not repeated by anyone at the program's end (`acs.c:835`, `921`), so coils
may be driven after `main` returns. `acs.c:762` fills the measurement up to 20 ms, and a clock set
back, or set on by some 35.8 minutes during a reading that overran, makes it sleep for about as
long. `sitl_comm.c:158` discards with `tcflush` what the line has not sent yet, the answer it has
just written included.

In the converter's driver: `ads1115.h` promises a return of 1 or -1, and a lost transfer after the
first gives 0; only the first conversion is awaited, so the entries after it hold what the register
held, an earlier input's conversion included; `ads1115_destroy`, which "Powers down ADS1115 device",
closes the descriptor; a local `adc` in `acs_init` hides the global, so `acs_destroy` passes NULL to
`ads1115_destroy`, and nothing sets the file name before `ads1115_init`.

In the EPS driver: `p31u_init` allocates a structure of its own and never fills the caller's;
`p31u_xfer` compares the command with the reply, but `eps_ping` gives it one buffer for both;
`eps_set_output` and `eps_set_single` do not look at the reply's error byte; replies are copied raw
although the supply is big endian; and the struck-out TODO speaks of a mutex that is not there.

In the simulator server: reading ten 0xa0 "to make sure you got the full frame" is no such thing
when the data hold ten, or two end bytes are lost; a serial line that does not open ends its thread
and leaves the other waiting until SIGINT.

## 5. Fairness

`AcsCore`: weak fairness of the thread's loop. The loop has no wait except sleeps, and every branch
ends at its top, so the scheduler alone justifies it. Faults and SIGINT have no fairness; `Recovers`
and `SettledBecomesReady` assume in their own text that faults stop. `Lifecycle`: weak fairness of
`main`, of the handler, and of each thread's own steps. The arrival of a preamble, of a signal and
of a spurious wake-up are not fair. A thread asleep is not enabled. `SitlExchange`: weak fairness of
`sitl_comm` and `acs_thread`; that the simulator sends and that a write succeeds again and again is
an assumption inside `CommandArrives`. `datavis_thread` needs none. `Ads1115`: weak fairness of the
driver's steps and of the converter's; that some status read shows a running conversion, and some
its end, is an assumption inside `PollEnds`, as strong fairness of those reads. `SimServer`: weak
fairness of the two threads and of `main`. That losses cease, that frames whose data do not begin
with 0xa0 keep coming, that data that hold a preamble no longer do, and that the pauses of the
reader are long enough are assumptions inside `Resyncs`; that the sender of SIGINTs keeps on is one
inside `ServerStops`. `TorqueCoils`, `BootCount`, `AcsDevices` and `EpsTelemetry` state safety only.

## 6. What is proved

Each module of proofs has the same shape: the parts of an inductive invariant `IInv`, lemmas about
the operators of the model, one lemma for each part that a step could disturb (with a case for each
action), the theorem `Inductive` (`Spec => []IInv`), and one theorem for each invariant, drawn from
it. Each `IInv` was checked by TLC on the bounds of its run before it was proved (that of
`SimServer` also with preambles of one to three bytes and data of one and two). The theorem
`TypeCorrect` of each module states its `TypeOK`, which says more than types where ranges matter;
for the boot counter these are `BootIInv`, `BootInductive`, `BootTypeCorrect` and `BootTypeOK`.

| module of proofs | theorems, and the property of a run each states | for every |
| --- | --- | --- |
| `AcsCoreProofs` | `DecidesFromWindow` (`DecisionWindow`), `OneInstant` (`NewestCoherent`), `FiltersSeeConsecutive` (`FilterWindows`), `NightUntilFull` (`SafeWithoutData`), `SunInView` (`SunModesSeeSun`), `Refinement` (`ImplementsModes`) | `SH_BUFFER_SIZE` of at least 3 (`getOmega` needs three readings) |
| `TorqueCoilsProofs` | `DrivenAsCommanded` (`FiredAsCommanded`), `CycleIsKept` (`CycleTakesItsTime`), `OffForMeasurement` (`CoilsOffForMeasurement`) | firing times, pulses, durations of readings, steps of the clock that fit an `int`, number of losses |
| `MainProofs` | `NoThreadUnderDestroy` (`JoinedBeforeDestroy`), `ReturnsWithCoilsOff` (`CoilsOffAtReturn`) | build and number of SIGINTs |
| `SitlExchangeProofs` | `FramesAreWhole` (`WholeFrames`), `Atomicity` (`AtomicExchange`) | set of commands, length of packets, number of frames and cycles |
| `MainProofs` | `LogOfItsOwn` (`OwnLog`), `CountIsDurable` (`DurableCount`) | number of boots |
| `AcsDevicesProofs` | `InitNoticesSensors` (`InitFindsSensors`), `BrightnessIsOwn` (`OwnBrightness`), `DestroyPowersDown` (`PoweredDown`), `BrightnessIsExact` (`LuxExact`) | number of channels and of sensors on each, and counts of 16 bits |
| `Ads1115Proofs` | `SuccessHasSamples` (`SuccessIsSampled`) | order of calls, losses and conversions (it has no bound) |
| `EpsTelemetryProofs` | `HousekeepingIsAnswer` (`HkIsAnswer`), `OutputsAreSet` (`OutputsAsTold`), `DelayArrives` (a delay's two bytes) | watchdog threads, modes, channels, delays of 16 bits |
| `SimServerProofs` | `OnlyFramesStored` (`OnlyWholeFrames`) | length of preamble and data, capacity of the line, number of lost bytes |

### Assumptions

The proofs rest on the assumptions the modules state about their constants and on no others. They
are as weak as the code justifies. `TimesAssumption` is the only long one: the durations of `acs.h`
are natural numbers that fit an `int`, the shortest firing time is positive and less than the
longest, the longest is what a cycle leaves after the measurement, a duty cycle is a multiple of the
10 ms to which `sunpointAction` rounds, and an action has whole duty cycles. `acs.h` has 100, 20, 10
and 80 ms, and duty cycles of 20 ms. `DevicesAssumption`: there are channels and sensors, and counts
have 16 bits. `EpsAssumption`: the telemetry thread is not a watchdog, and delays have 16 bits. TLC
evaluates all of them in the runs. `FramingAssumption` of `SimServer` asks for a byte of preamble
and one of data.

No theorem has a hypothesis beyond these. `OnlyFramesStored` names in its property what ends the
promise: two bytes lost in two frames in a row, or data that hold a preamble. Neither can be
dropped; TLC finds a mixture stored after each (section 2).

### The arguments

**`AcsCore`.** None of the invariants is inductive. The heart of `IInv` is a statement about a ring:
if `n` values have been written since the last flush, the slot `d` places behind the index holds age
`d` (plus one while the new reading has not reached that buffer yet) for `d < n`, and is zeroed
beyond. Index and full flag are functions of that count, and the counts of the four buffers differ
by constants that depend only on where the loop stands: the rate is one reading behind the field,
the angular velocity two. Ring lemmas (`RingAging`, `RingAdvance`, `RingDerived`, `EmptyRing`) say
what a reading, a write, a derivation and a flush do to it. The refinement maps `ReadField` to
`Reading`, `GetSVec` to `Look`, the flush to `Fault`, `CheckTransition` to `Decide`, and every other
step to a stutter; it needs `IInv` to know that `Streak` grows by one.

**`TorqueCoils`.** The properties speak of the end of an action, so the invariant must say what
holds after each operation of its script. `DetumbleInv`: what is left of the script is its tail
after some `k` of eleven operations, and `k` determines the time gone by, the configuration, and, if
nothing was lost, what each coil has been driven for. `SunpointInv`: the same with a period `n` and
a step `b` in it, for a train of any number of periods. Underneath lie `OrderSorts` (the insertion
sort returns an order of the three coils with ascending times), `DueInOrder` (the pauses are
differences of it, so they add up to the times), `PulseFits` (rounding after the cap does not leave
the duty cycle) and `DetumbleOps`, `SunpointOps`, which say what a script's tail begins with.
`LostInv` ties coils left on to the losses in a row, from the first action on. `MeasuredInv` and
`SleepIs` carry the arithmetic of the sleep, the wraps of its conversion included. The script of a
pulse train is a function of positions, not a concatenation, so that a tail can be reasoned about
without recursion.

**`Lifecycle`.** `BornInv` says which threads are unborn, running and ended at each place of `main`:
those it has yet to create, and those it has joined. With it, a `main` that destroys has joined them
all. `DrivenInv` keeps driven coils inside an action, which an ended thread is not in, or charges
them to a bridge that was not told; only the HITL build has one.

**`SitlExchange`.** `LockInv` says who holds `serial_read`; `StoreInv`, that the pieces stored so
far are of the frame in hand and the others of one earlier frame; `CopyInv`, that the pieces copied
are those that can be read, which the lock keeps from changing. The refinement takes the frame of
all pieces together (`Whole`) and, while a store or a copy is under way, that of the last piece:
moving the last piece is the register's write, or its read, and the invariant says that the other
pieces agree with it at that moment; `g_Fire` is a register already.

**`BootCount`.** `CountInv` bounds every count by the boots so far. `LogInv` says, for each step of
an update that is not cut short, which of the file, the medium and the count in memory is ahead of
all logs.

**`AcsDevices`.** A walk visits sensors in the order of `Passed`; `PoweredInv` and `OffInv` say what
holds of the sensors it is past, `SelectedInv` that the channel is the walk's own or its selection
was lost, and `MuxInv` that a multiplexer that was never reached still has the channel of an earlier
run, which is why acs_init may succeed without it. `Walk` says that a step passes just one sensor
and that a walk that is over has passed all. `LuxExact` follows from lemmas that follow
`tsl2561_get_lux`: the ratio (`RatioIs`), the segment it falls in (`WeightsIs`), that in each the
second channel's share is less than the first's (`Weighted`), and that their products fit 32 bits
(`ScaledIs`, `LuxIs`); the quotients taken five bits at a time are plain quotients (`DivMod`). Its
bound is the brightness of the largest count that is not clipped.

**`Ads1115`.** `AskedInv` and `RunningInv`: in a call that found the converter idle, the only
conversion that runs or has filled the register is that of AIN0, until the first entry has been
stored; `FirstInv` keeps it there. Without the condition that the converter was idle the first of
these is false, as in the code. `LostInv`: whoever can still succeed has lost no transfer.
`ConvertedInv`: past its wait a single-shot call has a register with a sample. `FilledInv`,
`BlankInv` and `OrderInv`: entries are filled in order from that register, and one without a sample
is of a continuous call and of a time before all samples.

**`EpsTelemetry`.** `Answered`: the reply that is waiting names the telemetry call's command and has
no error. Then `BodyInv` says it has the right body and `OutputsInv` that the outputs are set,
because the watchdog threads (`WatchdogInv`) can put no reply of that name in its place, and their
commands set no output.

**`SimServer`.** `Received`, until the line is disturbed: the bytes counted as a preamble, followed
by those on the line, are one stretch of what was sent (`Stream`). The counted ones are gone from
the state, so the invariant says that bytes exist that they can have been. A stretch is `InOrder`
(between any two of its bytes that are less than a frame apart at most one is missing), `UpToDate`
(the same holds up to the byte that is sent next, and a missing one is still on record in `lost`:
this is what forbids a second), `Framed` (preambles and ends look like it) and free of preambles
made of data (`NoDisguise`, which ties the bytes to the simulator's `a0s`). Sending a byte lengthens
the stretch (`SendKeeps`), losing one keeps it (`LoseKeeps`), reading moves the border between
counted and waiting or cuts the front off (`Suffix`). `WholeBody` is the heart: if as many bytes as
a preamble has look like one, and the two at the distance of an end look like an end, what lies
between is one frame's data. One of the counted bytes is of a real preamble. The last counted one
cannot come before that preamble's end, or the run would have begun inside the end of the frame
before; nor after it, or the last byte taken would be of the next preamble, which does not look like
an end. So the first and the last byte are in their places, and nothing is missing between them.

### Only model-checked

Liveness under fairness is beyond the provers in use: `Recovers`, `SettledBecomesReady`,
`InterruptEnds`, `SerialEnds`, `CommandArrives`, `PollEnds`, `Resyncs`, `ServerStops`. Every other
property of a run in section 3 is a theorem. That the three findings violate their statements is
shown by TLC's counterexamples.

## 7. Plan

Written: the modules of section 2, in that order, the core first because every other component serves
it, and the proofs of section 6. What is left is the byte-by-byte read of the magnetometer against a
running conversion, with block data update off (`lsm9ds1.c:198`).

## 8. Not modelled, and why

Floating point: filter coefficients, vector algebra, angles; outside TLC's reach except as outcomes of
comparisons. Socket and termios set-up: calls with no state of the program's own. Data logging and
printing. The magnetometer's registers one by one. Functions `eps_telem.h` declares without a definition
anywhere. The UHF, X band and beam former stubs (empty). Ground tools in Python in `visualization/` and
`calibration/`, which share no state with the flight program.
