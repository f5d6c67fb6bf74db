----------------------------- MODULE AcsDevices -----------------------------
(***************************************************************************)
(* The devices of the attitude control system, without SITL: acs_init and  *)
(* acs_destroy, the measurements of readSensors, and the drivers of the    *)
(* H-bridge (ncv7708), the multiplexer (tca9458a), the coarse sun sensors  *)
(* (tsl2561) and the magnetometer (lsm9ds1), as far as they open, select,  *)
(* power and fail.                                                         *)
(*                                                                         *)
(* The coarse sun sensors of all channels share their addresses: a         *)
(* transfer reaches the one behind the channel the multiplexer has         *)
(* selected, which it remembers, as a sensor does its power, when the      *)
(* program is started again.  A transfer can be lost; whether the code     *)
(* notices is what the actions say.                                        *)
(***************************************************************************)
EXTENDS CssLux

CONSTANTS
    CHANNELS, ADDRESSES, \* channels of the multiplexer in use, sensors on each (3 and 3)
    Counts               \* what a channel of a sensor can count

ASSUME DevicesAssumption ==
    /\ CHANNELS \in Nat \ {0} /\ ADDRESSES \in Nat \ {0}
    /\ Counts \subseteq Count

Channel == 0 .. CHANNELS - 1
Sensor  == Channel \X (0 .. ADDRESSES - 1)
NoChannel == -1
NoSensor  == <<-1, -1>>

Pass == {"init", "read", "destroy"}     \* the three walks over the sensors

\* A descriptor: as malloc left it, -1 after open failed, open, or closed.
Descriptor == {"garbage", "none", "open", "closed"}

VARIABLES
    css_ready,         \* the program is built with CSS_READY
    pass,              \* "init", "loop", "read", "destroy", "down" or "failed"
    step,              \* the device the pass is at
    at,                \* the sensor a walk is at
    \* the devices
    selected,          \* the channel the multiplexer has selected
    left,              \* the one it had selected when the program started
    powered,           \* sensors with their power on
    \* the handles
    hbridge, mux, css, mag,
    \* the measurement
    g_CSS,             \* for each handle, the sensor its value is from
    counts,            \* the counts of the sensor just read, a local of the loop
    \* what was lost
    missed,            \* channels whose selection was lost, in each pass
    dark               \* sensors whose power-off was lost

hardware == <<selected, left, powered>>
handles  == <<hbridge, mux, css, mag>>
readings == <<g_CSS, counts>>
losses   == <<missed, dark>>
vars == <<css_ready, pass, step, at, hardware, handles, readings, losses>>

NotMeasured == <<0, 0>>

Unread == [s \in Sensor |-> NoSensor]

\* After power-up, or after an earlier run that was killed anywhere: walks cut short, and
\* transfers they lost, can have left any of the sensors on.
Init ==
    /\ css_ready \in BOOLEAN
    /\ pass = "init" /\ step = "hbridge" /\ at = <<0, 0>>
    /\ selected \in Channel \cup {NoChannel} /\ left = selected
    /\ powered \in SUBSET Sensor
    /\ hbridge = "garbage" /\ mux = "garbage" /\ mag = "garbage"
    /\ css = [s \in Sensor |-> "garbage"]
    /\ g_CSS = Unread /\ counts = NotMeasured
    /\ missed = [p \in Pass |-> {}] /\ dark = {}

-----------------------------------------------------------------------------
(* The multiplexer and the walks over the sensors.                         *)

\* The sensor that answers at the address of the handle the walk is at.
Reached == IF selected = NoChannel THEN NoSensor ELSE <<selected, at[2]>>

\* tca9458a_set: the multiplexer takes the channel, or the write is lost.
SetMux(channel) ==
    \/ mux = "open" /\ selected' = channel
    \/ UNCHANGED selected

\* Mutant: only the first walk after the start selects; "init left it at the last one".
SelectOnlyInInit ==
    /\ step = "select"
    /\ step' = "css"
    /\ \/ pass = "init" /\ mux = "open" /\ selected' = at[1] /\ UNCHANGED missed
       \/ pass # "init" /\ UNCHANGED <<selected, missed>>
       \/ missed' = [missed EXCEPT ![pass] = @ \cup {at[1]}] /\ UNCHANGED selected
    /\ counts' = NotMeasured
    /\ UNCHANGED <<css_ready, pass, at, left, powered, handles, g_CSS, dark>>

\* tca9458a_set(mux, i), whose result no walk looks at.
Select ==
    /\ step = "select"
    /\ step' = "css"
    /\ \/ mux = "open" /\ selected' = at[1] /\ UNCHANGED missed
       \/ missed' = [missed EXCEPT ![pass] = @ \cup {at[1]}] /\ UNCHANGED selected
    /\ counts' = NotMeasured
    /\ UNCHANGED <<css_ready, pass, at, left, powered, handles, g_CSS, dark>>

\* Mutant: <= for < in the loop over channels.
WalkOnTooFar(end) ==
    IF at[2] < ADDRESSES - 1 THEN at' = <<at[1], at[2] + 1>> /\ step' = "css"
    ELSE IF at[1] <= CHANNELS - 1 THEN at' = <<at[1] + 1, 0>> /\ step' = "select"
    ELSE at' = <<0, 0>> /\ step' = end

\* The walk goes on to the next handle, and after the last one to end.
WalkOn(end) ==
    IF at[2] < ADDRESSES - 1 THEN at' = <<at[1], at[2] + 1>> /\ step' = "css"
    ELSE IF at[1] < CHANNELS - 1 THEN at' = <<at[1] + 1, 0>> /\ step' = "select"
    ELSE at' = <<0, 0>> /\ step' = end

\* tca9458a_set(mux, 8) after the walks of acs_init and acs_destroy.
Deselect ==
    /\ step = "deselect"
    /\ SetMux(NoChannel)
    /\ step' = IF pass = "init" THEN "mag" ELSE "mux"
    /\ UNCHANGED <<css_ready, pass, at, left, powered, handles, readings, losses>>

-----------------------------------------------------------------------------
(* acs_init.                                                               *)

\* malloc returned NULL, or a driver a negative value: main ends the process.
InitFails ==
    /\ pass' = "failed" /\ step' = "none"
    /\ UNCHANGED <<css_ready, at, selected, left, handles, readings, losses>>

AllocationFails ==
    /\ pass = "init" /\ step = "hbridge"
    /\ InitFails
    /\ UNCHANGED powered

\* ncv7708_init.  When the file does not open or an ioctl fails it returns 0 before it
\* has stored the descriptor or set the enable bits, and acs_init goes on.
HbridgeInit ==
    /\ pass = "init" /\ step = "hbridge"
    /\ hbridge' \in {"open", "garbage"}
    /\ step' = IF css_ready THEN "mux" ELSE "mag"
    /\ UNCHANGED <<css_ready, pass, at, hardware, mux, css, mag, readings, losses>>

\* Its first transmission is lost.
HbridgeInitFails ==
    /\ pass = "init" /\ step = "hbridge"
    /\ InitFails
    /\ UNCHANGED powered

\* tca9458a_init.  It returns 0, no failure to acs_init, when the bus does not open,
\* and 1 & -1 = 1 when the write that disables the channels is lost.
MuxInit ==
    /\ pass = "init" /\ step = "mux"
    /\ \/ mux' = "open" /\ selected' \in {NoChannel, selected}
       \/ mux' = "none" /\ UNCHANGED selected
    /\ step' = "select"
    /\ UNCHANGED <<css_ready, pass, at, left, powered, hbridge, css, mag, readings, losses>>

MuxInitFails ==
    /\ pass = "init" /\ step = "mux"
    /\ InitFails
    /\ UNCHANGED powered

\* Mutant: the power is not verified.
CssInitUnverified ==
    /\ pass = "init" /\ step = "css"
    /\ powered' \in {powered, powered \cup ({Reached} \cap Sensor)}
    /\ css' = [css EXCEPT ![at] = "open"]
    /\ WalkOn("deselect")
    /\ UNCHANGED <<css_ready, pass, selected, left, hbridge, mux, mag, readings, losses>>

\* tsl2561_init: power the sensor on, which may be lost, and verify that it is on.
CssInit ==
    /\ pass = "init" /\ step = "css"
    /\ Reached \in Sensor
    /\ powered' \in {powered, powered \cup {Reached}}
    /\ Reached \in powered'
    /\ css' = [css EXCEPT ![at] = "open"]
    /\ WalkOn("deselect")
    /\ UNCHANGED <<css_ready, pass, selected, left, hbridge, mux, mag, readings, losses>>

\* The bus did not open, or the answer was lost or is that the power is off.
CssInitFails ==
    /\ pass = "init" /\ step = "css"
    /\ powered' \in {powered, powered \cup ({Reached} \cap Sensor)}
    /\ InitFails

\* lsm9ds1_init.  Registers it could not write make it return 0: no failure either.
MagInit ==
    /\ pass = "init" /\ step = "mag"
    /\ mag' = "open"
    /\ pass' = "loop" /\ step' = "none"
    /\ UNCHANGED <<css_ready, at, hardware, hbridge, mux, css, readings, losses>>

MagInitFails ==
    /\ pass = "init" /\ step = "mag"
    /\ InitFails
    /\ UNCHANGED powered

-----------------------------------------------------------------------------
(* readSensors.                                                            *)

ReadSensors ==
    /\ pass = "loop"
    /\ pass' = "read" /\ step' = "mag" /\ at' = <<0, 0>>
    /\ g_CSS' = Unread /\ counts' = NotMeasured
    /\ missed' = [missed EXCEPT !["read"] = {}]
    /\ UNCHANGED <<css_ready, hardware, handles, dark>>

\* lsm9ds1_read_mag, and without CSS_READY the end of the measurement.
ReadMag ==
    /\ pass = "read" /\ step = "mag"
    /\ IF css_ready THEN step' = "select" /\ UNCHANGED pass
                    ELSE step' = "none" /\ pass' = "loop"
    /\ UNCHANGED <<css_ready, at, hardware, handles, readings, losses>>

\* tsl2561_measure and tsl2561_get_lux.
CssMeasure ==
    /\ pass = "read" /\ step = "css"
    /\ Reached \in Sensor
    /\ g_CSS' = [g_CSS EXCEPT ![at] = Reached]
    /\ counts' \in Counts \X Counts
    /\ WalkOn("none")
    /\ pass' = IF step' = "none" THEN "loop" ELSE "read"
    /\ UNCHANGED <<css_ready, hardware, handles, losses>>

\* The magnetometer fails, or errno is set by a transfer of a sensor: readSensors
\* returns there, with the channel left selected.
ReadFails ==
    /\ pass = "read" /\ step \in {"mag", "css"}
    /\ pass' = "loop" /\ step' = "none"
    /\ counts' = NotMeasured
    /\ UNCHANGED <<css_ready, at, hardware, handles, g_CSS, losses>>

-----------------------------------------------------------------------------
(* acs_destroy, after the threads have ended.                              *)

\* What the measurements left in the bookkeeping is forgotten.
AcsDestroy ==
    /\ pass = "loop"
    /\ pass' = "destroy" /\ at' = <<0, 0>>
    /\ step' = IF css_ready THEN "select" ELSE "mux"
    /\ g_CSS' = Unread /\ counts' = NotMeasured       \* not looked at any more
    /\ missed' = [missed EXCEPT !["read"] = {}]
    /\ UNCHANGED <<css_ready, hardware, handles, dark>>

\* Mutant: the descriptor is closed before the sensor is powered down.
CssDestroyClosedFirst ==
    /\ pass = "destroy" /\ step = "css"
    /\ css' = [css EXCEPT ![at] = "closed"]
    /\ WalkOn("deselect")
    /\ UNCHANGED <<css_ready, pass, hardware, hbridge, mux, mag, readings, losses>>

\* tsl2561_destroy: power the sensor off, which may be lost, and close.
CssDestroy ==
    /\ pass = "destroy" /\ step = "css"
    /\ \/ powered' = powered \ {Reached} /\ UNCHANGED dark
       \/ dark' = dark \cup {at} /\ UNCHANGED powered
    /\ css' = [css EXCEPT ![at] = "closed"]
    /\ WalkOn("deselect")
    /\ UNCHANGED <<css_ready, pass, selected, left, hbridge, mux, mag, readings, missed>>

\* tca9458a_destroy, whatever the handle holds.
MuxDestroy ==
    /\ pass = "destroy" /\ step = "mux"
    /\ SetMux(NoChannel)
    /\ mux' = "closed"
    /\ step' = "mag"
    /\ UNCHANGED <<css_ready, pass, at, left, powered, hbridge, css, mag, readings, losses>>

\* lsm9ds1_destroy and ncv7708_destroy.
MagAndHbridgeDestroy ==
    /\ pass = "destroy" /\ step = "mag"
    /\ mag' = "closed" /\ hbridge' = "closed"
    /\ pass' = "down" /\ step' = "none"
    /\ UNCHANGED <<css_ready, at, hardware, mux, css, readings, losses>>

Ended == pass \in {"down", "failed"} /\ UNCHANGED vars

Next ==
    \/ AllocationFails \/ HbridgeInit \/ HbridgeInitFails \/ MuxInit \/ MuxInitFails
    \/ Select \/ CssInit \/ CssInitFails \/ Deselect \/ MagInit \/ MagInitFails
    \/ ReadSensors \/ ReadMag \/ CssMeasure \/ ReadFails
    \/ AcsDestroy \/ CssDestroy \/ MuxDestroy \/ MagAndHbridgeDestroy
    \/ Ended

Spec == Init /\ [][Next]_vars

-----------------------------------------------------------------------------
(* Properties.                                                             *)

\* Every variable keeps its type; in particular a walk never leaves the sensors.
TypeOK ==
    /\ css_ready \in BOOLEAN
    /\ pass \in Pass \cup {"loop", "down", "failed"}
    /\ step \in {"hbridge", "mux", "select", "css", "deselect", "mag", "none"}
    /\ at \in Sensor
    /\ selected \in Channel \cup {NoChannel} /\ left \in Channel \cup {NoChannel}
    /\ powered \subseteq Sensor
    /\ hbridge \in Descriptor /\ mux \in Descriptor /\ mag \in Descriptor
    /\ css \in [Sensor -> Descriptor]
    /\ g_CSS \in [Sensor -> Sensor \cup {NoSensor}]
    /\ counts \in Count \X Count
    /\ missed \in [Pass -> SUBSET Channel] /\ dark \subseteq Sensor

Initialised == pass \in {"loop", "read"}

\* acs_init succeeds only with the power of every sensor on that it could select, even
\* where a write that should turn it on is lost; and a multiplexer that did not open,
\* which tca9458a_init and acs_init between them take for a success, is noticed by the
\* sensors' not answering, unless an earlier run left a channel selected.
InitFindsSensors ==
    Initialised /\ css_ready =>
        /\ \A s \in Sensor : s[1] \notin missed["init"] => s \in powered
        /\ mux = "open" \/ left # NoChannel

\* A brightness is that of the sensor it is stored for, not of another channel's at the
\* same address: after measurements that ended half way, with the channel they were at
\* left selected, and whatever is lost except that channel's own selection.
OwnBrightness ==
    \A s \in Sensor :
        g_CSS[s] # NoSensor /\ s[1] \notin missed["read"] => g_CSS[s] = s

\* "Powers down ACS devices": after acs_destroy a sensor is on only if its power-off or
\* its channel's selection was lost there, wherever the last measurement stopped.
PoweredDown ==
    pass = "down" /\ css_ready =>
        \A s \in powered : s \in dark \/ s[1] \in missed["destroy"]

\* No product of tsl2561_get_lux wraps at 32 bits, no difference below zero, for any
\* counts that are not taken for saturated, and so no dim sensor reads as bright.
LuxExact == Fits(counts[1], counts[2]) /\ Lux(counts[1], counts[2]) \in 0 .. Brightest
=============================================================================
