-------------------------- MODULE AcsDevicesProofs --------------------------
(***************************************************************************)
(* Proofs about the devices of the attitude control system, for any number *)
(* of channels and of sensors on each: what the three walks over the       *)
(* sensors reach, and what the brightness of one is calculated as.         *)
(***************************************************************************)
EXTENDS AcsDevices, TLAPS

\* The walk that is under way is past sensor s.
Passed(s) == s[1] < at[1] \/ (s[1] = at[1] /\ s[2] < at[2])

Walking == step \in {"select", "css"}

\* The walk is past s, or over.
WalkedPast(s) == (Walking /\ Passed(s)) \/ step \in {"deselect", "mag"}

\* Where walks begin, and that each of them has a pass to count its losses in.
WalkInv ==
    /\ Walking => css_ready /\ pass \in Pass
    /\ pass = "init" /\ step \in {"hbridge", "mux"} => at = <<0, 0>>
    /\ pass = "init" /\ step = "mux" => css_ready
    /\ pass = "read" /\ step = "mag" => at = <<0, 0>>
    /\ step = "select" => at[2] = 0
    /\ step \in {"deselect", "mux"} => pass \in {"init", "destroy"}

\* The sensor that answers is the one the walk is at, or its selection was lost.
SelectedInv == step = "css" => selected = at[1] \/ at[1] \in missed[pass]

\* Sensors the walk of acs_init is past are on, if it could select them.
PoweredInv ==
    pass = "init" /\ css_ready =>
        \A s \in Sensor : WalkedPast(s) /\ s[1] \notin missed["init"] => s \in powered

\* A sensor has answered in acs_init.
Answered ==
    /\ pass = "init" /\ css_ready
    /\ (Walking /\ at # <<0, 0>>) \/ step \in {"deselect", "mag"}

\* Without a multiplexer the channel of the earlier run stays selected, and the first
\* sensor to answer shows that there was one.
MuxInv ==
    /\ pass = "init" /\ step \in {"hbridge", "mux"} => mux = "garbage"
    /\ pass \in {"init", "loop", "read"} /\ mux # "open" => selected = left
    /\ Answered => mux = "open" \/ left # NoChannel

\* Sensors the walk of acs_destroy is past are off, or their power-off was lost.
OffInv ==
    pass = "destroy" /\ css_ready =>
        \A s \in powered :
            WalkedPast(s) \/ step = "mux" => s \in dark \/ s[1] \in missed["destroy"]

IInv ==
    /\ TypeOK
    /\ WalkInv /\ SelectedInv
    /\ PoweredInv /\ MuxInv /\ InitFindsSensors
    /\ OwnBrightness
    /\ OffInv /\ PoweredDown

-----------------------------------------------------------------------------
(* Sensors and walks.                                                      *)

LEMMA Sensors ==
    /\ \A s \in Sensor : /\ s[1] \in Channel /\ s[2] \in 0 .. ADDRESSES - 1
                         /\ s = <<s[1], s[2]>>
    /\ \A c \in Channel, a \in 0 .. ADDRESSES - 1 : <<c, a>> \in Sensor
    /\ <<0, 0>> \in Sensor
    /\ NoSensor \notin Sensor /\ NoChannel \notin Channel
    /\ Channel \subseteq Nat
  BY DevicesAssumption DEF Sensor, Channel, NoSensor, NoChannel

\* A walk goes from a sensor to the next, channel by channel, and ends after the last.
LEMMA Walk ==
    ASSUME at \in Sensor, NEW end, WalkOn(end)
    PROVE  /\ at' \in Sensor
           /\ \/ /\ step' = "css" /\ at'[1] = at[1]
                 /\ at' # <<0, 0>>
                 /\ \A s \in Sensor : Passed(s)' => Passed(s) \/ s = at
              \/ /\ step' = "select" /\ at'[2] = 0
                 /\ at' # <<0, 0>>
                 /\ \A s \in Sensor : Passed(s)' => Passed(s) \/ s = at
              \/ /\ step' = end
                 /\ \A s \in Sensor : Passed(s) \/ s = at
<1>1. /\ at[1] \in 0 .. CHANNELS - 1 /\ at[2] \in 0 .. ADDRESSES - 1
      /\ at = <<at[1], at[2]>>
      /\ CHANNELS \in Nat \ {0} /\ ADDRESSES \in Nat \ {0}
  BY Sensors, DevicesAssumption DEF Channel
<1>2. \A s \in Sensor : /\ s[1] \in 0 .. CHANNELS - 1 /\ s[2] \in 0 .. ADDRESSES - 1
                        /\ s = <<s[1], s[2]>>
  BY Sensors DEF Channel
<1>3. CASE at[2] < ADDRESSES - 1
  <2>1. at' = <<at[1], at[2] + 1>> /\ step' = "css"
    BY <1>3 DEF WalkOn
  <2>2. at' \in Sensor
    BY <1>1, <1>3, <2>1, Sensors DEF Channel
  <2>3. at' # <<0, 0>> /\ at'[1] = at[1]
    BY <1>1, <2>1
  <2>4. \A s \in Sensor : Passed(s)' => Passed(s) \/ s = at
    BY <1>1, <1>2, <2>1 DEF Passed
  <2> QED
    BY <2>1, <2>2, <2>3, <2>4
<1>4. CASE ~(at[2] < ADDRESSES - 1) /\ at[1] < CHANNELS - 1
  <2>1. at' = <<at[1] + 1, 0>> /\ step' = "select"
    BY <1>4 DEF WalkOn
  <2>2. at' \in Sensor
    BY <1>1, <1>4, <2>1, Sensors DEF Channel
  <2>3. at' # <<0, 0>> /\ at'[2] = 0
    BY <1>1, <2>1
  <2>4. \A s \in Sensor : Passed(s)' => Passed(s) \/ s = at
    BY <1>1, <1>2, <1>4, <2>1 DEF Passed
  <2> QED
    BY <2>1, <2>2, <2>3, <2>4
<1>5. CASE ~(at[2] < ADDRESSES - 1) /\ ~(at[1] < CHANNELS - 1)
  <2>1. at' = <<0, 0>> /\ step' = end
    BY <1>5 DEF WalkOn
  <2>2. \A s \in Sensor : Passed(s) \/ s = at
    BY <1>1, <1>2, <1>5 DEF Passed
  <2> QED
    BY <2>1, <2>2, Sensors
<1> QED
  BY <1>3, <1>4, <1>5

\* At the start of a walk, and of a measurement, no sensor is passed.
LEMMA NonePassed == at = <<0, 0>> => \A s \in Sensor : ~Passed(s)
  BY Sensors DEF Passed

Failing ==
    AllocationFails \/ HbridgeInitFails \/ MuxInitFails \/ CssInitFails \/ MagInitFails

LEMMA FailingIs ==
    ASSUME Failing
    PROVE  /\ pass' = "failed" /\ step' = "none"
           /\ UNCHANGED <<css_ready, at, selected, left, handles, readings, losses>>
  BY DEF Failing, AllocationFails, HbridgeInitFails, MuxInitFails, CssInitFails,
         MagInitFails, InitFails

-----------------------------------------------------------------------------
(* Types.                                                                  *)

PlaceOK ==
    /\ pass \in Pass \cup {"loop", "down", "failed"}
    /\ step \in {"hbridge", "mux", "select", "css", "deselect", "mag", "none"}
    /\ at \in Sensor

DeviceOK ==
    /\ selected \in Channel \cup {NoChannel} /\ left \in Channel \cup {NoChannel}
    /\ powered \subseteq Sensor
    /\ hbridge \in Descriptor /\ mux \in Descriptor /\ mag \in Descriptor
    /\ css \in [Sensor -> Descriptor]

RecordOK ==
    /\ g_CSS \in [Sensor -> Sensor \cup {NoSensor}]
    /\ counts \in Count \X Count
    /\ missed \in [Pass -> SUBSET Channel] /\ dark \subseteq Sensor

LEMMA TypeParts == TypeOK <=> css_ready \in BOOLEAN /\ PlaceOK /\ DeviceOK /\ RecordOK
  BY Zenon DEF TypeOK, PlaceOK, DeviceOK, RecordOK

LEMMA ReadyKept == [Next]_vars => css_ready' = css_ready
  BY FailingIs
  DEF Next, Failing, HbridgeInit, MuxInit, Select, CssInit, Deselect, MagInit, ReadSensors,
      ReadMag, CssMeasure, ReadFails, AcsDestroy, CssDestroy, MuxDestroy,
      MagAndHbridgeDestroy, Ended, vars

\* No walk leaves the sensors.
LEMMA PlaceStep == TypeOK /\ [Next]_vars => PlaceOK'
<1> SUFFICES ASSUME TypeOK, [Next]_vars PROVE PlaceOK'
  OBVIOUS
<1> USE TypeParts DEF PlaceOK, Pass
<1>1. CASE Failing
  BY <1>1, FailingIs
<1>2. CASE HbridgeInit \/ MuxInit \/ MagInit
  BY <1>2 DEF HbridgeInit, MuxInit, MagInit
<1>3. CASE Select \/ Deselect
  BY <1>3 DEF Select, Deselect
<1>4. CASE CssInit
  BY <1>4, Walk DEF CssInit
<1>5. CASE CssMeasure
  BY <1>5, Walk DEF CssMeasure
<1>6. CASE CssDestroy
  BY <1>6, Walk DEF CssDestroy
<1>7. CASE ReadSensors \/ AcsDestroy
  BY <1>7, Sensors DEF ReadSensors, AcsDestroy
<1>8. CASE ReadMag \/ ReadFails \/ MuxDestroy \/ MagAndHbridgeDestroy
  BY <1>8 DEF ReadMag, ReadFails, MuxDestroy, MagAndHbridgeDestroy
<1>9. CASE Ended \/ UNCHANGED vars
  BY <1>9 DEF Ended, vars
<1> QED
  BY <1>1, <1>2, <1>3, <1>4, <1>5, <1>6, <1>7, <1>8, <1>9 DEF Next, Failing

LEMMA DeviceStep == TypeOK /\ [Next]_vars => DeviceOK'
<1> SUFFICES ASSUME TypeOK, [Next]_vars PROVE DeviceOK'
  OBVIOUS
<1>t. DeviceOK /\ PlaceOK
  BY TypeParts
<1>at. at[1] \in Channel
  BY <1>t, Sensors DEF PlaceOK
<1> USE <1>t DEF DeviceOK, Descriptor, hardware, handles
<1>1. CASE Failing
  <2>1. powered' \subseteq Sensor
    BY <1>1 DEF Failing, AllocationFails, HbridgeInitFails, MuxInitFails, CssInitFails,
                MagInitFails
  <2> QED
    BY <1>1, <2>1, FailingIs
<1>2. CASE HbridgeInit \/ MuxInit \/ MagInit
  BY <1>2 DEF HbridgeInit, MuxInit, MagInit
<1>3. CASE Select \/ Deselect
  BY <1>3, <1>at DEF Select, Deselect, SetMux
<1>4. CASE CssInit
  BY <1>4 DEF CssInit, PlaceOK
<1>5. CASE CssDestroy
  BY <1>5 DEF CssDestroy, PlaceOK
<1>6. CASE ReadSensors \/ ReadMag \/ CssMeasure \/ ReadFails \/ AcsDestroy
  BY <1>6 DEF ReadSensors, ReadMag, CssMeasure, ReadFails, AcsDestroy
<1>7. CASE MuxDestroy \/ MagAndHbridgeDestroy
  BY <1>7 DEF MuxDestroy, MagAndHbridgeDestroy, SetMux
<1>8. CASE Ended \/ UNCHANGED vars
  BY <1>8 DEF Ended, vars
<1> QED
  BY <1>1, <1>2, <1>3, <1>4, <1>5, <1>6, <1>7, <1>8 DEF Next, Failing

LEMMA RecordStep == TypeOK /\ [Next]_vars => RecordOK'
<1> SUFFICES ASSUME TypeOK, [Next]_vars PROVE RecordOK'
  OBVIOUS
<1>t. RecordOK /\ PlaceOK
  BY TypeParts
<1>at. at[1] \in Channel
  BY <1>t, Sensors DEF PlaceOK
<1>none. NotMeasured \in Count \X Count
  <2>1. 0 \in Count
    BY DEF Count
  <2> QED
    BY <2>1 DEF NotMeasured
<1>unread. Unread \in [Sensor -> Sensor \cup {NoSensor}]
  BY DEF Unread
<1> USE <1>t, <1>none, <1>unread DEF RecordOK, readings, losses
<1>1. CASE Failing
  BY <1>1, FailingIs
<1>2. CASE HbridgeInit \/ MuxInit \/ MagInit
  BY <1>2 DEF HbridgeInit, MuxInit, MagInit
<1>3. CASE Select \/ Deselect
  BY <1>3, <1>at DEF Select, Deselect
<1>4. CASE CssInit
  BY <1>4 DEF CssInit
<1>5. CASE CssDestroy
  BY <1>5 DEF CssDestroy, PlaceOK
<1>6. CASE CssMeasure
  BY <1>6, DevicesAssumption DEF CssMeasure
<1>7. CASE ReadSensors \/ ReadMag \/ ReadFails \/ AcsDestroy
  BY <1>7 DEF ReadSensors, ReadMag, ReadFails, AcsDestroy
<1>8. CASE MuxDestroy \/ MagAndHbridgeDestroy \/ Ended \/ UNCHANGED vars
  BY <1>8 DEF MuxDestroy, MagAndHbridgeDestroy, Ended, vars
<1> QED
  BY <1>1, <1>2, <1>3, <1>4, <1>5, <1>6, <1>7, <1>8 DEF Next, Failing

LEMMA TypeStep == TypeOK /\ [Next]_vars => TypeOK'
<1> SUFFICES ASSUME TypeOK, [Next]_vars PROVE TypeOK'
  OBVIOUS
<1>1. css_ready' \in BOOLEAN
  BY ReadyKept, TypeParts
<1>2. PlaceOK' /\ DeviceOK' /\ RecordOK'
  BY PlaceStep, DeviceStep, RecordStep
<1> QED
  BY <1>1, <1>2, Zenon DEF TypeOK, PlaceOK, DeviceOK, RecordOK

-----------------------------------------------------------------------------
(* The walks.                                                              *)

\* What each device of a pass leaves the next one to begin with.
LEMMA WalkStep == IInv /\ [Next]_vars => WalkInv'
<1> SUFFICES ASSUME IInv, [Next]_vars PROVE WalkInv'
  OBVIOUS
<1>i. WalkInv /\ at \in Sensor
  BY DEF IInv, TypeOK
<1> USE <1>i DEF WalkInv, Walking, Pass
<1>1. CASE Failing
  BY <1>1, FailingIs
<1>2. CASE HbridgeInit \/ MuxInit \/ MagInit
  BY <1>2 DEF HbridgeInit, MuxInit, MagInit
<1>3. CASE Select \/ Deselect
  BY <1>3 DEF Select, Deselect
<1>4. CASE CssInit
  BY <1>4, Walk DEF CssInit
<1>5. CASE CssMeasure
  <2>1. /\ css_ready' = css_ready /\ css_ready
        /\ step' # "none" => pass' = "read" /\ pass = "read"
        /\ WalkOn("none")
    BY <1>5 DEF CssMeasure
  <2>2. step' \in {"css", "none"} \/ (step' = "select" /\ at'[2] = 0)
    BY <2>1, Walk
  <2> QED
    BY <2>1, <2>2
<1>6. CASE CssDestroy
  BY <1>6, Walk DEF CssDestroy
<1>7. CASE ReadSensors \/ ReadMag \/ ReadFails \/ AcsDestroy
  BY <1>7 DEF ReadSensors, ReadMag, ReadFails, AcsDestroy
<1>8. CASE MuxDestroy \/ MagAndHbridgeDestroy
  BY <1>8 DEF MuxDestroy, MagAndHbridgeDestroy
<1>9. CASE Ended \/ UNCHANGED vars
  BY <1>9 DEF Ended, vars
<1> QED
  BY <1>1, <1>2, <1>3, <1>4, <1>5, <1>6, <1>7, <1>8, <1>9 DEF Next, Failing

\* The channel selected for the first sensor on it stays selected for the others.
LEMMA SelectedStep == IInv /\ [Next]_vars => SelectedInv'
<1> SUFFICES ASSUME IInv, [Next]_vars PROVE SelectedInv'
  OBVIOUS
<1>i. /\ SelectedInv /\ WalkInv /\ at \in Sensor
      /\ missed \in [Pass -> SUBSET Channel]
  BY DEF IInv, TypeOK
<1> USE <1>i DEF SelectedInv
<1>1. CASE Select
  BY <1>1 DEF Select, WalkInv, Walking
<1>2. CASE CssInit
  BY <1>2, Walk DEF CssInit, losses
<1>3. CASE CssMeasure
  BY <1>3, Walk DEF CssMeasure, losses, hardware
<1>4. CASE CssDestroy
  BY <1>4, Walk DEF CssDestroy
<1>5. CASE Ended \/ UNCHANGED vars
  BY <1>5 DEF Ended, vars, hardware, losses
<1>6. CASE step' # "css"
  BY <1>6
<1> QED
  BY <1>1, <1>2, <1>3, <1>4, <1>5, <1>6, FailingIs
  DEF Next, Failing, HbridgeInit, MuxInit, Deselect, MagInit, ReadSensors, ReadMag,
      ReadFails, AcsDestroy, MuxDestroy, MagAndHbridgeDestroy

\* The sensor reached is the one meant, unless its channel's selection was lost.
LEMMA ReachedIs ==
    ASSUME IInv, step = "css", at[1] \notin missed[pass]
    PROVE  Reached = at
<1>1. selected = at[1] /\ at \in Sensor
  BY DEF IInv, TypeOK, SelectedInv
<1> QED
  BY <1>1, Sensors DEF Reached

\* acs_init turns sensors on and no step before acs_destroy turns one off.
LEMMA PoweredStep == IInv /\ [Next]_vars => PoweredInv'
<1> SUFFICES ASSUME IInv, [Next]_vars, pass' = "init", css_ready', NEW s \in Sensor,
                    WalkedPast(s)', s[1] \notin missed'["init"]
             PROVE  s \in powered'
  BY DEF PoweredInv
<1>i. /\ PoweredInv /\ WalkInv /\ css_ready /\ at \in Sensor
      /\ missed \in [Pass -> SUBSET Channel]
  BY ReadyKept DEF IInv, TypeOK
<1> USE DEF hardware, losses
<1>1. CASE HbridgeInit \/ MuxInit
  BY <1>1, <1>i, NonePassed DEF HbridgeInit, MuxInit, WalkInv, WalkedPast, Walking, Passed
<1>2. CASE Select
  <2>1. WalkedPast(s) /\ s[1] \notin missed["init"]
    BY <1>2, <1>i DEF Select, WalkedPast, Walking, Passed, Pass
  <2> QED
    BY <1>2, <1>i, <2>1 DEF Select, PoweredInv
<1>3. CASE CssInit
  <2>1. pass = "init" /\ step = "css" /\ missed' = missed /\ powered \subseteq powered'
    BY <1>3 DEF CssInit
  <2>2. CASE s = at
    BY <1>3, <2>1, <2>2, ReachedIs DEF CssInit
  <2>3. CASE s # at
    <3>1. Passed(s)
      BY <1>3, <1>i, <2>3, Walk DEF CssInit, WalkedPast, Walking
    <3> QED
      BY <1>i, <2>1, <3>1 DEF PoweredInv, WalkedPast, Walking
  <2> QED
    BY <2>2, <2>3
<1>4. CASE Deselect
  BY <1>4, <1>i DEF Deselect, PoweredInv, WalkedPast
<1>5. CASE UNCHANGED vars
  BY <1>5, <1>i DEF vars, PoweredInv, WalkedPast, Walking, Passed
<1> QED
  BY <1>1, <1>2, <1>3, <1>4, <1>5, FailingIs
  DEF Next, Failing, MagInit, ReadSensors, ReadMag, CssMeasure, ReadFails, AcsDestroy,
      CssDestroy, MuxDestroy, MagAndHbridgeDestroy, Ended

\* Before it ends acs_init has found a selected channel, the multiplexer's or an earlier
\* run's.
LEMMA MuxStep == IInv /\ [Next]_vars => MuxInv' /\ InitFindsSensors'
<1> SUFFICES ASSUME IInv, [Next]_vars PROVE MuxInv' /\ InitFindsSensors'
  OBVIOUS
<1>i. /\ MuxInv /\ PoweredInv /\ WalkInv /\ InitFindsSensors
      /\ at \in Sensor /\ selected \in Channel \cup {NoChannel}
      /\ missed \in [Pass -> SUBSET Channel]
  BY DEF IInv, TypeOK
<1>r. css_ready' = css_ready
  BY ReadyKept
<1> USE <1>i, <1>r DEF hardware, handles, losses, Initialised
<1>1. CASE Failing
  BY <1>1, FailingIs DEF MuxInv, Answered, InitFindsSensors
<1>2. CASE HbridgeInit
  BY <1>2 DEF HbridgeInit, MuxInv, WalkInv, Answered, Walking, InitFindsSensors
<1>3. CASE MuxInit
  BY <1>3 DEF MuxInit, MuxInv, WalkInv, Answered, Walking, InitFindsSensors
<1>4. CASE Select
  <2>1. MuxInv'
    BY <1>4 DEF Select, MuxInv, Answered, Walking
  <2>2. InitFindsSensors'
    BY <1>4 DEF Select, InitFindsSensors, Pass, WalkInv, Walking
  <2> QED
    BY <2>1, <2>2
<1>5. CASE CssInit
  <2>1. selected # NoChannel
    BY <1>5, Sensors DEF CssInit, Reached
  <2>2. mux = "open" \/ left # NoChannel
    BY <1>5, <2>1 DEF CssInit, MuxInv
  <2>3. pass = "init" /\ pass' = "init" /\ UNCHANGED <<mux, left, selected>>
        /\ step' \in {"css", "select", "deselect"}
    BY <1>5, Walk DEF CssInit
  <2> QED
    BY <2>2, <2>3 DEF MuxInv, InitFindsSensors
<1>6. CASE Deselect
  BY <1>6 DEF Deselect, SetMux, MuxInv, WalkInv, Answered, Walking, InitFindsSensors
<1>7. CASE MagInit
  <2>1. css_ready => /\ \A s \in Sensor : s[1] \notin missed["init"] => s \in powered
                     /\ mux = "open" \/ left # NoChannel
    BY <1>7 DEF MagInit, PoweredInv, WalkedPast, MuxInv, Answered
  <2> QED
    BY <1>7, <2>1 DEF MagInit, MuxInv, Answered, InitFindsSensors
<1>8. CASE ReadSensors \/ ReadMag \/ ReadFails
  <2>1. /\ pass \in {"loop", "read"} /\ pass' \in {"loop", "read"}
        /\ UNCHANGED <<mux, left, selected, powered>>
        /\ missed'["init"] = missed["init"]
    BY <1>8 DEF ReadSensors, ReadMag, ReadFails, Pass
  <2> QED
    BY <2>1 DEF MuxInv, Answered, InitFindsSensors
<1>9. CASE CssMeasure
  BY <1>9 DEF CssMeasure, MuxInv, Answered, InitFindsSensors
<1>10. CASE AcsDestroy \/ CssDestroy \/ MuxDestroy \/ MagAndHbridgeDestroy
  BY <1>10 DEF AcsDestroy, CssDestroy, MuxDestroy, MagAndHbridgeDestroy, MuxInv, Answered,
               InitFindsSensors
<1>11. CASE Ended \/ UNCHANGED vars
  BY <1>11 DEF Ended, vars, MuxInv, Answered, Walking, InitFindsSensors
<1> QED
  BY <1>1, <1>2, <1>3, <1>4, <1>5, <1>6, <1>7, <1>8, <1>9, <1>10, <1>11 DEF Next, Failing

\* A measurement stores the value of the sensor that answers, which is the one meant.
LEMMA BrightnessStep == IInv /\ [Next]_vars => OwnBrightness'
<1> SUFFICES ASSUME IInv, [Next]_vars PROVE OwnBrightness'
  OBVIOUS
<1>i. /\ OwnBrightness /\ at \in Sensor
      /\ g_CSS \in [Sensor -> Sensor \cup {NoSensor}]
      /\ missed \in [Pass -> SUBSET Channel]
  BY DEF IInv, TypeOK
<1> USE <1>i DEF OwnBrightness, readings, losses
<1>1. CASE CssMeasure
  <2>1. /\ g_CSS' = [g_CSS EXCEPT ![at] = Reached] /\ missed' = missed
        /\ pass = "read" /\ step = "css"
    BY <1>1 DEF CssMeasure
  <2>2. at[1] \notin missed["read"] => Reached = at
    BY <2>1, ReachedIs
  <2> QED
    BY <2>1, <2>2
<1>2. CASE ReadSensors \/ AcsDestroy
  BY <1>2 DEF ReadSensors, AcsDestroy, Unread
<1>3. CASE Select
  BY <1>3 DEF Select, Pass
<1>4. CASE UNCHANGED <<g_CSS, missed>>
  BY <1>4
<1> QED
  BY <1>1, <1>2, <1>3, <1>4, FailingIs
  DEF Next, Failing, HbridgeInit, MuxInit, CssInit, Deselect, MagInit, ReadMag, ReadFails,
      CssDestroy, MuxDestroy, MagAndHbridgeDestroy, Ended, vars

\* The walk of acs_destroy turns off what it reaches, and reaches what it selected.
LEMMA OffStep == IInv /\ [Next]_vars => OffInv' /\ PoweredDown'
<1> SUFFICES ASSUME IInv, [Next]_vars PROVE OffInv' /\ PoweredDown'
  OBVIOUS
<1>i. /\ OffInv /\ PoweredDown /\ WalkInv
      /\ at \in Sensor /\ powered \subseteq Sensor
      /\ missed \in [Pass -> SUBSET Channel]
  BY DEF IInv, TypeOK
<1>r. css_ready' = css_ready
  BY ReadyKept
<1> USE <1>i, <1>r DEF hardware, losses
<1>1. CASE AcsDestroy
  <2>1. \A s \in Sensor : ~Passed(s)'
    BY <1>1, Sensors DEF AcsDestroy, Passed
  <2> QED
    BY <1>1, <2>1 DEF AcsDestroy, OffInv, PoweredDown, WalkedPast
<1>2. CASE Select
  BY <1>2 DEF Select, OffInv, PoweredDown, WalkedPast, Walking, Passed, WalkInv, Pass
<1>3. CASE CssDestroy
  <2>1. /\ pass = "destroy" /\ pass' = "destroy" /\ step = "css" /\ missed' = missed
        /\ \/ powered' = powered \ {Reached} /\ dark' = dark
           \/ powered' = powered /\ dark' = dark \cup {at}
    BY <1>3 DEF CssDestroy
  <2>2. ASSUME NEW s \in powered', WalkedPast(s)' \/ step' = "mux"
        PROVE  s \in dark' \/ s[1] \in missed["destroy"]
    <3>1. CASE s = at
      BY <2>1, <2>2, <3>1, ReachedIs
    <3>2. CASE s # at
      <4>1. s \in powered /\ Passed(s)
        BY <1>3, <2>1, <2>2, <3>2, Walk DEF CssDestroy, WalkedPast, Walking
      <4> QED
        BY <1>3, <2>1, <4>1 DEF OffInv, WalkedPast, Walking, WalkInv
    <3> QED
      BY <3>1, <3>2
  <2> QED
    BY <2>1, <2>2 DEF OffInv, PoweredDown
<1>4. CASE Deselect \/ MuxDestroy
  BY <1>4 DEF Deselect, MuxDestroy, OffInv, PoweredDown, WalkedPast, WalkInv
<1>5. CASE MagAndHbridgeDestroy
  BY <1>5 DEF MagAndHbridgeDestroy, OffInv, PoweredDown, WalkedPast
<1>6. CASE UNCHANGED vars \/ Ended
  BY <1>6 DEF vars, Ended, OffInv, PoweredDown, WalkedPast, Walking, Passed
<1>7. CASE pass' \notin {"destroy", "down"}
  BY <1>7 DEF OffInv, PoweredDown
<1> QED
  BY <1>1, <1>2, <1>3, <1>4, <1>5, <1>6, <1>7, FailingIs
  DEF Next, Failing, HbridgeInit, MuxInit, CssInit, MagInit, ReadSensors, ReadMag,
      CssMeasure, ReadFails

-----------------------------------------------------------------------------

LEMMA InitInv == Init => IInv
<1> SUFFICES ASSUME Init PROVE IInv
  OBVIOUS
<1>1. PlaceOK /\ DeviceOK
  BY Sensors DEF Init, PlaceOK, DeviceOK, Pass, Descriptor
<1>2. RecordOK
  <2>1. 0 \in Count
    BY DEF Count
  <2> QED
    BY <2>1 DEF Init, RecordOK, NotMeasured, Unread
<1>3. TypeOK
  BY <1>1, <1>2, TypeParts DEF Init
<1>4. WalkInv /\ SelectedInv /\ OffInv /\ PoweredDown
  BY DEF Init, WalkInv, SelectedInv, OffInv, PoweredDown, Walking, Pass
<1>5. PoweredInv /\ MuxInv /\ InitFindsSensors
  BY DEF Init, PoweredInv, WalkedPast, Walking, MuxInv, Answered, InitFindsSensors,
         Initialised
<1>6. OwnBrightness
  BY DEF Init, OwnBrightness, Unread
<1> QED
  BY <1>3, <1>4, <1>5, <1>6 DEF IInv

\* The inductive invariant holds whatever transfers are lost and wherever measurements
\* stop.
THEOREM Inductive == Spec => []IInv
<1>1. IInv /\ [Next]_vars => IInv'
  BY TypeStep, WalkStep, SelectedStep, PoweredStep, MuxStep, BrightnessStep, OffStep
  DEF IInv
<1> QED
  BY InitInv, <1>1, PTL DEF Spec

\* No walk leaves the sensors there are.
THEOREM TypeCorrect == Spec => []TypeOK
<1>1. IInv => TypeOK
  BY DEF IInv
<1> QED
  BY Inductive, <1>1, PTL

\* acs_init succeeds only with every sensor on that it could select, and with a channel
\* that was selected by it or by an earlier run.
THEOREM InitNoticesSensors == Spec => []InitFindsSensors
<1>1. IInv => InitFindsSensors
  BY DEF IInv
<1> QED
  BY Inductive, <1>1, PTL

\* A brightness is that of the sensor it is stored for, unless the selection of just its
\* channel was lost.
THEOREM BrightnessIsOwn == Spec => []OwnBrightness
<1>1. IInv => OwnBrightness
  BY DEF IInv
<1> QED
  BY Inductive, <1>1, PTL

\* acs_destroy leaves on only what it lost a transfer to.
THEOREM DestroyPowersDown == Spec => []PoweredDown
<1>1. IInv => PoweredDown
  BY DEF IInv
<1> QED
  BY Inductive, <1>1, PTL

-----------------------------------------------------------------------------
(* The brightness itself.                                                  *)

\* Quotient and remainder.
LEMMA DivMod ==
    ASSUME NEW x \in Nat \ {0}, NEW y \in Nat
    PROVE /\ (y \div x) \in Nat /\ (y % x) \in Nat /\ (y % x) < x
           /\ y = x * (y \div x) + (y % x)
OBVIOUS

\* The five bits at a time give no more than the quotient of ratioscale, before it is rounded.
LEMMA RatioIs ==
    ASSUME NEW x \in Nat \ {0}, NEW y \in Nat
    PROVE  \E ratio1 \in Nat : /\ Ratio(x, y) = (ratio1 + 1) \div 2
                               /\ ratio1 * x <= 1024 * y
<1> DEFINE q == y \div x
           rest == 32 * (y % x)
           q2 == rest \div x
           rest2 == 32 * (rest % x)
           q3 == rest2 \div x
           ratio1 == 1024 * q + 32 * q2 + q3
<1>1. q \in Nat /\ rest \in Nat /\ 32 * y = 32 * (x * q) + rest
  BY DivMod
<1> HIDE DEF q, rest
<1>2. q2 \in Nat /\ rest2 \in Nat /\ 32 * rest = 32 * (x * q2) + rest2
  BY <1>1, DivMod
<1> HIDE DEF q2, rest2
<1>3. q3 \in Nat /\ (rest2 % x) \in Nat /\ rest2 = x * q3 + (rest2 % x)
  BY <1>2, DivMod
<1> HIDE DEF q3
<1>4. 1024 * y >= 1024 * (x * q) + 32 * (x * q2) + x * q3
  <2>1. (x * q) \in Int /\ (x * q2) \in Int /\ (x * q3) \in Int
    BY <1>1, <1>2, <1>3
  <2> QED
    BY <1>1, <1>2, <1>3, <2>1
<1>5. ratio1 * x = 1024 * (x * q) + 32 * (x * q2) + x * q3
  BY <1>1, <1>2, <1>3
<1>6. Ratio(x, y) = (ratio1 + 1) \div 2
  BY DEF Ratio, q, rest, q2, rest2, q3
<1>7. ratio1 \in Nat
  BY <1>1, <1>2, <1>3
<1> HIDE DEF ratio1
<1> QED
  BY <1>4, <1>5, <1>6, <1>7

\* A rounded ratio beyond k shows that infrared is at least (2 * k + 1) / 1024 of broadband.
LEMMA Above ==
    ASSUME NEW x \in Nat \ {0}, NEW y \in Nat, NEW k \in Nat, Ratio(x, y) > k
    PROVE  (2 * k + 1) * x <= 1024 * y
<1>1. PICK ratio1 \in Nat : Ratio(x, y) = (ratio1 + 1) \div 2 /\ ratio1 * x <= 1024 * y
  BY RatioIs
<1>2. ratio1 >= 2 * k + 1
  BY <1>1
<1>3. (2 * k + 1) * x <= ratio1 * x
  <2>1. PICK d \in Nat : ratio1 = 2 * k + 1 + d
    <3>1. ratio1 - (2 * k + 1) \in Nat
      BY <1>2
    <3> QED
      BY <3>1
  <2>2. d * x >= 0
    OBVIOUS
  <2>3. ratio1 * x = (2 * k + 1) * x + d * x
    BY <2>1
  <2> QED
    BY <2>2, <2>3
<1> QED
  BY <1>1, <1>3

\* The least segment reached is the first.
LEMMA LeastOf ==
    ASSUME NEW n \in 1 .. 7
    PROVE  Min(n .. 7) = n
BY DEF Min

\* The segment of each ratio; only those that matter below keep their lower end.
LEMMA WeightsIs ==
    ASSUME NEW r \in Nat
    PROVE  \/ r <= 64 /\ Weights(r) = Segments[1]
           \/ 64 < r /\ Weights(r) = Segments[2]
           \/ 128 < r /\ Weights(r) = Segments[3]
           \/ 192 < r /\ Weights(r) = Segments[4]
           \/ Weights(r) = Segments[5]
           \/ Weights(r) = Segments[6]
           \/ Weights(r) = Segments[7]
           \/ Weights(r) = Steepest
<1> DEFINE reached == {n \in 1 .. Len(Segments) : r <= Segments[n].k}
<1>1. ASSUME NEW n \in 1 .. 7, reached = n .. 7 PROVE Weights(r) = Segments[n]
  <2>1. n \in reached
    BY <1>1
  <2>2. Min(reached) = n
    BY <1>1, LeastOf
  <2> QED
    BY <2>1, <2>2 DEF Weights
<1>2. CASE r <= 64
  <2>1. reached = 1 .. 7
    BY <1>2 DEF Segments
  <2> QED
    BY <1>2, <1>1, <2>1
<1>3. CASE 64 < r /\ r <= 128
  <2>1. reached = 2 .. 7
    BY <1>3 DEF Segments
  <2> QED
    BY <1>3, <1>1, <2>1
<1>4. CASE 128 < r /\ r <= 192
  <2>1. reached = 3 .. 7
    BY <1>4 DEF Segments
  <2> QED
    BY <1>4, <1>1, <2>1
<1>5. CASE 192 < r /\ r <= 256
  <2>1. reached = 4 .. 7
    BY <1>5 DEF Segments
  <2> QED
    BY <1>5, <1>1, <2>1
<1>6. CASE 256 < r /\ r <= 312
  <2>1. reached = 5 .. 7
    BY <1>6 DEF Segments
  <2> QED
    BY <1>1, <2>1
<1>7. CASE 312 < r /\ r <= 410
  <2>1. reached = 6 .. 7
    BY <1>7 DEF Segments
  <2> QED
    BY <1>1, <2>1
<1>8. CASE 410 < r /\ r <= 666
  <2>1. reached = 7 .. 7
    BY <1>8 DEF Segments
  <2> QED
    BY <1>1, <2>1
<1>9. CASE 666 < r
  <2>1. reached = {}
    BY <1>9 DEF Segments
  <2> QED
    BY <2>1 DEF Weights
<1> QED
  BY <1>2, <1>3, <1>4, <1>5, <1>6, <1>7, <1>8, <1>9

\* The weights stay small, and no channel of broadband and infrared makes more than the
\* first segment's weight of broadband: beyond it infrared takes off what the weight adds.
LEMMA Weighted ==
    ASSUME NEW x \in Nat, NEW y \in Nat
    PROVE  /\ Weights(Ratio(x, y)).b \in Nat /\ Weights(Ratio(x, y)).b <= 624
           /\ Weights(Ratio(x, y)).m \in Nat /\ Weights(Ratio(x, y)).m <= 1022
           /\ Weights(Ratio(x, y)).b * x - Weights(Ratio(x, y)).m * y <= 498 * x
<1> DEFINE w == Weights(Ratio(x, y))
<1>1. Ratio(x, y) \in Nat
  <2>1. CASE x = 0
    BY <2>1 DEF Ratio
  <2>2. CASE x # 0
    BY <2>2, RatioIs
  <2> QED
    BY <2>1, <2>2
<1>2. CASE w = Segments[1]
  BY <1>2 DEF Segments
<1>3. ASSUME NEW k \in Nat, Ratio(x, y) > k PROVE (2 * k + 1) * x <= 1024 * y
  <2>1. x # 0
    BY <1>3 DEF Ratio
  <2> QED
    BY <1>3, <2>1, Above
<1>4. CASE 64 < Ratio(x, y) /\ w = Segments[2]
  <2>1. 129 * x <= 1024 * y
    BY <1>3, <1>4
  <2> QED
    BY <1>4, <2>1 DEF Segments
<1>5. CASE 128 < Ratio(x, y) /\ w = Segments[3]
  <2>1. 257 * x <= 1024 * y
    BY <1>3, <1>5
  <2> QED
    BY <1>5, <2>1 DEF Segments
<1>6. CASE 192 < Ratio(x, y) /\ w = Segments[4]
  <2>1. 385 * x <= 1024 * y
    BY <1>3, <1>6
  <2> QED
    BY <1>6, <2>1 DEF Segments
<1>7. CASE w \in {Segments[5], Segments[6], Segments[7], Steepest}
  BY <1>7 DEF Segments, Steepest
<1> HIDE DEF w
<1> QED
  BY <1>1, <1>2, <1>4, <1>5, <1>6, <1>7, WeightsIs DEF w

\* What a channel that is not clipped is scaled to.
LEMMA ScaledIs ==
    ASSUME NEW c \in Nat, c <= TSL2561_CLIPPING_13MS
    PROVE  Scaled(c) \in Nat /\ Scaled(c) <= 2294960
BY DEF Scaled, TSL2561_CLIPPING_13MS

\* A scaled channel times a weight stays below 2^32.
LEMMA Below ==
    ASSUME NEW f \in Nat, 0 < f, f <= 1022, NEW x \in Nat, x <= 2294960
    PROVE  x < (2^30 \div f) * 4
<1>1. 2^30 = 1073741824
  OBVIOUS
<1>2. (1073741824 \div f) >= 1050628
  <2> DEFINE q == 1073741824 \div f
  <2>1. q \in Nat /\ 1073741824 < f * (q + 1)
    OBVIOUS
  <2> HIDE DEF q
  <2>2. f * (q + 1) <= 1022 * (q + 1)
    BY <2>1
  <2> QED
    BY <2>1, <2>2 DEF q
<1> QED
  BY <1>1, <1>2

\* For all counts no product of tsl2561_get_lux needs more than 32 bits, and the brightness
\* is at most Brightest.
LEMMA LuxIs ==
    ASSUME NEW broadband \in Nat, NEW ir \in Nat
    PROVE  /\ Fits(broadband, ir)
           /\ Lux(broadband, ir) \in Nat /\ Lux(broadband, ir) <= Brightest
<1>1. CASE Clipped(broadband, ir)
  BY <1>1 DEF Fits, Lux, Saturated, Brightest
<1>2. CASE ~Clipped(broadband, ir)
  <2> DEFINE channel0 == Scaled(broadband)
             channel1 == Scaled(ir)
             w == Weights(Ratio(channel0, channel1))
             visible == w.b * channel0
             infrared == w.m * channel1
             difference == IF visible > infrared THEN visible - infrared ELSE 0
  <2>1. /\ broadband <= 4900 /\ ir <= 4900
        /\ channel0 \in Nat /\ channel0 <= 2294960
        /\ channel1 \in Nat /\ channel1 <= 2294960
    BY <1>2, ScaledIs DEF Clipped, TSL2561_CLIPPING_13MS
  <2> HIDE DEF channel0, channel1
  <2>2. /\ w.b \in Nat /\ w.b <= 624 /\ w.m \in Nat /\ w.m <= 1022
        /\ visible - infrared <= 498 * channel0
    BY <2>1, Weighted
  <2> HIDE DEF w
  <2>3. Fits(broadband, ir)
    <3>1. 2^30 = 1073741824
      OBVIOUS
    <3>2. /\ broadband < (2^30 \div (29975 * 16)) * 4
          /\ ir < (2^30 \div (29975 * 16)) * 4
          /\ channel1 < (2^30 \div 1024) * 4
      BY <2>1, <3>1
    <3>3. w.b > 0 => channel0 < (2^30 \div w.b) * 4
      BY <2>1, <2>2, Below
    <3>4. w.m > 0 => channel1 < (2^30 \div w.m) * 4
      BY <2>1, <2>2, Below
    <3> QED
      BY <3>2, <3>3, <3>4 DEF Fits, channel0, channel1, w
  <2>4. difference \in Nat /\ difference <= 1142890080
    <3>1. visible \in Nat /\ infrared \in Nat
      BY <2>1, <2>2
    <3> HIDE DEF visible, infrared
    <3> QED
      BY <2>1, <2>2, <3>1
  <2>5. Lux(broadband, ir) = (difference + 8192) \div 16384
    BY <1>2 DEF Lux, channel0, channel1, w
  <2> HIDE DEF difference
  <2> QED
    BY <2>3, <2>4, <2>5 DEF Brightest
<1> QED
  BY <1>1, <1>2

\* Whatever two counts a sensor gives, its brightness is calculated without a product
\* that leaves 32 bits and lies between none and that of the brightest reading.
THEOREM BrightnessIsExact == Spec => []LuxExact
<1>1. TypeOK => LuxExact
  <2> SUFFICES ASSUME TypeOK PROVE LuxExact
    OBVIOUS
  <2>1. counts[1] \in Nat /\ counts[2] \in Nat
    <3>1. counts[1] \in Count /\ counts[2] \in Count
      BY DEF TypeOK
    <3>2. ASSUME NEW n \in Count PROVE n \in Nat
      BY <3>2, SMT DEF Count
    <3> QED
      BY <3>1, <3>2
  <2>2. Brightest \in Nat
    BY DEF Brightest
  <2>3. /\ Fits(counts[1], counts[2])
        /\ Lux(counts[1], counts[2]) \in Nat /\ Lux(counts[1], counts[2]) <= Brightest
    BY <2>1, LuxIs, Zenon
  <2>4. Lux(counts[1], counts[2]) \in 0 .. Brightest
    BY <2>2, <2>3
  <2> QED
    BY <2>3, <2>4, Zenon DEF LuxExact
<1> QED
  BY TypeCorrect, <1>1, PTL
=============================================================================
