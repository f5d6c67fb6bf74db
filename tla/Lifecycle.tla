------------------------------ MODULE Lifecycle ------------------------------
(***************************************************************************)
(* main, its SIGINT handler, and the skeletons of the three threads        *)
(* (src/src/main.c, src/include/modules.h, and the loops of acs.c,         *)
(* datavis.c and sitl_comm.c): what starts, what waits for what, and how   *)
(* the program ends.  What the threads compute is left to other modules.   *)
(*                                                                         *)
(* A thread waiting on a condition variable is "asleep"; a broadcast wakes *)
(* the threads asleep at that moment and is otherwise lost.  The mutexes   *)
(* given to pthread_cond_wait are locked by no one else, so returning from *)
(* the wait never blocks.  Mutants: see AcsCore.                           *)
(***************************************************************************)
EXTENDS Integers, Sequences

CONSTANT MaxSignals          \* SIGINTs delivered in one run of the program

ASSUME SignalsAssumption == MaxSignals \in Nat

Thread == {"acs", "datavis", "sitl_comm"}

Build == {"HITL", "SITL", "DATAVIS"}       \* DATAVIS is compiled with SITL

\* The modules.h tables of each build.
module_exec(b) == CASE b = "HITL"    -> <<"acs">>
                    [] b = "SITL"    -> <<"acs", "sitl_comm">>
                    [] b = "DATAVIS" -> <<"acs", "datavis", "sitl_comm">>

wakeups(b) == CASE b = "HITL"    -> << >>
                [] b = "SITL"    -> <<"data_available">>
                [] b = "DATAVIS" -> <<"data_available", "datavis_drdy">>

VARIABLES
    build,             \* how the program was compiled
    main,              \* where main stands
    next,              \* the thread main creates or joins next
    handler,           \* 0, or the broadcast the SIGINT handler makes next
    signals,           \* SIGINTs delivered
    oneShot,           \* sa_flags, never assigned, holds SA_RESETHAND
    done,
    pc,                \* where each thread stands
    first_run,
    haveOmega,         \* omega_index >= 0
    driven,            \* coils are driven
    unheeded,          \* the bridge was not told to turn them off: the turn-offs of the last
                       \* action were lost, or there was no action since acs_init
    missed             \* SIGINT came between a thread's test of done and its wait

mainVars   == <<main, next>>
signalVars == <<handler, signals, oneShot, done, missed>>
coilVars   == <<driven, unheeded>>
acsVars    == <<first_run, haveOmega, coilVars>>
threadVars == <<pc, acsVars>>
vars       == <<build, mainVars, signalVars, threadVars>>

Init ==
    /\ build \in Build
    /\ main = "boot" /\ next = 1
    /\ handler = 0 /\ signals = 0 /\ oneShot = FALSE /\ done = FALSE
    /\ pc = [t \in Thread |-> "unborn"]
    /\ first_run = TRUE /\ haveOmega = FALSE
    /\ driven = FALSE /\ unheeded = FALSE
    /\ missed = FALSE

\* The process is there: its threads live until main returns or calls exit.
Over == main \in {"returned", "aborted", "killed"}

\* Every thread asleep on condition variable c is woken.
Broadcast(c) ==
    pc' = [t \in Thread |->
              IF pc[t] # "asleep" THEN pc[t]
              ELSE IF t = "acs" /\ c = "data_available" THEN "measure"
              ELSE IF t = "datavis" /\ c = "datavis_drdy" THEN "serve"
              ELSE pc[t]]

Goto(t, place) == pc' = [pc EXCEPT ![t] = place]

-----------------------------------------------------------------------------
(* main.  The handler runs on the main thread, which waits for it.         *)

MainAt(place) == ~Over /\ handler = 0 /\ main = place

\* bootCount, before the handler is registered; a negative count is fatal.
CountBoot ==
    /\ MainAt("boot")
    /\ main' \in {"register", "aborted"}
    /\ UNCHANGED <<build, signalVars, threadVars, next>>

\* struct sigaction is on the stack and only its handler is assigned.
RegisterHandler ==
    /\ MainAt("register")
    /\ main' = "init"
    /\ oneShot' \in BOOLEAN
    /\ UNCHANGED <<build, threadVars, next, handler, signals, done, missed>>

\* acs_init's packet to the H-bridge has whatever directions malloc left in it; in the
\* SITL builds the bridge is a variable, and zero.
InitModules ==
    /\ MainAt("init")
    /\ main' \in {"create", "aborted"}
    /\ IF build = "HITL" THEN driven' \in BOOLEAN /\ unheeded' = TRUE ELSE UNCHANGED coilVars
    /\ UNCHANGED <<build, signalVars, pc, first_run, haveOmega, next>>

IsLast(n) == n = Len(module_exec(build))

\* Mutant: next is not reset for the joins.
CreateThreadOnly ==
    /\ MainAt("create")
    /\ Goto(module_exec(build)[next], "top")
    /\ main' = IF IsLast(next) THEN "join" ELSE "create"
    /\ next' = next + 1
    /\ UNCHANGED <<build, signalVars, acsVars>>

CreateThread ==
    /\ MainAt("create")
    /\ Goto(module_exec(build)[next], "top")
    /\ main' = IF IsLast(next) THEN "join" ELSE "create"
    /\ next' = IF IsLast(next) THEN 1 ELSE next + 1
    /\ UNCHANGED <<build, signalVars, acsVars>>

\* pthread_create fails: exit(-1), whatever the threads already created are doing.
CreateFails ==
    /\ MainAt("create")
    /\ main' = "aborted"
    /\ UNCHANGED <<build, signalVars, threadVars, next>>

\* Mutant: the last thread is not joined.
JoinAllButLast ==
    /\ MainAt("join") /\ pc[module_exec(build)[next]] = "ended"
    /\ main' = IF next + 1 >= Len(module_exec(build)) THEN "destroy" ELSE "join"
    /\ next' = next + 1
    /\ UNCHANGED <<build, signalVars, threadVars>>

JoinThread ==
    /\ MainAt("join") /\ pc[module_exec(build)[next]] = "ended"
    /\ main' = IF IsLast(next) THEN "destroy" ELSE "join"
    /\ next' = IF IsLast(next) THEN next ELSE next + 1
    /\ UNCHANGED <<build, signalVars, threadVars>>

\* acs_destroy frees the devices; it transmits nothing to the H-bridge.
DestroyModules ==
    /\ MainAt("destroy")
    /\ main' = "returned"
    /\ UNCHANGED <<build, signalVars, threadVars, next>>

Main == \/ CountBoot \/ RegisterHandler \/ InitModules \/ CreateThread \/ CreateFails
        \/ JoinThread \/ DestroyModules

-----------------------------------------------------------------------------
(* SIGINT.                                                                 *)

\* Some thread has tested done and is not asleep yet.
Between == pc["acs"] = "first" \/ pc["datavis"] = "drowsy"

CatchSigint ==
    /\ ~Over /\ handler = 0 /\ signals < MaxSignals
    /\ main \notin {"boot", "register"}
    /\ ~(oneShot /\ signals > 0)
    /\ done' = TRUE
    /\ handler' = IF wakeups(build) = << >> THEN 0 ELSE 1
    /\ missed' = IF done THEN missed ELSE Between
    /\ signals' = signals + 1
    /\ UNCHANGED <<build, mainVars, threadVars, oneShot>>

\* Before the handler is registered, and after a one-shot handler has run, SIGINT has
\* its default action.
KilledBySigint ==
    /\ ~Over /\ handler = 0 /\ signals < MaxSignals
    /\ main \in {"boot", "register"} \/ (oneShot /\ signals > 0)
    /\ main' = "killed"
    /\ signals' = signals + 1
    /\ UNCHANGED <<build, threadVars, next, handler, oneShot, done, missed>>

\* Mutant: the last condition variable is not broadcast to.
WakeAllButLast ==
    /\ ~Over /\ handler > 0
    /\ IF handler < Len(wakeups(build)) THEN Broadcast(wakeups(build)[handler])
                                        ELSE UNCHANGED pc
    /\ handler' = IF handler = Len(wakeups(build)) THEN 0 ELSE handler + 1
    /\ UNCHANGED <<build, mainVars, acsVars, signals, oneShot, done, missed>>

WakeNext ==
    /\ ~Over /\ handler > 0
    /\ Broadcast(wakeups(build)[handler])
    /\ handler' = IF handler = Len(wakeups(build)) THEN 0 ELSE handler + 1
    /\ UNCHANGED <<build, mainVars, acsVars, signals, oneShot, done, missed>>

-----------------------------------------------------------------------------
(* acs_thread.                                                             *)

At(t, place) == ~Over /\ pc[t] = place

\* while (!done), and the first run's block, which waits in the SITL builds.
AcsTop ==
    /\ At("acs", "top")
    /\ Goto("acs", IF done THEN "ended"
                   ELSE IF first_run /\ build # "HITL" THEN "first" ELSE "measure")
    /\ first_run' = (first_run /\ done)
    /\ UNCHANGED <<build, mainVars, signalVars, haveOmega, coilVars>>

AcsWaits ==
    /\ At("acs", "first")
    /\ Goto("acs", "asleep")
    /\ UNCHANGED <<build, mainVars, signalVars, acsVars>>

\* readSensors: there may or may not be an angular velocity afterwards.
AcsMeasure ==
    /\ At("acs", "measure")
    /\ Goto("acs", "publish")
    /\ haveOmega' \in BOOLEAN
    /\ UNCHANGED <<build, mainVars, signalVars, first_run, coilVars>>

AcsPublish ==
    /\ At("acs", "publish")
    /\ IF build = "DATAVIS" /\ haveOmega
       THEN pc' = [pc EXCEPT !["acs"] = "act",
                             !["datavis"] = IF @ = "asleep" THEN "serve" ELSE @]
       ELSE Goto("acs", "act")
    /\ UNCHANGED <<build, mainVars, signalVars, acsVars>>

\* The action of the mode: one that transmits nothing, or one that drives coils, unless
\* there is no direction to drive them in or the transmission is lost.
AcsAct ==
    /\ At("acs", "act")
    /\ \/ Goto("acs", "top") /\ UNCHANGED driven
       \/ Goto("acs", "acting") /\ driven' \in BOOLEAN
    /\ UNCHANGED <<build, mainVars, signalVars, first_run, haveOmega, unheeded>>

\* The turn-offs of an action: nobody looks whether they got through to the H-bridge.
TurnOff ==
    \/ driven' = FALSE /\ unheeded' = FALSE
    \/ build = "HITL" /\ driven' \in BOOLEAN /\ unheeded' = TRUE

\* Mutant: the action is abandoned when the program is told to stop.
AcsActAbandoned ==
    /\ At("acs", "acting")
    /\ Goto("acs", "top")
    /\ IF done THEN UNCHANGED driven /\ unheeded' = FALSE ELSE TurnOff
    /\ UNCHANGED <<build, mainVars, signalVars, first_run, haveOmega>>

AcsActEnds ==
    /\ At("acs", "acting")
    /\ Goto("acs", "top")
    /\ TurnOff
    /\ UNCHANGED <<build, mainVars, signalVars, first_run, haveOmega>>

AcsThread == \/ AcsTop \/ AcsWaits \/ AcsMeasure \/ AcsPublish \/ AcsAct \/ AcsActEnds

-----------------------------------------------------------------------------
(* datavis_thread.  accept gives up after a second, so serving ends.       *)

DatavisTop ==
    /\ At("datavis", "top")
    /\ Goto("datavis", IF done THEN "ended" ELSE "drowsy")
    /\ UNCHANGED <<build, mainVars, signalVars, acsVars>>

DatavisWaits ==
    /\ At("datavis", "drowsy")
    /\ Goto("datavis", "asleep")
    /\ UNCHANGED <<build, mainVars, signalVars, acsVars>>

DatavisServe ==
    /\ At("datavis", "serve")
    /\ Goto("datavis", "top")
    /\ UNCHANGED <<build, mainVars, signalVars, acsVars>>

DatavisThread == DatavisTop \/ DatavisWaits \/ DatavisServe

-----------------------------------------------------------------------------
(* sitl_comm.                                                              *)

\* The device opens, or the thread returns at once.
CommSetup ==
    /\ At("sitl_comm", "top")
    /\ \/ Goto("sitl_comm", "loop")
       \/ Goto("sitl_comm", "ended")
    /\ UNCHANGED <<build, mainVars, signalVars, acsVars>>

CommLoop ==
    /\ At("sitl_comm", "loop")
    /\ Goto("sitl_comm", IF done THEN "ended" ELSE "preamble")
    /\ UNCHANGED <<build, mainVars, signalVars, acsVars>>

\* The simulator's ten preamble bytes have come.
PreambleArrives ==
    /\ At("sitl_comm", "preamble")
    /\ Goto("sitl_comm", "tell")
    /\ UNCHANGED <<build, mainVars, signalVars, acsVars>>

\* Mutant: done is not looked at while waiting for the preamble.
PreambleUnbroken == FALSE /\ UNCHANGED vars

\* done is tested before every byte.
PreambleBreaks ==
    /\ At("sitl_comm", "preamble") /\ done
    /\ Goto("sitl_comm", "tell")
    /\ UNCHANGED <<build, mainVars, signalVars, acsVars>>

\* The release of acs_thread, made for every frame and on breaking the loop.
CommTells ==
    /\ At("sitl_comm", "tell")
    /\ pc' = [pc EXCEPT !["sitl_comm"] = "frame",
                        !["acs"] = IF @ = "asleep" THEN "measure" ELSE @]
    /\ UNCHANGED <<build, mainVars, signalVars, acsVars>>

\* The frame is handled, or skipped when done is set; either ends at the loop's test.
CommFrame ==
    /\ At("sitl_comm", "frame")
    /\ Goto("sitl_comm", "loop")
    /\ UNCHANGED <<build, mainVars, signalVars, acsVars>>

\* What sitl_comm does without the simulator's help.
CommThread == CommSetup \/ CommLoop \/ PreambleBreaks \/ CommTells \/ CommFrame

-----------------------------------------------------------------------------

\* POSIX allows a wait to return without a broadcast.
SpuriousWakeup ==
    /\ ~Over
    /\ \E t \in Thread :
          /\ pc[t] = "asleep"
          /\ Goto(t, IF t = "acs" THEN "measure" ELSE "serve")
    /\ UNCHANGED <<build, mainVars, signalVars, acsVars>>

ProgramOver == Over /\ UNCHANGED vars

Next ==
    \/ Main \/ CatchSigint \/ KilledBySigint \/ WakeNext
    \/ AcsThread \/ DatavisThread \/ CommThread \/ PreambleArrives
    \/ SpuriousWakeup \/ ProgramOver

\* The scheduler runs every runnable thread; nothing obliges the simulator to send, a
\* signal to come or a wait to return spuriously.
Fairness ==
    /\ WF_vars(Main) /\ WF_vars(WakeNext)
    /\ WF_vars(AcsThread) /\ WF_vars(DatavisThread) /\ WF_vars(CommThread)

Spec == Init /\ [][Next]_vars /\ Fairness

-----------------------------------------------------------------------------
(* Properties.                                                             *)

TypeOK ==
    /\ build \in Build
    /\ main \in {"boot", "register", "init", "create", "join", "destroy", "returned",
                 "aborted", "killed"}
    /\ next \in 1 .. Len(module_exec(build))
    /\ handler \in 0 .. Len(wakeups(build))
    /\ signals \in 0 .. MaxSignals
    /\ oneShot \in BOOLEAN /\ done \in BOOLEAN /\ missed \in BOOLEAN
    /\ pc["acs"] \in {"unborn", "top", "first", "asleep", "measure", "publish", "act",
                      "acting", "ended"}
    /\ pc["datavis"] \in {"unborn", "top", "drowsy", "asleep", "serve", "ended"}
    /\ pc["sitl_comm"] \in {"unborn", "top", "loop", "preamble", "tell", "frame", "ended"}
    /\ first_run \in BOOLEAN /\ haveOmega \in BOOLEAN /\ driven \in BOOLEAN /\ unheeded \in BOOLEAN

\* Devices are destroyed under no thread: when main frees the H-bridge and closes its
\* bus, every thread of the build has returned, however the SIGINT, the wake-ups and
\* thread creation interleaved.
JoinedBeforeDestroy ==
    main \in {"destroy", "returned"} =>
        \A t \in Thread : pc[t] \in {"unborn", "ended"}

\* Nothing in the way out turns the coils off (acs_destroy only closes the bus), so the
\* loop must: at whatever point of an action SIGINT comes, an orderly return leaves coils
\* driven only when the turn-offs that end the last action were lost, or when no action
\* followed the unset packet of acs_init.  In the SITL builds neither happens.
CoilsOffAtReturn ==
    main = "returned" /\ driven => unheeded /\ build = "HITL"

\* SIGINT ends the program when it finds no thread between its test of done and its
\* wait: the wake-ups it makes, those made by sitl_comm and acs_thread on their way out,
\* and the joins in creation order never leave anyone waiting.
InterruptEnds == (done /\ ~missed) ~> Over

\* The serial thread never waits on a condition and polls done for every byte: it ends
\* after SIGINT even when a missed wake-up keeps main from returning, and even when the
\* simulator is silent.
SerialEnds ==
    (done /\ pc["sitl_comm"] # "unborn") ~> (Over \/ pc["sitl_comm"] = "ended")
=============================================================================
