------------------------------ MODULE MainProofs ------------------------------
(***************************************************************************)
(* Proofs about src/src/main.c: the lifecycle of the program, in each      *)
(* build and for every number of SIGINTs, and the boot counter, for every  *)
(* number of boots and with crashes and late write-backs at every point.   *)
(***************************************************************************)
EXTENDS Lifecycle, BootCount, TLAPS

-----------------------------------------------------------------------------
(* The lifecycle.                                                          *)

Place == {"unborn", "top", "first", "asleep", "measure", "publish", "act", "acting",
          "ended", "drowsy", "serve", "loop", "preamble", "tell", "frame"}

Listed(i) == module_exec(build)[i]

Listing == 1 .. Len(module_exec(build))

\* A thread lives only between its creation and its return, and main counts them:
\* those it has yet to create are unborn, those it has joined have ended.
BornInv ==
    /\ main \in {"boot", "register", "init"} =>
           next = 1 /\ \A t \in Thread : pc[t] = "unborn"
    /\ \A t \in Thread : (\A i \in Listing : t # Listed(i)) => pc[t] = "unborn"
    /\ main = "create" => \A i \in Listing : i >= next => pc[Listed(i)] = "unborn"
    /\ main = "join" => \A i \in Listing : i < next => pc[Listed(i)] = "ended"

\* Coils are driven during an action only, unless the bridge was not told otherwise, which
\* only a bridge that transmissions go to can miss.
DrivenInv ==
    /\ driven => pc["acs"] = "acting" \/ unheeded
    /\ unheeded => build = "HITL"

IInv ==
    /\ TypeOK
    /\ pc \in [Thread -> Place]
    /\ BornInv
    /\ JoinedBeforeDestroy
    /\ DrivenInv

-----------------------------------------------------------------------------

\* The tables of modules.h name at least one thread, and none of them twice.
LEMMA Tables ==
    ASSUME NEW b \in Build
    PROVE  /\ module_exec(b) \in Seq(Thread)
           /\ Len(module_exec(b)) \in 1 .. 3
           /\ \A i, j \in 1 .. Len(module_exec(b)) :
                  module_exec(b)[i] = module_exec(b)[j] => i = j
           /\ Len(wakeups(b)) \in 0 .. 2
<1>1. CASE b = "HITL"
  BY <1>1 DEF module_exec, wakeups, Thread
<1>2. CASE b = "SITL"
  BY <1>2 DEF module_exec, wakeups, Thread
<1>3. CASE b = "DATAVIS"
  BY <1>3 DEF module_exec, wakeups, Thread
<1> QED
  BY <1>1, <1>2, <1>3 DEF Build

LEMMA Types ==
    ASSUME IInv
    PROVE  /\ build \in Build
           /\ module_exec(build) \in Seq(Thread)
           /\ Listing \subseteq 1 .. 3
           /\ Len(module_exec(build)) \in 1 .. 3 /\ Len(wakeups(build)) \in 0 .. 2
           /\ \A i \in Listing : Listed(i) \in Thread
           /\ \A i, j \in Listing : Listed(i) = Listed(j) => i = j
           /\ next \in Listing
           /\ pc \in [Thread -> Place]
<1>1. build \in Build
  BY DEF IInv, TypeOK
<1> QED
  BY <1>1, Tables DEF IInv, TypeOK, Listing, Listed

\* What main creates is only ever created by main, and an ended thread stays ended.
LEMMA ThreadsKeep ==
    ASSUME IInv, [Next]_vars, ~CreateThread, NEW t \in Thread
    PROVE  /\ pc[t] = "unborn" => pc'[t] = "unborn"
           /\ pc[t] = "ended" => pc'[t] = "ended"
<1> USE Types DEF Thread, Place
<1>1. CASE Main
  BY <1>1 DEF Main, CountBoot, RegisterHandler, InitModules, CreateFails, JoinThread,
              DestroyModules, threadVars
<1>2. CASE CatchSigint \/ KilledBySigint \/ ProgramOver \/ UNCHANGED vars
  BY <1>2 DEF CatchSigint, KilledBySigint, ProgramOver, threadVars, vars
<1>3. CASE WakeNext
  BY <1>3 DEF WakeNext, Broadcast
<1>4. CASE AcsThread
  BY <1>4 DEF AcsThread, At, Goto, AcsTop, AcsWaits, AcsMeasure, AcsPublish, AcsAct,
              AcsActEnds
<1>5. CASE DatavisThread
  BY <1>5 DEF DatavisThread, At, Goto, DatavisTop, DatavisWaits, DatavisServe
<1>6. CASE CommThread \/ PreambleArrives
  BY <1>6 DEF CommThread, PreambleArrives, At, Goto, CommSetup, CommLoop, PreambleBreaks,
              CommTells, CommFrame
<1>7. CASE SpuriousWakeup
  BY <1>7 DEF SpuriousWakeup, Goto
<1> QED
  BY <1>1, <1>2, <1>3, <1>4, <1>5, <1>6, <1>7 DEF Next

\* The build never changes, and only main's own steps move it, unless it is killed.
LEMMA MainKeeps ==
    ASSUME [Next]_vars, ~Main
    PROVE  /\ build' = build /\ next' = next
           /\ main' = main \/ main' = "killed"
<1> USE DEF mainVars
<1>1. CASE CatchSigint \/ KilledBySigint \/ ProgramOver \/ UNCHANGED vars
  BY <1>1 DEF CatchSigint, KilledBySigint, ProgramOver, vars
<1>2. CASE WakeNext
  BY <1>2 DEF WakeNext
<1>3. CASE AcsThread
  BY <1>3 DEF AcsThread, AcsTop, AcsWaits, AcsMeasure, AcsPublish, AcsAct, AcsActEnds
<1>4. CASE DatavisThread
  BY <1>4 DEF DatavisThread, DatavisTop, DatavisWaits, DatavisServe
<1>5. CASE CommThread \/ PreambleArrives
  BY <1>5 DEF CommThread, PreambleArrives, CommSetup, CommLoop, PreambleBreaks, CommTells,
              CommFrame
<1>6. CASE SpuriousWakeup
  BY <1>6 DEF SpuriousWakeup
<1> QED
  BY <1>1, <1>2, <1>3, <1>4, <1>5, <1>6 DEF Next

LEMMA BuildKept == [Next]_vars => build' = build
<1> SUFFICES ASSUME [Next]_vars PROVE build' = build
  OBVIOUS
<1>1. CASE Main
  BY <1>1 DEF Main, CountBoot, RegisterHandler, InitModules, CreateThread, CreateFails,
              JoinThread, DestroyModules
<1> QED
  BY <1>1, MainKeeps

-----------------------------------------------------------------------------
(* Types.                                                                  *)

PcOK ==
    /\ pc \in [Thread -> Place]
    /\ pc["acs"] \in {"unborn", "top", "first", "asleep", "measure", "publish", "act",
                      "acting", "ended"}
    /\ pc["datavis"] \in {"unborn", "top", "drowsy", "asleep", "serve", "ended"}
    /\ pc["sitl_comm"] \in {"unborn", "top", "loop", "preamble", "tell", "frame", "ended"}

LEMMA PcStep == IInv /\ [Next]_vars => PcOK'
<1> SUFFICES ASSUME IInv, [Next]_vars PROVE PcOK'
  OBVIOUS
<1>pc. PcOK
  BY DEF IInv, TypeOK, PcOK
<1> USE <1>pc DEF PcOK, Thread, Place
<1>1. CASE CreateThread
  <2>1. Listed(next) \in Thread
    BY Types
  <2>2. pc' = [pc EXCEPT ![Listed(next)] = "top"]
    BY <1>1 DEF CreateThread, Goto, Listed
  <2> QED
    BY <2>1, <2>2
<1>2. CASE Main /\ ~CreateThread
  BY <1>2 DEF Main, CountBoot, RegisterHandler, InitModules, CreateFails, JoinThread,
              DestroyModules, threadVars
<1>3. CASE CatchSigint \/ KilledBySigint \/ ProgramOver \/ UNCHANGED vars
  BY <1>3 DEF CatchSigint, KilledBySigint, ProgramOver, threadVars, vars
<1>4. CASE WakeNext
  BY <1>4 DEF WakeNext, Broadcast
<1>5. CASE AcsThread
  BY <1>5 DEF AcsThread, At, Goto, AcsTop, AcsWaits, AcsMeasure, AcsPublish, AcsAct,
              AcsActEnds
<1>6. CASE DatavisThread
  BY <1>6 DEF DatavisThread, At, Goto, DatavisTop, DatavisWaits, DatavisServe
<1>7. CASE CommThread \/ PreambleArrives
  BY <1>7 DEF CommThread, PreambleArrives, At, Goto, CommSetup, CommLoop, PreambleBreaks,
              CommTells, CommFrame
<1>8. CASE SpuriousWakeup
  BY <1>8 DEF SpuriousWakeup, Goto
<1> QED
  BY <1>1, <1>2, <1>3, <1>4, <1>5, <1>6, <1>7, <1>8 DEF Next

MainOK ==
    /\ main \in {"boot", "register", "init", "create", "join", "destroy", "returned",
                 "aborted", "killed"}
    /\ next \in 1 .. Len(module_exec(build))

LEMMA MainStep == IInv /\ [Next]_vars => MainOK'
<1> SUFFICES ASSUME IInv, [Next]_vars PROVE MainOK'
  OBVIOUS
<1>1. build' = build
  BY BuildKept
<1>2. MainOK /\ Len(module_exec(build)) \in 1 .. 3
  BY Types DEF IInv, TypeOK, MainOK
<1>3. CASE ~Main
  BY <1>1, <1>2, <1>3, MainKeeps DEF MainOK
<1>4. CASE CreateThread
  BY <1>1, <1>2, <1>4 DEF CreateThread, IsLast, MainOK
<1>5. CASE JoinThread
  BY <1>1, <1>2, <1>5 DEF JoinThread, IsLast, MainOK
<1>6. CASE CountBoot \/ RegisterHandler \/ InitModules \/ CreateFails \/ DestroyModules
  BY <1>1, <1>2, <1>6 DEF CountBoot, RegisterHandler, InitModules, CreateFails,
                         DestroyModules, MainOK
<1> QED
  BY <1>3, <1>4, <1>5, <1>6 DEF Main

SignalsOK ==
    /\ handler \in 0 .. Len(wakeups(build))
    /\ signals \in 0 .. MaxSignals

LEMMA SignalsStep == IInv /\ [Next]_vars => SignalsOK'
<1> SUFFICES ASSUME IInv, [Next]_vars PROVE SignalsOK'
  OBVIOUS
<1>1. build' = build
  BY BuildKept
<1>2. SignalsOK /\ Len(wakeups(build)) \in 0 .. 2 /\ MaxSignals \in Nat
  BY Types, SignalsAssumption DEF IInv, TypeOK, SignalsOK
<1>3. CASE CatchSigint
  <2>1. wakeups(build) # << >> => Len(wakeups(build)) # 0
    BY DEF IInv, TypeOK, Build, wakeups
  <2> QED
    BY <1>1, <1>2, <1>3, <2>1 DEF CatchSigint, SignalsOK
<1>4. CASE WakeNext
  BY <1>1, <1>2, <1>4 DEF WakeNext, SignalsOK
<1>5. CASE KilledBySigint
  BY <1>1, <1>2, <1>5 DEF KilledBySigint, SignalsOK
<1>6. CASE ~CatchSigint /\ ~WakeNext /\ ~KilledBySigint
  <2>1. handler' = handler /\ signals' = signals
    <3> USE DEF signalVars
    <3>1. CASE Main
      BY <3>1 DEF Main, CountBoot, RegisterHandler, InitModules, CreateThread, CreateFails,
                  JoinThread, DestroyModules
    <3>2. CASE AcsThread
      BY <3>2 DEF AcsThread, AcsTop, AcsWaits, AcsMeasure, AcsPublish, AcsAct, AcsActEnds
    <3>3. CASE DatavisThread
      BY <3>3 DEF DatavisThread, DatavisTop, DatavisWaits, DatavisServe
    <3>4. CASE CommThread \/ PreambleArrives
      BY <3>4 DEF CommThread, PreambleArrives, CommSetup, CommLoop, PreambleBreaks,
                  CommTells, CommFrame
    <3>5. CASE SpuriousWakeup \/ ProgramOver \/ UNCHANGED vars
      BY <3>5 DEF SpuriousWakeup, ProgramOver, vars
    <3> QED
      BY <1>6, <3>1, <3>2, <3>3, <3>4, <3>5 DEF Next
  <2> QED
    BY <1>1, <1>2, <2>1 DEF SignalsOK
<1> QED
  BY <1>3, <1>4, <1>5, <1>6

FlagsOK ==
    /\ oneShot \in BOOLEAN /\ done \in BOOLEAN /\ missed \in BOOLEAN
    /\ first_run \in BOOLEAN /\ haveOmega \in BOOLEAN /\ driven \in BOOLEAN
    /\ unheeded \in BOOLEAN

LEMMA FlagsStep == IInv /\ [Next]_vars => FlagsOK'
<1> SUFFICES ASSUME IInv, [Next]_vars PROVE FlagsOK'
  OBVIOUS
<1>flags. FlagsOK
  BY DEF IInv, TypeOK, FlagsOK
<1> USE <1>flags DEF FlagsOK, signalVars, coilVars, acsVars, threadVars
<1>1. CASE Main
  BY <1>1 DEF Main, CountBoot, RegisterHandler, InitModules, CreateThread, CreateFails,
              JoinThread, DestroyModules
<1>2. CASE CatchSigint
  BY <1>2 DEF CatchSigint, Between
<1>3. CASE KilledBySigint \/ WakeNext \/ SpuriousWakeup \/ ProgramOver \/ UNCHANGED vars
  BY <1>3 DEF KilledBySigint, WakeNext, SpuriousWakeup, ProgramOver, vars
<1>4. CASE AcsThread
  BY <1>4 DEF AcsThread, AcsTop, AcsWaits, AcsMeasure, AcsPublish, AcsAct, AcsActEnds,
              TurnOff
<1>5. CASE DatavisThread
  BY <1>5 DEF DatavisThread, DatavisTop, DatavisWaits, DatavisServe
<1>6. CASE CommThread \/ PreambleArrives
  BY <1>6 DEF CommThread, PreambleArrives, CommSetup, CommLoop, PreambleBreaks, CommTells,
              CommFrame
<1> QED
  BY <1>1, <1>2, <1>3, <1>4, <1>5, <1>6 DEF Next

LEMMA TypeStep == IInv /\ [Next]_vars => TypeOK'
<1> SUFFICES ASSUME IInv, [Next]_vars PROVE TypeOK'
  OBVIOUS
<1>1. (build \in Build)'
  BY BuildKept DEF IInv, TypeOK
<1>2. PcOK' /\ MainOK' /\ SignalsOK' /\ FlagsOK'
  BY PcStep, MainStep, SignalsStep, FlagsStep
<1> QED
  BY <1>1, <1>2, Zenon DEF TypeOK, PcOK, MainOK, SignalsOK, FlagsOK

-----------------------------------------------------------------------------
(* Threads and joins.                                                      *)

\* Creation in order finds each thread unborn, and a join passes an ended thread only.
LEMMA BornStep == IInv /\ [Next]_vars => BornInv'
<1> SUFFICES ASSUME IInv, [Next]_vars PROVE BornInv'
  OBVIOUS
<1>1. /\ build' = build
      /\ Listing' = Listing /\ \A i : Listed(i)' = Listed(i)
  BY BuildKept DEF Listing, Listed
<1>2. BornInv
  BY DEF IInv
<1>3. CASE CreateThread
  <2>1. /\ main = "create" /\ main' \in {"create", "join"}
        /\ main' = "create" => next' = next + 1
        /\ main' = "join" => next' = 1
        /\ pc' = [pc EXCEPT ![Listed(next)] = "top"]
    BY <1>3 DEF CreateThread, MainAt, Goto, Listed
  <2>2. \A t \in Thread : (\A i \in Listing : t # Listed(i)) => pc'[t] = "unborn"
    BY <1>2, <2>1, Types DEF BornInv
  <2>3. main' = "create" => \A i \in Listing : i >= next' => pc'[Listed(i)] = "unborn"
    BY <1>2, <2>1, Types DEF BornInv
  <2>4. main' = "join" => \A i \in Listing : ~(i < next')
    BY <2>1, Types
  <2> QED
    BY <1>1, <2>1, <2>2, <2>3, <2>4 DEF BornInv
<1>4. CASE ~CreateThread
  <2>1. \A t \in Thread : /\ pc[t] = "unborn" => pc'[t] = "unborn"
                          /\ pc[t] = "ended" => pc'[t] = "ended"
    BY <1>4, ThreadsKeep
  <2>2. \A t \in Thread : (\A i \in Listing : t # Listed(i)) => pc'[t] = "unborn"
    BY <1>2, <2>1 DEF BornInv
  <2>3. CASE JoinThread
    <3>1. /\ main = "join" /\ main' \in {"join", "destroy"}
          /\ main' = "join" => next' = next + 1
          /\ pc' = pc /\ pc[Listed(next)] = "ended"
      BY <2>3 DEF JoinThread, MainAt, Listed, threadVars
    <3>2. main' = "join" => \A i \in Listing : i < next' => pc'[Listed(i)] = "ended"
      BY <1>2, <3>1, Types DEF BornInv
    <3> QED
      BY <1>1, <2>2, <3>1, <3>2 DEF BornInv
  <2>4. CASE ~JoinThread
    <3>1. /\ next' = next
          /\ \/ main' = main
             \/ main = "init" /\ main' = "create"
             \/ main = "boot" /\ main' = "register"
             \/ main = "register" /\ main' = "init"
             \/ main' \in {"returned", "aborted", "killed"}
      BY <1>4, <2>4, MainKeeps
      DEF Main, MainAt, CountBoot, RegisterHandler, InitModules, CreateFails,
          DestroyModules
    <3>2. main' \in {"boot", "register", "init"} =>
              next' = 1 /\ \A t \in Thread : pc'[t] = "unborn"
      BY <1>2, <2>1, <3>1 DEF BornInv
    <3>3. main' = "create" => \A i \in Listing : i >= next' => pc'[Listed(i)] = "unborn"
      BY <1>2, <2>1, <3>1, Types DEF BornInv
    <3>4. main' = "join" => \A i \in Listing : i < next' => pc'[Listed(i)] = "ended"
      BY <1>2, <2>1, <3>1, Types DEF BornInv
    <3> QED
      BY <1>1, <2>2, <3>2, <3>3, <3>4 DEF BornInv
  <2> QED
    BY <2>3, <2>4
<1> QED
  BY <1>3, <1>4

\* Main reaches its destroy calls by the last join, when all of the table has ended.
LEMMA JoinedStep == IInv /\ [Next]_vars => JoinedBeforeDestroy'
<1> SUFFICES ASSUME IInv, [Next]_vars, main' \in {"destroy", "returned"},
                    NEW t \in Thread
             PROVE  pc'[t] \in {"unborn", "ended"}
  BY DEF JoinedBeforeDestroy
<1>1. ~CreateThread
  BY DEF CreateThread
<1>2. /\ pc[t] = "unborn" => pc'[t] = "unborn"
      /\ pc[t] = "ended" => pc'[t] = "ended"
  BY <1>1, ThreadsKeep
<1>3. CASE JoinThread
  <2>1. /\ main = "join" /\ next = Len(module_exec(build))
        /\ pc[Listed(next)] = "ended"
    BY <1>3 DEF JoinThread, MainAt, IsLast, Listed
  <2>2. \A i \in Listing : pc[Listed(i)] = "ended"
    BY <2>1, Types DEF IInv, BornInv, Listing
  <2> QED
    BY <1>2, <2>2 DEF IInv, BornInv
<1>4. CASE ~JoinThread
  <2>1. main \in {"destroy", "returned"}
    BY <1>1, <1>4, MainKeeps
    DEF Main, MainAt, CountBoot, RegisterHandler, InitModules, CreateFails,
        DestroyModules
  <2> QED
    BY <1>2, <2>1 DEF IInv, JoinedBeforeDestroy
<1> QED
  BY <1>3, <1>4

\* Only the end of an action leaves "acting", and it turns the coils off or is unheeded.
LEMMA DrivenStep == IInv /\ [Next]_vars => DrivenInv'
<1> SUFFICES ASSUME IInv, [Next]_vars PROVE DrivenInv'
  OBVIOUS
<1>1. DrivenInv /\ pc \in [Thread -> Place] /\ "acs" \in Thread /\ build' = build
  BY BuildKept DEF IInv, Thread
<1>2. CASE AcsActEnds
  BY <1>1, <1>2, Zenon DEF AcsActEnds, TurnOff, DrivenInv
<1>3. CASE AcsAct
  <2>1. pc["acs"] = "act" /\ (driven' = driven \/ pc'["acs"] = "acting")
    BY <1>1, <1>3 DEF AcsAct, At, Goto
  <2>2. driven => unheeded
    BY <1>1, <2>1 DEF DrivenInv
  <2>3. unheeded' <=> unheeded
    BY <1>3 DEF AcsAct
  <2>4. driven' => pc'["acs"] = "acting" \/ unheeded'
    BY <2>1, <2>2, <2>3, Zenon
  <2>5. unheeded' => build' = "HITL"
    BY <1>1, <2>3, Zenon DEF DrivenInv
  <2> QED
    BY <2>4, <2>5, Zenon DEF DrivenInv
<1>4. CASE InitModules
  <2>1. CASE build = "HITL"
    <3>1. unheeded'
      BY <1>4, <2>1, Zenon DEF InitModules
    <3> QED
      BY <1>1, <2>1, <3>1, Zenon DEF DrivenInv
  <2>2. CASE build # "HITL"
    <3>1. driven' = driven /\ unheeded' = unheeded /\ pc' = pc
      BY <1>4, <2>2 DEF InitModules, coilVars
    <3> QED
      BY <1>1, <3>1, Zenon DEF DrivenInv
  <2> QED
    BY <2>1, <2>2
<1>5. CASE ~AcsActEnds /\ ~AcsAct /\ ~InitModules
  <2> USE DEF coilVars, acsVars, threadVars, Thread, Place
  <2>1. /\ driven' = driven /\ unheeded' = unheeded
        /\ (pc["acs"] = "acting" => pc'["acs"] = "acting")
    <3>1. CASE CreateThread
      <4>1. Listed(next) \in Thread /\ pc[Listed(next)] = "unborn"
        BY <3>1, Types DEF CreateThread, MainAt, IInv, BornInv
      <4> QED
        BY <1>1, <3>1, <4>1 DEF CreateThread, Goto, Listed
    <3>2. CASE Main /\ ~CreateThread
      BY <1>5, <3>2 DEF Main, CountBoot, RegisterHandler, CreateFails, JoinThread,
                        DestroyModules
    <3>3. CASE CatchSigint \/ KilledBySigint \/ ProgramOver \/ UNCHANGED vars
      BY <3>3 DEF CatchSigint, KilledBySigint, ProgramOver, vars
    <3>4. CASE WakeNext
      BY <1>1, <3>4 DEF WakeNext, Broadcast
    <3>5. CASE AcsThread
      BY <1>1, <1>5, <3>5 DEF AcsThread, At, Goto, AcsTop, AcsWaits, AcsMeasure, AcsPublish
    <3>6. CASE DatavisThread
      BY <1>1, <3>6 DEF DatavisThread, At, Goto, DatavisTop, DatavisWaits, DatavisServe
    <3>7. CASE CommThread \/ PreambleArrives
      BY <1>1, <3>7 DEF CommThread, PreambleArrives, At, Goto, CommSetup, CommLoop,
                        PreambleBreaks, CommTells, CommFrame
    <3>8. CASE SpuriousWakeup
      BY <1>1, <3>8 DEF SpuriousWakeup, Goto
    <3> QED
      BY <3>1, <3>2, <3>3, <3>4, <3>5, <3>6, <3>7, <3>8 DEF Next
  <2> QED
    BY <1>1, <2>1, Zenon DEF DrivenInv
<1> QED
  BY <1>2, <1>3, <1>4, <1>5

-----------------------------------------------------------------------------

LEMMA InitInv == Init => IInv
<1> SUFFICES ASSUME Init PROVE IInv
  OBVIOUS
<1>1. /\ build \in Build /\ Len(module_exec(build)) \in 1 .. 3
      /\ Len(wakeups(build)) \in 0 .. 2 /\ MaxSignals \in Nat
  BY Tables, SignalsAssumption DEF Init
<1>2. PcOK /\ MainOK /\ SignalsOK
  BY <1>1 DEF Init, PcOK, MainOK, SignalsOK, Thread, Place
<1>3. FlagsOK
  BY Zenon DEF Init, FlagsOK
<1>4. TypeOK
  BY <1>1, <1>2, <1>3, Zenon DEF TypeOK, PcOK, MainOK, SignalsOK, FlagsOK
<1>5. BornInv /\ JoinedBeforeDestroy
  BY DEF Init, BornInv, JoinedBeforeDestroy
<1>6. DrivenInv
  BY Zenon DEF Init, DrivenInv
<1> QED
  BY <1>2, <1>4, <1>5, <1>6 DEF IInv, PcOK

\* The inductive invariant holds whatever SIGINTs, wake-ups and threads interleave.
THEOREM Inductive == Spec => []IInv
<1>1. IInv /\ [Next]_vars => IInv'
  BY TypeStep, PcStep, BornStep, JoinedStep, DrivenStep DEF IInv, PcOK
<1> QED
  BY InitInv, <1>1, PTL DEF Spec

\* Every variable of the lifecycle keeps its range, in each of the three builds.
THEOREM TypeCorrect == Spec => []TypeOK
<1>1. IInv => TypeOK
  BY DEF IInv
<1> QED
  BY Inductive, <1>1, PTL

\* When main frees the devices, no thread of the build is left to use them.
THEOREM NoThreadUnderDestroy == Spec => []JoinedBeforeDestroy
<1>1. IInv => JoinedBeforeDestroy
  BY DEF IInv
<1> QED
  BY Inductive, <1>1, PTL

\* An orderly return leaves coils driven only if turning them off was lost on the way to the
\* H-bridge, or never tried: at whatever point of an action SIGINT came, acs_thread has
\* ended, or was never of the build, and neither has an action open.
THEOREM ReturnsWithCoilsOff == Spec => []CoilsOffAtReturn
<1>1. IInv => CoilsOffAtReturn
  <2> SUFFICES ASSUME IInv, main = "returned", driven PROVE unheeded /\ build = "HITL"
    BY DEF CoilsOffAtReturn
  <2>1. pc["acs"] \in {"unborn", "ended"}
    BY DEF IInv, JoinedBeforeDestroy, Thread
  <2> QED
    BY <2>1 DEF IInv, DrivenInv
<1> QED
  BY Inductive, <1>1, PTL

-----------------------------------------------------------------------------
(* The boot counter.                                                       *)

\* Counts handed out so far: the file is ahead of none of the boots that wrote it, and
\* the count of the boot that runs has been read from it.
Earlier == IF stage \in {"read", "empty", "write"} THEN boots - 1 ELSE boots

CountInv ==
    /\ stage # "off" => boots > 0
    /\ file <= Earlier /\ disk <= Earlier
    /\ _bootCount < boots \/ (_bootCount = 0 /\ boots = 0)
    /\ \A n \in logs : n < boots

\* A count is ahead of every log there is.
Ahead(count) == \A n \in logs : n < count

\* While no update has been cut short, both copies of the file are ahead of the logs
\* between updates, and during one the count in memory, which both copies get, is.
LogInv ==
    ~cut =>
        /\ stage \in {"off", "read", "empty"} => Ahead(file) /\ Ahead(disk)
        /\ stage \in {"empty", "write", "sync", "init"} => \A n \in logs : n < _bootCount
        /\ stage = "sync" => file = _bootCount + 1
        /\ stage \in {"init", "flying"} =>
               file = _bootCount + 1 /\ disk = file /\ Ahead(file)

BootIInv == BootTypeOK /\ CountInv /\ LogInv /\ OwnLog

-----------------------------------------------------------------------------

\* The first boot finds no file and no log.
LEMMA BootInitInv == BootInit => BootIInv
<1> SUFFICES ASSUME BootInit PROVE BootIInv
  OBVIOUS
<1>1. BootTypeOK
  <2>1. overwritten \in BOOLEAN /\ cut \in BOOLEAN
    BY Zenon DEF BootInit
  <2>2. MaxBoots \in Nat /\ 0 \in 0 .. MaxBoots /\ Missing \in Content
    BY BootsAssumption DEF Content
  <2> QED
    BY <2>1, <2>2 DEF BootInit, BootTypeOK
<1>2. CountInv
  BY DEF BootInit, CountInv, Earlier, Missing
<1>3. LogInv
  BY DEF BootInit, LogInv, Ahead
<1>4. OwnLog
  BY DEF BootInit, OwnLog
<1> QED
  BY <1>1, <1>2, <1>3, <1>4 DEF BootIInv

\* What a step of the program or of the medium does to types: a count is read from a
\* file of an earlier boot, so that the next one is still a count.
LEMMA BootTypeStep == BootIInv /\ [BootNext]_bootVars => BootTypeOK'
<1> SUFFICES ASSUME BootIInv, [BootNext]_bootVars PROVE BootTypeOK'
  OBVIOUS
<1> USE BootsAssumption DEF BootIInv, BootTypeOK, Content, Missing, Empty
<1>1. CASE Boot
  BY <1>1 DEF Boot
<1>2. CASE ReadCount
  BY <1>2 DEF ReadCount
<1>3. CASE EmptyFile
  BY <1>3 DEF EmptyFile
<1>4. CASE WriteCount
  BY <1>4 DEF WriteCount, CountInv
<1>5. CASE Sync
  BY <1>5 DEF Sync
<1>6. CASE OpenLog
  BY <1>6 DEF OpenLog, CountInv
<1>7. CASE WriteBack
  BY <1>7 DEF WriteBack
<1>8. CASE ProcessEnds
  BY <1>8 DEF ProcessEnds, Updating
<1>9. CASE PowerLost
  BY <1>9 DEF PowerLost, Updating
<1>10. CASE UNCHANGED bootVars
  BY <1>10 DEF bootVars
<1> QED
  BY <1>1, <1>2, <1>3, <1>4, <1>5, <1>6, <1>7, <1>8, <1>9, <1>10 DEF BootNext

\* No step makes a file claim more boots than there were.
LEMMA CountStep == BootIInv /\ [BootNext]_bootVars => CountInv'
<1> SUFFICES ASSUME BootIInv, [BootNext]_bootVars PROVE CountInv'
  OBVIOUS
<1> USE BootsAssumption DEF BootIInv, BootTypeOK, CountInv, Earlier, Content, Missing, Empty
<1>1. CASE Boot
  BY <1>1 DEF Boot
<1>2. CASE ReadCount
  BY <1>2 DEF ReadCount
<1>3. CASE EmptyFile
  BY <1>3 DEF EmptyFile
<1>4. CASE WriteCount
  BY <1>4 DEF WriteCount
<1>5. CASE Sync
  BY <1>5 DEF Sync
<1>6. CASE OpenLog
  BY <1>6 DEF OpenLog
<1>7. CASE WriteBack
  BY <1>7 DEF WriteBack
<1>8. CASE ProcessEnds
  BY <1>8 DEF ProcessEnds
<1>9. CASE PowerLost
  BY <1>9 DEF PowerLost
<1>10. CASE UNCHANGED bootVars
  BY <1>10 DEF bootVars
<1> QED
  BY <1>1, <1>2, <1>3, <1>4, <1>5, <1>6, <1>7, <1>8, <1>9, <1>10 DEF BootNext

\* Where no update has been cut short, a step keeps both copies of the file, or the
\* count in memory that is to replace them, ahead of every log.
LEMMA LogStep == BootIInv /\ [BootNext]_bootVars => LogInv'
<1> SUFFICES ASSUME BootIInv, [BootNext]_bootVars, ~cut' PROVE LogInv'
  BY DEF LogInv
<1>types. /\ boots \in Nat /\ _bootCount \in Nat
          /\ file \in Content /\ disk \in Content
          /\ file \in Int /\ disk \in Int
          /\ \A n \in logs : n \in Nat
          /\ stage \in {"off", "read", "empty", "write", "sync", "init", "flying"}
  BY BootsAssumption DEF BootIInv, BootTypeOK, Content, Missing, Empty
<1>cut. ~cut
  BY DEF BootNext, bootVars, Boot, ReadCount, EmptyFile, WriteCount, Sync, OpenLog, WriteBack,
         ProcessEnds, PowerLost
<1>log. LogInv
  BY DEF BootIInv
<1> USE <1>types, <1>cut, <1>log DEF LogInv, Ahead
<1>1. CASE Boot
  BY <1>1 DEF Boot
<1>2. CASE ReadCount
  <2>1. file \in {Missing, Empty} => logs = {}
    BY <1>2 DEF ReadCount, Missing, Empty
  <2> QED
    BY <1>2, <2>1 DEF ReadCount
<1>3. CASE EmptyFile
  BY <1>3 DEF EmptyFile
<1>4. CASE WriteCount
  BY <1>4 DEF WriteCount
<1>5. CASE Sync
  BY <1>5 DEF Sync
<1>6. CASE OpenLog
  BY <1>6 DEF OpenLog
<1>7. CASE WriteBack
  BY <1>7 DEF WriteBack
<1>8. CASE ProcessEnds
  BY <1>8 DEF ProcessEnds, Updating
<1>9. CASE PowerLost
  BY <1>9 DEF PowerLost, Updating
<1>10. CASE UNCHANGED bootVars
  BY <1>10 DEF bootVars
<1> QED
  BY <1>1, <1>2, <1>3, <1>4, <1>5, <1>6, <1>7, <1>8, <1>9, <1>10 DEF BootNext

\* A log is opened with a count ahead of every log, unless an update was cut short.
LEMMA OwnStep == BootIInv /\ [BootNext]_bootVars => OwnLog'
<1> SUFFICES ASSUME BootIInv, [BootNext]_bootVars PROVE OwnLog'
  OBVIOUS
<1>1. stage = "init" /\ ~cut => _bootCount \notin logs
  <2> SUFFICES ASSUME stage = "init", ~cut, _bootCount \in logs PROVE FALSE
    OBVIOUS
  <2>1. _bootCount < _bootCount
    BY DEF BootIInv, LogInv
  <2> QED
    BY <2>1, BootsAssumption DEF BootIInv, BootTypeOK
<1>2. OwnLog
  BY DEF BootIInv
<1>3. CASE OpenLog
  BY <1>1, <1>2, <1>3, Zenon DEF OpenLog, OwnLog
<1>4. CASE ~OpenLog
  <2> USE DEF BootNext, bootVars, Boot, ReadCount, EmptyFile, WriteCount, Sync, WriteBack,
              ProcessEnds, PowerLost
  <2>1. overwritten' = overwritten
    BY <1>4
  <2>2. cut => cut'
    BY <1>4
  <2> QED
    BY <1>2, <2>1, <2>2, Zenon DEF OwnLog
<1> QED
  BY <1>3, <1>4

\* The inductive invariant holds of every run of boots, crashes and write-backs.
THEOREM BootInductive == BootSpec => []BootIInv
<1>1. BootIInv /\ [BootNext]_bootVars => BootIInv'
  BY BootTypeStep, CountStep, LogStep, OwnStep DEF BootIInv
<1> QED
  BY BootInitInv, <1>1, PTL DEF BootSpec

\* Counts, files and logs keep their ranges for every number of boots: a count read
\* back, incremented and written is one of a boot that took place.
THEOREM BootTypeCorrect == BootSpec => []BootTypeOK
<1>1. BootIInv => BootTypeOK
  BY DEF BootIInv
<1> QED
  BY BootInductive, <1>1, PTL

\* A boot reopens the log of another only after an update of the counter was cut short.
THEOREM LogOfItsOwn == BootSpec => []OwnLog
<1>1. BootIInv => OwnLog
  BY DEF BootIInv
<1> QED
  BY BootInductive, <1>1, PTL

\* After sync the file on the medium stays ahead of every log, whatever fails next.
THEOREM CountIsDurable == BootSpec => []DurableCount
<1>1. BootIInv => DurableCount
  <2> SUFFICES ASSUME BootIInv, ~cut, stage \in {"off", "read", "empty"}, NEW n \in logs
               PROVE  disk > n /\ file > n
    BY DEF DurableCount
  <2>1. n < file /\ n < disk
    BY DEF BootIInv, LogInv, Ahead
  <2>2. n \in Int /\ file \in Int /\ disk \in Int
    BY BootsAssumption DEF BootIInv, BootTypeOK, Content, Missing, Empty
  <2> QED
    BY <2>1, <2>2
<1> QED
  BY BootInductive, <1>1, PTL
=============================================================================
