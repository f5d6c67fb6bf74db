-------------------------- MODULE EpsTelemetryProofs --------------------------
(***************************************************************************)
(* Proofs about the commands to the power supply, for any threads that     *)
(* reset its watchdog, any modes and channels, and every delay of 16 bits. *)
(***************************************************************************)
EXTENDS EpsTelemetry, TLAPS

\* A watchdog thread only resets the watchdog, and reads no reply.
WatchdogInv ==
    \A t \in Watchdogs : call[t] \in {"none", "RESET_WDT"} /\ pc[t] # "read"

\* A call that is not over has a command, no result and no reply.
PendingInv ==
    /\ \A t \in Task : pc[t] # "idle" => call[t] \in Command
    /\ pc["telemetry"] # "idle" => ret["telemetry"] = "none" /\ heard["telemetry"] = -1
    /\ pc["telemetry"] = "read" => call["telemetry"] \in AwaitsReply

\* The reply the telemetry call is about to read is the answer to its command.
Answered ==
    /\ pc["telemetry"] = "read"
    /\ reply.cmd = call["telemetry"] /\ reply.err = 0

\* An answer has the body that was asked for.
BodyInv == Answered => reply.body = Body("telemetry")

\* The outputs are what the telemetry call asked for, if it asked for any.
Told ==
    /\ call["telemetry"] = "SET_OUTPUT" =>
           \A c \in Channel : outputs[c] = [on |-> c \in arg["telemetry"], after |-> 0]
    /\ call["telemetry"] = "SET_SINGLE_OUTPUT" =>
           outputs[arg["telemetry"].channel] =
               [on |-> arg["telemetry"].value, after |-> arg["telemetry"].delay]

\* A command that was answered has been carried out, and a watchdog reset undoes nothing.
OutputsInv ==
    Answered \/ (ret["telemetry"] = "success" /\ heard["telemetry"] = 0) => Told

IInv == TypeOK /\ WatchdogInv /\ PendingInv /\ BodyInv /\ HkIsAnswer /\ OutputsInv

-----------------------------------------------------------------------------
(* The bytes of a delay.                                                   *)

\* The supply puts together the delay that eps_set_single took apart, for every delay of
\* 16 bits, with or without a sign.
THEOREM DelayArrives ==
    ASSUME NEW x \in Int, -32768 <= x, x <= 32767
    PROVE  Understood(Sent(x)) = x
<1>1. HighByte(x) \in Int /\ LowByte(x) \in Int
  BY DEF HighByte, LowByte
<1>2. HighByte(x) * 256 + LowByte(x) = IF x < 0 THEN x + 65536 ELSE x
  BY DEF HighByte, LowByte
<1>3. Sent(x)[1] = HighByte(x) /\ Sent(x)[2] = LowByte(x)
  BY DEF Sent
<1>4. Sent(x)[1] * 256 + Sent(x)[2] = IF x < 0 THEN x + 65536 ELSE x
  BY <1>2, <1>3
<1> QED
  BY <1>4 DEF Understood

-----------------------------------------------------------------------------
(* What a command does.                                                    *)

LEMMA Types ==
    ASSUME IInv
    PROVE  /\ "telemetry" \in Task
           /\ \A t \in Watchdogs : t \in Task /\ t # "telemetry"
           /\ hk \in [Struct -> Struct \cup {"unset"}]
           /\ pc \in [Task -> {"idle", "write", "read"}]
           /\ call \in [Task -> Command \cup {"none", "init"}]
           /\ DOMAIN arg = Task /\ \A t \in Task : arg[t] \in Arguments(call[t])
           /\ ret \in [Task -> {"none", "success", "failure"}]
           /\ heard \in [Task -> {-1, 0, 1}]
           /\ outputs \in [Channel -> Output]
  BY EpsAssumption DEF IInv, TypeOK, Task

LEMMA OutputType ==
    ASSUME NEW b \in BOOLEAN, NEW n \in Int
    PROVE  [on |-> b, after |-> n] \in Output
  BY DEF Output

\* A command leaves every output on or off, from now or a delay on.
LEMMA EffectType ==
    ASSUME IInv, NEW t \in Task
    PROVE  Effect(t) \in [Channel -> Output]
<1>1. outputs \in [Channel -> Output]
  BY Types
<1>2. CASE call[t] = "SET_OUTPUT"
  <2>1. \A c \in Channel : [on |-> c \in arg[t], after |-> 0] \in Output
    <3>1. TAKE c \in Channel
    <3>2. (c \in arg[t]) \in BOOLEAN
      OBVIOUS
    <3>3. 0 \in Int
      OBVIOUS
    <3> QED
      BY <3>2, <3>3, OutputType, Zenon
  <2>2. Effect(t) = [c \in Channel |-> [on |-> c \in arg[t], after |-> 0]]
    BY <1>2 DEF Effect
  <2> QED
    BY <2>1, <2>2
<1>3. CASE call[t] = "SET_SINGLE_OUTPUT"
  <2>1. arg[t] \in [channel : Channel, value : BOOLEAN, delay : Delays]
    BY <1>3, Types DEF Arguments
  <2>2. arg[t].delay \in Int /\ -32768 <= arg[t].delay /\ arg[t].delay <= 32767
    BY <2>1, EpsAssumption
  <2>3. Understood(Sent(arg[t].delay)) \in Int
    BY <2>2, DelayArrives
  <2>4. [on |-> arg[t].value, after |-> Understood(Sent(arg[t].delay))] \in Output
    <3>1. arg[t].value \in BOOLEAN
      BY <2>1
    <3> QED
      BY <2>3, <3>1, OutputType, Zenon
  <2>5. Effect(t) = [outputs EXCEPT ![arg[t].channel] =
                        [on |-> arg[t].value, after |-> Understood(Sent(arg[t].delay))]]
    BY <1>3 DEF Effect
  <2> QED
    BY <1>1, <2>4, <2>5
<1>4. CASE call[t] = "REBOOT"
  <2>1. Effect(t) = Default
    BY <1>4 DEF Effect
  <2>2. [on |-> TRUE, after |-> 0] \in Output
    BY DEF Output
  <2> QED
    BY <2>1, <2>2 DEF Default
<1>5. CASE call[t] \notin {"SET_OUTPUT", "SET_SINGLE_OUTPUT", "REBOOT"}
  <2>1. Effect(t) = outputs
    BY <1>5 DEF Effect
  <2> QED
    BY <1>1, <2>1
<1> QED
  BY <1>2, <1>3, <1>4, <1>5

\* What the telemetry call asked for is what its command does, delay and all.
LEMMA EffectTold ==
    ASSUME IInv, outputs' = Effect("telemetry"),
           call' = call, arg' = arg
    PROVE  Told'
<1> DEFINE a == arg["telemetry"]
<1>1. a \in Arguments(call["telemetry"]) /\ outputs \in [Channel -> Output]
  BY Types
<1>2. CASE call["telemetry"] = "SET_OUTPUT"
  <2>1. outputs' = [c \in Channel |-> [on |-> c \in a, after |-> 0]]
    BY <1>2 DEF Effect
  <2> QED
    BY <1>2, <2>1 DEF Told
<1>3. CASE call["telemetry"] = "SET_SINGLE_OUTPUT"
  <2>1. a \in [channel : Channel, value : BOOLEAN, delay : Delays]
    BY <1>1, <1>3 DEF Arguments
  <2>2. Understood(Sent(a.delay)) = a.delay
    <3>1. a.delay \in Int /\ -32768 <= a.delay /\ a.delay <= 32767
      BY <2>1, EpsAssumption
    <3> QED
      BY <3>1, DelayArrives
  <2>3. outputs' = [outputs EXCEPT ![a.channel] =
                        [on |-> a.value, after |-> Understood(Sent(a.delay))]]
    BY <1>3 DEF Effect
  <2>4. outputs'[a.channel] = [on |-> a.value, after |-> a.delay]
    BY <1>1, <2>1, <2>2, <2>3
  <2> QED
    BY <1>3, <2>4 DEF Told
<1>4. CASE call["telemetry"] \notin {"SET_OUTPUT", "SET_SINGLE_OUTPUT"}
  BY <1>4 DEF Told
<1> QED
  BY <1>2, <1>3, <1>4

-----------------------------------------------------------------------------
(* Steps.                                                                  *)

BeginSome ==
    \E t \in Task, name \in Command : \E a \in Arguments(name) :
        (t \in Watchdogs => name = "RESET_WDT") /\ Begin(t, name, a)

\* The steps there are: every call begins alike.
LEMMA NextIs ==
    ASSUME [Next]_vars
    PROVE  \/ P31uInit("telemetry") \/ P31uDestroy \/ BeginSome
           \/ \E t \in Task : Write(t) \/ WriteFails(t) \/ Read(t) \/ ReadFails(t)
           \/ UNCHANGED vars
<1>1. "telemetry" \in Task /\ "telemetry" \notin Watchdogs
  BY EpsAssumption DEF Task
<1>2. Nothing \in Arguments("PING") /\ Nothing \in Arguments("REBOOT")
      /\ Nothing \in Arguments("RESET_WDT") /\ "hkparam" \in Arguments("GET_HK")
  BY DEF Arguments, Struct
<1>3. CASE EpsPing \/ EpsReboot
  BY <1>1, <1>2, <1>3 DEF EpsPing, EpsReboot, Telemetry, BeginSome, Command
<1>4. CASE EpsGetHk \/ EpsHk
  BY <1>1, <1>2, <1>4 DEF EpsGetHk, EpsHk, Telemetry, BeginSome, Command
<1>5. CASE EpsSetOutput \/ EpsSetSingle
  BY <1>1, <1>5 DEF EpsSetOutput, EpsSetSingle, Telemetry, BeginSome, Command
<1>6. CASE \E t \in Task : EpsResetWdt(t)
  BY <1>2, <1>6 DEF EpsResetWdt, BeginSome, Command
<1>7. CASE Closed
  BY <1>7 DEF Closed
<1> QED
  BY <1>3, <1>4, <1>5, <1>6, <1>7 DEF Next

\* Only the telemetry thread reads replies, and what it takes for an answer is one.
LEMMA ReaderIs ==
    ASSUME IInv, NEW t \in Task, pc[t] = "read"
    PROVE  /\ t = "telemetry" /\ call[t] \in AwaitsReply
           /\ call[t] = "GET_HK" /\ arg[t] \in Struct /\ Accepts(t) => reply.body = arg[t]
<1>1. t = "telemetry"
  BY DEF IInv, WatchdogInv, Task
<1>2. call[t] \in AwaitsReply
  BY <1>1 DEF IInv, PendingInv
<1>3. ASSUME call[t] = "GET_HK", arg[t] \in Struct, Accepts(t)
      PROVE  reply.body = arg[t]
  BY <1>1, <1>3 DEF IInv, BodyInv, Answered, Accepts, Body
<1> QED
  BY <1>1, <1>2, <1>3

\* Every step keeps the variables in their ranges.
LEMMA TypeStep == IInv /\ [Next]_vars => TypeOK'
<1> SUFFICES ASSUME IInv, [Next]_vars PROVE TypeOK'
  OBVIOUS
<1>t. TypeOK
  BY DEF IInv
<1> USE <1>t, Types DEF TypeOK, dev, calls, supply
<1>1. CASE P31uInit("telemetry")
  <2>1. Nothing \in Arguments("init")
    BY DEF Arguments
  <2> QED
    BY <1>1, <2>1 DEF P31uInit
<1>2. CASE P31uDestroy
  BY <1>2 DEF P31uDestroy
<1>3. CASE BeginSome
  BY <1>3 DEF BeginSome, Begin
<1>4. ASSUME NEW t \in Task, Write(t) PROVE TypeOK'
  <2>1. outputs' \in [Channel -> Output]
    BY <1>4, EffectType DEF Write, Receive
  <2>2. /\ reply'.cmd \in Command \cup {"none"}
        /\ reply'.err \in {0, 1}
    BY <1>4 DEF Write, Receive, PendingInv, IInv
  <2>3. pc' \in [Task -> {"idle", "write", "read"}]
        /\ ret' \in [Task -> {"none", "success", "failure"}]
    BY <1>4 DEF Write, Return
  <2> QED
    BY <1>4, <2>1, <2>2, <2>3 DEF Write
<1>5. ASSUME NEW t \in Task, WriteFails(t) \/ ReadFails(t) PROVE TypeOK'
  BY <1>5 DEF WriteFails, ReadFails, Return
<1>6. ASSUME NEW t \in Task, Read(t) PROVE TypeOK'
  <2>1. hk' \in [Struct -> Struct \cup {"unset"}]
    BY <1>6, ReaderIs DEF Read
  <2>2. /\ heard' \in [Task -> {-1, 0, 1}]
        /\ pc' \in [Task -> {"idle", "write", "read"}]
        /\ ret' \in [Task -> {"none", "success", "failure"}]
    BY <1>6 DEF Read, Return
  <2> QED
    BY <1>6, <2>1, <2>2 DEF Read
<1>7. CASE UNCHANGED vars
  BY <1>7 DEF vars
<1> QED
  BY <1>1, <1>2, <1>3, <1>4, <1>5, <1>6, <1>7, NextIs

LEMMA CallStep == IInv /\ [Next]_vars => WatchdogInv' /\ PendingInv'
<1> SUFFICES ASSUME IInv, [Next]_vars PROVE WatchdogInv' /\ PendingInv'
  OBVIOUS
<1>t. WatchdogInv /\ PendingInv
  BY DEF IInv
<1> USE <1>t, Types DEF WatchdogInv, PendingInv, dev, calls, supply
<1>1. CASE P31uInit("telemetry")
  BY <1>1 DEF P31uInit
<1>2. CASE P31uDestroy
  BY <1>2 DEF P31uDestroy
<1>3. CASE BeginSome
  BY <1>3 DEF BeginSome, Begin
<1>4. ASSUME NEW t \in Task, Write(t) PROVE WatchdogInv' /\ PendingInv'
  BY <1>4 DEF Write, Return, AwaitsReply
<1>5. ASSUME NEW t \in Task, WriteFails(t) \/ ReadFails(t)
      PROVE  WatchdogInv' /\ PendingInv'
  BY <1>5 DEF WriteFails, ReadFails, Return
<1>6. ASSUME NEW t \in Task, Read(t) PROVE WatchdogInv' /\ PendingInv'
  BY <1>6, ReaderIs DEF Read, Return
<1>7. CASE UNCHANGED vars
  BY <1>7 DEF vars
<1> QED
  BY <1>1, <1>2, <1>3, <1>4, <1>5, <1>6, <1>7, NextIs

\* An answer to a request for housekeeping data is stored where that data goes.
LEMMA HkStep == IInv /\ [Next]_vars => HkIsAnswer'
<1> SUFFICES ASSUME IInv, [Next]_vars PROVE HkIsAnswer'
  OBVIOUS
<1>h. HkIsAnswer
  BY DEF IInv
<1>1. ASSUME NEW t \in Task, Read(t) PROVE HkIsAnswer'
  <2>1. pc[t] = "read"
    BY <1>1 DEF Read
  <2>2. CASE hk' = [hk EXCEPT ![arg[t]] = reply.body] /\ call[t] = "GET_HK"
             /\ arg[t] \in Struct /\ Accepts(t)
    BY <1>h, <2>1, <2>2, ReaderIs, Types DEF HkIsAnswer
  <2>3. CASE hk' = hk
    BY <1>h, <2>3 DEF HkIsAnswer
  <2> QED
    BY <1>1, <2>2, <2>3 DEF Read
<1>2. CASE \A t \in Task : ~Read(t)
  <2>1. hk' = hk
    BY <1>2, NextIs DEF P31uInit, P31uDestroy, BeginSome, Begin, Write, WriteFails,
                       ReadFails, dev, vars
  <2> QED
    BY <1>h, <2>1 DEF HkIsAnswer
<1> QED
  BY <1>1, <1>2

\* What a step of another thread does to the reply: the answer to the telemetry call is
\* left as it is or replaced by one to a watchdog reset, and the outputs stay.
LEMMA OthersKeep ==
    ASSUME IInv, NEW t \in Watchdogs, Write(t)
    PROVE  /\ outputs' = outputs
           /\ reply'.cmd \in {"RESET_WDT", "none"}
<1>1. call[t] = "RESET_WDT"
  BY Types DEF Write, IInv, PendingInv, WatchdogInv, Command
<1>2. Effect(t) = outputs
  BY <1>1 DEF Effect
<1>3. \/ outputs' = Effect(t) /\ reply' = [cmd |-> call[t], err |-> 0, body |-> Body(t)]
      \/ outputs' = outputs
         /\ \E cmd \in {call[t], "none"} :
                reply' = [cmd |-> cmd, err |-> 1, body |-> Nothing]
  BY DEF Write, Receive
<1> QED
  BY <1>1, <1>2, <1>3

\* No reply but its own command's is taken for an answer, and while the call is under
\* way nothing else changes the outputs.
LEMMA AnswerStep == IInv /\ [Next]_vars => BodyInv' /\ OutputsInv'
<1> SUFFICES ASSUME IInv, [Next]_vars PROVE BodyInv' /\ OutputsInv'
  OBVIOUS
<1>i. BodyInv /\ OutputsInv /\ PendingInv
  BY DEF IInv
<1> USE <1>i, Types DEF dev, calls, supply
<1> DEFINE Over == ret["telemetry"] = "success" /\ heard["telemetry"] = 0
<1>keep. ASSUME UNCHANGED <<call, arg, outputs, reply>>,
                Answered' => Answered, Over' => Answered \/ Over
         PROVE  BodyInv' /\ OutputsInv'
  BY <1>keep DEF BodyInv, OutputsInv, Told, Body
<1>1. CASE P31uInit("telemetry")
  <2>1. ~Answered' /\ call'["telemetry"] = "init"
    BY <1>1 DEF P31uInit, Answered
  <2> QED
    BY <2>1 DEF BodyInv, OutputsInv, Told
<1>2. CASE P31uDestroy \/ UNCHANGED vars
  BY <1>2, <1>keep DEF P31uDestroy, Answered, vars
<1>3. ASSUME NEW t \in Task, NEW name \in Command, NEW a \in Arguments(name),
             Begin(t, name, a)
      PROVE  BodyInv' /\ OutputsInv'
  <2>1. CASE t = "telemetry"
    <3>1. ~Answered' /\ ~Over'
      BY <1>3, <2>1 DEF Begin, Answered
    <3> QED
      BY <3>1 DEF BodyInv, OutputsInv
  <2>2. CASE t # "telemetry"
    <3>1. /\ Answered' => Answered
          /\ Over' => Over
          /\ call'["telemetry"] = call["telemetry"] /\ arg'["telemetry"] = arg["telemetry"]
          /\ UNCHANGED <<outputs, reply>>
      BY <1>3, <2>2 DEF Begin, Answered
    <3> QED
      BY <3>1 DEF BodyInv, OutputsInv, Told, Body
  <2> QED
    BY <2>1, <2>2
<1>4. ASSUME NEW t \in Task, Write(t) PROVE BodyInv' /\ OutputsInv'
  <2>1. CASE t = "telemetry"
    <3>1. call' = call /\ arg' = arg /\ heard' = heard /\ pc["telemetry"] = "write"
      BY <1>4, <2>1 DEF Write
    <3>2. ~Over'
      BY <3>1 DEF PendingInv
    <3>3. CASE outputs' = Effect(t)
               /\ reply' = [cmd |-> call[t], err |-> 0, body |-> Body(t)]
      <4>1. Told'
        BY <2>1, <3>1, <3>3, EffectTold
      <4>2. reply'.body = Body("telemetry")'
        BY <2>1, <3>1, <3>3 DEF Body
      <4> QED
        BY <4>1, <4>2 DEF BodyInv, OutputsInv
    <3>4. CASE reply'.err = 1
      <4>1. ~Answered'
        BY <3>4 DEF Answered
      <4> QED
        BY <3>2, <4>1 DEF BodyInv, OutputsInv
    <3> QED
      BY <1>4, <3>3, <3>4 DEF Write, Receive
  <2>2. CASE t \in Watchdogs
    <3>1. /\ pc'["telemetry"] = pc["telemetry"] /\ ret'["telemetry"] = ret["telemetry"]
          /\ UNCHANGED <<call, arg, heard>>
      BY <1>4, <2>2 DEF Write, Return
    <3>2. outputs' = outputs /\ reply'.cmd \in {"RESET_WDT", "none"}
      BY <1>4, <2>2, OthersKeep
    <3>3. ~Answered'
      BY <3>1, <3>2 DEF Answered, PendingInv, AwaitsReply
    <3> QED
      BY <3>1, <3>2, <3>3 DEF BodyInv, OutputsInv, Told
  <2> QED
    BY <2>1, <2>2 DEF Task
<1>5. ASSUME NEW t \in Task, WriteFails(t) \/ ReadFails(t)
      PROVE  BodyInv' /\ OutputsInv'
  <2>1. /\ Answered' => Answered
        /\ Over' => Over
    BY <1>5 DEF WriteFails, ReadFails, Return, Answered
  <2> QED
    BY <1>5, <2>1, <1>keep DEF WriteFails, ReadFails
<1>6. ASSUME NEW t \in Task, Read(t) PROVE BodyInv' /\ OutputsInv'
  <2>1. t = "telemetry" /\ call[t] \in AwaitsReply
    BY <1>6, ReaderIs DEF Read
  <2>2. UNCHANGED <<call, arg, outputs, reply>> /\ ~Answered'
    BY <1>6, <2>1 DEF Read, Return, Answered
  <2>3. CASE call[t] \notin {"SET_OUTPUT", "SET_SINGLE_OUTPUT"}
    BY <2>1, <2>2, <2>3 DEF BodyInv, OutputsInv, Told
  <2>4. CASE call[t] \in {"SET_OUTPUT", "SET_SINGLE_OUTPUT"}
    <3>1. Over' => Accepts(t) /\ reply.err = 0
      BY <1>6, <2>1 DEF Read, Return
    <3>2. Over' => Answered
      BY <1>6, <2>1, <2>4, <3>1 DEF Read, Accepts, Answered
    <3> QED
      BY <2>2, <3>2, <1>keep
  <2> QED
    BY <2>3, <2>4
<1> QED
  BY <1>1, <1>2, <1>3, <1>4, <1>5, <1>6, NextIs DEF BeginSome

-----------------------------------------------------------------------------

LEMMA InitInv == Init => IInv
<1> SUFFICES ASSUME Init PROVE IInv
  OBVIOUS
<1>1. "telemetry" \in Task /\ \A t \in Watchdogs : t \in Task /\ t # "telemetry"
  BY EpsAssumption DEF Task
<1>2. Default \in [Channel -> Output]
  <2>1. [on |-> TRUE, after |-> 0] \in Output
    BY DEF Output
  <2> QED
    BY <2>1 DEF Default
<1>3. Nothing \in Arguments("none")
  BY DEF Arguments
<1>4. TypeOK
  BY <1>2, <1>3 DEF Init, TypeOK
<1>5. WatchdogInv /\ PendingInv
  BY <1>1 DEF Init, WatchdogInv, PendingInv
<1>6. BodyInv /\ HkIsAnswer /\ OutputsInv
  BY <1>1 DEF Init, BodyInv, Answered, HkIsAnswer, OutputsInv
<1> QED
  BY <1>4, <1>5, <1>6 DEF IInv

\* The inductive invariant holds of the commands of any number of threads.
THEOREM Inductive == Spec => []IInv
<1>1. IInv /\ [Next]_vars => IInv'
  BY TypeStep, CallStep, HkStep, AnswerStep DEF IInv
<1> QED
  BY InitInv, <1>1, PTL DEF Spec

\* Every variable keeps its type, the supply's outputs among them.
THEOREM TypeCorrect == Spec => []TypeOK
<1>1. IInv => TypeOK
  BY DEF IInv
<1> QED
  BY Inductive, <1>1, PTL

\* Whatever watchdog resets come between, a structure of housekeeping data holds nothing
\* but an answer to a request for it.
THEOREM HousekeepingIsAnswer == Spec => []HkIsAnswer
<1>1. IInv => HkIsAnswer
  BY DEF IInv
<1> QED
  BY Inductive, <1>1, PTL

\* Success without an error code means that the outputs are as the call asked, with the
\* delay it asked for.
THEOREM OutputsAreSet == Spec => []OutputsAsTold
<1>1. IInv => OutputsAsTold
  BY DEF IInv, OutputsInv, Told, OutputsAsTold
<1> QED
  BY Inductive, <1>1, PTL
=============================================================================
