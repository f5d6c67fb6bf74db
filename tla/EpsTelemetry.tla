---------------------------- MODULE EpsTelemetry ----------------------------
(***************************************************************************)
(* The commands to the power supply in src/src/eps_telem.c: a command is   *)
(* written, 10 ms later its reply is read, and nothing keeps another       *)
(* thread's command from coming between.  eps_telem.h names the threads    *)
(* that are to share the device: one for telemetry and one that resets the *)
(* watchdog.  No build starts them yet.                                    *)
(*                                                                         *)
(* The supply is modelled from how the code reads it: it keeps the reply   *)
(* to the last command it got, which has the command, an error code that   *)
(* is 0 when it did as told, and a body.  It is ready within the 10 ms.    *)
(* Any transfer can fail, as a whole.                                      *)
(***************************************************************************)
EXTENDS Integers

CONSTANTS
    Watchdogs,         \* threads that only reset the watchdog
    Mode,              \* modes of eps_get_hk that are asked for
    Channel,           \* channels of the supply
    Delays             \* delays asked of eps_set_single, in seconds

ASSUME EpsAssumption ==
    /\ "telemetry" \notin Watchdogs
    /\ Mode \subseteq {"full_hk", "battpower_hk", "outstats_hk", "wdtstats_hk", "basicstas_hk"}
    /\ \A d \in Delays : d \in Int /\ -32768 <= d /\ d <= 32767

Task == {"telemetry"} \cup Watchdogs

\* The structures of housekeeping data in p31u: the one of eps_hk, and one for each mode.
Struct == {"hkparam"} \cup Mode

\* A mode eps_get_hk does not know is sent, its answer is read, and nothing is stored.
UnknownMode == "unknown"

Nothing == "nothing"       \* the body of a reply that has none

Command == {"PING", "REBOOT", "GET_HK", "SET_OUTPUT", "SET_SINGLE_OUTPUT", "RESET_WDT"}

\* What a call can be given; the byte of a ping is left out, because only its own answer
\* has it for certain.
Arguments(name) ==
    CASE name = "GET_HK"     -> Struct \cup {UnknownMode}
      [] name = "SET_OUTPUT" -> SUBSET Channel
      [] name = "SET_SINGLE_OUTPUT" -> [channel : Channel, value : BOOLEAN, delay : Delays]
      [] OTHER -> {Nothing}

\* The state of an output: on or off, and when that takes effect.
Output == [on : BOOLEAN, after : Int]

VARIABLES
    file,              \* dev->file
    hk,                \* what each structure holds
    pc, call, arg,     \* where each thread is, in which call, with what argument
    ret,               \* what its last call returned
    heard,             \* the error code in the reply that call read, or -1
    \* the supply
    outputs,
    reply

dev == <<file, hk>>
supply == <<outputs, reply>>
calls == <<pc, call, arg, ret, heard>>
vars == <<dev, calls, supply>>

Default == [c \in Channel |-> [on |-> TRUE, after |-> 0]]

Init ==
    /\ file \in {"unset", "open"}
    /\ hk = [s \in Struct |-> "unset"]
    /\ pc = [t \in Task |-> "idle"]
    /\ call = [t \in Task |-> "none"] /\ arg = [t \in Task |-> Nothing]
    /\ ret = [t \in Task |-> "none"] /\ heard = [t \in Task |-> -1]
    /\ outputs = Default
    /\ reply = [cmd |-> "none", err |-> 0, body |-> Nothing]

-----------------------------------------------------------------------------
(* The supply.                                                             *)

\* The bytes of a delay, in the order they are sent, and what the supply makes of them:
\* "Byte order: Big endian".
HighByte(x) == (x % 65536) \div 256
LowByte(x)  == x % 256
Sent(x) == <<HighByte(x), LowByte(x)>>
Understood(bytes) ==
    LET x == bytes[1] * 256 + bytes[2] IN IF x > 32767 THEN x - 65536 ELSE x

\* What a command does to the outputs.
Effect(t) ==
    CASE call[t] = "SET_OUTPUT" ->
             [c \in Channel |-> [on |-> c \in arg[t], after |-> 0]]
      [] call[t] = "SET_SINGLE_OUTPUT" ->
             [outputs EXCEPT ![arg[t].channel] =
                 [on |-> arg[t].value, after |-> Understood(Sent(arg[t].delay))]]
      [] call[t] = "REBOOT" -> Default
      [] OTHER -> outputs

Body(t) == CASE call[t] = "GET_HK" /\ arg[t] \in Struct -> arg[t]
             [] OTHER -> Nothing

\* The supply gets a command: it does it, or refuses and says so in the reply's error
\* code, with or without the command repeated.
Receive(t) ==
    \/ /\ outputs' = Effect(t)
       /\ reply' = [cmd |-> call[t], err |-> 0, body |-> Body(t)]
    \/ /\ \E cmd \in {call[t], "none"} : reply' = [cmd |-> cmd, err |-> 1, body |-> Nothing]
       /\ UNCHANGED outputs

-----------------------------------------------------------------------------
(* The calls.                                                              *)

\* p31u_init fills a structure of its own: whatever it returns, the caller's is as
\* before.
P31uInit(t) ==
    /\ pc[t] = "idle" /\ t = "telemetry" /\ file # "closed"
    /\ call' = [call EXCEPT ![t] = "init"] /\ arg' = [arg EXCEPT ![t] = Nothing]
    /\ ret' \in {[ret EXCEPT ![t] = r] : r \in {"success", "failure"}}
    /\ UNCHANGED <<dev, pc, heard, supply>>

\* The caller's structure is closed and freed; no thread may use it any more.
P31uDestroy ==
    /\ \A t \in Task : pc[t] = "idle"
    /\ file' = "closed"
    /\ UNCHANGED <<hk, calls, supply>>

Begin(t, name, a) ==
    /\ pc[t] = "idle" /\ file # "closed"
    /\ pc' = [pc EXCEPT ![t] = "write"]
    /\ call' = [call EXCEPT ![t] = name] /\ arg' = [arg EXCEPT ![t] = a]
    /\ ret' = [ret EXCEPT ![t] = "none"] /\ heard' = [heard EXCEPT ![t] = -1]
    /\ UNCHANGED <<dev, supply>>

EpsResetWdt(t) == Begin(t, "RESET_WDT", Nothing)

Telemetry(name, args) == \E a \in args : Begin("telemetry", name, a)

EpsPing      == Telemetry("PING", {Nothing})
EpsReboot    == Telemetry("REBOOT", {Nothing})
EpsGetHk     == Telemetry("GET_HK", Arguments("GET_HK") \ {"hkparam"})
EpsHk        == Telemetry("GET_HK", {"hkparam"})
EpsSetOutput == Telemetry("SET_OUTPUT", Arguments("SET_OUTPUT"))
EpsSetSingle == Telemetry("SET_SINGLE_OUTPUT", Arguments("SET_SINGLE_OUTPUT"))

Return(t, r) == pc' = [pc EXCEPT ![t] = "idle"] /\ ret' = [ret EXCEPT ![t] = r]

AwaitsReply == {"PING", "GET_HK", "SET_OUTPUT", "SET_SINGLE_OUTPUT"}

\* The command reaches the supply; a call that expects no reply is over.
Write(t) ==
    /\ pc[t] = "write" /\ file = "open"
    /\ Receive(t)
    /\ IF call[t] \in AwaitsReply THEN pc' = [pc EXCEPT ![t] = "read"] /\ UNCHANGED ret
                                  ELSE Return(t, "success")
    /\ UNCHANGED <<dev, call, arg, heard>>

\* write fails, as it does on a descriptor that is none.
WriteFails(t) ==
    /\ pc[t] = "write"
    /\ Return(t, "failure")
    /\ UNCHANGED <<dev, call, arg, heard, supply>>

\* read fails, or there was no memory to read into.
ReadFails(t) ==
    /\ pc[t] = "read"
    /\ Return(t, "failure")
    /\ UNCHANGED <<dev, call, arg, heard, supply>>

\* The reply has the byte that eps_ping sent.
Pong == reply.cmd = "PING" /\ reply.err = 0

\* Mutant: eps_get_hk does not look at the command of the reply.
TakesAnyHk(t) ==
    CASE call[t] = "PING"   -> TRUE
      [] call[t] = "GET_HK" -> reply.err = 0
      [] OTHER              -> reply.cmd = call[t]

\* Mutant: eps_set_output takes any reply for an answer.
TakesAnyReply(t) ==
    CASE call[t] = "PING"   -> TRUE
      [] call[t] = "GET_HK" -> reply.cmd = "GET_HK" /\ reply.err = 0
      [] OTHER              -> TRUE

\* Whether the call can take the reply for an answer to its command: eps_get_hk and
\* eps_hk look at the command and the error code, eps_set_output and eps_set_single at
\* the command.  eps_ping reads into the buffer that p31u_xfer compares with, so that a
\* byte is compared with itself; the byte it sent is compared with the reply's third,
\* which is anything where the reply has no body.
Accepts(t) ==
    CASE call[t] = "PING"   -> TRUE
      [] call[t] = "GET_HK" -> reply.cmd = "GET_HK" /\ reply.err = 0
      [] OTHER              -> reply.cmd = call[t]

Rejects(t) == IF call[t] = "PING" THEN ~Pong ELSE ~Accepts(t)

\* Mutant: the answer to a mode it does not know goes where that of mode 0 goes.
ReadKeepsUnknown(t) ==
    /\ pc[t] = "read"
    /\ heard' = [heard EXCEPT ![t] = reply.err]
    /\ \/ /\ Accepts(t)
          /\ Return(t, "success")
          /\ hk' = IF call[t] = "GET_HK"
                   THEN [hk EXCEPT ![IF arg[t] \in Struct THEN arg[t] ELSE "full_hk"]
                             = reply.body]
                   ELSE hk
       \/ /\ Rejects(t)
          /\ Return(t, "failure")
          /\ UNCHANGED hk
    /\ UNCHANGED <<file, call, arg, supply>>

\* The reply is read; housekeeping data is copied into the structure the mode is for.
Read(t) ==
    /\ pc[t] = "read"
    /\ heard' = [heard EXCEPT ![t] = reply.err]
    /\ \/ /\ Accepts(t)
          /\ Return(t, "success")
          /\ hk' = IF call[t] = "GET_HK" /\ arg[t] \in Struct
                   THEN [hk EXCEPT ![arg[t]] = reply.body] ELSE hk
       \/ /\ Rejects(t)
          /\ Return(t, "failure")
          /\ UNCHANGED hk
    /\ UNCHANGED <<file, call, arg, supply>>

Closed == file = "closed" /\ UNCHANGED vars

Next ==
    \/ P31uInit("telemetry") \/ P31uDestroy
    \/ EpsPing \/ EpsReboot \/ EpsGetHk \/ EpsHk \/ EpsSetOutput \/ EpsSetSingle
    \/ \E t \in Task : EpsResetWdt(t) \/ Write(t) \/ WriteFails(t) \/ Read(t) \/ ReadFails(t)
    \/ Closed

Spec == Init /\ [][Next]_vars

-----------------------------------------------------------------------------
(* Properties.                                                             *)

\* Every variable keeps its type.
TypeOK ==
    /\ file \in {"unset", "open", "closed"}
    /\ hk \in [Struct -> Struct \cup {"unset"}]
    /\ pc \in [Task -> {"idle", "write", "read"}]
    /\ call \in [Task -> Command \cup {"none", "init"}]
    /\ DOMAIN arg = Task /\ \A t \in Task : arg[t] \in Arguments(call[t])
    /\ ret \in [Task -> {"none", "success", "failure"}]
    /\ heard \in [Task -> {-1, 0, 1}]
    /\ outputs \in [Channel -> Output]
    /\ reply.cmd \in Command \cup {"none"} /\ reply.err \in {0, 1}

\* A structure of housekeeping data holds what the supply answered to a request for
\* just that structure: not the reply to a watchdog reset that came between the request
\* and the read, and not what followed the error code of a request it refused.
HkIsAnswer == \A s \in Struct : hk[s] \in {s, "unset"}

\* A call that sets outputs, returns success, and has read a reply without an error code
\* has set them: even where the supply refused and a watchdog reset replaced the reply
\* that said so.  (That the error code is looked at, eps_set_output and eps_set_single do
\* not see to.)
OutputsAsTold ==
    ret["telemetry"] = "success" /\ heard["telemetry"] = 0 =>
        LET a == arg["telemetry"]
        IN  CASE call["telemetry"] = "SET_OUTPUT" ->
                     \A c \in Channel : outputs[c] = [on |-> c \in a, after |-> 0]
              [] call["telemetry"] = "SET_SINGLE_OUTPUT" ->
                     outputs[a.channel] = [on |-> a.value, after |-> a.delay]
              [] OTHER -> TRUE
=============================================================================
