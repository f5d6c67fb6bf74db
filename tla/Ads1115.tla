------------------------------ MODULE Ads1115 ------------------------------
(***************************************************************************)
(* The driver of the fine sun sensor's analog-to-digital converter,        *)
(* src/drivers/ads1115.c, against the converter as ads1115.h describes its *)
(* registers: a conversion runs on its own and fills one conversion        *)
(* register, whatever input it was started on.                             *)
(*                                                                         *)
(* A sample is abstracted to the input it was converted from and to        *)
(* whether its conversion began during the current call.  A write of a     *)
(* pointer and the read after it are one step, since nothing but a         *)
(* conversion can come between them.                                       *)
(***************************************************************************)
EXTENDS Integers

Input == 0 .. 7                  \* the settings of the multiplexer
AIN0  == 4                       \* AIN0 against ground; 5, 6 and 7 are AIN1 to AIN3
Selected == {0} \cup AIN0 .. 7    \* the ones that the driver writes

NoInput == -1
Sample == [of : Input, fresh : BOOLEAN]

\* What else an entry of data can hold: what the array held, the register of a converter
\* that has not converted yet, the configuration, and the zero of a read that was lost.
Unread     == [of |-> -1, fresh |-> FALSE]
NoSample   == [of |-> -2, fresh |-> FALSE]
ConfigWord == [of |-> -3, fresh |-> FALSE]
Zero       == [of |-> -4, fresh |-> FALSE]

VARIABLES
    \* the converter
    mux, single,           \* its configuration: input, and single shot or continuous
    converting,            \* the input being converted
    begun,                 \* that conversion began in this call
    conversion,            \* the conversion register
    pointer,               \* the register a read returns
    \* the driver
    pc,                    \* where it stands
    call,                  \* "data" (single shot) or "cont"
    i,                     \* the entry of data it is at
    data,                  \* the caller's array
    status,                \* what it will return
    result,                \* what it returned last
    idleBefore             \* no conversion was running when it was called

device == <<mux, single, converting, begun, conversion, pointer>>
driver == <<call, i, data, status, result, idleBefore>>
vars == <<device, pc, driver>>

Idle == converting = NoInput
Called == pc \notin {"closed", "open", "failed"}

-----------------------------------------------------------------------------
(* The converter.                                                          *)

\* A write to the configuration register, which leaves the pointer there.  "OS can only
\* be written when in power-down state and has no effect when a conversion is ongoing".
WriteConfig(input, singleShot, os) ==
    /\ mux' = input /\ single' = singleShot
    /\ pointer' = "config"
    /\ IF Idle /\ (os \/ ~singleShot)
       THEN converting' = input /\ begun' = Called
       ELSE UNCHANGED <<converting, begun>>
    /\ UNCHANGED conversion

\* A conversion ends; in continuous mode the next one begins, on the input selected now.
Complete ==
    /\ ~Idle
    /\ conversion' = [of |-> converting, fresh |-> begun]
    /\ converting' = IF single THEN NoInput ELSE mux
    /\ begun' = (~single /\ Called)
    /\ UNCHANGED <<mux, single, pointer, pc, driver>>

-----------------------------------------------------------------------------
(* Opening and closing.                                                    *)

\* The converter is as power-up, or an earlier run of the program killed anywhere, left
\* it: on an input that the driver selects, idle or converting any of them, with the last
\* sample or none, and with the pointer at either register.
Init ==
    /\ mux \in Selected /\ single \in BOOLEAN
    /\ converting \in IF single THEN Selected \cup {NoInput} ELSE Selected
    /\ begun = FALSE
    /\ conversion \in {NoSample} \cup [of : Selected, fresh : {FALSE}]
    /\ pointer \in {"config", "conversion"}
    /\ pc = "closed" /\ call = "data"
    /\ i = 0 /\ data = [n \in 0 .. 3 |-> Unread]
    /\ status = 1 /\ result = 1 /\ idleBefore = FALSE

\* ads1115_init and the ads1115_configure that acs_init follows it with: continuous mode.
\* acs_init gives up when either fails.
Open ==
    /\ pc = "closed"
    /\ \/ pc' = "open" /\ WriteConfig(0, FALSE, FALSE)
       \/ pc' = "failed" /\ UNCHANGED device
    /\ UNCHANGED driver

\* ads1115_destroy only closes the descriptor.
Destroy ==
    /\ pc = "open"
    /\ pc' = "closed"
    /\ data' = [n \in 0 .. 3 |-> Unread] /\ i' = 0 /\ status' = 1 /\ result' = 1
    /\ UNCHANGED <<device, call, idleBefore>>

\* ads1115_read_config: moves the pointer, unless the write is lost.
ReadConfig ==
    /\ pc = "open"
    /\ pointer' \in {"config", pointer}
    /\ UNCHANGED <<mux, single, converting, begun, conversion, pc, driver>>

-----------------------------------------------------------------------------
(* ads1115_read_data and ads1115_read_cont.                                *)

Call(name, first) ==
    /\ pc = "open"
    /\ pc' = first /\ call' = name
    /\ i' = 0 /\ data' = [n \in 0 .. 3 |-> Unread] /\ status' = 1
    /\ idleBefore' = Idle
    /\ begun' = FALSE /\ conversion' = [conversion EXCEPT !.fresh = FALSE]
    /\ UNCHANGED <<mux, single, converting, pointer, result>>

ReadData == Call("data", "start")
ReadCont == Call("cont", "continuous")

Return(r) == pc' = "open" /\ result' = r

Lost(where) ==
    /\ pc = where
    /\ Return(-1)
    /\ UNCHANGED <<device, call, i, data, status, idleBefore>>

\* Top of the first loop: ask for a single conversion of AIN0, or give up.
Start ==
    /\ pc = "start"
    /\ WriteConfig(AIN0, TRUE, TRUE)
    /\ pc' = "stat"
    /\ UNCHANGED driver

StartLost == Lost("start")

\* Its end: a conversion is running.
StatBusy ==
    /\ pc = "stat" /\ ~Idle
    /\ pc' = "wait"
    /\ UNCHANGED <<device, driver>>

\* None is running, or the read was lost and the buffer still holds what was written,
\* with OS set: once more.
StatAgain ==
    /\ pc = "stat"
    /\ pc' = "start"
    /\ UNCHANGED <<device, driver>>

\* Mutant: the second loop does not wait.
WaitForNothing ==
    /\ pc = "wait"
    /\ pc' = "fetch"
    /\ UNCHANGED <<device, driver>>

\* Mutant: the test of OS the wrong way round.
WaitInverted ==
    /\ pc = "wait" /\ ~Idle
    /\ pc' = "fetch"
    /\ UNCHANGED <<device, driver>>

\* The second loop goes round: the status read shows a running conversion, or is lost
\* and leaves the last answer, which was one, in the buffer.
WaitAgain ==
    /\ pc = "wait"
    /\ UNCHANGED vars

\* It ends when no conversion is running any more.
WaitDone ==
    /\ pc = "wait" /\ Idle
    /\ pc' = "fetch"
    /\ UNCHANGED <<device, driver>>

\* ads1115_read_cont begins with its own configuration.
Continuous ==
    /\ pc = "continuous"
    /\ WriteConfig(AIN0, FALSE, FALSE)
    /\ pc' = "fetch"
    /\ UNCHANGED driver

ContinuousLost == Lost("continuous")

\* data[i]: point to the conversion register and read it; either can be lost.
Fetch ==
    /\ pc = "fetch"
    /\ \E pointed, answered \in BOOLEAN :
        /\ pointer' = IF pointed THEN "conversion" ELSE pointer
        /\ data' = [data EXCEPT ![i] = IF ~answered THEN Zero
                                       ELSE IF pointer' = "config" THEN ConfigWord
                                       ELSE conversion]
        /\ status' = IF pointed /\ answered THEN status ELSE 0
    /\ pc' = "next"
    /\ UNCHANGED <<mux, single, converting, begun, conversion, call, i, result, idleBefore>>

\* Mutant: <= for < in the loop over the entries.
NextInputTooFar ==
    /\ pc = "next"
    /\ \/ WriteConfig((AIN0 + i + 1) % 8, call = "data", call = "data") /\ UNCHANGED status
       \/ status' = 0 /\ UNCHANGED device
    /\ IF i <= 3 THEN i' = i + 1 /\ pc' = "fetch" /\ UNCHANGED result
                 ELSE Return(status') /\ UNCHANGED i
    /\ UNCHANGED <<call, data, idleBefore>>

\* m_con.mux++, three bits wide, and the write that selects the next input: after the
\* last one it selects, and in a single shot converts, the first differential pair.
NextInput ==
    /\ pc = "next"
    /\ \/ WriteConfig((AIN0 + i + 1) % 8, call = "data", call = "data") /\ UNCHANGED status
       \/ status' = 0 /\ UNCHANGED device
    /\ IF i < 3 THEN i' = i + 1 /\ pc' = "fetch" /\ UNCHANGED result
                ELSE Return(status') /\ UNCHANGED i
    /\ UNCHANGED <<call, data, idleBefore>>

Failed == pc = "failed" /\ UNCHANGED vars

Progress ==
    \/ Start \/ StartLost \/ StatBusy \/ StatAgain
    \/ Continuous \/ ContinuousLost \/ Fetch \/ NextInput

Next ==
    \/ Open \/ Destroy \/ ReadConfig \/ ReadData \/ ReadCont
    \/ Progress \/ WaitAgain \/ WaitDone \/ Complete \/ Failed

Spec == Init /\ [][Next]_vars /\ WF_vars(Progress) /\ WF_vars(Complete)

-----------------------------------------------------------------------------
(* Properties.                                                             *)

\* Every variable keeps its type; in particular an entry of data is never one that the
\* array does not have.
TypeOK ==
    /\ mux \in Input /\ single \in BOOLEAN
    /\ converting \in Input \cup {NoInput}
    /\ begun \in BOOLEAN
    /\ conversion \in Sample \cup {NoSample}
    /\ pointer \in {"config", "conversion"}
    /\ pc \in {"closed", "open", "failed", "start", "stat", "wait", "continuous", "fetch", "next"}
    /\ call \in {"data", "cont"}
    /\ i \in 0 .. 3
    /\ data \in [0 .. 3 -> Sample \cup {Unread, NoSample, ConfigWord, Zero}]
    /\ status \in {0, 1} /\ result \in {-1, 0, 1} /\ idleBefore \in BOOLEAN

\* "Reads data from the ADC in single shot": when ads1115_read_data reports success, its
\* four entries are samples, none the configuration, the zero of a transfer that was lost,
\* or the register of a converter that has not converted yet; and if the converter was
\* idle at the call, AIN0 was converted to the first one during the call, after whatever
\* configuration the converter was left in.  (On a busy converter it is the running
\* conversion's; the entries after the first are never awaited.)
\* ads1115_read_cont waits for no conversion at all: on a converter that has not finished
\* its first one, the entries up to some place are that register's, and samples only
\* from there on.
SuccessIsSampled ==
    pc = "open" /\ result = 1 /\ data[0] # Unread =>
        /\ \A n \in 0 .. 3 : data[n] \in Sample \/ (call = "cont" /\ data[n] = NoSample)
        /\ \A m, n \in 0 .. 3 : m < n /\ data[n] = NoSample => data[m] = NoSample
        /\ call = "data" /\ idleBefore => data[0] = [of |-> AIN0, fresh |-> TRUE]

\* The two polling loops have no bound of their own, and a status read that is lost
\* sends both of them round again.  A call returns all the same, unless the bus loses
\* every read that would show a running conversion or, later, its end.
PollEnds == SF_vars(StatBusy) /\ SF_vars(WaitDone) => (Called ~> ~Called)
=============================================================================
