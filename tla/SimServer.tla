------------------------------ MODULE SimServer ------------------------------
(***************************************************************************)
(* The simulator server, src/visualization/sim_server.c: a thread that     *)
(* finds frames in a stream of bytes, [0xa0 x PREAMBLE] [data x DATA]      *)
(* [0xb0 x 2], and a thread that hands the newest one to TCP clients.      *)
(* sitl_comm.c finds its frames the same way, in 30 bytes for 90.          *)
(*                                                                         *)
(* The simulator's end of the line is modelled from what the code expects  *)
(* of it.  A byte is its place in its frame and what it looks like; the    *)
(* data can look like anything, and bytes are lost.  What the framing can  *)
(* not cope with is remembered in disturbed.  memcpy and send are one step *)
(* each here; that a client can get halves of two packets is the subject   *)
(* of SitlExchange.                                                        *)
(***************************************************************************)
EXTENDS Integers, Sequences

CONSTANTS
    PREAMBLE, DATA,    \* bytes of the preamble and of data: 10 and 88 in the code
    MaxLost,           \* bytes lost in any two frames in a row
    MaxBuffered        \* bytes the line holds before the simulator waits

END == 2                       \* bytes 0xb0
LENGTH == PREAMBLE + DATA + END
BODY == DATA + END             \* what is read after the preamble

ASSUME FramingAssumption ==
    /\ PREAMBLE \in Nat \ {0} /\ DATA \in Nat \ {0}
    /\ MaxLost \in Nat /\ MaxBuffered \in Nat

Look == {"a0", "b0", "other"}
Byte == [frame : {0, 1}, at : 1 .. LENGTH, looks : Look]

VARIABLES
    \* the line
    sending,               \* the simulator's next byte: its frame, modulo two, its place, and
                           \* the bytes 0xa0 of data just before it
    line,                  \* bytes on their way
    lost,                  \* [this frame, the one before]: bytes lost
    disturbed,             \* two bytes were lost in two frames in a row, or data that hold
                           \* the look of a preamble were sent: once is enough
    \* sitl_comm
    serial,
    preamble_count,        \* counted from 0; the code counts from -PREAMBLE
    datavis_dat,           \* "zeroes", a "frame", or what is not one
    \* the rest of the process
    vis, main,
    done,
    resets                 \* SA_RESETHAND in sa_flags, which nothing assigns

stream == <<sending, line, lost, disturbed>>
reader == <<serial, preamble_count, datavis_dat>>
process == <<vis, main, done, resets>>
vars == <<stream, reader, process>>

Running == main \notin {"returned", "exited"}

\* The simulator may have been sending before the server starts.
Init ==
    /\ sending \in [frame : {0}, at : 1 .. LENGTH, a0s : {0}]
    /\ line = << >> /\ lost = <<0, 0>> /\ disturbed = FALSE
    /\ serial = "created" /\ preamble_count = 0 /\ datavis_dat = "zeroes"
    /\ vis = "created" /\ main = "create"
    /\ done = FALSE /\ resets \in BOOLEAN

-----------------------------------------------------------------------------
(* The line.                                                               *)

InData == sending.at \in PREAMBLE + 1 .. PREAMBLE + DATA

\* How the next byte may look: the data as they like.
Looks == IF sending.at <= PREAMBLE THEN {"a0"} ELSE IF InData THEN Look ELSE {"b0"}

\* With the lost bytes left out, this byte of data completes a preamble.
Imitates(looks) == InData /\ looks = "a0" /\ sending.a0s + 1 = PREAMBLE

\* The simulator goes on to the byte after this, which a0s bytes 0xa0 of data precede.
Advance(a0s) ==
    LET last == sending.at = LENGTH
    IN  sending' = IF last THEN [frame |-> 1 - sending.frame, at |-> 1, a0s |-> 0]
                           ELSE [sending EXCEPT !.at = @ + 1, !.a0s = a0s]

SendByte(looks) ==
    /\ Len(line) < MaxBuffered
    /\ looks \in Looks
    /\ line' = Append(line, [frame |-> sending.frame, at |-> sending.at, looks |-> looks])
    /\ Advance(IF InData /\ looks = "a0" /\ ~Imitates(looks) THEN sending.a0s + 1 ELSE 0)
    /\ lost' = IF sending.at = LENGTH THEN <<0, lost[1]>> ELSE lost
    /\ disturbed' = (disturbed \/ Imitates(looks))
    /\ UNCHANGED <<reader, process>>

LoseByte ==
    /\ lost[1] + lost[2] < MaxLost
    /\ Advance(sending.a0s)
    /\ lost' = IF sending.at = LENGTH THEN <<0, lost[1] + 1>> ELSE <<lost[1] + 1, lost[2]>>
    /\ disturbed' = (disturbed \/ lost[1] + lost[2] > 0)
    /\ UNCHANGED <<line, reader, process>>

-----------------------------------------------------------------------------
(* sitl_comm.                                                              *)

\* setup_serial: without the line there is nothing to do.
SetupSerial ==
    /\ serial = "created"
    /\ serial' \in {"test", "ended"}
    /\ UNCHANGED <<stream, preamble_count, datavis_dat, process>>

\* Mutant: the count goes on from the frame before.
SerialTestKeepsCount ==
    /\ serial = "test"
    /\ serial' = IF done THEN "ended" ELSE "hunt"
    /\ UNCHANGED <<stream, preamble_count, datavis_dat, process>>

\* while (!done)
SerialTest ==
    /\ serial = "test"
    /\ serial' = IF done THEN "ended" ELSE "hunt"
    /\ preamble_count' = 0
    /\ UNCHANGED <<stream, datavis_dat, process>>

\* The loop over the preamble, too, asks for done before each byte.
SerialTold ==
    /\ serial = "hunt" /\ done
    /\ serial' = "test"
    /\ UNCHANGED <<stream, preamble_count, datavis_dat, process>>

\* Mutant: one byte more than the preamble has.
CountedOneMore(count) == /\ preamble_count' = count
                         /\ serial' = IF count > PREAMBLE THEN "read" ELSE "hunt"

\* A byte has been counted; the loop ends when the preamble is complete.
Counted(count) == /\ preamble_count' = count
                  /\ serial' = IF count >= PREAMBLE THEN "read" ELSE "hunt"

\* Mutant: the count is of bytes 0xa0, in a row or not.
ReadByteKeepsCount ==
    /\ serial = "hunt" /\ ~done
    /\ line # << >>
    /\ Counted(IF Head(line).looks = "a0" THEN preamble_count + 1 ELSE preamble_count)
    /\ line' = Tail(line)
    /\ UNCHANGED <<sending, lost, disturbed, datavis_dat, process>>

\* A byte after another, and none after half a second of silence: the count is of bytes
\* 0xa0 in a row.
ReadByte ==
    /\ serial = "hunt" /\ ~done
    /\ line # << >>
    /\ Counted(IF Head(line).looks = "a0" THEN preamble_count + 1 ELSE 0)
    /\ line' = Tail(line)
    /\ UNCHANGED <<sending, lost, disturbed, datavis_dat, process>>

Silence ==
    /\ serial = "hunt" /\ ~done
    /\ line = << >>
    /\ preamble_count' = 0
    /\ UNCHANGED <<stream, serial, datavis_dat, process>>

\* n == 90 and the end is where it should be.
Valid(bytes) ==
    /\ Len(bytes) = BODY
    /\ \A i \in DATA + 1 .. BODY : bytes[i].looks = "b0"

Whole(bytes) ==
    \A i \in 1 .. BODY : bytes[i].frame = bytes[1].frame /\ bytes[i].at = PREAMBLE + i

Taken == SubSeq(line, 1, IF Len(line) < BODY THEN Len(line) ELSE BODY)

Wake == vis' = IF vis = "asleep" THEN "serve" ELSE vis

\* What there is of the data is read, done or not by now; a valid frame is stored and the
\* other thread woken.
ReadData ==
    /\ serial = "read"
    /\ line' = SubSeq(line, Len(Taken) + 1, Len(line))
    /\ IF Valid(Taken)
       THEN datavis_dat' = (IF Whole(Taken) THEN "frame" ELSE "mixture") /\ Wake
       ELSE UNCHANGED <<datavis_dat, vis>>
    /\ serial' = "test"
    /\ UNCHANGED <<sending, lost, disturbed, preamble_count, main, done, resets>>

\* if (done) continue
ReadNothing ==
    /\ serial = "read" /\ done
    /\ serial' = "test"
    /\ UNCHANGED <<stream, preamble_count, datavis_dat, process>>

-----------------------------------------------------------------------------
(* datavis_thread, main and the signal.                                    *)

\* while (!done)
VisTest ==
    /\ vis \in {"created", "test"}
    /\ vis' = IF done THEN "ended" ELSE "wait"
    /\ UNCHANGED <<stream, reader, main, done, resets>>

\* pthread_cond_wait: what was broadcast before is lost.
VisWait ==
    /\ vis = "wait"
    /\ vis' = "asleep"
    /\ UNCHANGED <<stream, reader, main, done, resets>>

\* A wake-up that no broadcast caused.
VisSpurious ==
    /\ vis = "asleep"
    /\ vis' = "serve"
    /\ UNCHANGED <<stream, reader, main, done, resets>>

\* accept, for at most a second, send and close; a client that is not there is not noticed.
VisServe ==
    /\ vis = "serve"
    /\ vis' = "test"
    /\ UNCHANGED <<stream, reader, main, done, resets>>

Main(from, to) ==
    /\ main = from /\ main' = to
    /\ UNCHANGED <<stream, reader, vis, done, resets>>

\* The first thread runs, then the second; without one of them the process ends.  (A thread
\* that runs before the other is created gains nothing by it.)
CreateThreads == main = "create" /\ (Main("create", "join1") \/ Main("create", "exited"))
JoinSerial    == serial = "ended" /\ Main("join1", "join2")
JoinDataVis   == vis = "ended" /\ Main("join2", "returned")

\* Mutant: the handler wakes nobody.
SigintWakesNone ==
    /\ IF done /\ resets THEN main' = "exited" /\ UNCHANGED done
                         ELSE done' = TRUE /\ UNCHANGED main
    /\ UNCHANGED <<stream, reader, vis, resets>>

\* catch_sigint, or the default action once SA_RESETHAND has removed it.
Sigint ==
    /\ IF done /\ resets THEN main' = "exited" /\ UNCHANGED <<vis, done>>
                         ELSE done' = TRUE /\ Wake /\ UNCHANGED main
    /\ UNCHANGED <<stream, reader, resets>>

-----------------------------------------------------------------------------

Created == Running /\ main # "create"

Simulator == (\E looks \in Look : SendByte(looks)) \/ LoseByte
Serial == /\ Created
          /\ \/ SetupSerial \/ SerialTest \/ SerialTold \/ ReadByte \/ Silence
             \/ ReadData \/ ReadNothing
Vis    == Created /\ (VisTest \/ VisWait \/ VisServe)
MainThread == CreateThreads \/ JoinSerial \/ JoinDataVis

Next ==
    \/ Running /\ (Simulator \/ Sigint \/ VisSpurious)
    \/ Serial \/ Vis \/ MainThread
    \/ ~Running /\ UNCHANGED vars

\* The scheduler runs the three threads.  The simulator may fall silent, and a signal need
\* not come.
Spec == Init /\ [][Next]_vars /\ WF_vars(Serial) /\ WF_vars(Vis) /\ WF_vars(MainThread)

-----------------------------------------------------------------------------
(* Properties.                                                             *)

\* Every variable keeps its type; in particular the count of preamble bytes never goes past
\* the preamble.
TypeOK ==
    /\ sending.frame \in {0, 1} /\ sending.at \in 1 .. LENGTH
    /\ sending.a0s \in 0 .. PREAMBLE - 1
    /\ line \in Seq(Byte) /\ Len(line) <= MaxBuffered
    /\ lost[1] + lost[2] \in 0 .. MaxLost /\ disturbed \in BOOLEAN
    /\ serial \in {"created", "test", "hunt", "read", "ended"}
    /\ preamble_count \in 0 .. PREAMBLE
    /\ datavis_dat \in {"zeroes", "frame", "mixture"}
    /\ vis \in {"created", "test", "wait", "asleep", "serve", "ended"}
    /\ main \in {"create", "join1", "join2", "returned", "exited"}
    /\ done \in BOOLEAN /\ resets \in BOOLEAN

\* "read 10 0xa0 bytes to make sure you got the full frame": what is stored is the data of
\* one frame from its first byte to its last, whatever the data begin and end with,
\* wherever in a frame the server started to listen, and although a byte is lost now and
\* then; until two are lost in two frames in a row (an end may then be missing, and data
\* that end in 0xa0 lengthen the preamble) or data are sent that hold a preamble.
OnlyWholeFrames == datavis_dat = "mixture" => disturbed

\* After the last lost byte the server finds frames again, and again: a loss can leave it a
\* byte out of step, but a frame whose data do not begin with 0xa0 puts it right.  It is
\* assumed that such frames keep coming, that in the end none holds a preamble in its data
\* or is half a second interrupted, and that the pause before the data is read is long
\* enough for them to arrive.
Resyncs ==
    /\ []~done /\ [](serial # "ended")
    /\ <>[][~LoseByte]_vars
    /\ <>[][~(SendByte("a0") /\ Imitates("a0"))]_vars
    /\ []<><<sending.at = PREAMBLE + 1 /\ (SendByte("b0") \/ SendByte("other"))>>_vars
    /\ <>[][Silence => sending.at = 1]_vars
    /\ <>[][ReadData => Len(line) >= BODY]_vars
    => []<><<ReadData /\ Valid(Taken)>>_vars

\* A SIGINT can find datavis_thread between its test of done and its wait, and is then lost
\* on it; but whoever sends them until the server is gone gets it to go, with or without
\* a serial line, a simulator or a client.
ServerStops == WF_vars(Running /\ Sigint) => (done ~> ~Running)
=============================================================================
