---------------------------- MODULE SitlExchange ----------------------------
(***************************************************************************)
(* The data the three threads of the SITL build pass to each other: sensor *)
(* frames from sitl_comm to acs_thread under serial_read, the firing       *)
(* command back under serial_write, and the DataVis packet from acs_thread *)
(* to datavis_thread under nothing (src/src/sitl_comm.c, datavis.c,        *)
(* readSensors and hbridge_enable of acs.c).                               *)
(*                                                                         *)
(* A frame is its number, and is moved in pieces: field, coarse sun        *)
(* sensors, fine sun sensor.  A packet is moved in pieces too, each the    *)
(* number of the control cycle that wrote it.  Numbers stop counting at    *)
(* MaxFrame and MaxCycle, the threads do not.  Each section under          *)
(* serial_write handles one byte, and is one step.  The end of the program *)
(* is Lifecycle's.                                                         *)
(***************************************************************************)
EXTENDS Integers, Sequences

CONSTANTS
    MaxFrame, MaxCycle,
    Command,           \* values of the firing byte
    Off,               \* the one that drives nothing
    PacketPieces       \* pieces a DataVis packet is written and sent in

ASSUME BoundsAssumption ==
    /\ MaxFrame \in Nat /\ MaxCycle \in Nat /\ PacketPieces \in Nat \ {0}
    /\ Off \in Command

Garbage == -1                \* what a short or misaligned frame leaves in inbuf
Frame == Garbage .. MaxFrame \* 0: the zeroes before the first frame
Piece == <<"B", "CS", "FS">>
Name == {"B", "CS", "FS"}

VARIABLES
    acs, comm, vis,          \* where the threads stand
    step,                    \* [thread -> piece it moves next]
    serial_read,             \* who holds the mutex
    sent,                    \* number of the simulator's newest frame
    inbuf,                   \* the frame sitl_comm has in hand
    g_read,                  \* x_g_readB .. , g_readCS, g_readFS
    reading,                 \* acs_thread's g_B[mag_index], g_CSS, g_FSS
    g_Fire, obuf,
    received,                \* the last firing byte the simulator got
    cycle,                   \* control cycles of acs_thread
    packet,                  \* g_datavis_st
    transmitted              \* the bytes datavis_thread last sent

frames  == <<sent, inbuf, g_read, reading>>
firing  == <<g_Fire, obuf, received>>
packets == <<cycle, packet, transmitted>>
vars    == <<acs, comm, vis, step, serial_read, frames, firing, packets>>

Init ==
    /\ acs = "first" /\ comm = "preamble" /\ vis = "drowsy"
    /\ step = [t \in {"acs", "comm", "vis"} |-> 1]
    /\ serial_read = "free"
    /\ sent = 0 /\ inbuf = 0
    /\ g_read = [n \in Name |-> 0] /\ reading = [n \in Name |-> 0]
    /\ g_Fire = Off /\ obuf = Off /\ received = Off
    /\ cycle = 0
    /\ packet = [p \in 1 .. PacketPieces |-> 0]
    /\ transmitted = [p \in 1 .. PacketPieces |-> 0]

Capped(n, max) == IF n < max THEN n + 1 ELSE max

\* Mutant: the index is not reset for the next frame.
SteppedOn(t, n) == [step EXCEPT ![t] = @ + 1]

\* Thread t has moved a piece of n: the next one, or the first again.
Stepped(t, n) == [step EXCEPT ![t] = IF @ = n THEN 1 ELSE @ + 1]

-----------------------------------------------------------------------------
(* sitl_comm.                                                              *)

\* Ten preamble bytes are in; acs_thread is released before the frame is read.
PreambleArrives ==
    /\ comm = "preamble"
    /\ comm' = "read"
    /\ acs' = IF acs = "asleep" THEN "cycle" ELSE acs
    /\ sent' = Capped(sent, MaxFrame)
    /\ UNCHANGED <<vis, step, serial_read, inbuf, g_read, reading, firing, packets>>

\* The frame is read whole, or a byte is missing and its end is not where it should be.
ReadFrame ==
    /\ comm = "read"
    /\ comm' = "fetch"
    /\ inbuf' \in {sent, Garbage}
    /\ UNCHANGED <<acs, vis, step, serial_read, sent, g_read, reading, firing, packets>>

\* Mutant: a bad frame is answered with the command of the frame before.
FetchFireForGoodFrames ==
    /\ comm = "fetch"
    /\ comm' = "answer"
    /\ obuf' = IF inbuf # Garbage THEN g_Fire ELSE obuf
    /\ UNCHANGED <<acs, vis, step, serial_read, frames, g_Fire, received, packets>>

\* obuf = g_Fire under serial_write.
FetchFire ==
    /\ comm = "fetch"
    /\ comm' = "answer"
    /\ obuf' = g_Fire
    /\ UNCHANGED <<acs, vis, step, serial_read, frames, g_Fire, received, packets>>

\* n == 30, nr == 1 and the end bytes were there.
Accepts(written) == written /\ inbuf # Garbage

\* The byte is written, or is not; tcflush discards what of it is not transmitted yet.
Answer(written, discarded) ==
    /\ comm = "answer"
    /\ received' = IF written /\ ~discarded THEN obuf ELSE received
    /\ comm' = IF Accepts(written) THEN "lock" ELSE "preamble"
    /\ UNCHANGED <<acs, vis, step, serial_read, frames, g_Fire, obuf, packets>>

\* Mutant: the frame is stored without the lock.
StoreUnlocked ==
    /\ comm = "lock"
    /\ comm' = "store" /\ serial_read' = serial_read
    /\ UNCHANGED <<acs, vis, step, frames, firing, packets>>

LockToStore ==
    /\ comm = "lock" /\ serial_read = "free"
    /\ comm' = "store" /\ serial_read' = "comm"
    /\ UNCHANGED <<acs, vis, step, frames, firing, packets>>

\* One group of the assignments; the lock is left after the last.
Store ==
    /\ comm = "store"
    /\ g_read' = [g_read EXCEPT ![Piece[step["comm"]]] = inbuf]
    /\ step' = Stepped("comm", Len(Piece))
    /\ IF step["comm"] = Len(Piece) THEN comm' = "preamble" /\ serial_read' = "free"
                                    ELSE UNCHANGED <<comm, serial_read>>
    /\ UNCHANGED <<acs, vis, sent, inbuf, reading, firing, packets>>

-----------------------------------------------------------------------------
(* acs_thread.                                                             *)

FirstRunWaits ==
    /\ acs = "first"
    /\ acs' = "asleep"
    /\ UNCHANGED <<comm, vis, step, serial_read, frames, firing, packets>>

\* Mutant: the sensor data is copied without the lock.
CopyUnlocked ==
    /\ acs = "cycle"
    /\ acs' = "copy" /\ serial_read' = serial_read
    /\ cycle' = Capped(cycle, MaxCycle)
    /\ UNCHANGED <<comm, vis, step, frames, firing, packet, transmitted>>

LockToCopy ==
    /\ acs = "cycle" /\ serial_read = "free"
    /\ acs' = "copy" /\ serial_read' = "acs"
    /\ cycle' = Capped(cycle, MaxCycle)
    /\ UNCHANGED <<comm, vis, step, frames, firing, packet, transmitted>>

Copy ==
    /\ acs = "copy"
    /\ LET n == Piece[step["acs"]]
       IN  reading' = [reading EXCEPT ![n] = g_read[n]]
    /\ step' = Stepped("acs", Len(Piece))
    /\ IF step["acs"] = Len(Piece) THEN acs' = "fill" /\ serial_read' = "free"
                                   ELSE UNCHANGED <<acs, serial_read>>
    /\ UNCHANGED <<comm, vis, sent, inbuf, g_read, firing, packets>>

\* The DataVis packet, a group of fields at a time; datavis_thread is woken after the
\* last.
Fill ==
    /\ acs = "fill"
    /\ packet' = [packet EXCEPT ![step["acs"]] = cycle]
    /\ step' = Stepped("acs", PacketPieces)
    /\ IF step["acs"] = PacketPieces
       THEN acs' = "act" /\ vis' = IF vis = "asleep" THEN "accept" ELSE vis
       ELSE UNCHANGED <<acs, vis>>
    /\ UNCHANGED <<comm, serial_read, frames, firing, cycle, transmitted>>

\* There is no angular velocity, not yet or not since a flush.
NothingToPublish ==
    /\ acs = "fill" /\ step["acs"] = 1
    /\ acs' = "act"
    /\ UNCHANGED <<comm, vis, step, serial_read, frames, firing, packets>>

\* hbridge_enable and HBRIDGE_DISABLE: any number of them makes up an action.
SetFire ==
    /\ acs = "act"
    /\ g_Fire' \in Command
    /\ UNCHANGED <<acs, comm, vis, step, serial_read, frames, obuf, received, packets>>

ActionEnds ==
    /\ acs = "act"
    /\ acs' = "cycle"
    /\ UNCHANGED <<comm, vis, step, serial_read, frames, firing, packets>>

-----------------------------------------------------------------------------
(* datavis_thread.                                                         *)

VisWaits ==
    /\ vis = "drowsy"
    /\ vis' = "asleep"
    /\ UNCHANGED <<acs, comm, step, serial_read, frames, firing, packets>>

\* accept returns, with a client or after its second of patience.
AcceptClient ==
    /\ vis = "accept"
    /\ vis' \in {"send", "drowsy"}
    /\ UNCHANGED <<acs, comm, step, serial_read, frames, firing, packets>>

Send ==
    /\ vis = "send"
    /\ transmitted' = [transmitted EXCEPT ![step["vis"]] = packet[step["vis"]]]
    /\ step' = Stepped("vis", PacketPieces)
    /\ vis' = IF step["vis"] = PacketPieces THEN "drowsy" ELSE "send"
    /\ UNCHANGED <<acs, comm, serial_read, frames, firing, cycle, packet>>

-----------------------------------------------------------------------------

Comm == \/ ReadFrame \/ FetchFire
        \/ Answer(TRUE, FALSE) \/ Answer(TRUE, TRUE) \/ Answer(FALSE, FALSE)
        \/ LockToStore \/ Store

Acs == \/ FirstRunWaits \/ LockToCopy \/ Copy \/ Fill \/ NothingToPublish
       \/ SetFire \/ ActionEnds

Vis == VisWaits \/ AcceptClient \/ Send

Next == PreambleArrives \/ Comm \/ Acs \/ Vis

\* The scheduler runs both threads of the serial exchange; the simulator may fall silent.
Spec == Init /\ [][Next]_vars /\ WF_vars(Comm) /\ WF_vars(Acs)

-----------------------------------------------------------------------------
(* Properties.                                                             *)

TypeOK ==
    /\ acs \in {"first", "asleep", "cycle", "copy", "fill", "act"}
    /\ comm \in {"preamble", "read", "fetch", "answer", "lock", "store"}
    /\ vis \in {"drowsy", "asleep", "accept", "send"}
    /\ step["acs"] \in 1 .. (IF acs = "copy" THEN Len(Piece) ELSE PacketPieces)
    /\ step["comm"] \in 1 .. Len(Piece) /\ step["vis"] \in 1 .. PacketPieces
    /\ serial_read \in {"free", "acs", "comm"}
    /\ sent \in 0 .. MaxFrame /\ inbuf \in Frame
    /\ g_read \in [Name -> Frame] /\ reading \in [Name -> Frame]
    /\ g_Fire \in Command /\ obuf \in Command /\ received \in Command
    /\ cycle \in 0 .. MaxCycle
    /\ packet \in [1 .. PacketPieces -> 0 .. MaxCycle]
    /\ transmitted \in [1 .. PacketPieces -> 0 .. MaxCycle]

\* "All read-writes are atomic" (sitl_comm.h): what a control cycle works from is one
\* frame, accepted as a whole: field and sun sensors of the same instant, however the
\* two threads are scheduled.
WholeFrames ==
    acs \in {"fill", "act"} => \E f \in 0 .. MaxFrame : \A n \in Name : reading[n] = f

\* The frame that all pieces are of; pieces of different frames are none.
Whole(pieces) ==
    IF \A n \in Name : pieces[n] = pieces["FS"] THEN pieces["FS"] ELSE Garbage

\* The exchange is a register of accepted frames and one of commands, each written and
\* read in one step: a store and a copy count when their last piece is moved, which until
\* then is of the frame before, and whenever neither is under way all pieces agree.
\* "All read-writes are atomic" (sitl_comm.h): no scheduling of the two threads mixes
\* frames, brings an older one back, or lets in one that was damaged.
Register == INSTANCE SitlRegister WITH
    frame <- IF comm = "store" THEN g_read["FS"] ELSE Whole(g_read),
    taken <- IF acs = "copy" THEN reading["FS"] ELSE Whole(reading),
    fire <- g_Fire,
    answered <- received,
    fetched <- obuf

AtomicExchange == Register!Spec

\* The serial link answers every frame, good or bad, with the current command: if
\* answers get through to the simulator again and again, the command that stands is the one
\* it ends up with (a torquer is not left on because its frames are damaged).
CommandArrives ==
    []<><<Answer(TRUE, FALSE)>>_vars =>
        \A c \in Command : <>[](g_Fire = c) => <>[](received = c)
=============================================================================
