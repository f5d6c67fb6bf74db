-------------------------- MODULE SitlExchangeProofs --------------------------
(***************************************************************************)
(* Proofs about the data the threads of the SITL build exchange, for every *)
(* set of commands and any bounds: sensor frames are taken whole, and the  *)
(* exchange implements SitlRegister.                                       *)
(***************************************************************************)
EXTENDS SitlExchange, TLAPS

\* serial_read is held by the thread that moves pieces.
LockInv ==
    /\ serial_read = "comm" <=> comm = "store"
    /\ serial_read = "acs" <=> acs = "copy"

StepInv ==
    /\ step \in [{"acs", "comm", "vis"} -> Nat]
    /\ comm # "store" => step["comm"] = 1
    /\ acs \notin {"copy", "fill"} => step["acs"] = 1

\* The frame in hand is the simulator's newest or known to be bad, and a bad one gets no
\* further than its answer; the pieces not yet stored are of one earlier frame.
StoreInv ==
    /\ comm \in {"fetch", "answer", "lock", "store"} => inbuf \in {sent, Garbage}
    /\ comm \in {"lock", "store"} => inbuf # Garbage
    /\ g_read["FS"] \in 0 .. sent
    /\ \A i \in 1 .. 3 :
           g_read[Piece[i]] = IF i < step["comm"] THEN inbuf ELSE g_read["FS"]

\* The pieces already copied are those that can be read; once all are, and before any is,
\* they are of one frame.
CopyInv ==
    /\ acs = "copy" =>
           \A i \in 1 .. 3 : i < step["acs"] => reading[Piece[i]] = g_read[Piece[i]]
    /\ acs # "copy" =>
           /\ reading["FS"] \in 0 .. MaxFrame
           /\ \A i \in 1 .. 3 : reading[Piece[i]] = reading["FS"]

IInv == TypeOK /\ LockInv /\ StepInv /\ StoreInv /\ CopyInv

-----------------------------------------------------------------------------

LEMMA Pieces ==
    /\ Len(Piece) = 3
    /\ Piece[1] = "B" /\ Piece[2] = "CS" /\ Piece[3] = "FS"
    /\ \A i \in 1 .. 3 : Piece[i] \in Name
    /\ \A n \in Name : \E i \in 1 .. 3 : n = Piece[i]
  BY DEF Piece, Name

\* Nothing has been sent, and the frame of zeroes is whole.
LEMMA InitInv == Init => IInv
<1> SUFFICES ASSUME Init PROVE IInv
  OBVIOUS
<1> USE Pieces, BoundsAssumption DEF Init
<1>1. TypeOK
  BY DEF TypeOK, Frame, Garbage, Name
<1>2. LockInv /\ StepInv
  BY DEF LockInv, StepInv
<1>3. StoreInv /\ CopyInv
  BY DEF StoreInv, CopyInv, Name
<1> QED
  BY <1>1, <1>2, <1>3 DEF IInv

LEMMA Types ==
    ASSUME IInv
    PROVE  /\ sent \in 0 .. MaxFrame /\ inbuf \in -1 .. MaxFrame
           /\ g_read \in [Name -> Frame] /\ reading \in [Name -> Frame]
           /\ step \in [{"acs", "comm", "vis"} -> Nat]
           /\ step["comm"] \in 1 .. 3 /\ step["vis"] \in 1 .. PacketPieces
           /\ acs = "copy" => step["acs"] \in 1 .. 3
           /\ acs # "copy" => step["acs"] \in 1 .. PacketPieces
           /\ MaxFrame \in Nat /\ MaxCycle \in Nat /\ PacketPieces \in Nat \ {0}
  BY Pieces, BoundsAssumption DEF IInv, TypeOK, StepInv, Frame, Garbage

-----------------------------------------------------------------------------
(* Types, locks and steps.                                                 *)

PlaceOK ==
    /\ acs \in {"first", "asleep", "cycle", "copy", "fill", "act"}
    /\ comm \in {"preamble", "read", "fetch", "answer", "lock", "store"}
    /\ vis \in {"drowsy", "asleep", "accept", "send"}
    /\ serial_read \in {"free", "acs", "comm"}

MoveOK ==
    /\ step["acs"] \in 1 .. (IF acs = "copy" THEN Len(Piece) ELSE PacketPieces)
    /\ step["comm"] \in 1 .. Len(Piece) /\ step["vis"] \in 1 .. PacketPieces

FrameOK ==
    /\ sent \in 0 .. MaxFrame /\ inbuf \in Frame
    /\ g_read \in [Name -> Frame] /\ reading \in [Name -> Frame]

FiringOK == g_Fire \in Command /\ obuf \in Command /\ received \in Command

PacketOK ==
    /\ cycle \in 0 .. MaxCycle
    /\ packet \in [1 .. PacketPieces -> 0 .. MaxCycle]
    /\ transmitted \in [1 .. PacketPieces -> 0 .. MaxCycle]

Answers == Answer(TRUE, FALSE) \/ Answer(TRUE, TRUE) \/ Answer(FALSE, FALSE)

LEMMA TypeParts == TypeOK <=> PlaceOK /\ MoveOK /\ FrameOK /\ FiringOK /\ PacketOK
  BY DEF TypeOK, PlaceOK, MoveOK, FrameOK, FiringOK, PacketOK

\* Every step leaves each thread at one of its places, with a piece that exists.
LEMMA MoveStep == IInv /\ [Next]_vars => PlaceOK' /\ MoveOK'
<1> SUFFICES ASSUME IInv, [Next]_vars PROVE PlaceOK' /\ MoveOK'
  OBVIOUS
<1>t. PlaceOK /\ MoveOK /\ StepInv
  BY TypeParts DEF IInv
<1> USE <1>t, BoundsAssumption, Pieces DEF PlaceOK, MoveOK, StepInv, Stepped
<1>1. CASE PreambleArrives
  BY <1>1 DEF PreambleArrives
<1>2. CASE ReadFrame \/ FetchFire \/ Answers
  BY <1>2 DEF ReadFrame, FetchFire, Answers, Answer
<1>3. CASE LockToStore
  BY <1>3 DEF LockToStore
<1>4. CASE Store
  BY <1>4 DEF Store
<1>5. CASE FirstRunWaits \/ ActionEnds \/ NothingToPublish \/ SetFire
  BY <1>5 DEF FirstRunWaits, ActionEnds, NothingToPublish, SetFire
<1>6. CASE LockToCopy
  BY <1>6 DEF LockToCopy
<1>7. CASE Copy
  BY <1>7 DEF Copy
<1>8. CASE Fill
  BY <1>8 DEF Fill
<1>9. CASE Vis
  BY <1>9 DEF Vis, VisWaits, AcceptClient, Send
<1>10. CASE UNCHANGED vars
  BY <1>10 DEF vars
<1> QED
  BY <1>1, <1>2, <1>3, <1>4, <1>5, <1>6, <1>7, <1>8, <1>9, <1>10 DEF Next, Comm, Acs, Answers

\* Frames, commands and packets are made of what was sent, commanded and counted.
LEMMA DataStep == IInv /\ [Next]_vars => FrameOK' /\ FiringOK' /\ PacketOK'
<1> SUFFICES ASSUME IInv, [Next]_vars PROVE FrameOK' /\ FiringOK' /\ PacketOK'
  OBVIOUS
<1>f. FrameOK /\ FiringOK /\ PacketOK
  BY TypeParts DEF IInv
<1> USE <1>f, BoundsAssumption, Pieces DEF FrameOK, FiringOK, PacketOK, Frame, Garbage,
        Capped, frames, firing, packets
<1>1. CASE PreambleArrives
  BY <1>1 DEF PreambleArrives
<1>2. CASE ReadFrame
  BY <1>2 DEF ReadFrame
<1>3. CASE FetchFire \/ Answers
  BY <1>3 DEF FetchFire, Answers, Answer
<1>4. CASE LockToStore \/ FirstRunWaits \/ ActionEnds \/ NothingToPublish \/ UNCHANGED vars
  BY <1>4 DEF LockToStore, FirstRunWaits, ActionEnds, NothingToPublish, vars
<1>5. CASE Store
  BY <1>5, Types DEF Store
<1>6. CASE LockToCopy
  <2>1. cycle' \in 0 .. MaxCycle
    BY <1>6 DEF LockToCopy
  <2> QED
    BY <1>6, <2>1 DEF LockToCopy
<1>7. CASE Copy
  BY <1>7, Types DEF Copy
<1>8. CASE Fill
  BY <1>8 DEF Fill
<1>9. CASE SetFire
  BY <1>9 DEF SetFire
<1>10. CASE VisWaits \/ AcceptClient
  BY <1>10 DEF VisWaits, AcceptClient
<1>11. CASE Send
  BY <1>11, Types DEF Send
<1> QED
  BY <1>1, <1>2, <1>3, <1>4, <1>5, <1>6, <1>7, <1>8, <1>9, <1>10, <1>11
  DEF Next, Comm, Acs, Answers, Vis

LEMMA TypeStep == IInv /\ [Next]_vars => TypeOK'
<1>1. IInv /\ [Next]_vars => (PlaceOK /\ MoveOK /\ FrameOK /\ FiringOK /\ PacketOK)'
  BY MoveStep, DataStep
<1>2. TypeOK' <=> (PlaceOK /\ MoveOK /\ FrameOK /\ FiringOK /\ PacketOK)'
  BY DEF TypeOK, PlaceOK, MoveOK, FrameOK, FiringOK, PacketOK
<1> QED
  BY <1>1, <1>2

\* A thread moves pieces only while it holds the lock, and starts from the first.
LEMMA LockStep == IInv /\ [Next]_vars => LockInv' /\ StepInv'
<1> SUFFICES ASSUME IInv, [Next]_vars PROVE LockInv' /\ StepInv'
  OBVIOUS
<1>i. LockInv /\ StepInv
  BY DEF IInv
<1> USE <1>i, Types, Pieces DEF LockInv, StepInv, Stepped, frames, firing, packets
<1>1. CASE PreambleArrives
  BY <1>1 DEF PreambleArrives
<1>2. CASE ReadFrame \/ FetchFire \/ Answers
  BY <1>2 DEF ReadFrame, FetchFire, Answers, Answer
<1>3. CASE LockToStore
  BY <1>3 DEF LockToStore
<1>4. CASE Store
  BY <1>4 DEF Store
<1>5. CASE FirstRunWaits \/ ActionEnds \/ NothingToPublish \/ SetFire
  BY <1>5 DEF FirstRunWaits, ActionEnds, NothingToPublish, SetFire
<1>6. CASE LockToCopy
  BY <1>6 DEF LockToCopy
<1>7. CASE Copy
  BY <1>7 DEF Copy
<1>8. CASE Fill
  BY <1>8 DEF Fill
<1>9. CASE Vis
  BY <1>9 DEF Vis, VisWaits, AcceptClient, Send
<1>10. CASE UNCHANGED vars
  BY <1>10 DEF vars
<1> QED
  BY <1>1, <1>2, <1>3, <1>4, <1>5, <1>6, <1>7, <1>8, <1>9, <1>10 DEF Next, Comm, Acs, Answers

-----------------------------------------------------------------------------
(* Whole frames.                                                           *)

\* Frames are stored from one buffer, which holds still while they are.
LEMMA StoreStep == IInv /\ [Next]_vars => StoreInv'
<1> SUFFICES ASSUME IInv, [Next]_vars PROVE StoreInv'
  OBVIOUS
<1>i. StoreInv /\ StepInv
  BY DEF IInv
<1> USE <1>i, Types, Pieces DEF StoreInv, StepInv, Stepped, frames
<1>1. CASE PreambleArrives
  BY <1>1 DEF PreambleArrives, Capped
<1>2. CASE ReadFrame
  BY <1>2 DEF ReadFrame
<1>3. CASE FetchFire \/ Answers
  BY <1>3 DEF FetchFire, Answers, Answer, Accepts
<1>4. CASE LockToStore
  BY <1>4 DEF LockToStore
<1>5. CASE Store
  BY <1>5 DEF Store, Garbage
<1>6. CASE FirstRunWaits \/ ActionEnds \/ NothingToPublish \/ SetFire \/ LockToCopy
           \/ UNCHANGED vars
  BY <1>6 DEF FirstRunWaits, ActionEnds, NothingToPublish, SetFire, LockToCopy, vars
<1>7. CASE Copy
  BY <1>7 DEF Copy
<1>8. CASE Fill
  BY <1>8 DEF Fill
<1>9. CASE Vis
  BY <1>9 DEF Vis, VisWaits, AcceptClient, Send
<1> QED
  BY <1>1, <1>2, <1>3, <1>4, <1>5, <1>6, <1>7, <1>8, <1>9 DEF Next, Comm, Acs, Answers

\* Under the lock, what has been copied can still be read.
LEMMA CopyStep == IInv /\ [Next]_vars => CopyInv'
<1> SUFFICES ASSUME IInv, [Next]_vars PROVE CopyInv'
  OBVIOUS
<1>i. CopyInv /\ StoreInv /\ StepInv /\ LockInv
  BY DEF IInv
<1> USE <1>i, Types, Pieces DEF CopyInv
<1>1. CASE PreambleArrives
  BY <1>1 DEF PreambleArrives
<1>2. CASE Comm /\ ~Store
  BY <1>2 DEF Comm, ReadFrame, FetchFire, Answer, LockToStore, frames
<1>3. CASE Store
  <2>1. acs # "copy" /\ acs' = acs /\ reading' = reading
    BY <1>3 DEF Store, LockInv
  <2> QED
    BY <2>1
<1>4. CASE LockToCopy
  BY <1>4 DEF LockToCopy, StepInv
<1>5. CASE Copy
  <2>1. comm # "store" /\ \A i \in 1 .. 3 : g_read[Piece[i]] = g_read["FS"]
    BY <1>5 DEF Copy, LockInv, StepInv, StoreInv
  <2>2. CASE step["acs"] < 3
    BY <1>5, <2>2 DEF Copy, Stepped
  <2>3. CASE step["acs"] = 3
    <3>1. \A i \in 1 .. 3 : reading'[Piece[i]] = g_read[Piece[i]]
      BY <1>5, <2>3 DEF Copy
    <3>2. acs' = "fill" /\ reading'["FS"] = g_read["FS"]
      BY <1>5, <2>3, <3>1 DEF Copy
    <3>3. g_read["FS"] \in 0 .. MaxFrame
      BY DEF StoreInv
    <3> QED
      BY <2>1, <3>1, <3>2, <3>3
  <2> QED
    BY <1>5, <2>2, <2>3 DEF Copy
<1>6. CASE Acs /\ ~LockToCopy /\ ~Copy
  BY <1>6 DEF Acs, FirstRunWaits, Fill, NothingToPublish, SetFire, ActionEnds, frames
<1>7. CASE Vis \/ UNCHANGED vars
  BY <1>7 DEF Vis, VisWaits, AcceptClient, Send, Stepped, frames, vars
<1> QED
  BY <1>1, <1>2, <1>3, <1>4, <1>5, <1>6, <1>7 DEF Next

\* The inductive invariant holds however the three threads are scheduled.
THEOREM Inductive == Spec => []IInv
<1>1. IInv /\ [Next]_vars => IInv'
  BY TypeStep, LockStep, StoreStep, CopyStep DEF IInv
<1> QED
  BY InitInv, <1>1, PTL DEF Spec

\* Frames, commands and packets keep their ranges, and every thread its place.
THEOREM TypeCorrect == Spec => []TypeOK
<1>1. IInv => TypeOK
  BY DEF IInv
<1> QED
  BY Inductive, <1>1, PTL

\* What a control cycle works from is one accepted frame, field and both kinds of sun
\* sensor of the same instant.
THEOREM FramesAreWhole == Spec => []WholeFrames
<1>1. IInv => WholeFrames
  BY Pieces DEF IInv, CopyInv, WholeFrames
<1> QED
  BY Inductive, <1>1, PTL

-----------------------------------------------------------------------------
(* SitlExchange implements SitlRegister.                                   *)

LEMMA WholeIs ==
    ASSUME NEW pieces, \A i \in 1 .. 3 : pieces[Piece[i]] = pieces["FS"]
    PROVE  Whole(pieces) = pieces["FS"]
BY Pieces DEF Whole

LEMMA InitRefines == Init => Register!Init
<1> SUFFICES ASSUME Init PROVE Register!Init
  OBVIOUS
<1>1. Whole(g_read) = 0 /\ Whole(reading) = 0
  BY DEF Init, Whole, Name
<1> QED
  BY <1>1 DEF Init, Register!Init

\* What the register holds: the piece that is moved last, with which the others agree.
Held == IF comm = "store" THEN g_read["FS"] ELSE Whole(g_read)
Taken == IF acs = "copy" THEN reading["FS"] ELSE Whole(reading)

LEMMA HeldIs == StoreInv /\ StepInv => Held = g_read["FS"]
<1> SUFFICES ASSUME StoreInv, StepInv, comm # "store" PROVE Whole(g_read) = g_read["FS"]
  BY DEF Held
<1>1. \A i \in 1 .. 3 : g_read[Piece[i]] = g_read["FS"]
  BY DEF StoreInv, StepInv
<1> QED
  BY <1>1, WholeIs

LEMMA TakenIs == CopyInv => Taken = reading["FS"]
BY WholeIs DEF CopyInv, Taken

\* A store that moves the last piece accepts a frame, a copy that does takes one.
LEMMA NextRefines == IInv /\ IInv' /\ [Next]_vars => [Register!Next]_(Register!vars)
<1> SUFFICES ASSUME IInv, IInv', [Next]_vars PROVE Register!Next \/ UNCHANGED Register!vars
  OBVIOUS
<1>h. Held = g_read["FS"] /\ Taken = reading["FS"]
  BY HeldIs, TakenIs DEF IInv
<1>n. Held' = g_read'["FS"] /\ Taken' = reading'["FS"]
  <2>1. comm' # "store" => Whole(g_read') = g_read'["FS"]
    <3> SUFFICES ASSUME comm' # "store" PROVE Whole(g_read') = g_read'["FS"]
      OBVIOUS
    <3>1. \A i \in 1 .. 3 : g_read'[Piece[i]] = g_read'["FS"]
      BY DEF IInv, StoreInv, StepInv
    <3> QED
      BY <3>1, WholeIs
  <2>2. acs' # "copy" => Whole(reading') = reading'["FS"]
    BY WholeIs DEF IInv, CopyInv
  <2> QED
    BY <2>1, <2>2 DEF Held, Taken
<1>a. /\ Register!Accept <=> /\ Held' \in Held .. MaxFrame
                             /\ Taken' = Taken
                             /\ UNCHANGED <<g_Fire, obuf, received>>
      /\ Register!Take <=> Taken' = Held /\ Held' = Held /\ UNCHANGED <<g_Fire, obuf, received>>
  BY DEF Register!Accept, Register!Take, Held, Taken
<1>b. /\ Register!SetCommand <=> /\ g_Fire' \in Command
                                 /\ Held' = Held /\ Taken' = Taken
                                 /\ UNCHANGED <<obuf, received>>
      /\ Register!Fetch <=> /\ obuf' = g_Fire
                            /\ Held' = Held /\ Taken' = Taken
                            /\ UNCHANGED <<g_Fire, received>>
      /\ Register!Reply <=> /\ received' = obuf
                            /\ Held' = Held /\ Taken' = Taken
                            /\ UNCHANGED <<g_Fire, obuf>>
      /\ UNCHANGED Register!vars <=> /\ Held' = Held /\ Taken' = Taken
                                     /\ UNCHANGED <<g_Fire, obuf, received>>
  BY DEF Register!SetCommand, Register!Fetch, Register!Reply, Register!vars, Held, Taken
<1> USE <1>h, <1>n, <1>a, <1>b, Types, Pieces DEF Register!Next, frames, firing
<1>1. CASE Store
  <2>1. \/ g_read'["FS"] = g_read["FS"]
        \/ g_read'["FS"] = inbuf
    BY <1>1 DEF Store
  <2>2. g_read["FS"] \in 0 .. sent /\ inbuf = sent
    BY <1>1 DEF Store, IInv, StoreInv
  <2>3. g_read'["FS"] \in g_read["FS"] .. MaxFrame
    BY <2>1, <2>2
  <2>4. UNCHANGED <<reading, g_Fire, obuf, received>>
    BY <1>1 DEF Store
  <2> QED
    BY <2>3, <2>4
<1>2. CASE Copy
  <2>1. \/ reading'["FS"] = reading["FS"]
        \/ reading'["FS"] = g_read["FS"]
    BY <1>2 DEF Copy
  <2>2. UNCHANGED <<g_read, g_Fire, obuf, received>>
    BY <1>2 DEF Copy
  <2> QED
    BY <2>1, <2>2
<1>3. CASE FetchFire
  BY <1>3 DEF FetchFire
<1>4. CASE Answers
  BY <1>4 DEF Answers, Answer
<1>5. CASE SetFire
  BY <1>5 DEF SetFire
<1>6. CASE PreambleArrives \/ ReadFrame \/ LockToStore
  BY <1>6 DEF PreambleArrives, ReadFrame, LockToStore
<1>7. CASE FirstRunWaits \/ LockToCopy \/ Fill \/ NothingToPublish \/ ActionEnds
  BY <1>7 DEF FirstRunWaits, LockToCopy, Fill, NothingToPublish, ActionEnds
<1>8. CASE Vis \/ UNCHANGED vars
  BY <1>8 DEF Vis, VisWaits, AcceptClient, Send, vars
<1> QED
  BY <1>1, <1>2, <1>3, <1>4, <1>5, <1>6, <1>7, <1>8 DEF Next, Comm, Acs, Answers

\* For the simulator and the control loop the exchange is two registers, each written
\* and read in one step: however the pieces are moved, all that a control cycle works from
\* was accepted at one moment and taken at one, frames never go back, and none that was
\* damaged gets in.
THEOREM Atomicity == Spec => AtomicExchange
  BY InitRefines, NextRefines, Inductive, PTL DEF Spec, AtomicExchange, Register!Spec
=============================================================================
