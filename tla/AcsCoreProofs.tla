--------------------------- MODULE AcsCoreProofs ---------------------------
(***************************************************************************)
(* Proofs about the attitude control loop, for every buffer size.          *)
(***************************************************************************)
EXTENDS AcsRefinement, TLAPS

(***************************************************************************)
(* The inductive invariant.  The four buffers turn in step, each a reading *)
(* or two behind the field's, and which of them have turned decides what   *)
(* their slots hold.                                                       *)
(***************************************************************************)

\* A buffer whose newest slot is i: ages grow going back from it, past slot 0 once
\* the buffer has turned.  lag counts a reading taken since i was written.
Ring(buf, i, turned, lag) ==
    \A s \in Slot : buf[s] = IF s <= i THEN i - s + lag
                             ELSE IF turned THEN i - s + SH_BUFFER_SIZE + lag
                             ELSE Clear

Lag(pcs) == IF pc \in pcs THEN 1 ELSE 0

\* No flag of its own says that g_Bt has turned: it does so just before g_S.
BdotTurned == S_full \/ (sol_index = SH_BUFFER_SIZE - 1 /\ bdot_index = 0)

Rings ==
    /\ Ring(g_B, mag_index, B_full, 0)
    /\ Ring(g_Bt, bdot_index, BdotTurned, Lag({"bdot"}))
    /\ Ring(g_W, omega_index, W_full, Lag({"bdot", "omega"}))
    /\ Ring(g_S, sol_index, S_full, Lag({"bdot", "omega", "svec"}))

\* The index one reading behind i in a buffer that has turned or not.
Behind(i, turned) ==
    IF i > 0 THEN i - 1 ELSE IF i = 0 /\ turned THEN SH_BUFFER_SIZE - 1 ELSE -1

Deriving == {"bdot", "omega", "svec"}

IndexInv ==
    /\ bdot_index = IF pc = "bdot" THEN Behind(Behind(mag_index, B_full), B_full)
                    ELSE Behind(mag_index, B_full)
    /\ sol_index = IF pc \in {"omega", "svec"} THEN Behind(bdot_index, B_full)
                   ELSE bdot_index
    /\ omega_index = IF pc = "svec" THEN sol_index ELSE Behind(sol_index, S_full)
    /\ pc \in Deriving \cup {"nan"} => mag_index > 0 \/ (mag_index = 0 /\ B_full)

FlagInv ==
    /\ W_full => S_full
    /\ S_full => B_full
    /\ B_full => mag_index >= 0
    /\ B_full /\ ~S_full => mag_index \in (IF pc \in Deriving THEN {0, 1} ELSE {0})
    /\ S_full /\ ~W_full => mag_index = IF pc \in Deriving THEN 2 ELSE 1
    /\ pc = "svec" => (W_full <=> S_full)

ModeInv ==
    /\ SafeWithoutData
    /\ SunModesSeeSun

IInv == TypeOK /\ Rings /\ IndexInv /\ FlagInv /\ ModeInv

\* The index arithmetic wraps from the last slot to slot 0.
LEMMA AdvanceWraps ==
    ASSUME NEW i \in Index
    PROVE  Advance(i) = IF i = SH_BUFFER_SIZE - 1 THEN 0 ELSE i + 1
  BY BufferSizeAssumption, SMT DEF Advance, Index

\* A reading makes every sample of a ring one older.
LEMMA RingAging ==
    ASSUME NEW buf \in [Slot -> Sample], NEW i \in Index,
           NEW turned \in BOOLEAN, Ring(buf, i, turned, 0)
    PROVE  Aging(buf) \in [Slot -> Sample] /\ Ring(Aging(buf), i, turned, 1)
<1> USE BufferSizeAssumption DEF Slot, Sample, Clear, Mixed, Aged
<1>1. ASSUME NEW s \in Slot
      PROVE  /\ Aging(buf)[s] = Older(buf[s])
             /\ buf[s] \in Sample
             /\ Older(buf[s]) \in Sample
  BY DEF Aging, Older
<1>2. Aging(buf) \in [Slot -> Sample]
  BY <1>1 DEF Aging
<1>3. ASSUME NEW s \in Slot
      PROVE  Aging(buf)[s] = IF s <= i THEN i - s + 1
                             ELSE IF turned THEN i - s + SH_BUFFER_SIZE + 1 ELSE Clear
  <2>1. buf[s] = IF s <= i THEN i - s + 0
                 ELSE IF turned THEN i - s + SH_BUFFER_SIZE + 0 ELSE Clear
    BY DEF Ring
  <2> QED
    BY <1>1, <2>1 DEF Older, Index
<1> QED
  BY <1>2, <1>3 DEF Ring

\* Writing the newest sample after the last one keeps a ring a ring, and turns it when
\* the last one was in the last slot.
LEMMA RingAdvance ==
    ASSUME NEW buf \in [Slot -> Sample], NEW i \in Index,
           NEW turned \in BOOLEAN, Ring(buf, i, turned, 1), turned => i >= 0
    PROVE  LET new == [buf EXCEPT ![Advance(i)] = 0]
           IN  /\ new \in [Slot -> Sample]
               /\ Ring(new, Advance(i), turned \/ AtEnd(i), 0)
<1> DEFINE new == [buf EXCEPT ![Advance(i)] = 0]
<1> USE BufferSizeAssumption DEF Slot, Sample, Clear, Mixed, Aged
<1>1. /\ Advance(i) \in Slot
      /\ Advance(i) = IF i = SH_BUFFER_SIZE - 1 THEN 0 ELSE i + 1
  BY AdvanceWraps DEF Index
<1>2. new \in [Slot -> Sample]
  BY <1>1
<1>3. ASSUME NEW s \in Slot
      PROVE  new[s] = IF s <= Advance(i) THEN Advance(i) - s + 0
                      ELSE IF turned \/ AtEnd(i) THEN Advance(i) - s + SH_BUFFER_SIZE + 0
                      ELSE Clear
  <2>1. buf[s] = IF s <= i THEN i - s + 1
                 ELSE IF turned THEN i - s + SH_BUFFER_SIZE + 1 ELSE Clear
    BY DEF Ring
  <2>2. new[s] = IF s = Advance(i) THEN 0 ELSE buf[s]
    BY <1>1
  <2> HIDE DEF new
  <2> QED
    BY <1>1, <2>1, <2>2 DEF AtEnd, Index
<1> HIDE DEF new
<1>4. Ring(new, Advance(i), turned \/ AtEnd(i), 0)
  BY <1>3 DEF Ring
<1> QED
  BY <1>2, <1>4 DEF new

\* The newest sample of a ring is this reading's and the one before it the previous
\* reading's, so what is derived from the two is of this reading.
LEMMA RingDerived ==
    ASSUME NEW buf \in [Slot -> Sample], NEW i \in 0 .. SH_BUFFER_SIZE - 1,
           NEW turned \in BOOLEAN, Ring(buf, i, turned, 0), i > 0 \/ turned
    PROVE  Derived(buf[i], buf[Before(i)]) = 0
  BY BufferSizeAssumption DEF Ring, Derived, Before, Slot, Sample, Mixed, Aged

\* The buffers as FLUSH_BUFFER leaves them are a ring nothing was written to.
LEMMA EmptyRing ==
    ASSUME NEW lag \in {0, 1}
    PROVE  Empty \in [Slot -> Sample] /\ Ring(Empty, -1, FALSE, lag)
<1> USE BufferSizeAssumption DEF Slot, Sample, Clear, Mixed, Aged
<1>1. Empty \in [Slot -> Sample]
  BY DEF Empty
<1>2. ASSUME NEW s \in Slot PROVE Empty[s] = Clear /\ ~(s <= -1)
  BY DEF Empty
<1> QED
  BY <1>1, <1>2 DEF Ring

\* The initial values of the globals satisfy the inductive invariant.
LEMMA InitIInv == Init => IInv
<1> SUFFICES ASSUME Init PROVE IInv
  OBVIOUS
<1> USE BufferSizeAssumption
<1>1. TypeOK
  <2>1. -1 \in Index
    BY DEF Index
  <2>2. Empty \in [Slot -> Sample]
    BY EmptyRing
  <2> QED
    BY <2>1, <2>2 DEF Init, TypeOK, SunView, SpinView, Mode
<1>2. Rings
  <2>1. BdotTurned = FALSE
    BY DEF Init, BdotTurned
  <2>2. Lag({"bdot"}) = 0 /\ Lag({"bdot", "omega"}) = 0 /\ Lag({"bdot", "omega", "svec"}) = 0
    BY DEF Init, Lag
  <2>3. Ring(Empty, -1, FALSE, 0)
    BY EmptyRing
  <2> QED
    BY <2>1, <2>2, <2>3 DEF Init, Rings
<1>3. IndexInv
  BY DEF Init, IndexInv, Behind, Deriving
<1>4. FlagInv
  BY DEF Init, FlagInv, Deriving
<1>5. ModeInv
  BY DEF Init, ModeInv, SafeWithoutData, SunModesSeeSun
<1> QED
  BY <1>1, <1>2, <1>3, <1>4, <1>5 DEF IInv

\* A step outside the derivations that leaves the buffers alone.
LEMMA QuietStep ==
    ASSUME IInv, UNCHANGED <<indices, flags, buffers>>,
           pc \notin Deriving, pc' \notin Deriving \cup {"nan"}
    PROVE  Rings' /\ IndexInv' /\ FlagInv'
<1> USE DEF indices, flags, buffers, IInv
<1>1. Rings'
  <2>1. UNCHANGED <<Lag({"bdot"}), Lag({"bdot", "omega"}), Lag({"bdot", "omega", "svec"})>>
    BY DEF Lag, Deriving
  <2> QED
    BY <2>1 DEF Rings, Ring, BdotTurned
<1>2. IndexInv'
  BY DEF IndexInv, Deriving, Behind
<1>3. FlagInv'
  BY DEF FlagInv, Deriving
<1> QED
  BY <1>1, <1>2, <1>3

\* The error path restores what Init established, whatever was there.
LEMMA FlushStep ==
    ASSUME IInv, FlushAndFallBack
    PROVE  IInv'
<1> USE BufferSizeAssumption
<1>1. TypeOK'
  <2>1. -1 \in Index
    BY DEF Index
  <2>2. Empty \in [Slot -> Sample]
    BY EmptyRing
  <2> QED
    BY <2>1, <2>2 DEF IInv, FlushAndFallBack, TypeOK, SunView, SpinView, Mode
<1>2. Rings'
  <2>1. BdotTurned' = FALSE
    BY DEF FlushAndFallBack, BdotTurned
  <2>2. /\ Lag({"bdot"})' = 0 /\ Lag({"bdot", "omega"})' = 0
        /\ Lag({"bdot", "omega", "svec"})' = 0
    BY DEF FlushAndFallBack, Lag
  <2>3. Ring(Empty, -1, FALSE, 0)
    BY EmptyRing
  <2> QED
    BY <2>1, <2>2, <2>3 DEF FlushAndFallBack, Rings, Ring
<1>3. IndexInv'
  BY DEF FlushAndFallBack, IndexInv, Behind, Deriving
<1>4. FlagInv'
  BY DEF FlushAndFallBack, FlagInv, Deriving
<1>5. ModeInv'
  BY DEF FlushAndFallBack, ModeInv, SafeWithoutData, SunModesSeeSun
<1> QED
  BY <1>1, <1>2, <1>3, <1>4, <1>5 DEF IInv

\* The typing facts every step uses.
LEMMA Types ==
    ASSUME IInv
    PROVE  /\ mag_index \in Index /\ bdot_index \in Index
           /\ omega_index \in Index /\ sol_index \in Index
           /\ B_full \in BOOLEAN /\ W_full \in BOOLEAN /\ S_full \in BOOLEAN
           /\ g_B \in [Slot -> Sample] /\ g_Bt \in [Slot -> Sample]
           /\ g_W \in [Slot -> Sample] /\ g_S \in [Slot -> Sample]
  BY DEF IInv, TypeOK

\* Storing a new field reading preserves it, whether or not readSensors goes on.
LEMMA ReadFieldStep ==
    ASSUME IInv, ReadField
    PROVE  IInv'
<1> USE BufferSizeAssumption
<1>1. /\ mag_index \in Index /\ bdot_index \in Index
      /\ omega_index \in Index /\ sol_index \in Index
      /\ B_full \in BOOLEAN /\ W_full \in BOOLEAN /\ S_full \in BOOLEAN
      /\ g_B \in [Slot -> Sample] /\ g_Bt \in [Slot -> Sample]
      /\ g_W \in [Slot -> Sample] /\ g_S \in [Slot -> Sample]
  BY Types
<1>2. /\ mag_index' = IF mag_index = SH_BUFFER_SIZE - 1 THEN 0 ELSE mag_index + 1
      /\ mag_index' \in Index
  BY <1>1, AdvanceWraps DEF ReadField, Index
<1>3. /\ B_full' = (B_full \/ mag_index = SH_BUFFER_SIZE - 1)
      /\ pc' = IF mag_index' < 1 /\ ~B_full' THEN "publish" ELSE "bdot"
      /\ UNCHANGED <<bdot_index, omega_index, sol_index, W_full, S_full>>
  BY DEF ReadField, AtEnd
<1>0. /\ pc = "mag" /\ pc \notin Deriving
      /\ bdot_index = Behind(mag_index, B_full)
      /\ sol_index = bdot_index
      /\ omega_index = Behind(sol_index, S_full)
      /\ W_full => S_full
      /\ S_full => B_full
      /\ B_full => mag_index >= 0
      /\ B_full /\ ~S_full => mag_index = 0
      /\ S_full /\ ~W_full => mag_index = 1
  BY DEF IInv, IndexInv, FlagInv, ReadField, Deriving
<1>4. /\ Ring(g_B, mag_index, B_full, 0) /\ Ring(g_Bt, bdot_index, S_full, 0)
      /\ Ring(g_W, omega_index, W_full, 0) /\ Ring(g_S, sol_index, S_full, 0)
  <2>1. BdotTurned = S_full
    BY <1>1, <1>0 DEF BdotTurned
  <2>2. Lag({"bdot"}) = 0 /\ Lag({"bdot", "omega"}) = 0 /\ Lag({"bdot", "omega", "svec"}) = 0
    BY <1>0 DEF Lag
  <2> QED
    BY <2>1, <2>2 DEF IInv, Rings
<1>5. /\ Aging(g_B) \in [Slot -> Sample] /\ Ring(Aging(g_B), mag_index, B_full, 1)
      /\ Aging(g_Bt) \in [Slot -> Sample] /\ Ring(Aging(g_Bt), bdot_index, S_full, 1)
      /\ Aging(g_W) \in [Slot -> Sample] /\ Ring(Aging(g_W), omega_index, W_full, 1)
      /\ Aging(g_S) \in [Slot -> Sample] /\ Ring(Aging(g_S), sol_index, S_full, 1)
  BY <1>1, <1>4, RingAging
<1>6. g_B' \in [Slot -> Sample] /\ Ring(g_B', mag_index', B_full', 0)
  <2>1. /\ [Aging(g_B) EXCEPT ![Advance(mag_index)] = 0] \in [Slot -> Sample]
        /\ Ring([Aging(g_B) EXCEPT ![Advance(mag_index)] = 0], Advance(mag_index),
                B_full \/ AtEnd(mag_index), 0)
    BY <1>1, <1>5, <1>0, RingAdvance
  <2>2. /\ g_B' = [Aging(g_B) EXCEPT ![Advance(mag_index)] = 0]
        /\ mag_index' = Advance(mag_index)
        /\ B_full' = (B_full \/ AtEnd(mag_index))
    BY DEF ReadField
  <2> QED
    BY <2>1, <2>2
<1>7. TypeOK'
  BY <1>1, <1>2, <1>3, <1>5, <1>6 DEF IInv, TypeOK, ReadField, views, modes
<1>first. ASSUME pc' = "publish"
          PROVE  /\ mag_index = -1 /\ mag_index' = 0 /\ ~B_full /\ ~B_full'
                 /\ bdot_index = -1 /\ omega_index = -1 /\ sol_index = -1
                 /\ ~W_full /\ ~S_full
  <2>1. mag_index' < 1 /\ ~B_full'
    BY <1>3, <1>first
  <2>2. ~B_full /\ mag_index # SH_BUFFER_SIZE - 1
    BY <1>3, <2>1
  <2>3. mag_index = -1 /\ mag_index' = 0
    BY <1>1, <1>2, <2>1, <2>2 DEF Index
  <2> QED
    BY <1>0, <2>1, <2>2, <2>3 DEF Behind
<1>8. IndexInv'
  <2>1. CASE pc' = "bdot"
    <3>1. bdot_index = Behind(Behind(mag_index', B_full'), B_full')
      BY <1>1, <1>2, <1>3, <1>0, <2>1 DEF Behind, Index
    <3> QED
      BY <1>1, <1>2, <1>3, <1>0, <2>1, <3>1 DEF IndexInv, Behind, Deriving, Index
  <2>2. CASE pc' = "publish"
    BY <1>3, <1>first, <2>2 DEF IndexInv, Behind, Deriving
  <2> QED
    BY <1>3, <2>1, <2>2
<1>9. FlagInv'
  BY <1>1, <1>2, <1>3, <1>0 DEF FlagInv, Deriving, Index
<1>10. Rings'
  <2>1. CASE pc' = "bdot"
    <3>1. Lag({"bdot"})' = 1 /\ Lag({"bdot", "omega"})' = 1
          /\ Lag({"bdot", "omega", "svec"})' = 1
      BY <2>1 DEF Lag
    <3>2. BdotTurned' = S_full
      BY <1>1, <1>3, <1>0 DEF BdotTurned
    <3> QED
      BY <1>3, <1>5, <1>6, <3>1, <3>2 DEF Rings, ReadField
  <2>2. CASE pc' = "publish"
    <3>1. Lag({"bdot"})' = 0 /\ Lag({"bdot", "omega"})' = 0
          /\ Lag({"bdot", "omega", "svec"})' = 0
      BY <2>2 DEF Lag
    <3>2. /\ bdot_index = -1 /\ omega_index = -1 /\ sol_index = -1
          /\ ~W_full /\ ~S_full
      BY <1>first, <2>2
    <3>3. BdotTurned' = FALSE
      BY <1>3, <3>2 DEF BdotTurned
    <3>4. /\ Ring(Aging(g_Bt), -1, FALSE, 0) /\ Ring(Aging(g_W), -1, FALSE, 0)
          /\ Ring(Aging(g_S), -1, FALSE, 0)
      BY <1>5, <3>2 DEF Ring, Slot
    <3>5. /\ g_Bt' = Aging(g_Bt) /\ g_W' = Aging(g_W) /\ g_S' = Aging(g_S)
          /\ W_full' = FALSE /\ S_full' = FALSE
      BY <1>1, <1>3, <3>2 DEF ReadField
    <3> QED
      BY <1>3, <1>6, <3>1, <3>2, <3>3, <3>4, <3>5 DEF Rings
  <2> QED
    BY <1>3, <2>1, <2>2
<1>11. ModeInv'
  BY <1>3 DEF IInv, ModeInv, SafeWithoutData, SunModesSeeSun, CanDecide, ReadField, views, modes
<1> QED
  BY <1>7, <1>8, <1>9, <1>10, <1>11 DEF IInv

\* Deriving the rate of change preserves it: it is of this reading, and B_full,
\* the flag the code sets there, was set already.
LEMMA GetBdotStep ==
    ASSUME IInv, GetBdot
    PROVE  IInv'
<1> USE BufferSizeAssumption
<1>1. /\ mag_index \in Index /\ bdot_index \in Index
      /\ omega_index \in Index /\ sol_index \in Index
      /\ B_full \in BOOLEAN /\ W_full \in BOOLEAN /\ S_full \in BOOLEAN
      /\ g_B \in [Slot -> Sample] /\ g_Bt \in [Slot -> Sample]
      /\ g_W \in [Slot -> Sample] /\ g_S \in [Slot -> Sample]
  BY Types
<1>2. /\ pc = "bdot" /\ pc \in Deriving
      /\ bdot_index = Behind(Behind(mag_index, B_full), B_full)
      /\ sol_index = bdot_index
      /\ omega_index = Behind(sol_index, S_full)
      /\ mag_index > 0 \/ (mag_index = 0 /\ B_full)
      /\ W_full => S_full
      /\ S_full => B_full
      /\ B_full => mag_index >= 0
      /\ B_full /\ ~S_full => mag_index \in {0, 1}
      /\ S_full /\ ~W_full => mag_index = 2
  BY DEF IInv, IndexInv, FlagInv, GetBdot, Deriving
<1>3. /\ bdot_index' = IF bdot_index = SH_BUFFER_SIZE - 1 THEN 0 ELSE bdot_index + 1
      /\ bdot_index' \in Index
  BY <1>1, AdvanceWraps DEF GetBdot, Index
<1>4. /\ bdot_index' = Behind(mag_index, B_full)
      /\ bdot_index = Behind(bdot_index', B_full)
      /\ AtEnd(bdot_index) => B_full
  BY <1>1, <1>2, <1>3 DEF Behind, Index, AtEnd
<1>5. /\ B_full' = B_full /\ pc' = "omega"
      /\ UNCHANGED <<mag_index, omega_index, sol_index, W_full, S_full, g_B, g_W, g_S>>
  BY <1>1, <1>4 DEF GetBdot
<1>6. /\ Ring(g_B, mag_index, B_full, 0) /\ Ring(g_Bt, bdot_index, S_full, 1)
      /\ Ring(g_W, omega_index, W_full, 1) /\ Ring(g_S, sol_index, S_full, 1)
  <2>1. BdotTurned = S_full
    BY <1>1, <1>2 DEF BdotTurned
  <2>2. Lag({"bdot"}) = 1 /\ Lag({"bdot", "omega"}) = 1 /\ Lag({"bdot", "omega", "svec"}) = 1
    BY <1>2 DEF Lag
  <2> QED
    BY <2>1, <2>2 DEF IInv, Rings
<1>7. g_Bt' \in [Slot -> Sample] /\ Ring(g_Bt', bdot_index', BdotTurned', 0)
  <2>1. g_Bt' = [g_Bt EXCEPT ![Advance(bdot_index)] = 0]
    <3>1. Derived(g_B[mag_index], g_B[Before(mag_index)]) = 0
      BY <1>1, <1>2, <1>6, RingDerived DEF Index
    <3> QED
      BY <1>5, <3>1 DEF GetBdot
  <2>2. S_full => bdot_index >= 0
    BY <1>1, <1>2 DEF Behind, Index
  <2>3. /\ [g_Bt EXCEPT ![Advance(bdot_index)] = 0] \in [Slot -> Sample]
        /\ Ring([g_Bt EXCEPT ![Advance(bdot_index)] = 0], Advance(bdot_index),
                S_full \/ AtEnd(bdot_index), 0)
    BY <1>1, <1>6, <2>2, RingAdvance
  <2>4. BdotTurned' = (S_full \/ AtEnd(bdot_index))
    BY <1>1, <1>2, <1>3, <1>5 DEF BdotTurned, AtEnd
  <2> QED
    BY <2>1, <2>3, <2>4 DEF GetBdot
<1>8. TypeOK'
  BY <1>1, <1>3, <1>5, <1>7 DEF IInv, TypeOK, GetBdot, views, modes
<1>9. IndexInv'
  BY <1>2, <1>4, <1>5 DEF IndexInv, Deriving
<1>10. FlagInv'
  BY <1>2, <1>5 DEF FlagInv, Deriving
<1>11. Rings'
  <2>1. /\ Lag({"bdot"})' = 0 /\ Lag({"bdot", "omega"})' = 1
        /\ Lag({"bdot", "omega", "svec"})' = 1
    BY <1>5 DEF Lag
  <2> QED
    BY <1>5, <1>6, <1>7, <2>1 DEF Rings
<1>12. ModeInv'
  BY <1>5 DEF IInv, ModeInv, SafeWithoutData, SunModesSeeSun, CanDecide, GetBdot, views, modes
<1> QED
  BY <1>8, <1>9, <1>10, <1>11, <1>12 DEF IInv

\* What the invariant says where getOmega starts.
LEMMA OmegaFacts ==
    ASSUME IInv, pc = "omega"
    PROVE  /\ bdot_index = Behind(mag_index, B_full)
           /\ sol_index = Behind(bdot_index, B_full)
           /\ omega_index = Behind(sol_index, S_full)
           /\ mag_index > 0 \/ (mag_index = 0 /\ B_full)
           /\ W_full => S_full
           /\ S_full => B_full
           /\ B_full /\ ~S_full => mag_index \in {0, 1}
           /\ S_full /\ ~W_full => mag_index = 2
           /\ Ring(g_B, mag_index, B_full, 0) /\ Ring(g_Bt, bdot_index, BdotTurned, 0)
           /\ Ring(g_W, omega_index, W_full, 1) /\ Ring(g_S, sol_index, S_full, 1)
<1>1. Lag({"bdot"}) = 0 /\ Lag({"bdot", "omega"}) = 1 /\ Lag({"bdot", "omega", "svec"}) = 1
  BY DEF Lag
<1>2. Rings /\ IndexInv /\ FlagInv
  BY DEF IInv
<1> QED
  BY <1>1, <1>2 DEF Rings, IndexInv, FlagInv, Deriving

\* getOmega's early return preserves the invariant.
LEMMA SkipOmegaStep ==
    ASSUME IInv, SkipOmega
    PROVE  IInv'
<1> USE BufferSizeAssumption DEF SkipOmega, indices, flags, buffers, views, modes
<1>1. pc = "omega" /\ pc' = "svec" /\ mag_index < 2 /\ ~B_full
  BY DEF NotEnoughForOmega
<1>2. /\ mag_index = 1 /\ bdot_index = 0 /\ sol_index = -1 /\ omega_index = -1
      /\ ~S_full /\ ~W_full
  BY <1>1, OmegaFacts, Types DEF Behind, Index
<1>3. TypeOK'
  BY <1>1 DEF IInv, TypeOK
<1>4. Rings'
  <2>1. Ring(g_W, -1, FALSE, 1)
    BY <1>1, <1>2, Types, OmegaFacts
  <2>2. Ring(g_W, -1, FALSE, 0)
    BY <2>1 DEF Ring, Slot
  <2>3. /\ Lag({"bdot"})' = 0 /\ Lag({"bdot", "omega"})' = 0
        /\ Lag({"bdot", "omega", "svec"})' = 1
    BY <1>1 DEF Lag
  <2>4. BdotTurned' = BdotTurned
    BY DEF BdotTurned
  <2>5. W_full' = FALSE /\ omega_index' = -1
    BY <1>2, Types
  <2> QED
    BY <1>1, <2>2, <2>3, <2>4, <2>5, OmegaFacts DEF Rings
<1>5. IndexInv'
  BY <1>1, <1>2, OmegaFacts DEF IndexInv, Deriving
<1>6. FlagInv'
  BY <1>1, <1>2 DEF FlagInv, Deriving
<1>7. ModeInv'
  BY <1>1 DEF IInv, ModeInv, SafeWithoutData, SunModesSeeSun, CanDecide
<1> QED
  BY <1>3, <1>4, <1>5, <1>6, <1>7 DEF IInv

\* Deriving the angular velocity preserves it.
LEMMA GetOmegaStep ==
    ASSUME IInv, GetOmega
    PROVE  IInv'
<1> USE BufferSizeAssumption
<1>1. /\ pc = "omega" /\ pc' = "svec" /\ ~NotEnoughForOmega
      /\ UNCHANGED <<mag_index, bdot_index, sol_index, B_full, S_full, g_B, g_Bt, g_S>>
      /\ omega_index' = Advance(omega_index)
      /\ W_full' = (W_full \/ AtEnd(omega_index))
  BY DEF GetOmega
<1>2. /\ omega_index' = IF omega_index = SH_BUFFER_SIZE - 1 THEN 0 ELSE omega_index + 1
      /\ omega_index' \in Index
  BY <1>1, Types, AdvanceWraps DEF Index
<1>3. mag_index >= 2 \/ B_full
  BY <1>1, Types DEF NotEnoughForOmega, Index
<1>4. /\ bdot_index >= 0 /\ sol_index >= 0
      /\ omega_index' = sol_index
  BY <1>1, <1>2, <1>3, OmegaFacts, Types DEF Behind, Index
<1>5. W_full' = S_full
  BY <1>1, <1>2, <1>3, <1>4, OmegaFacts, Types DEF Behind, Index, AtEnd
<1>6. g_W' \in [Slot -> Sample] /\ Ring(g_W', omega_index', W_full', 0)
  <2>1. bdot_index > 0 \/ BdotTurned
    BY <1>1, <1>3, <1>4, OmegaFacts, Types DEF BdotTurned, Behind, Index
  <2>2. BdotTurned \in BOOLEAN /\ bdot_index \in 0 .. SH_BUFFER_SIZE - 1
    BY <1>4, Types DEF BdotTurned, Index
  <2>3. Derived(g_Bt[bdot_index], g_Bt[Before(bdot_index)]) = 0
    BY <1>1, <2>1, <2>2, Types, OmegaFacts, RingDerived
  <2>4. g_W' = [g_W EXCEPT ![Advance(omega_index)] = 0]
    BY <1>1, <2>3 DEF GetOmega
  <2>5. W_full => omega_index >= 0
    BY <1>1, OmegaFacts, Types, <1>4 DEF Behind, Index
  <2>6. /\ [g_W EXCEPT ![Advance(omega_index)] = 0] \in [Slot -> Sample]
        /\ Ring([g_W EXCEPT ![Advance(omega_index)] = 0], Advance(omega_index),
                W_full \/ AtEnd(omega_index), 0)
    BY <1>1, <2>5, Types, OmegaFacts, RingAdvance
  <2> QED
    BY <1>1, <2>4, <2>6
<1>7. TypeOK'
  BY <1>1, <1>2, <1>5, <1>6 DEF IInv, TypeOK, GetOmega, modes
<1>8. Rings'
  <2>1. /\ Lag({"bdot"})' = 0 /\ Lag({"bdot", "omega"})' = 0
        /\ Lag({"bdot", "omega", "svec"})' = 1
    BY <1>1 DEF Lag
  <2>2. BdotTurned' = BdotTurned
    BY <1>1 DEF BdotTurned
  <2> QED
    BY <1>1, <1>6, <2>1, <2>2, OmegaFacts DEF Rings
<1>9. IndexInv'
  BY <1>1, <1>4, OmegaFacts DEF IndexInv, Deriving
<1>10. FlagInv'
  <2>1. /\ W_full' => S_full'
        /\ S_full' => B_full'
        /\ B_full' => mag_index' >= 0
        /\ B_full' /\ ~S_full' => mag_index' \in {0, 1}
        /\ ~(S_full' /\ ~W_full') /\ (W_full' <=> S_full')
    BY <1>1, <1>5, OmegaFacts, Types DEF Index
  <2> QED
    BY <1>1, <2>1 DEF FlagInv, Deriving
<1>11. ModeInv'
  <2>1. W_full => W_full'
    BY <1>1
  <2> QED
    BY <1>1, <2>1, Types
       DEF IInv, ModeInv, SafeWithoutData, SunModesSeeSun, CanDecide, GetOmega, modes
<1> QED
  BY <1>7, <1>8, <1>9, <1>10, <1>11 DEF IInv

\* Storing the sun vector preserves it.
LEMMA GetSVecStep ==
    ASSUME IInv, GetSVec
    PROVE  IInv'
<1> USE BufferSizeAssumption
<1>1. /\ pc = "svec" /\ pc' = "nan"
      /\ UNCHANGED <<mag_index, bdot_index, omega_index, B_full, W_full, g_B, g_Bt, g_W>>
      /\ sol_index' = Advance(sol_index)
      /\ S_full' = (S_full \/ AtEnd(sol_index))
      /\ g_S' = [g_S EXCEPT ![Advance(sol_index)] = 0]
  BY DEF GetSVec
<1>2. /\ bdot_index = Behind(mag_index, B_full)
      /\ sol_index = Behind(bdot_index, B_full)
      /\ omega_index = sol_index
      /\ mag_index > 0 \/ (mag_index = 0 /\ B_full)
      /\ W_full <=> S_full
      /\ S_full => B_full
      /\ B_full /\ ~S_full => mag_index \in {0, 1}
  BY <1>1 DEF IInv, IndexInv, FlagInv, Deriving
<1>3. /\ Ring(g_B, mag_index, B_full, 0) /\ Ring(g_Bt, bdot_index, BdotTurned, 0)
      /\ Ring(g_W, omega_index, W_full, 0) /\ Ring(g_S, sol_index, S_full, 1)
  <2>1. Lag({"bdot"}) = 0 /\ Lag({"bdot", "omega"}) = 0 /\ Lag({"bdot", "omega", "svec"}) = 1
    BY <1>1 DEF Lag
  <2> QED
    BY <2>1 DEF IInv, Rings
<1>4. /\ sol_index' = IF sol_index = SH_BUFFER_SIZE - 1 THEN 0 ELSE sol_index + 1
      /\ sol_index' \in Index
  BY <1>1, Types, AdvanceWraps DEF Index
<1>5. sol_index' = bdot_index /\ bdot_index >= 0
  BY <1>2, <1>4, Types DEF Behind, Index
<1>6. g_S' \in [Slot -> Sample] /\ Ring(g_S', sol_index', S_full', 0)
  <2>1. S_full => sol_index >= 0
    BY <1>2, Types DEF Behind, Index
  <2>2. /\ [g_S EXCEPT ![Advance(sol_index)] = 0] \in [Slot -> Sample]
        /\ Ring([g_S EXCEPT ![Advance(sol_index)] = 0], Advance(sol_index),
                S_full \/ AtEnd(sol_index), 0)
    BY <1>3, <2>1, Types, RingAdvance
  <2> QED
    BY <1>1, <2>2
<1>7. BdotTurned' = BdotTurned
  BY <1>1, <1>2, <1>4, <1>5, Types DEF BdotTurned, AtEnd, Behind, Index
<1>8. TypeOK'
  BY <1>1, <1>4, <1>6, Types DEF IInv, TypeOK, GetSVec, modes, SunView
<1>9. Rings'
  <2>1. /\ Lag({"bdot"})' = 0 /\ Lag({"bdot", "omega"})' = 0
        /\ Lag({"bdot", "omega", "svec"})' = 0
    BY <1>1 DEF Lag
  <2> QED
    BY <1>1, <1>3, <1>6, <1>7, <2>1 DEF Rings
<1>10. S_full' => B_full
  BY <1>1, <1>2, Types DEF AtEnd, Behind, Index
<1>11. IndexInv'
  <2>1. omega_index = Behind(sol_index', S_full')
    BY <1>1, <1>2, <1>4, <1>5, <1>10, Types DEF AtEnd, Behind, Index
  <2> QED
    BY <1>1, <1>2, <1>5, <2>1 DEF IndexInv, Deriving
<1>12. FlagInv'
  <2>1. /\ W_full => S_full'
        /\ B_full => mag_index >= 0
        /\ B_full /\ ~S_full' => mag_index = 0
        /\ S_full' /\ ~W_full => mag_index = 1
    BY <1>1, <1>2, Types DEF AtEnd, Behind, Index
  <2> QED
    BY <1>1, <1>10, <2>1 DEF FlagInv, Deriving
<1>13. ModeInv'
  <2>1. CanDecide => CanDecide'
    BY <1>1 DEF CanDecide
  <2> QED
    BY <1>1, <2>1 DEF IInv, ModeInv, SafeWithoutData, SunModesSeeSun, GetSVec, modes
<1> QED
  BY <1>8, <1>9, <1>11, <1>12, <1>13 DEF IInv

(***************************************************************************)
(* The mode machine: what a decision needs, and what it leaves behind.     *)
(***************************************************************************)

\* checkTransition's decision preserves it.
LEMMA DecisionStep ==
    ASSUME IInv, CheckTransition
    PROVE  IInv'
<1>1. /\ pc = "check" /\ pc' = "act" /\ W_full /\ S_full
      /\ UNCHANGED <<indices, flags, buffers, views>>
      /\ done' = done
  BY DEF CheckTransition, CanDecide
<1>2. /\ W_full' /\ S_full' /\ omega_index' = omega_index /\ sun' = sun
  BY <1>1 DEF flags, indices, views
<1>3. omega_index >= 0
  BY <1>1, BufferSizeAssumption, Types DEF IInv, IndexInv, FlagInv, Behind, Deriving, Index
<1>4. /\ g_acs_mode' \in Mode /\ g_first_detumble' \in BOOLEAN
      /\ g_acs_mode' = "SUNPOINT" => sun \in {"Limit", "Off"}
      /\ g_acs_mode' = "READY" => sun \in {"Aligned", "Limit"}
  <2>1. g_acs_mode \in Mode /\ g_first_detumble \in BOOLEAN /\ sun \in SunView
    BY DEF IInv, TypeOK
  <2>2. CASE g_acs_mode = "DETUMBLE"
    BY <2>1, <2>2 DEF CheckTransition, FromDetumble, Mode
  <2>3. CASE g_acs_mode = "SUNPOINT"
    BY <2>1, <2>3 DEF CheckTransition, FromSunpoint, Mode, SunView
  <2>4. CASE g_acs_mode = "NIGHT"
    BY <2>1, <2>4 DEF CheckTransition, FromNight, Mode, SunView
  <2>5. CASE g_acs_mode = "READY"
    BY <2>1, <2>5 DEF CheckTransition, FromReady, Mode, SunView
  <2> QED
    BY <2>1, <2>2, <2>3, <2>4, <2>5 DEF Mode
<1>5. TypeOK'
  BY <1>1, <1>4 DEF IInv, TypeOK, indices, flags, buffers, views
<1>6. Rings' /\ IndexInv' /\ FlagInv'
  BY <1>1, QuietStep DEF Deriving
<1>7. ModeInv'
  BY <1>1, <1>2, <1>3, <1>4 DEF ModeInv, SafeWithoutData, SunModesSeeSun, CanDecide
<1> QED
  BY <1>5, <1>6, <1>7 DEF IInv

\* Without a window the mode machine is not consulted, and the mode stands.
LEMMA UndecidedStep ==
    ASSUME IInv, Undecided
    PROVE  IInv'
<1>1. /\ pc = "check" /\ pc' = "act" /\ ~CanDecide
      /\ UNCHANGED <<done, indices, flags, buffers, views, modes>>
  BY DEF Undecided
<1>2. TypeOK'
  BY <1>1 DEF IInv, TypeOK, indices, flags, buffers, views, modes
<1>3. Rings' /\ IndexInv' /\ FlagInv'
  BY <1>1, QuietStep DEF Deriving
<1>4. ModeInv'
  BY <1>1 DEF IInv, ModeInv, SafeWithoutData, SunModesSeeSun, CanDecide, flags, modes
<1> QED
  BY <1>2, <1>3, <1>4 DEF IInv

\* The steps that only move the program counter, outside the derivations.
LEMMA ControlStep ==
    ASSUME IInv, UNCHANGED <<indices, flags, buffers, views, modes>>, done' \in BOOLEAN,
           pc \notin Deriving, pc' \notin Deriving \cup {"nan", "act"}, TypeOK'
    PROVE  IInv'
<1>1. Rings' /\ IndexInv' /\ FlagInv'
  BY QuietStep
<1>2. ModeInv'
  BY DEF IInv, ModeInv, SafeWithoutData, SunModesSeeSun, CanDecide, flags, modes
<1> QED
  BY <1>1, <1>2 DEF IInv

\* The signal handler writes nothing that the invariant speaks of.
LEMMA StutterStep ==
    ASSUME IInv, UNCHANGED <<pc, indices, flags, buffers, views, modes>>, done' \in BOOLEAN
    PROVE  IInv'
<1> USE DEF indices, flags, buffers, views, modes
<1>1. TypeOK'
  BY DEF IInv, TypeOK
<1>2. Rings'
  <2>1. UNCHANGED <<Lag({"bdot"}), Lag({"bdot", "omega"}), Lag({"bdot", "omega", "svec"})>>
    BY DEF Lag
  <2> QED
    BY <2>1 DEF IInv, Rings, Ring, BdotTurned
<1>3. IndexInv' /\ FlagInv'
  BY DEF IInv, IndexInv, FlagInv, Behind, Deriving
<1>4. ModeInv'
  BY DEF IInv, ModeInv, SafeWithoutData, SunModesSeeSun, CanDecide
<1> QED
  BY <1>1, <1>2, <1>3, <1>4 DEF IInv

\* Every step preserves the inductive invariant.
LEMMA NextIInv == IInv /\ [Next]_vars => IInv'
<1> SUFFICES ASSUME IInv, [Next]_vars PROVE IInv'
  OBVIOUS
<1> USE DEF indices, flags, buffers, views, modes
<1>1. done \in BOOLEAN
  BY DEF IInv, TypeOK
<1>2. CASE ReadField
  BY <1>2, ReadFieldStep
<1>3. CASE ReadFieldFails
  BY <1>3, FlushStep DEF ReadFieldFails
<1>4. CASE GetBdot
  BY <1>4, GetBdotStep
<1>5. CASE SkipOmega
  BY <1>5, SkipOmegaStep
<1>6. CASE GetOmega
  BY <1>6, GetOmegaStep
<1>7. CASE GetSVec
  BY <1>7, GetSVecStep
<1>8. CASE NanFound
  BY <1>8, FlushStep DEF NanFound
<1>9. CASE CheckTransition
  BY <1>9, DecisionStep
<1>10. CASE Undecided
  BY <1>10, UndecidedStep
<1>11. ASSUME Exit \/ StartCycle \/ AllNumbers \/ Publish
              \/ DetumbleAction \/ SunpointAction \/ Idle
       PROVE  IInv'
  <2>1. /\ pc \notin Deriving /\ pc' \notin Deriving \cup {"nan", "act"}
        /\ UNCHANGED <<done, indices, flags, buffers, views, modes>>
    BY <1>11 DEF Deriving, Exit, StartCycle, AllNumbers, Publish, DetumbleAction,
                 SunpointAction, Idle
  <2>2. TypeOK'
    BY <1>11, <2>1 DEF IInv, TypeOK, Exit, StartCycle, AllNumbers, Publish,
                       DetumbleAction, SunpointAction, Idle
  <2> QED
    BY <1>1, <2>1, <2>2, ControlStep
<1>12. CASE RaiseDone
  BY <1>12, StutterStep DEF RaiseDone
<1>13. CASE Exited \/ UNCHANGED vars
  BY <1>1, <1>13, StutterStep DEF Exited, vars
<1> QED
  BY <1>2, <1>3, <1>4, <1>5, <1>6, <1>7, <1>8, <1>9, <1>10, <1>11, <1>12, <1>13
     DEF Next, Loop

\* The invariant holds of every reachable state, whatever the buffers' size.
THEOREM Inductive == Spec => []IInv
  BY InitIInv, NextIInv, PTL DEF Spec

\* Variables keep their types, indices included: no write leaves its buffer.
THEOREM TypeCorrect == Spec => []TypeOK
  BY Inductive, PTL DEF IInv

(***************************************************************************)
(* The safety properties follow from the rings.                            *)
(***************************************************************************)

\* A ring that has turned holds every age of the window.
LEMMA TurnedRingHoldsWindow ==
    ASSUME NEW buf, NEW i \in Slot, Ring(buf, i, TRUE, 0), NEW age \in Slot
    PROVE  \E s \in Slot : buf[s] = age
<1> USE BufferSizeAssumption DEF Slot
<1>1. CASE age <= i
  <2>1. i - age \in Slot /\ buf[i - age] = i - (i - age) + 0
    BY <1>1 DEF Ring
  <2> QED
    BY <2>1
<1>2. CASE age > i
  <2>1. i - age + SH_BUFFER_SIZE \in Slot /\ ~(i - age + SH_BUFFER_SIZE <= i)
    BY <1>2
  <2>2. buf[i - age + SH_BUFFER_SIZE] = i - (i - age + SH_BUFFER_SIZE) + SH_BUFFER_SIZE + 0
    BY <2>1 DEF Ring
  <2> QED
    BY <2>1, <2>2
<1> QED
  BY <1>1, <1>2

\* Under the invariant both averaged buffers have turned when a mode is decided.
LEMMA IInvDecisionWindow == IInv => DecisionWindow
<1> SUFFICES ASSUME IInv, pc = "check", CanDecide, NEW age \in Slot
             PROVE  /\ \E s \in Slot : g_W[s] = age
                    /\ \E s \in Slot : g_S[s] = age
  BY DEF DecisionWindow
<1>1. W_full = TRUE /\ S_full = TRUE /\ W_full /\ S_full /\ B_full
  BY Types DEF CanDecide, IInv, FlagInv
<1>2. omega_index \in Slot /\ sol_index \in Slot
  BY <1>1, Types, BufferSizeAssumption
     DEF IInv, IndexInv, FlagInv, Behind, Deriving, Index, Slot
<1>3. Lag({"bdot", "omega"}) = 0 /\ Lag({"bdot", "omega", "svec"}) = 0
  BY DEF Lag
<1>4. Ring(g_W, omega_index, TRUE, 0) /\ Ring(g_S, sol_index, TRUE, 0)
  BY <1>1, <1>3 DEF IInv, Rings
<1> QED
  BY <1>2, <1>4, TurnedRingHoldsWindow

\* checkTransition decides from SH_BUFFER_SIZE consecutive angular velocities and sun
\* vectors, of any buffer size.
THEOREM DecidesFromWindow == Spec => []DecisionWindow
  BY Inductive, IInvDecisionWindow, PTL

\* The buffers after readSensors: all of the current reading.
LEMMA RingsAfterReading ==
    ASSUME IInv, AfterReading
    PROVE  /\ Ring(g_B, mag_index, B_full, 0) /\ Ring(g_Bt, bdot_index, BdotTurned, 0)
           /\ Ring(g_W, omega_index, W_full, 0) /\ Ring(g_S, sol_index, S_full, 0)
           /\ omega_index >= 0 => mag_index >= 0 /\ bdot_index >= 0 /\ sol_index >= 0
<1>1. Lag({"bdot"}) = 0 /\ Lag({"bdot", "omega"}) = 0 /\ Lag({"bdot", "omega", "svec"}) = 0
  BY DEF Lag, AfterReading
<1>2. omega_index >= 0 => mag_index >= 0 /\ bdot_index >= 0 /\ sol_index >= 0
  BY Types, BufferSizeAssumption DEF IInv, IndexInv, AfterReading, Behind, Deriving, Index
<1> QED
  BY <1>1, <1>2 DEF IInv, Rings

\* Under the invariant the newest slots are of one reading.
LEMMA IInvNewestCoherent == IInv => NewestCoherent
<1> SUFFICES ASSUME IInv, AfterReading, omega_index >= 0
             PROVE  /\ mag_index >= 0 /\ g_B[mag_index] = 0
                    /\ bdot_index >= 0 /\ g_Bt[bdot_index] = 0
                    /\ sol_index >= 0 /\ g_S[sol_index] = 0
                    /\ g_W[omega_index] = 0
  BY DEF NewestCoherent
<1>1. ASSUME NEW buf, NEW i \in Index, i >= 0, NEW turned, Ring(buf, i, turned, 0)
      PROVE  buf[i] = 0
  BY <1>1, BufferSizeAssumption DEF Ring, Index, Slot
<1> QED
  BY <1>1, RingsAfterReading, Types

\* What DataVis is handed, and what the actions compute from, is of one instant.
THEOREM OneInstant == Spec => []NewestCoherent
  BY Inductive, IInvNewestCoherent, PTL

\* Walking back around a ring meets its ages in order, or zeroed slots.
LEMMA RingConsecutive ==
    ASSUME NEW buf, NEW i \in Slot, NEW turned \in BOOLEAN, Ring(buf, i, turned, 0)
    PROVE  Consecutive(buf, i)
<1> USE BufferSizeAssumption DEF Slot
<1> SUFFICES ASSUME NEW d \in Slot PROVE buf[Back(i, d)] \in {d, Clear}
  BY DEF Consecutive
<1>1. CASE d <= i
  <2>1. Back(i, d) = i - d /\ i - d \in Slot /\ i - d <= i
    BY <1>1 DEF Back
  <2>2. buf[i - d] = i - (i - d) + 0
    BY <2>1 DEF Ring
  <2> QED
    BY <2>1, <2>2
<1>2. CASE d > i
  <2>1. /\ Back(i, d) = i - d + SH_BUFFER_SIZE
        /\ i - d + SH_BUFFER_SIZE \in Slot /\ ~(i - d + SH_BUFFER_SIZE <= i)
    BY <1>2 DEF Back
  <2>2. buf[i - d + SH_BUFFER_SIZE] =
           IF turned THEN i - (i - d + SH_BUFFER_SIZE) + SH_BUFFER_SIZE + 0 ELSE Clear
    BY <2>1 DEF Ring
  <2> QED
    BY <2>1, <2>2
<1> QED
  BY <1>1, <1>2

\* Under the invariant the filters meet consecutive samples.
LEMMA IInvFilterWindows == IInv => FilterWindows
<1> SUFFICES ASSUME IInv, AfterReading
             PROVE  /\ mag_index >= 0 => Consecutive(g_B, mag_index)
                    /\ bdot_index >= 0 => Consecutive(g_Bt, bdot_index)
                    /\ omega_index >= 0 => Consecutive(g_W, omega_index)
  BY DEF FilterWindows
<1>1. ASSUME NEW i \in Index, i >= 0 PROVE i \in Slot
  BY <1>1, BufferSizeAssumption DEF Index, Slot
<1>2. BdotTurned \in BOOLEAN
  BY Types DEF BdotTurned
<1> QED
  BY <1>1, <1>2, RingsAfterReading, Types, RingConsecutive

\* The Bessel filters see consecutive samples.
THEOREM FiltersSeeConsecutive == Spec => []FilterWindows
  BY Inductive, IInvFilterWindows, PTL

\* Without a window the satellite is in night mode or in its first detumbling.
THEOREM NightUntilFull == Spec => []SafeWithoutData
  BY Inductive, PTL DEF IInv, ModeInv

\* sunpointAction and READY have a window and the sun they are about.
THEOREM SunInView == Spec => []SunModesSeeSun
  BY Inductive, PTL DEF IInv, ModeInv

(***************************************************************************)
(* AcsCore implements AcsModes.                                            *)
(***************************************************************************)

\* The globals' initial values are an initial state of the promise.
LEMMA InitRefines == Init => Modes!Init
  BY DEF Init, Modes!Init, Streak, Lit

\* The error path of acs_thread is a fault of the promise.
LEMMA FlushRefines ==
    ASSUME IInv, FlushAndFallBack
    PROVE  Modes!Fault
  BY DEF FlushAndFallBack, Modes!Fault, Streak, Lit

\* A field reading is a reading of the promise: the streak grows by one up to the window.
LEMMA ReadFieldRefines ==
    ASSUME IInv, ReadField
    PROVE  Modes!Reading
<1>1. /\ mag_index' = IF mag_index = SH_BUFFER_SIZE - 1 THEN 0 ELSE mag_index + 1
      /\ B_full' = (B_full \/ mag_index = SH_BUFFER_SIZE - 1)
      /\ pc = "mag"
      /\ UNCHANGED <<W_full, sun, g_acs_mode, g_first_detumble>>
  BY BufferSizeAssumption, Types, AdvanceWraps DEF ReadField, AtEnd, Index, views, modes
<1>2. /\ W_full => S_full
      /\ S_full => B_full
      /\ B_full => mag_index >= 0
      /\ B_full /\ ~S_full => mag_index = 0
      /\ S_full /\ ~W_full => mag_index = 1
  BY <1>1 DEF IInv, FlagInv, Deriving
<1>3. Streak' = IF Streak = WindowReadings THEN WindowReadings ELSE Streak + 1
  <2> USE BufferSizeAssumption DEF Streak, WindowReadings, Index
  <2>1. CASE W_full
    BY <1>1, <2>1
  <2>2. CASE ~W_full /\ B_full
    <3>1. mag_index \in {0, 1} /\ ~W_full' /\ B_full'
      BY <1>1, <1>2, <2>2
    <3>2. mag_index' = mag_index + 1
      BY <1>1, <3>1
    <3>3. Streak = SH_BUFFER_SIZE + 1 + mag_index /\ Streak' = SH_BUFFER_SIZE + 1 + mag_index'
      BY <2>2, <3>1
    <3> QED
      BY <3>1, <3>2, <3>3
  <2>3. CASE ~W_full /\ ~B_full
    <3>1. ~W_full' /\ Streak = mag_index + 1
      BY <1>1, <2>3
    <3>2. CASE mag_index = SH_BUFFER_SIZE - 1
      <4>1. B_full' /\ mag_index' = 0
        BY <1>1, <3>2
      <4> QED
        BY <3>1, <3>2, <4>1
    <3>3. CASE mag_index # SH_BUFFER_SIZE - 1
      <4>1. ~B_full' /\ mag_index' = mag_index + 1
        BY <1>1, <2>3, <3>3
      <4> QED
        BY <3>1, <3>3, <4>1, Types
    <3> QED
      BY <3>2, <3>3
  <2> QED
    BY <2>1, <2>2, <2>3
<1> QED
  BY <1>1, <1>3 DEF Modes!Reading, Lit

\* getOmega is no step of the promise: W_full is set when the streak is complete.
LEMMA GetOmegaRefines ==
    ASSUME IInv, GetOmega
    PROVE  UNCHANGED Modes!vars
<1>1. /\ pc = "omega" /\ ~NotEnoughForOmega
      /\ UNCHANGED <<mag_index, B_full, sun, g_acs_mode, g_first_detumble>>
      /\ omega_index' = Advance(omega_index)
      /\ W_full' = (W_full \/ AtEnd(omega_index))
  BY DEF GetOmega, modes
<1>2. W_full' => S_full
  BY <1>1, OmegaFacts, Types, BufferSizeAssumption DEF AtEnd, Behind, Index
<1>3. W_full' /\ ~W_full => mag_index = 2 /\ B_full
  BY <1>1, <1>2, OmegaFacts
<1>4. Streak' = Streak
  BY <1>1, <1>3, BufferSizeAssumption, Types DEF Streak, WindowReadings
<1> QED
  BY <1>1, <1>4 DEF Modes!vars, Lit

\* checkTransition's decision is one the promise allows.
LEMMA DecisionRefines ==
    ASSUME IInv, CheckTransition
    PROVE  Modes!Decide
<1>1. /\ W_full /\ UNCHANGED <<mag_index, B_full, W_full, sun>>
      /\ g_acs_mode \in Mode /\ g_first_detumble \in BOOLEAN /\ sun \in SunView
  BY DEF CheckTransition, CanDecide, IInv, TypeOK, indices, flags, views
<1>2. Streak = WindowReadings /\ Streak' = Streak /\ Lit' = Lit
  BY <1>1 DEF Streak, Lit
<1>3. CASE g_acs_mode = "DETUMBLE"
  <2>1. /\ g_first_detumble' = (g_first_detumble /\ spin # "Settled")
        /\ g_acs_mode' = FromDetumble(g_first_detumble')
    BY <1>3 DEF CheckTransition
  <2>2. CASE Lit /\ spin = "Settled"
    BY <1>2, <1>3, <2>1, <2>2
       DEF Modes!Decide, Modes!StopDetumbling, FromDetumble, WindowReadings
  <2>3. CASE Lit /\ spin # "Settled"
    <3>1. g_acs_mode' = "DETUMBLE" /\ g_first_detumble' = g_first_detumble
      BY <1>1, <2>1, <2>3 DEF FromDetumble
    <3> QED
      BY <1>2, <1>3, <2>3, <3>1 DEF Modes!Decide, Modes!Turn, WindowReadings
  <2>4. CASE ~Lit
    <3>1. \/ g_acs_mode' = "DETUMBLE" /\ g_first_detumble /\ g_first_detumble' = g_first_detumble
          \/ g_acs_mode' = "NIGHT" /\ g_first_detumble' \in {FALSE, g_first_detumble}
      BY <1>1, <2>1, <2>4 DEF FromDetumble
    <3> QED
      BY <1>2, <1>3, <2>4, <3>1 DEF Modes!Decide, Modes!Dark, WindowReadings
  <2> QED
    BY <2>2, <2>3, <2>4
<1>4. CASE g_acs_mode # "DETUMBLE"
  <2>1. g_first_detumble' = g_first_detumble
    BY <1>1, <1>4 DEF CheckTransition
  <2>2. CASE ~Lit
    <3>1. g_acs_mode' = "NIGHT"
      BY <1>1, <1>4, <2>2 DEF CheckTransition, FromSunpoint, FromNight, FromReady, Lit, Mode
    <3> QED
      BY <1>2, <1>4, <2>1, <2>2, <3>1 DEF Modes!Decide, Modes!Dark, WindowReadings
  <2>3. CASE Lit
    <3>1. sun \in {"Aligned", "Limit", "Off"}
      BY <1>1, <2>3 DEF Lit, SunView
    <3>2. \/ g_acs_mode = "SUNPOINT" /\ g_acs_mode' \in {"SUNPOINT", "DETUMBLE", "READY"}
          \/ g_acs_mode \in {"NIGHT", "READY"} /\ g_acs_mode' \in {"SUNPOINT", "READY"}
      BY <1>1, <1>4, <3>1 DEF CheckTransition, FromSunpoint, FromNight, FromReady, Mode
    <3> QED
      BY <1>2, <2>1, <2>3, <3>2 DEF Modes!Decide, Modes!Turn, WindowReadings
  <2> QED
    BY <2>2, <2>3
<1> QED
  BY <1>3, <1>4

\* Every step of the loop is a step of the promise or leaves it unchanged.
LEMMA NextRefines == IInv /\ [Next]_vars => [Modes!Next]_(Modes!vars)
<1> SUFFICES ASSUME IInv, [Next]_vars PROVE Modes!Next \/ UNCHANGED Modes!vars
  OBVIOUS
<1> USE DEF Modes!Next
<1>1. CASE ReadField
  BY <1>1, ReadFieldRefines
<1>2. CASE ReadFieldFails \/ NanFound
  BY <1>2, FlushRefines DEF ReadFieldFails, NanFound
<1>3. CASE GetOmega
  BY <1>3, GetOmegaRefines
<1>4. CASE GetSVec
  <2>1. UNCHANGED <<mag_index, B_full, W_full, g_acs_mode, g_first_detumble>>
    BY <1>4 DEF GetSVec, modes
  <2> QED
    BY <2>1 DEF Modes!Look, Streak, Lit
<1>5. CASE CheckTransition
  BY <1>5, DecisionRefines
<1>6. CASE GetBdot
  <2>1. UNCHANGED <<mag_index, W_full, sun, g_acs_mode, g_first_detumble>>
    BY <1>6 DEF GetBdot, views, modes
  <2>2. B_full' = B_full
    <3>1. pc = "bdot"
      BY <1>6 DEF GetBdot
    <3>2. /\ bdot_index = Behind(Behind(mag_index, B_full), B_full)
          /\ B_full => mag_index >= 0
      BY <3>1 DEF IInv, IndexInv, FlagInv, Deriving
    <3>3. AtEnd(bdot_index) => B_full
      BY <3>2, Types, BufferSizeAssumption DEF Behind, Index, AtEnd
    <3> QED
      BY <1>6, <3>3, Types DEF GetBdot
  <2> QED
    BY <2>1, <2>2 DEF Modes!vars, Streak, Lit
<1>7. ASSUME UNCHANGED <<indices, flags, views, modes>> PROVE UNCHANGED Modes!vars
  BY <1>7 DEF Modes!vars, Streak, Lit, indices, flags, views, modes
<1>8. ASSUME \/ RaiseDone \/ Exit \/ StartCycle \/ SkipOmega \/ AllNumbers \/ Publish
             \/ Undecided \/ DetumbleAction \/ SunpointAction \/ Idle \/ Exited
             \/ UNCHANGED vars
      PROVE  UNCHANGED <<indices, flags, views, modes>>
  BY <1>8 DEF RaiseDone, Exit, StartCycle, SkipOmega, AllNumbers, Publish, Undecided,
              DetumbleAction, SunpointAction, Idle, Exited, vars
<1> QED
  BY <1>1, <1>2, <1>3, <1>4, <1>5, <1>6, <1>7, <1>8 DEF Next, Loop

\* The control loop implements the promise about its mode, of any buffer size: no
\* decision before SH_BUFFER_SIZE + 3 good readings since the last fault, and no mode
\* that needs the sun entered or kept in the dark.
THEOREM Refinement == Spec => ImplementsModes
  BY InitRefines, NextRefines, Inductive, PTL DEF Spec, ImplementsModes, Modes!Spec
=============================================================================
