-------------------------- MODULE SimServerProofs --------------------------
(***************************************************************************)
(* Proofs about the simulator server, for every length of the preamble and *)
(* of the data and any number of lost bytes: the frames it takes are whole *)
(* as long as the line is not disturbed.                                   *)
(***************************************************************************)
EXTENDS SimServer, SequenceTheorems, TLAPS

-----------------------------------------------------------------------------
(* The inductive invariant.                                                *)

\* What TypeOK says and two of its ranges that are pairs and records.
Types ==
    /\ TypeOK
    /\ sending \in [frame : {0, 1}, at : 1 .. LENGTH, a0s : 0 .. PREAMBLE - 1]
    /\ lost \in Nat \X Nat
    /\ serial = "hunt" => preamble_count < PREAMBLE
    /\ serial = "read" => preamble_count = PREAMBLE

\* The bytes counted as a preamble, in the loop and until the data are read.
Count == IF serial \in {"hunt", "read"} THEN preamble_count ELSE 0

\* c was sent d bytes after b, in the same frame or the next.
After(b, c, d) ==
    \/ c.frame = b.frame /\ c.at = b.at + d
    \/ c.frame # b.frame /\ c.at = b.at + d - LENGTH

\* Of the bytes sent between any two that are received less than a frame apart, at most
\* one was lost.  (This and the rest of Received hold until the line is disturbed.)
InOrder(s) ==
    \A i, j \in 1 .. Len(s) : i < j /\ j - i < LENGTH =>
        After(s[i], s[j], j - i) \/ After(s[i], s[j], j - i + 1)

\* Likewise up to the byte that is sent next, and the loss is still remembered: in this
\* frame, if the earlier byte was sent in it.
UpToDate(s) ==
    \A i \in 1 .. Len(s) :
        LET d == Len(s) + 1 - i
        IN  d < LENGTH =>
                \/ After(s[i], sending, d)
                \/ /\ After(s[i], sending, d + 1)
                   /\ lost[1] + lost[2] > 0
                   /\ d < sending.at => lost[1] > 0

\* Preambles and ends look like it.
Framed(s) ==
    \A i \in 1 .. Len(s) :
        /\ s[i].at <= PREAMBLE => s[i].looks = "a0"
        /\ s[i].at > PREAMBLE + DATA => s[i].looks = "b0"

\* A byte of the data that could be one of a preamble.
Disguised(b) == b.looks = "a0" /\ b.at > PREAMBLE

\* No preamble is of such bytes only, and the simulator knows how many it has sent.
NoDisguise(s) ==
    /\ \A i \in 1 .. Len(s) - PREAMBLE + 1 :
           \E m \in i .. i + PREAMBLE - 1 : ~Disguised(s[m])
    /\ \A i \in 1 .. Len(s) :
           (\A m \in i .. Len(s) : Disguised(s[m])) => Len(s) + 1 - i <= sending.a0s

Stream(s) == InOrder(s) /\ UpToDate(s) /\ Framed(s) /\ NoDisguise(s)

\* The bytes that were counted come right before those that are still on the line.
Received ==
    \E run \in [1 .. Count -> Byte] :
        /\ \A i \in 1 .. Count : run[i].looks = "a0"
        /\ Stream(run \o line)

IInv == Types /\ (~disturbed => Received) /\ OnlyWholeFrames

-----------------------------------------------------------------------------
(* Bytes in a row.                                                         *)

LEMMA Lengths ==
    /\ PREAMBLE \in Nat /\ PREAMBLE >= 1 /\ DATA \in Nat /\ DATA >= 1
    /\ MaxLost \in Nat /\ MaxBuffered \in Nat
    /\ LENGTH = PREAMBLE + DATA + 2 /\ BODY = DATA + 2
  BY FramingAssumption DEF LENGTH, BODY, END

LEMMA ByteType ==
    ASSUME NEW b \in Byte
    PROVE  b.frame \in {0, 1} /\ b.at \in 1 .. LENGTH /\ b.looks \in Look
  BY DEF Byte

\* The byte after the one that comes d after b comes d + 1 after it.
LEMMA OneMore ==
    ASSUME NEW b \in Byte, NEW c, NEW e, NEW d \in 1 .. LENGTH - 1,
           c.frame \in {0, 1}, c.at \in 1 .. LENGTH,
           \/ e.frame = c.frame /\ e.at = c.at + 1
           \/ c.at = LENGTH /\ e.frame = 1 - c.frame /\ e.at = 1,
           After(b, c, d)
    PROVE  After(b, e, d + 1)
  BY Lengths, ByteType DEF After

\* Nothing has been received and nothing sent.
LEMMA EmptyStream == Stream(<< >>)
  BY Lengths DEF Stream, InOrder, UpToDate, Framed, NoDisguise

\* Of bytes in order the later ones are.
LEMMA Suffix ==
    ASSUME NEW s \in Seq(Byte), Stream(s), NEW t \in Seq(Byte), NEW k \in Nat,
           Len(s) = k + Len(t), \A i \in 1 .. Len(t) : t[i] = s[k + i]
    PROVE  Stream(t)
<1> USE Lengths
<1>1. InOrder(t)
  <2> SUFFICES ASSUME NEW i \in 1 .. Len(t), NEW j \in 1 .. Len(t), i < j, j - i < LENGTH
               PROVE  After(t[i], t[j], j - i) \/ After(t[i], t[j], j - i + 1)
    BY DEF InOrder
  <2>1. /\ k + i \in 1 .. Len(s) /\ k + j \in 1 .. Len(s) /\ k + i < k + j
        /\ (k + j) - (k + i) = j - i
    OBVIOUS
  <2> QED
    BY <2>1 DEF Stream, InOrder
<1>2. UpToDate(t)
  <2> SUFFICES ASSUME NEW i \in 1 .. Len(t), Len(t) + 1 - i < LENGTH
               PROVE  LET d == Len(t) + 1 - i
                      IN  \/ After(t[i], sending, d)
                          \/ /\ After(t[i], sending, d + 1)
                             /\ lost[1] + lost[2] > 0
                             /\ d < sending.at => lost[1] > 0
    BY DEF UpToDate
  <2>1. k + i \in 1 .. Len(s) /\ Len(s) + 1 - (k + i) = Len(t) + 1 - i
    OBVIOUS
  <2> QED
    BY <2>1 DEF Stream, UpToDate
<1>3. Framed(t)
  <2>1. \A i \in 1 .. Len(t) : k + i \in 1 .. Len(s)
    OBVIOUS
  <2> QED
    BY <2>1 DEF Stream, Framed
<1>4. NoDisguise(t)
  <2>1. ASSUME NEW i \in 1 .. Len(t) - PREAMBLE + 1
        PROVE  \E m \in i .. i + PREAMBLE - 1 : ~Disguised(t[m])
    <3>1. k + i \in 1 .. Len(s) - PREAMBLE + 1
      OBVIOUS
    <3>2. PICK m \in k + i .. k + i + PREAMBLE - 1 : ~Disguised(s[m])
      BY <3>1 DEF Stream, NoDisguise
    <3>3. m - k \in i .. i + PREAMBLE - 1 /\ m - k \in 1 .. Len(t) /\ s[m] = t[m - k]
      BY <3>1
    <3> QED
      BY <3>2, <3>3
  <2>2. ASSUME NEW i \in 1 .. Len(t), \A m \in i .. Len(t) : Disguised(t[m])
        PROVE  Len(t) + 1 - i <= sending.a0s
    <3>1. k + i \in 1 .. Len(s)
      OBVIOUS
    <3>2. ASSUME NEW m \in k + i .. Len(s) PROVE Disguised(s[m])
      <4>1. m - k \in i .. Len(t) /\ m - k \in 1 .. Len(t) /\ s[m] = t[m - k]
        OBVIOUS
      <4> QED
        BY <2>2, <4>1
    <3>3. Len(s) + 1 - (k + i) <= sending.a0s
      BY <3>1, <3>2 DEF Stream, NoDisguise
    <3> QED
      BY <3>3
  <2> QED
    BY <2>1, <2>2 DEF NoDisguise
<1> QED
  BY <1>1, <1>2, <1>3, <1>4 DEF Stream

\* Counted bytes and line make one sequence, and come apart again.
LEMMA Joined ==
    ASSUME NEW n \in Nat, NEW run \in [1 .. n -> Byte], NEW l \in Seq(Byte)
    PROVE  /\ run \o l \in Seq(Byte) /\ Len(run \o l) = n + Len(l)
           /\ \A i \in 1 .. n : (run \o l)[i] = run[i]
           /\ \A i \in 1 .. Len(l) : (run \o l)[n + i] = l[i]
<1>1. run \in Seq(Byte) /\ Len(run) = n
  OBVIOUS
<1> QED
  BY <1>1, ConcatProperties

LEMMA Parted ==
    ASSUME NEW n \in Nat, NEW s \in Seq(Byte), NEW l \in Seq(Byte), Len(s) = n + Len(l),
           \A i \in 1 .. Len(l) : l[i] = s[n + i]
    PROVE  \E run \in [1 .. n -> Byte] :
               run \o l = s /\ \A i \in 1 .. n : run[i] = s[i]
<1> DEFINE run == [i \in 1 .. n |-> s[i]]
<1>1. run \in [1 .. n -> Byte]
  OBVIOUS
<1>2. \A i \in 1 .. n : run[i] = s[i]
  OBVIOUS
<1> HIDE DEF run
<1>3. run \o l = s
  <2>1. /\ run \o l \in Seq(Byte) /\ Len(run \o l) = Len(s)
        /\ \A i \in 1 .. n : (run \o l)[i] = run[i]
        /\ \A i \in 1 .. Len(l) : (run \o l)[n + i] = l[i]
    BY <1>1, Joined
  <2>2. ASSUME NEW i \in 1 .. Len(s) PROVE (run \o l)[i] = s[i]
    <3>1. CASE i <= n
      BY <1>2, <2>1, <3>1
    <3>2. CASE i > n
      <4>1. i - n \in 1 .. Len(l) /\ n + (i - n) = i
        BY <3>2
      <4> QED
        BY <2>1, <4>1
    <3>3. i <= n \/ i > n
      OBVIOUS
    <3> QED
      BY Zenon, <3>1, <3>2, <3>3
  <2> QED
    BY <2>1, <2>2, SeqEqual
<1> QED
  BY <1>1, <1>2, <1>3

-----------------------------------------------------------------------------
(* The simulator's steps.                                                  *)

\* The next byte is the one that comes after, and its look is as the simulator counts.
LEMMA Sent ==
    ASSUME Types, NEW looks \in Look, SendByte(looks), NEW b,
           b = [frame |-> sending.frame, at |-> sending.at, looks |-> looks]
    PROVE  /\ b \in Byte
           /\ After(b, sending', 1)
           /\ \A c \in Byte, d \in Nat : After(c, sending, d) => After(c, b, d)
           /\ \A c \in Byte, d \in 1 .. LENGTH - 1 :
                  After(c, sending, d) => After(c, sending', d + 1)
<1> USE Lengths
<1>1. /\ sending.frame \in {0, 1} /\ sending.at \in 1 .. LENGTH
      /\ b.frame = sending.frame /\ b.at = sending.at
  BY DEF Types
<1>2. \/ sending'.frame = sending.frame /\ sending'.at = sending.at + 1
      \/ /\ sending.at = LENGTH /\ sending'.at = 1
         /\ sending'.frame = 1 - sending.frame
  BY <1>1 DEF Types, SendByte, Advance
<1>3. b \in Byte
  BY DEF Types, Byte
<1>4. After(b, sending', 1)
  BY <1>1, <1>2 DEF After
<1>5. \A c \in Byte, d \in Nat : After(c, sending, d) => After(c, b, d)
  BY <1>1 DEF After
<1>6. \A c \in Byte, d \in 1 .. LENGTH - 1 :
          After(c, sending, d) => After(c, sending', d + 1)
  BY <1>1, <1>2, OneMore
<1> QED
  BY <1>3, <1>4, <1>5, <1>6

LEMMA SendKeeps ==
    ASSUME Types, NEW s \in Seq(Byte), Stream(s), NEW looks \in Look, SendByte(looks),
           ~disturbed', NEW b, b = [frame |-> sending.frame, at |-> sending.at, looks |-> looks],
           NEW t, t = Append(s, b)
    PROVE  Stream(t)'
<1> USE Lengths
<1>1. /\ b \in Byte /\ After(b, sending', 1)
      /\ \A c \in Byte, d \in Nat : After(c, sending, d) => After(c, b, d)
      /\ \A c \in Byte, d \in 1 .. LENGTH - 1 :
             After(c, sending, d) => After(c, sending', d + 1)
  BY Sent
<1>2. /\ t \in Seq(Byte) /\ Len(t) = Len(s) + 1 /\ t[Len(s) + 1] = b
      /\ \A i \in 1 .. Len(s) : t[i] = s[i]
  BY <1>1, AppendProperties
<1>3. /\ b.at = sending.at /\ b.looks = looks /\ sending.at \in 1 .. LENGTH
      /\ sending.a0s \in 0 .. PREAMBLE - 1 /\ lost[1] \in Nat /\ lost[2] \in Nat
      /\ looks \in Looks
  BY DEF Types, SendByte
<1>11. ~Imitates(looks)
  BY Zenon DEF SendByte
<1>4. sending'.a0s = IF Disguised(b) THEN sending.a0s + 1 ELSE 0
  BY <1>3, <1>11 DEF Types, SendByte, Advance, Disguised, Looks, InData
<1>5. \A i \in 1 .. Len(s) : s[i] \in Byte
  OBVIOUS
<1>6. InOrder(t)
  <2> SUFFICES ASSUME NEW i \in 1 .. Len(t), NEW j \in 1 .. Len(t), i < j, j - i < LENGTH
               PROVE  After(t[i], t[j], j - i) \/ After(t[i], t[j], j - i + 1)
    BY DEF InOrder
  <2>1. CASE j <= Len(s)
    BY <1>2, <2>1 DEF Stream, InOrder
  <2>2. CASE j = Len(s) + 1
    <3>1. i \in 1 .. Len(s) /\ Len(s) + 1 - i = j - i
      BY <1>2, <2>2
    <3>2. After(s[i], sending, j - i) \/ After(s[i], sending, j - i + 1)
      BY <3>1 DEF Stream, UpToDate
    <3>3. j - i \in Nat /\ j - i + 1 \in Nat
      BY <2>2, <3>1
    <3>4. t[i] = s[i] /\ t[j] = b /\ s[i] \in Byte
      BY <1>2, <1>5, <2>2, <3>1
    <3> QED
      BY <1>1, <3>2, <3>3, <3>4
  <2>3. j <= Len(s) \/ j = Len(s) + 1
    BY <1>2
  <2> QED
    BY Zenon, <2>1, <2>2, <2>3
<1>7. UpToDate(t)'
  <2> SUFFICES ASSUME NEW i \in 1 .. Len(t), Len(t) + 1 - i < LENGTH
               PROVE  LET d == Len(t) + 1 - i
                      IN  \/ After(t[i], sending', d)
                          \/ /\ After(t[i], sending', d + 1)
                             /\ lost'[1] + lost'[2] > 0
                             /\ d < sending'.at => lost'[1] > 0
    BY DEF UpToDate
  <2>1. CASE i = Len(s) + 1
    <3>1. Len(t) + 1 - i = 1 /\ t[i] = b
      BY <1>2, <2>1
    <3> QED
      BY <1>1, <3>1
  <2>2. CASE i <= Len(s)
    <3> DEFINE d == Len(s) + 1 - i
    <3>1. i \in 1 .. Len(s) /\ Len(t) + 1 - i = d + 1 /\ d \in 1 .. LENGTH - 2 /\ t[i] = s[i]
      BY <1>2, <2>2
    <3>2. \/ After(s[i], sending, d)
          \/ /\ After(s[i], sending, d + 1)
             /\ lost[1] + lost[2] > 0
             /\ d < sending.at => lost[1] > 0
      BY <3>1 DEF Stream, UpToDate
    <3>3. s[i] \in Byte
      BY <1>5, <3>1
    <3> HIDE DEF d
    <3>4. CASE After(s[i], sending, d)
      BY <1>1, <3>1, <3>3, <3>4
    <3>5. CASE /\ After(s[i], sending, d + 1)
               /\ lost[1] + lost[2] > 0
               /\ d < sending.at => lost[1] > 0
      <4>1. After(s[i], sending', d + 1 + 1)
        <5>1. d + 1 \in 1 .. LENGTH - 1
          BY <3>1
        <5> QED
          BY <1>1, <3>3, <3>5, <5>1
      <4>2. CASE sending.at = LENGTH
        <5>1. lost[1] > 0 /\ lost' = <<0, lost[1]>> /\ sending'.at = 1
          BY <3>1, <3>5, <4>2 DEF SendByte, Advance, Types
        <5> QED
          BY <1>3, <3>1, <4>1, <5>1
      <4>3. CASE sending.at # LENGTH
        <5>1. lost' = lost /\ sending'.at = sending.at + 1
          BY <4>3 DEF SendByte, Advance, Types
        <5> QED
          BY <1>3, <3>1, <3>5, <4>1, <5>1
      <4> QED
        BY <4>2, <4>3
    <3> QED
      BY <3>2, <3>4, <3>5
  <2> QED
    BY <1>2, <2>1, <2>2
<1>8. Framed(t)
  <2>1. /\ b.at <= PREAMBLE => b.looks = "a0"
        /\ b.at > PREAMBLE + DATA => b.looks = "b0"
    BY <1>3 DEF Looks, InData
  <2> QED
    BY <1>2, <2>1 DEF Stream, Framed
<1>9. NoDisguise(t)'
  <2>1. ASSUME NEW i \in 1 .. Len(t), \A m \in i .. Len(t) : Disguised(t[m])
        PROVE  /\ Len(t) + 1 - i <= sending.a0s + 1
               /\ Disguised(b)
    <3>1. Disguised(b)
      <4>1. Len(t) \in i .. Len(t)
        BY <1>2
      <4> QED
        BY <1>2, <2>1, <4>1
    <3>2. CASE i <= Len(s)
      <4>1. \A m \in i .. Len(s) : Disguised(s[m])
        BY <1>2, <2>1
      <4> QED
        BY <1>2, <1>3, <3>1, <3>2, <4>1 DEF Stream, NoDisguise
    <3>3. CASE i = Len(s) + 1
      BY <1>2, <1>3, <3>1, <3>3
    <3> QED
      BY <1>2, <3>2, <3>3
  <2>2. ASSUME NEW i \in 1 .. Len(t) - PREAMBLE + 1
        PROVE  \E m \in i .. i + PREAMBLE - 1 : ~Disguised(t[m])
    <3>1. CASE i + PREAMBLE - 1 <= Len(s)
      <4>1. i \in 1 .. Len(s) - PREAMBLE + 1
        BY <1>2, <3>1
      <4>2. PICK m \in i .. i + PREAMBLE - 1 : ~Disguised(s[m])
        BY <4>1 DEF Stream, NoDisguise
      <4>3. t[m] = s[m]
        BY <1>2, <3>1
      <4> QED
        BY <4>2, <4>3
    <3>2. CASE i + PREAMBLE - 1 = Len(t)
      <4> SUFFICES ASSUME \A m \in i .. Len(t) : Disguised(t[m]) PROVE FALSE
        BY <3>2
      <4>1. i \in 1 .. Len(t) /\ Len(t) + 1 - i = PREAMBLE
        BY <1>2, <3>2
      <4>2. PREAMBLE <= sending.a0s + 1 /\ Disguised(b)
        BY <2>1, <4>1
      <4>3. sending.a0s + 1 < PREAMBLE
        <5>1. sending.at > PREAMBLE /\ looks = "a0"
          BY <1>3, <4>2 DEF Disguised
        <5>2. InData
          BY <1>3, <5>1 DEF Looks
        <5>3. sending.a0s + 1 # PREAMBLE
          BY <1>11, <5>1, <5>2 DEF Imitates
        <5> QED
          BY <1>3, <5>3
      <4> QED
        BY <1>3, <4>2, <4>3
    <3>3. i + PREAMBLE - 1 <= Len(s) \/ i + PREAMBLE - 1 = Len(t)
      <4>1. Len(s) \in Nat /\ Len(t) = Len(s) + 1 /\ i \in Int
        BY <1>2
      <4>2. i + PREAMBLE - 1 <= Len(t)
        BY <4>1
      <4> QED
        BY <4>1, <4>2
    <3> QED
      BY Zenon, <3>1, <3>2, <3>3
  <2>3. ASSUME NEW i \in 1 .. Len(t), \A m \in i .. Len(t) : Disguised(t[m])
        PROVE  Len(t) + 1 - i <= sending'.a0s
    BY <1>4, <2>1, <2>3
  <2> QED
    BY Zenon, <2>2, <2>3 DEF NoDisguise, Disguised
<1>10. InOrder(t)' /\ Framed(t)'
  BY <1>6, <1>8 DEF InOrder, Framed
<1> QED
  BY <1>7, <1>9, <1>10 DEF Stream

\* A byte can be lost without disturbing the line only when none was in this frame and the
\* one before, and then all that a frame before it are followed without a gap.
LEMMA LoseKeeps ==
    ASSUME Types, ~disturbed', NEW s \in Seq(Byte), Stream(s), LoseByte
    PROVE  Stream(s)'
<1> USE Lengths
<1>1. lost[1] = 0 /\ lost[2] = 0
  <2>1. ~(lost[1] + lost[2] > 0)
    BY Zenon DEF LoseByte
  <2> QED
    BY <2>1 DEF Types
<1>2. /\ sending.at \in 1 .. LENGTH /\ sending.frame \in {0, 1}
      /\ sending.a0s \in 0 .. PREAMBLE - 1
  BY DEF Types
<1>3. \A i \in 1 .. Len(s) :
          Len(s) + 1 - i < LENGTH => After(s[i], sending, Len(s) + 1 - i)
  BY <1>1 DEF Stream, UpToDate
<1>4. \A i \in 1 .. Len(s) : s[i] \in Byte
  OBVIOUS
<1>5. \/ /\ sending.at # LENGTH /\ sending'.at = sending.at + 1
         /\ sending'.frame = sending.frame /\ sending'.a0s = sending.a0s
         /\ lost'[1] = 1 /\ lost'[2] = 0
      \/ /\ sending.at = LENGTH /\ sending'.at = 1
         /\ sending'.frame = 1 - sending.frame /\ sending'.a0s = 0
         /\ lost'[1] = 0 /\ lost'[2] = 1
  BY <1>1, <1>2 DEF Types, LoseByte, Advance
<1>6. UpToDate(s)'
  <2> SUFFICES ASSUME NEW i \in 1 .. Len(s), Len(s) + 1 - i < LENGTH
               PROVE  LET d == Len(s) + 1 - i
                      IN  /\ After(s[i], sending', d + 1)
                          /\ lost'[1] + lost'[2] > 0
                          /\ d < sending'.at => lost'[1] > 0
    BY DEF UpToDate
  <2> DEFINE d == Len(s) + 1 - i
  <2>1. d \in 1 .. LENGTH - 1 /\ After(s[i], sending, d)
    BY <1>3
  <2>2. s[i] \in Byte
    BY <1>4
  <2> HIDE DEF d
  <2>3. After(s[i], sending', d + 1)
    BY <1>2, <1>5, <2>1, <2>2, OneMore
  <2>4. lost'[1] + lost'[2] > 0 /\ (d < sending'.at => lost'[1] > 0)
    BY <1>2, <1>5, <2>1
  <2> QED
    BY <2>3, <2>4 DEF d
<1>7. NoDisguise(s)'
  <2>1. ASSUME NEW i \in 1 .. Len(s), \A m \in i .. Len(s) : Disguised(s[m])
        PROVE  Len(s) + 1 - i <= sending'.a0s
    <3>1. Len(s) + 1 - i <= sending.a0s
      BY <2>1 DEF Stream, NoDisguise
    <3>2. sending.at # LENGTH
      <4> SUFFICES ASSUME sending.at = LENGTH PROVE FALSE
        OBVIOUS
      <4>1. /\ Len(s) \in 1 .. Len(s) /\ Len(s) \in i .. Len(s)
            /\ Len(s) + 1 - Len(s) = 1 /\ 1 < LENGTH
        OBVIOUS
      <4>2. After(s[Len(s)], sending, 1) /\ s[Len(s)].at \in 1 .. LENGTH
        BY <1>3, <1>4, <4>1, ByteType
      <4>3. s[Len(s)].at = LENGTH - 1
        BY <4>2 DEF After
      <4>4. s[Len(s)].looks = "b0"
        BY <4>1, <4>3 DEF Stream, Framed
      <4> QED
        BY <2>1, <4>1, <4>4 DEF Disguised
    <3> QED
      BY <1>5, <3>1, <3>2
  <2>2. \A i \in 1 .. Len(s) - PREAMBLE + 1 :
            \E m \in i .. i + PREAMBLE - 1 : ~Disguised(s[m])
    BY DEF Stream, NoDisguise
  <2> QED
    BY Zenon, <2>1, <2>2 DEF NoDisguise, Disguised
<1>8. InOrder(s)' /\ Framed(s)'
  BY DEF Stream, InOrder, Framed, After
<1> QED
  BY <1>6, <1>7, <1>8 DEF Stream

-----------------------------------------------------------------------------
(* What is stored.                                                         *)

\* A preamble and the bytes read after it, ended as a frame is, are a frame: the preamble
\* cannot end early, for it would have to begin before the end of the frame before; nor
\* late, for the bytes read would then end in the next preamble.
LEMMA WholeBody ==
    ASSUME NEW s \in Seq(Byte), Stream(s), Len(s) >= LENGTH,
           \A i \in 1 .. PREAMBLE : s[i].looks = "a0",
           s[LENGTH - 1].looks = "b0", s[LENGTH].looks = "b0"
    PROVE  \A i \in 1 .. BODY :
               s[PREAMBLE + i].frame = s[PREAMBLE + 1].frame /\ s[PREAMBLE + i].at = PREAMBLE + i
<1> USE Lengths
<1> DEFINE e == s[PREAMBLE]
           z == s[LENGTH]
<1>1. \A i, j \in 1 .. LENGTH : i < j =>
          After(s[i], s[j], j - i) \/ After(s[i], s[j], j - i + 1)
  <2>1. \A i \in 1 .. LENGTH : i \in 1 .. Len(s)
    OBVIOUS
  <2> QED
    BY <2>1 DEF Stream, InOrder
<1>2. \A i \in 1 .. LENGTH : /\ s[i].frame \in {0, 1} /\ s[i].at \in 1 .. LENGTH
                             /\ s[i].at <= PREAMBLE => s[i].looks = "a0"
                             /\ s[i].at > PREAMBLE + DATA => s[i].looks = "b0"
  BY ByteType DEF Stream, Framed
<1>3. /\ PREAMBLE \in 1 .. LENGTH /\ LENGTH \in 1 .. LENGTH /\ PREAMBLE < LENGTH
      /\ LENGTH - PREAMBLE = BODY
  OBVIOUS
<1>4. /\ e.looks = "a0" /\ e.at \in 1 .. PREAMBLE + DATA /\ e.frame \in {0, 1}
      /\ z.looks = "b0" /\ z.at \in PREAMBLE + 1 .. LENGTH /\ z.frame \in {0, 1}
      /\ After(e, z, BODY) \/ After(e, z, BODY + 1)
  <2>1. e.looks = "a0" /\ z.looks = "b0"
    BY <1>3
  <2>2. /\ e.at \in 1 .. LENGTH /\ e.frame \in {0, 1}
        /\ z.at \in 1 .. LENGTH /\ z.frame \in {0, 1}
        /\ ~(e.at > PREAMBLE + DATA) /\ ~(z.at <= PREAMBLE)
    BY <1>2, <1>3, <2>1
  <2>3. After(e, z, BODY) \/ After(e, z, BODY + 1)
    BY <1>1, <1>3
  <2> QED
    BY <2>1, <2>2, <2>3
<1>5. e.at >= PREAMBLE
  <2> SUFFICES ASSUME e.at < PREAMBLE PROVE FALSE
    BY <1>4
  <2> DEFINE i == PREAMBLE - e.at
             x == s[i]
  <2>1. i \in 1 .. PREAMBLE /\ i \in 1 .. LENGTH /\ i < PREAMBLE /\ PREAMBLE - i = e.at
    BY <1>4
  <2>2. /\ After(x, e, e.at) \/ After(x, e, e.at + 1)
        /\ x.looks = "a0" /\ x.at \in 1 .. LENGTH /\ x.frame \in {0, 1}
        /\ ~(x.at > PREAMBLE + DATA)
    BY <1>1, <1>2, <1>3, <2>1
  <2> HIDE DEF i, x, e
  <2> QED
    BY <1>4, <2>2 DEF After
<1>6. PICK m \in 1 .. PREAMBLE : ~Disguised(s[m])
  <2>1. 1 \in 1 .. Len(s) - PREAMBLE + 1 /\ 1 + PREAMBLE - 1 = PREAMBLE
    OBVIOUS
  <2>2. \E m \in 1 .. 1 + PREAMBLE - 1 : ~Disguised(s[m])
    BY <2>1 DEF Stream, NoDisguise
  <2> QED
    BY <2>1, <2>2
<1> DEFINE p == s[m]
<1>7. /\ p.at \in 1 .. PREAMBLE /\ p.frame \in {0, 1}
      /\ p = e \/ (m < PREAMBLE /\ (After(p, e, PREAMBLE - m) \/ After(p, e, PREAMBLE - m + 1)))
      /\ After(p, z, LENGTH - m) \/ After(p, z, LENGTH - m + 1)
  <2>1. m \in 1 .. LENGTH /\ m < LENGTH /\ (m = PREAMBLE \/ m < PREAMBLE)
    BY <1>3
  <2>2. p.at \in 1 .. LENGTH /\ p.frame \in {0, 1} /\ p.looks = "a0"
    BY <1>2, <2>1
  <2>3. p.at <= PREAMBLE
    BY <1>6, <2>2 DEF Disguised
  <2>4. After(p, z, LENGTH - m) \/ After(p, z, LENGTH - m + 1)
    BY <1>1, <1>3, <2>1
  <2>5. CASE m < PREAMBLE
    BY <1>1, <1>3, <2>1, <2>2, <2>3, <2>4, <2>5
  <2>6. CASE m = PREAMBLE
    BY <2>2, <2>3, <2>4, <2>6
  <2> QED
    BY <2>1, <2>5, <2>6
<1> HIDE DEF e, z, p
\* The last byte read is not in the next preamble: the whole of a preamble's bytes, and a
\* lost one, do not reach so far.
<1>8. p.frame = e.frame /\ p.frame = z.frame
  <2>1. p.frame = e.frame
    BY <1>4, <1>5, <1>7 DEF After
  <2>2. p.frame = z.frame
    BY <1>4, <1>7 DEF After
  <2> QED
    BY <2>1, <2>2
\* Hence the preamble ends with a preamble, and nothing is lost of what follows it.
<1>9. e.at = PREAMBLE /\ z.at = LENGTH /\ z.frame = e.frame
  BY <1>4, <1>5, <1>8 DEF After
<1>10. ASSUME NEW i \in 1 .. BODY
       PROVE  s[PREAMBLE + i].frame = e.frame /\ s[PREAMBLE + i].at = PREAMBLE + i
  <2> DEFINE x == s[PREAMBLE + i]
  <2>1. PREAMBLE + i \in 1 .. LENGTH /\ PREAMBLE < PREAMBLE + i /\ PREAMBLE + i - PREAMBLE = i
    OBVIOUS
  <2>2. /\ x.at \in 1 .. LENGTH /\ x.frame \in {0, 1}
        /\ After(e, x, i) \/ After(e, x, i + 1)
    BY <1>1, <1>2, <1>3, <2>1 DEF e
  <2>3. CASE i = BODY
    BY <1>3, <1>9, <2>3 DEF z
  <2>4. CASE i < BODY
    <3>1. After(x, z, BODY - i) \/ After(x, z, BODY - i + 1)
      <4>1. PREAMBLE + i < LENGTH /\ LENGTH - (PREAMBLE + i) = BODY - i
        BY <2>4
      <4> QED
        BY <1>1, <1>3, <2>1, <4>1 DEF z
    <3> HIDE DEF x
    <3>2. x.frame = e.frame /\ x.at = PREAMBLE + i
      BY <1>9, <2>2, <2>4, <3>1 DEF After
    <3> QED
      BY <3>2 DEF x
  <2> QED
    BY <2>3, <2>4
<1>11. 1 \in 1 .. BODY
  OBVIOUS
<1> QED
  BY <1>10, <1>11

-----------------------------------------------------------------------------
(* Types.                                                                  *)

LineOK ==
    /\ sending \in [frame : {0, 1}, at : 1 .. LENGTH, a0s : 0 .. PREAMBLE - 1]
    /\ line \in Seq(Byte) /\ Len(line) <= MaxBuffered
    /\ lost \in Nat \X Nat /\ lost[1] + lost[2] <= MaxLost

SerialOK ==
    /\ serial \in {"created", "test", "hunt", "read", "ended"}
    /\ preamble_count \in 0 .. PREAMBLE
    /\ serial = "hunt" => preamble_count < PREAMBLE
    /\ serial = "read" => preamble_count = PREAMBLE
    /\ datavis_dat \in {"zeroes", "frame", "mixture"}

ProcessOK ==
    /\ vis \in {"created", "test", "wait", "asleep", "serve", "ended"}
    /\ main \in {"create", "join1", "join2", "returned", "exited"}

FlagsOK == done \in BOOLEAN /\ resets \in BOOLEAN /\ disturbed \in BOOLEAN

LEMMA TypeParts == Types <=> LineOK /\ SerialOK /\ ProcessOK /\ FlagsOK
<1>1. ASSUME Types PROVE LineOK /\ SerialOK /\ ProcessOK
  BY <1>1, Lengths DEF Types, TypeOK, LineOK, SerialOK, ProcessOK
<1>2. ASSUME LineOK, SerialOK, ProcessOK, FlagsOK PROVE Types
  <2>1. /\ sending.frame \in {0, 1} /\ sending.at \in 1 .. LENGTH
        /\ sending.a0s \in 0 .. PREAMBLE - 1 /\ lost[1] + lost[2] \in 0 .. MaxLost
    BY <1>2, Lengths DEF LineOK
  <2>2. TypeOK
    BY Zenon, <1>2, <2>1 DEF TypeOK, LineOK, SerialOK, ProcessOK, FlagsOK
  <2> QED
    BY Zenon, <1>2, <2>2 DEF Types, LineOK, SerialOK
<1>3. Types => FlagsOK
  BY Zenon DEF Types, TypeOK, FlagsOK
<1> QED
  BY Zenon, <1>1, <1>2, <1>3

\* The simulator stays within a frame.
LEMMA Advances ==
    ASSUME LineOK, NEW a0s \in 0 .. PREAMBLE - 1, Advance(a0s)
    PROVE  sending' \in [frame : {0, 1}, at : 1 .. LENGTH, a0s : 0 .. PREAMBLE - 1]
<1> USE Lengths
<1>1. CASE sending.at = LENGTH
  <2>1. sending' = [frame |-> 1 - sending.frame, at |-> 1, a0s |-> 0]
    BY <1>1 DEF Advance
  <2>2. 1 - sending.frame \in {0, 1} /\ 1 \in 1 .. LENGTH /\ 0 \in 0 .. PREAMBLE - 1
    BY DEF LineOK
  <2> QED
    BY <2>1, <2>2
<1>2. CASE sending.at # LENGTH
  <2>1. sending' = [sending EXCEPT !.at = @ + 1, !.a0s = a0s]
    BY <1>2 DEF Advance
  <2>2. sending.at + 1 \in 1 .. LENGTH
    BY <1>2 DEF LineOK
  <2>3. sending' = [frame |-> sending.frame, at |-> sending.at + 1, a0s |-> a0s]
    BY <2>1 DEF LineOK
  <2>4. sending.frame \in {0, 1}
    BY DEF LineOK
  <2> QED
    BY <2>2, <2>3, <2>4
<1> QED
  BY <1>1, <1>2

\* Only these steps touch the line.
LEMMA LineStep == Types /\ [Next]_vars => LineOK'
<1> SUFFICES ASSUME Types, [Next]_vars PROVE LineOK'
  OBVIOUS
<1> USE Lengths
<1>1. LineOK /\ (serial = "read" => preamble_count = PREAMBLE)
  BY TypeParts DEF Types
<1>2. ASSUME NEW looks \in Look, SendByte(looks) PROVE LineOK'
  <2> DEFINE b == [frame |-> sending.frame, at |-> sending.at, looks |-> looks]
  <2>1. b \in Byte
    BY <1>2, Sent
  <2>2. line' = Append(line, b) /\ Len(line) < MaxBuffered
    BY <1>2 DEF SendByte
  <2> HIDE DEF b
  <2>3. line' \in Seq(Byte) /\ Len(line') <= MaxBuffered
    BY <1>1, <2>1, <2>2, AppendProperties DEF LineOK
  <2>4. sending' \in [frame : {0, 1}, at : 1 .. LENGTH, a0s : 0 .. PREAMBLE - 1]
    <3>1. PICK a0s \in 0 .. PREAMBLE - 1 : Advance(a0s)
      <4>1. CASE InData /\ looks = "a0" /\ ~Imitates(looks)
        <5>1. sending.a0s + 1 \in 0 .. PREAMBLE - 1
          BY <1>1, <4>1 DEF Imitates, LineOK
        <5>2. Advance(sending.a0s + 1)
          BY <1>2, <4>1 DEF SendByte
        <5> QED
          BY <5>1, <5>2
      <4>2. CASE ~(InData /\ looks = "a0" /\ ~Imitates(looks))
        <5>1. Advance(0) /\ 0 \in 0 .. PREAMBLE - 1
          BY <1>2, <4>2 DEF SendByte
        <5> QED
          BY <5>1
      <4> QED
        BY <4>1, <4>2
    <3> QED
      BY <1>1, <3>1, Advances
  <2>5. lost' \in Nat \X Nat /\ lost'[1] + lost'[2] <= MaxLost
    <3>1. lost' = lost \/ lost' = <<0, lost[1]>>
      BY <1>2 DEF SendByte
    <3>2. lost = <<lost[1], lost[2]>> /\ lost[1] \in Nat /\ lost[2] \in Nat
      BY <1>1 DEF LineOK
    <3>3. <<0, lost[1]>> \in Nat \X Nat /\ 0 + lost[1] <= MaxLost
      BY <1>1, <3>2 DEF LineOK
    <3> QED
      BY <1>1, <3>1, <3>3 DEF LineOK
  <2> QED
    BY <2>3, <2>4, <2>5 DEF LineOK
<1>3. CASE LoseByte
  <2>1. sending' \in [frame : {0, 1}, at : 1 .. LENGTH, a0s : 0 .. PREAMBLE - 1]
    <3>1. sending.a0s \in 0 .. PREAMBLE - 1 /\ Advance(sending.a0s)
      BY <1>1, <1>3 DEF LoseByte, LineOK
    <3> QED
      BY <1>1, <3>1, Advances
  <2>2. lost' \in Nat \X Nat /\ lost'[1] + lost'[2] <= MaxLost
    BY <1>1, <1>3 DEF LoseByte, LineOK
  <2> QED
    BY <1>1, <1>3, <2>1, <2>2 DEF LoseByte, LineOK
<1>4. CASE ReadByte
  BY <1>1, <1>4, HeadTailProperties DEF ReadByte, LineOK
<1>5. CASE ReadData
  <2>1. Len(Taken) \in 0 .. Len(line)
    BY <1>1 DEF Taken, LineOK
  <2>2. \A i \in Len(Taken) + 1 .. Len(line) : line[i] \in Byte
    BY <1>1, <2>1 DEF LineOK
  <2>3. line' \in Seq(Byte) /\ Len(line') <= Len(line)
    BY <1>1, <1>5, <2>1, <2>2, SubSeqProperties DEF ReadData, LineOK
  <2> QED
    BY <1>1, <1>5, <2>3 DEF ReadData, LineOK
<1>6. CASE SetupSerial \/ SerialTest \/ SerialTold \/ Silence \/ ReadNothing
  BY <1>1, <1>6 DEF LineOK, SetupSerial, SerialTest, SerialTold, Silence, ReadNothing, stream
<1>7. CASE Vis \/ MainThread \/ Sigint \/ VisSpurious
  BY <1>1, <1>7 DEF LineOK, Vis, VisTest, VisWait, VisServe, MainThread, CreateThreads,
     JoinSerial, JoinDataVis, Main, Sigint, VisSpurious, stream
<1>8. CASE UNCHANGED vars
  BY <1>1, <1>8 DEF LineOK, vars, stream
<1> QED
  BY <1>2, <1>3, <1>4, <1>5, <1>6, <1>7, <1>8 DEF Next, Simulator, Serial

LEMMA SerialStep == Types /\ [Next]_vars => SerialOK'
<1> SUFFICES ASSUME Types, [Next]_vars PROVE SerialOK'
  OBVIOUS
<1> USE Lengths
<1>1. SerialOK
  BY TypeParts
<1>2. CASE Simulator
  BY <1>1, <1>2 DEF SerialOK, Simulator, SendByte, LoseByte, reader
<1>3. CASE ReadByte
  BY <1>1, <1>3 DEF SerialOK, ReadByte, Counted
<1>4. CASE ReadData
  BY <1>1, <1>4 DEF SerialOK, ReadData
<1>5. CASE SetupSerial \/ SerialTest \/ SerialTold \/ Silence \/ ReadNothing
  BY <1>1, <1>5 DEF SerialOK, SetupSerial, SerialTest, SerialTold, Silence, ReadNothing
<1>6. CASE Vis \/ MainThread \/ Sigint \/ VisSpurious
  BY <1>1, <1>6 DEF SerialOK, Vis, VisTest, VisWait, VisServe, MainThread, CreateThreads,
     JoinSerial, JoinDataVis, Main, Sigint, VisSpurious, reader
<1>7. CASE UNCHANGED vars
  BY <1>1, <1>7 DEF SerialOK, vars, reader
<1> QED
  BY <1>2, <1>3, <1>4, <1>5, <1>6, <1>7 DEF Next, Serial

LEMMA ProcessStep == Types /\ [Next]_vars => ProcessOK' /\ FlagsOK'
<1> SUFFICES ASSUME Types, [Next]_vars PROVE ProcessOK' /\ FlagsOK'
  OBVIOUS
<1>1. ProcessOK /\ FlagsOK
  BY TypeParts
<1>2. CASE Simulator
  <2>1. ProcessOK' /\ UNCHANGED <<done, resets>>
    BY <1>1, <1>2 DEF ProcessOK, Simulator, SendByte, LoseByte, process
  <2>2. disturbed' \in BOOLEAN
    BY Zenon, <1>1, <1>2 DEF FlagsOK, Simulator, SendByte, LoseByte
  <2> QED
    BY <1>1, <2>1, <2>2 DEF FlagsOK
<1>3. CASE ReadByte \/ SetupSerial \/ SerialTest \/ SerialTold \/ Silence \/ ReadNothing
  BY <1>1, <1>3 DEF ProcessOK, FlagsOK, ReadByte, SetupSerial, SerialTest, SerialTold,
     Silence, ReadNothing, process, stream
<1>4. CASE ReadData
  BY <1>1, <1>4 DEF ProcessOK, FlagsOK, ReadData, Wake
<1>5. CASE Vis \/ VisSpurious \/ MainThread
  BY <1>1, <1>5 DEF ProcessOK, FlagsOK, Vis, VisTest, VisWait, VisServe, VisSpurious,
     MainThread, CreateThreads, JoinSerial, JoinDataVis, Main, stream
<1>6. CASE Sigint
  <2>1. ProcessOK'
    BY <1>1, <1>6 DEF ProcessOK, Sigint, Wake
  <2>2. FlagsOK'
    <3>1. UNCHANGED <<resets, disturbed>> /\ (done' = TRUE \/ done' = done)
      BY <1>6 DEF Sigint, stream
    <3> QED
      BY Zenon, <1>1, <3>1 DEF FlagsOK
  <2> QED
    BY <2>1, <2>2
<1>7. CASE UNCHANGED vars
  BY <1>1, <1>7 DEF ProcessOK, FlagsOK, vars, process, stream
<1> QED
  BY <1>2, <1>3, <1>4, <1>5, <1>6, <1>7 DEF Next, Serial

LEMMA InitTypes == Init => Types
<1> SUFFICES ASSUME Init PROVE LineOK /\ SerialOK /\ ProcessOK /\ FlagsOK
  BY TypeParts
<1> USE Lengths
<1>1. LineOK
  BY DEF Init, LineOK
<1>2. SerialOK /\ ProcessOK
  BY DEF Init, SerialOK, ProcessOK
<1>3. FlagsOK
  BY Zenon DEF Init, FlagsOK
<1> QED
  BY <1>1, <1>2, <1>3

LEMMA TypeStep == Types /\ [Next]_vars => Types'
<1>1. (LineOK /\ SerialOK /\ ProcessOK /\ FlagsOK)' => Types'
  BY TypeParts, PTL
<1> QED
  BY <1>1, LineStep, SerialStep, ProcessStep

-----------------------------------------------------------------------------
(* What was counted and what is on the line stay a stream.                 *)

\* Nothing sent and nothing lost.
LEMMA StillStream ==
    ASSUME NEW s \in Seq(Byte), Stream(s), UNCHANGED <<sending, lost>>
    PROVE  Stream(s)'
<1>1. UpToDate(s)'
  BY DEF Stream, UpToDate, After
<1>2. InOrder(s)' /\ Framed(s)' /\ NoDisguise(s)'
  BY DEF Stream, InOrder, Framed, NoDisguise, After, Disguised
<1> QED
  BY <1>1, <1>2 DEF Stream

\* It is enough to say which stream, and how much of it was counted.
LEMMA Counts ==
    ASSUME NEW n \in Nat, NEW s \in Seq(Byte), Stream(s)', Count' = n,
           line' \in Seq(Byte), Len(s) = n + Len(line'),
           \A i \in 1 .. Len(line') : line'[i] = s[n + i],
           \A i \in 1 .. n : s[i].looks = "a0"
    PROVE  Received'
<1>1. PICK run \in [1 .. n -> Byte] : run \o line' = s /\ \A i \in 1 .. n : run[i] = s[i]
  BY Parted
<1>2. /\ InOrder(run \o line)' /\ UpToDate(run \o line)'
      /\ Framed(run \o line)' /\ NoDisguise(run \o line)'
  <2>1. InOrder(s)' /\ UpToDate(s)' /\ Framed(s)' /\ NoDisguise(s)'
    BY DEF Stream
  <2>2. InOrder(run \o line)'
    BY <1>1, <2>1 DEF InOrder
  <2>3. UpToDate(run \o line)'
    BY <1>1, <2>1 DEF UpToDate
  <2>4. Framed(run \o line)'
    BY <1>1, <2>1 DEF Framed
  <2>5. NoDisguise(run \o line)'
    BY <1>1, <2>1 DEF NoDisguise
  <2> QED
    BY <2>2, <2>3, <2>4, <2>5
<1>3. \A i \in 1 .. Count' : run[i].looks = "a0"
  BY <1>1
<1>4. run \in [1 .. Count' -> Byte]
  BY <1>1
<1>5. Stream(run \o line)'
  BY <1>2 DEF Stream
<1> QED
  BY <1>3, <1>4, <1>5 DEF Received

LEMMA CountsNone ==
    ASSUME NEW s \in Seq(Byte), Stream(s)', Count' = 0, line' = s
    PROVE  Received'
<1>1. /\ 0 \in Nat /\ Len(s) = 0 + Len(line') /\ line' \in Seq(Byte)
      /\ \A i \in 1 .. Len(line') : line'[i] = s[0 + i]
      /\ \A i \in 1 .. 0 : s[i].looks = "a0"
  OBVIOUS
<1> QED
  BY <1>1, Counts

\* The stream of a state, and how much of it was counted.
LEMMA Stretch ==
    ASSUME Types, Received
    PROVE  /\ Count \in 0 .. PREAMBLE
           /\ \E s \in Seq(Byte) :
                  /\ Stream(s) /\ Len(s) = Count + Len(line)
                  /\ \A i \in 1 .. Len(line) : s[Count + i] = line[i]
                  /\ \A i \in 1 .. Count : s[i].looks = "a0"
<1>1. Count \in 0 .. PREAMBLE /\ line \in Seq(Byte)
  BY Lengths DEF Count, Types, TypeOK
<1>2. PICK run \in [1 .. Count -> Byte] :
          (\A i \in 1 .. Count : run[i].looks = "a0") /\ Stream(run \o line)
  BY DEF Received
<1> HIDE DEF Count
<1>3. /\ run \o line \in Seq(Byte) /\ Len(run \o line) = Count + Len(line)
      /\ \A i \in 1 .. Count : (run \o line)[i] = run[i]
      /\ \A i \in 1 .. Len(line) : (run \o line)[Count + i] = line[i]
  <2>1. Count \in Nat
    BY <1>1, Lengths
  <2> QED
    BY <1>1, <2>1, Joined
<1>4. \A i \in 1 .. Count : (run \o line)[i].looks = "a0"
  BY <1>2, <1>3
<1> QED
  BY <1>1, <1>2, <1>3, <1>4

LEMMA ReceivedStep ==
    ASSUME Types, Received, ~disturbed', [Next]_vars
    PROVE  Received'
<1> USE Lengths
<1>1. /\ LineOK /\ line \in Seq(Byte) /\ LineOK' /\ line' \in Seq(Byte)
      /\ preamble_count \in 0 .. PREAMBLE
  BY TypeParts, LineStep DEF LineOK, SerialOK
<1>2. Count \in 0 .. PREAMBLE
  BY Stretch
<1>3. PICK s \in Seq(Byte) : /\ Stream(s) /\ Len(s) = Count + Len(line)
                             /\ \A i \in 1 .. Len(line) : s[Count + i] = line[i]
                             /\ \A i \in 1 .. Count : s[i].looks = "a0"
  BY Stretch
<1> DEFINE n == Count
<1>4. n \in 0 .. PREAMBLE /\ n \in Nat
  BY <1>2
<1>5. /\ Len(s) = n + Len(line)
      /\ \A i \in 1 .. Len(line) : s[n + i] = line[i]
      /\ \A i \in 1 .. n : s[i].looks = "a0"
  BY <1>3
<1> HIDE DEF n
\* What was counted no longer counts, and the line is as it was.
<1>6. ASSUME Count' = 0, UNCHANGED stream PROVE Received'
  <2>1. Stream(line)
    BY <1>1, <1>3, <1>4, <1>5, Suffix
  <2>2. PICK t \in Seq(Byte) : t = line /\ Stream(t)
    BY <1>1, <2>1
  <2>3. Stream(t)' /\ line' = t
    BY <1>6, <2>2, StillStream DEF stream
  <2> QED
    BY <1>6, <2>3, CountsNone
\* Nothing happens to what was counted and the line.
<1>7. ASSUME Count' = n, UNCHANGED stream PROVE Received'
  <2>1. Stream(s)' /\ line' = line
    BY <1>3, <1>7, StillStream DEF stream
  <2> QED
    BY <1>1, <1>4, <1>5, <1>7, <2>1, Counts
<1>8. ASSUME NEW looks \in Look, SendByte(looks) PROVE Received'
  <2>1. PICK b \in Byte : b = [frame |-> sending.frame, at |-> sending.at, looks |-> looks]
    BY <1>8, Sent
  <2>2. PICK t : t = Append(s, b)
    OBVIOUS
  <2>3. Stream(t)'
    BY <1>3, <1>8, <2>1, <2>2, SendKeeps
  <2>4. line' = Append(line, b) /\ Count' = n
    BY <1>8, <2>1 DEF SendByte, reader, Count, n
  <2>5. /\ t \in Seq(Byte) /\ Len(t) = n + Len(line')
        /\ \A i \in 1 .. n : t[i].looks = "a0"
    BY <1>1, <1>4, <1>5, <2>2, <2>4, AppendProperties
  <2>6. ASSUME NEW i \in 1 .. Len(line') PROVE line'[i] = t[n + i]
    BY <1>1, <1>4, <1>5, <2>2, <2>4, AppendProperties
  <2> QED
    BY <1>1, <1>4, <2>3, <2>4, <2>5, <2>6, Counts
<1>9. CASE LoseByte
  <2>1. Stream(s)' /\ line' = line /\ Count' = n
    BY <1>3, <1>9, LoseKeeps DEF LoseByte, reader, Count, n
  <2> QED
    BY <1>1, <1>4, <1>5, <2>1, Counts
<1>10. CASE ReadByte
  <2>1. /\ line # << >> /\ line' = Tail(line) /\ serial = "hunt" /\ n = preamble_count
        /\ Counted(IF Head(line).looks = "a0" THEN preamble_count + 1 ELSE 0)
        /\ UNCHANGED <<sending, lost>>
    BY <1>10 DEF ReadByte, n, Count
  <2>2. /\ Len(line') = Len(line) - 1 /\ Len(line) >= 1
        /\ \A i \in 1 .. Len(line') : line'[i] = line[i + 1]
        /\ Head(line) = line[1]
    BY <1>1, <2>1, HeadTailProperties
  <2>3. \A i \in 1 .. Len(line') : line'[i] = s[(n + 1) + i]
    BY <1>1, <1>4, <1>5, <2>2
  <2>4. Len(s) = (n + 1) + Len(line')
    BY <1>4, <1>5, <2>2
  <2>5. CASE line[1].looks = "a0"
    <3>1. Count' = n + 1
      BY <1>1, <1>4, <2>1, <2>2, <2>5 DEF Counted, Count
    <3>2. Stream(s)'
      BY <1>3, <2>1, StillStream
    <3>3. \A i \in 1 .. n + 1 : s[i].looks = "a0"
      BY <1>4, <1>5, <2>2, <2>5
    <3>4. n + 1 \in Nat
      BY <1>4
    <3> QED
      BY <1>1, <2>3, <2>4, <3>1, <3>2, <3>3, <3>4, Counts
  <2>6. CASE line[1].looks # "a0"
    <3>1. Count' = 0
      BY <2>1, <2>2, <2>6 DEF Counted, Count
    <3>2. PICK t \in Seq(Byte) : t = line'
      BY <1>1
    <3>3. Stream(t)
      <4>1. n + 1 \in Nat
        BY <1>4
      <4> QED
        BY <1>3, <2>3, <2>4, <3>2, <4>1, Suffix
    <3>4. Stream(t)'
      BY <2>1, <3>3, StillStream
    <3> QED
      BY <3>1, <3>2, <3>4, CountsNone
  <2> QED
    BY <2>5, <2>6
<1>11. CASE ReadData
  <2>1. /\ line' = SubSeq(line, Len(Taken) + 1, Len(line)) /\ Count' = 0
        /\ UNCHANGED <<sending, lost>>
    BY <1>11 DEF ReadData, Count
  <2>2. Len(Taken) \in 0 .. Len(line)
    BY <1>1 DEF Taken
  <2>3. PICK k \in 0 .. Len(line) : k = Len(Taken)
    BY <2>2
  <2>4. \A i \in k + 1 .. Len(line) : line[i] \in Byte
    BY <1>1
  <2>5. /\ Len(line') = Len(line) - k
        /\ \A i \in 1 .. Len(line') : line'[i] = line[k + i]
    BY <1>1, <2>1, <2>3, <2>4, SubSeqProperties
  <2>6. PICK t \in Seq(Byte) : t = line'
    BY <1>1
  <2>7. Stream(t)
    <3>1. Len(s) = (n + k) + Len(t)
      <4>1. Len(line) \in Nat /\ Len(s) = n + Len(line) /\ Len(t) = Len(line) - k
        BY <1>1, <1>5, <2>5, <2>6
      <4> QED
        BY <1>4, <4>1
    <3>2. \A i \in 1 .. Len(t) : t[i] = s[(n + k) + i]
      BY <1>1, <1>4, <1>5, <2>5, <2>6
    <3>3. n + k \in Nat
      BY <1>4
    <3> QED
      BY <1>3, <3>1, <3>2, <3>3, Suffix
  <2>8. Stream(t)'
    BY <2>1, <2>7, StillStream
  <2> QED
    BY <2>1, <2>6, <2>8, CountsNone
<1>12. CASE SetupSerial \/ SerialTest \/ SerialTold \/ Silence \/ ReadNothing
  <2>1. UNCHANGED stream
    BY <1>12 DEF SetupSerial, SerialTest, SerialTold, Silence, ReadNothing, stream
  <2>2. Count' = 0
    BY <1>12 DEF SetupSerial, SerialTest, SerialTold, Silence, ReadNothing, Count
  <2> QED
    BY <1>6, <2>1, <2>2
<1>13. CASE Vis \/ MainThread \/ Sigint \/ VisSpurious \/ UNCHANGED vars
  <2>1. UNCHANGED <<stream, reader>>
    BY <1>13 DEF Vis, VisTest, VisWait, VisServe, MainThread, CreateThreads, JoinSerial,
       JoinDataVis, Main, Sigint, VisSpurious, vars
  <2>2. Count' = n
    BY <2>1 DEF reader, Count, n
  <2> QED
    BY <1>7, <2>1, <2>2
<1> QED
  BY <1>8, <1>9, <1>10, <1>11, <1>12, <1>13 DEF Next, Simulator, Serial

-----------------------------------------------------------------------------
(* The theorems.                                                           *)

\* A frame that is stored is whole: a preamble was counted, and the bytes taken after it
\* end as they should.
LEMMA StoredWhole ==
    ASSUME Types, Received, ReadData, Valid(Taken)
    PROVE  Whole(Taken)
<1> USE Lengths
<1>1. PICK s \in Seq(Byte) : /\ Stream(s) /\ Len(s) = Count + Len(line)
                             /\ \A i \in 1 .. Len(line) : s[Count + i] = line[i]
                             /\ \A i \in 1 .. Count : s[i].looks = "a0"
  BY Stretch
<1>2. Count = PREAMBLE
  BY DEF Count, Types, ReadData
<1>3. line \in Seq(Byte)
  BY DEF Types, TypeOK
<1>4. /\ Len(Taken) = BODY /\ Len(line) >= BODY
      /\ \A i \in 1 .. BODY : Taken[i] = line[i]
  BY <1>3 DEF Taken, Valid
<1>5. Taken[DATA + 1].looks = "b0" /\ Taken[BODY].looks = "b0"
  BY DEF Valid
<1> HIDE DEF Taken, Count
<1>6. /\ Len(s) >= LENGTH /\ \A i \in 1 .. BODY : Taken[i] = s[PREAMBLE + i]
      /\ \A i \in 1 .. PREAMBLE : s[i].looks = "a0"
  <2>1. /\ Len(s) = PREAMBLE + Len(line) /\ \A i \in 1 .. PREAMBLE : s[i].looks = "a0"
        /\ \A i \in 1 .. Len(line) : s[PREAMBLE + i] = line[i]
    BY <1>1, <1>2
  <2>2. Len(line) \in Nat /\ \A i \in 1 .. BODY : i \in 1 .. Len(line)
    BY <1>3, <1>4
  <2>3. Len(s) >= LENGTH
    BY <1>4, <2>1, <2>2
  <2> QED
    BY <1>4, <2>1, <2>2, <2>3
<1>7. s[LENGTH - 1].looks = "b0" /\ s[LENGTH].looks = "b0"
  <2>1. /\ LENGTH - 1 = PREAMBLE + (DATA + 1) /\ LENGTH = PREAMBLE + BODY
        /\ DATA + 1 \in 1 .. BODY /\ BODY \in 1 .. BODY
    OBVIOUS
  <2> QED
    BY <1>5, <1>6, <2>1
<1>8. \A i \in 1 .. BODY :
          s[PREAMBLE + i].frame = s[PREAMBLE + 1].frame /\ s[PREAMBLE + i].at = PREAMBLE + i
  BY <1>1, <1>6, <1>7, WholeBody
<1>9. 1 \in 1 .. BODY
  OBVIOUS
<1> QED
  BY <1>6, <1>8, <1>9 DEF Whole

LEMMA InitReceived == Init => Received
<1> SUFFICES ASSUME Init PROVE Received
  OBVIOUS
<1>1. line = << >> /\ Count = 0
  BY DEF Init, Count
<1>2. PICK run : run = << >>
  OBVIOUS
<1>3. run \in [1 .. Count -> Byte] /\ run \o line = << >>
  BY <1>1, <1>2
<1>4. Stream(run \o line)
  BY <1>3, EmptyStream
<1>5. \A i \in 1 .. Count : run[i].looks = "a0"
  BY <1>1
<1> QED
  BY <1>3, <1>4, <1>5 DEF Received

\* A disturbance is not forgotten, and only a stored frame changes what the clients are
\* given.
LEMMA Remembered == [Next]_vars /\ disturbed => disturbed'
<1> SUFFICES ASSUME [Next]_vars, disturbed PROVE disturbed'
  OBVIOUS
<1>1. CASE Simulator
  BY Zenon, <1>1 DEF Simulator, SendByte, LoseByte
<1>2. UNCHANGED disturbed \/ Simulator
  BY DEF Next, Serial, SetupSerial, SerialTest, SerialTold, ReadByte, Silence, ReadData,
     ReadNothing, Vis, VisTest, VisWait, VisServe, VisSpurious, MainThread, CreateThreads,
     JoinSerial, JoinDataVis, Main, Sigint, vars, stream
<1> QED
  BY Zenon, <1>1, <1>2

LEMMA StoredStep ==
    ASSUME Types, ~disturbed => Received, OnlyWholeFrames, [Next]_vars
    PROVE  OnlyWholeFrames'
<1>1. CASE disturbed
  BY <1>1, Remembered DEF OnlyWholeFrames
<1>2. CASE ~disturbed /\ ReadData
  BY <1>2, StoredWhole DEF ReadData, OnlyWholeFrames
<1>3. CASE ~disturbed /\ UNCHANGED datavis_dat
  BY <1>3 DEF OnlyWholeFrames
<1>4. ReadData \/ UNCHANGED datavis_dat
  BY DEF Next, Simulator, SendByte, LoseByte, Serial, SetupSerial, SerialTest, SerialTold,
     ReadByte, Silence, ReadNothing, Vis, VisTest, VisWait, VisServe, VisSpurious,
     MainThread, CreateThreads, JoinSerial, JoinDataVis, Main, Sigint, vars, reader
<1> QED
  BY <1>1, <1>2, <1>3, <1>4

\* Every variable keeps its type, however many bytes are lost.
THEOREM TypeCorrect == Spec => []TypeOK
<1>1. Spec => []Types
  BY InitTypes, TypeStep, PTL DEF Spec
<1>2. Types => TypeOK
  BY DEF Types
<1> QED
  BY <1>1, <1>2, PTL

\* Until two bytes are lost in two frames in a row or data imitate a preamble, the bytes
\* counted and those on the line follow each other as they were sent, with at most one
\* missing between any two that are less than a frame apart.
THEOREM Inductive == Spec => []IInv
<1>1. Init => IInv
  <2>1. Init => OnlyWholeFrames
    BY DEF Init, OnlyWholeFrames
  <2> QED
    BY <2>1, InitTypes, InitReceived DEF IInv
<1>2. IInv /\ [Next]_vars => IInv'
  <2> SUFFICES ASSUME IInv, [Next]_vars PROVE IInv'
    OBVIOUS
  <2>1. Types' /\ OnlyWholeFrames'
    BY TypeStep, StoredStep DEF IInv
  <2>2. ~disturbed' => Received'
    BY Remembered, ReceivedStep DEF IInv
  <2> QED
    BY Zenon, <2>1, <2>2 DEF IInv
<1> QED
  BY <1>1, <1>2, PTL DEF Spec

\* What the clients are given is one whole frame, wherever in a frame the server started
\* to listen, whatever the data begin and end with, and although a byte is lost now and
\* then: until the line loses two bytes in two frames in a row, or the simulator sends
\* data that hold a preamble.
THEOREM OnlyFramesStored == Spec => []OnlyWholeFrames
<1>1. IInv => OnlyWholeFrames
  BY DEF IInv
<1> QED
  BY <1>1, Inductive, PTL
=============================================================================
