---------------------------- MODULE Ads1115Proofs ----------------------------
(***************************************************************************)
(* Proofs about the fine sun sensor's converter and its driver: for calls, *)
(* lost transfers and ends of conversions in any number and order.         *)
(***************************************************************************)
EXTENDS Ads1115, TLAPS

Ain0Sample == [of |-> AIN0, fresh |-> TRUE]

\* The call under way is ads1115_read_data, and it found the converter idle.
FromIdle == call = "data" /\ idleBefore

PlaceInv ==
    /\ pc \in {"start", "stat", "wait", "continuous"} => i = 0
    /\ pc = "continuous" => call = "cont"
    /\ pc = "closed" => data = [n \in 0 .. 3 |-> Unread]

\* The only conversion such a call finds running is the one of AIN0 it asked for.
RunningInv ==
    FromIdle /\ pc \in {"start", "stat", "wait"} /\ ~Idle =>
        converting = AIN0 /\ begun /\ single

\* That conversion, once asked for, runs or has filled the register.
AskedInv ==
    FromIdle =>
        /\ pc \in {"stat", "wait"} => single /\ (Idle => conversion = Ain0Sample)
        /\ pc = "fetch" /\ i = 0 => Idle /\ conversion = Ain0Sample

\* Past its first entry, a call that can still succeed has that sample.
FirstInv ==
    FromIdle /\ status = 1 /\ (pc = "next" \/ (pc = "fetch" /\ i > 0)) =>
        data[0] = Ain0Sample

\* A call that can still succeed has lost no transfer.
NoneLost == \A n \in 0 .. 3 : data[n] \notin {ConfigWord, Zero}

LostInv == Called /\ status = 1 => NoneLost

\* A single-shot call that has waited has seen a conversion end: from then on the register
\* holds a sample.
ConvertedInv ==
    call = "data" =>
        /\ pc = "wait" /\ Idle => conversion # NoSample
        /\ pc \in {"fetch", "next"} => conversion # NoSample

\* A call has filled the entries before the one it is at, and none after it.
FilledInv ==
    /\ \A n \in 0 .. 3 : (n < i \/ (n = i /\ pc = "next")) /\ Called => data[n] # Unread
    /\ \A n \in 0 .. 3 : n > i /\ Called => data[n] = Unread

\* Entries without a sample: of a continuous call, and while the register has held none.
BlankInv ==
    /\ \A n \in 0 .. 3 : data[n] = NoSample => call = "cont"
    /\ Called /\ status = 1 /\ conversion = NoSample =>
           \A n \in 0 .. 3 : data[n] \in {Unread, NoSample}

\* Once a sample has been read, the entries after it are samples too.
InOrder == \A m, n \in 0 .. 3 : m < n /\ data[n] = NoSample => data[m] = NoSample

OrderInv == Called /\ status = 1 => InOrder

IInv ==
    /\ TypeOK
    /\ PlaceInv /\ RunningInv /\ AskedInv /\ FirstInv /\ LostInv
    /\ ConvertedInv /\ FilledInv /\ BlankInv /\ OrderInv
    /\ SuccessIsSampled

-----------------------------------------------------------------------------
(* Types.                                                                  *)

DeviceOK ==
    /\ mux \in Input /\ converting \in Input \cup {NoInput}
    /\ pointer \in {"config", "conversion"}
    /\ conversion \in Sample \cup {NoSample}

FlagsOK == single \in BOOLEAN /\ begun \in BOOLEAN /\ idleBefore \in BOOLEAN

DriverOK ==
    /\ pc \in {"closed", "open", "failed", "start", "stat", "wait", "continuous",
               "fetch", "next"}
    /\ call \in {"data", "cont"}
    /\ i \in 0 .. 3
    /\ data \in [0 .. 3 -> Sample \cup {Unread, NoSample, ConfigWord, Zero}]
    /\ status \in {0, 1} /\ result \in {-1, 0, 1}

LEMMA TypeParts == TypeOK <=> DeviceOK /\ FlagsOK /\ DriverOK
  BY Zenon DEF TypeOK, DeviceOK, FlagsOK, DriverOK

LEMMA SampleType ==
    ASSUME NEW input \in Input, NEW b \in BOOLEAN
    PROVE  [of |-> input, fresh |-> b] \in Sample
  BY DEF Sample

\* What the driver writes to the configuration is an input and two flags.
LEMMA ConfigType ==
    ASSUME NEW input \in Input, NEW singleShot \in BOOLEAN, NEW os \in BOOLEAN,
           TypeOK, WriteConfig(input, singleShot, os)
    PROVE  DeviceOK' /\ single' \in BOOLEAN /\ begun' \in BOOLEAN
<1>1. DeviceOK'
  BY TypeParts DEF WriteConfig, DeviceOK
<1>2. single' \in BOOLEAN
  BY DEF WriteConfig
<1>3. begun' \in BOOLEAN
  <2>1. begun' = begun \/ begun' = Called
    BY Zenon DEF WriteConfig
  <2> QED
    BY <2>1, TypeParts, Zenon DEF FlagsOK, Called
<1> QED
  BY <1>1, <1>2, <1>3

\* Every step leaves the converter with settings and a register of its own.
LEMMA DeviceStep == TypeOK /\ [Next]_vars => DeviceOK' /\ FlagsOK'
<1> SUFFICES ASSUME TypeOK, [Next]_vars PROVE DeviceOK' /\ FlagsOK'
  OBVIOUS
<1>t. DeviceOK /\ FlagsOK /\ DriverOK
  BY TypeParts
<1>b. TRUE \in BOOLEAN /\ FALSE \in BOOLEAN /\ (call = "data") \in BOOLEAN
  OBVIOUS
<1>in. 0 \in Input /\ AIN0 \in Input /\ (AIN0 + i + 1) % 8 \in Input
  BY <1>t DEF Input, AIN0, DriverOK
<1>kept. ASSUME UNCHANGED <<device, idleBefore>> PROVE DeviceOK' /\ FlagsOK'
  BY <1>t, <1>kept DEF DeviceOK, FlagsOK, device
<1>config. ASSUME NEW input \in Input, NEW singleShot \in BOOLEAN, NEW os \in BOOLEAN,
                  WriteConfig(input, singleShot, os), idleBefore' = idleBefore
           PROVE  DeviceOK' /\ FlagsOK'
  BY <1>t, <1>config, ConfigType DEF FlagsOK
<1>1. CASE Open
  BY <1>1, <1>b, <1>in, <1>kept, <1>config DEF Open, driver
<1>2. CASE ReadConfig
  BY <1>2, <1>t DEF ReadConfig, DeviceOK, FlagsOK, driver
<1>3. CASE ReadData \/ ReadCont
  <2>1. begun' = FALSE /\ idleBefore' = Idle /\ single' = single
        /\ conversion' = [conversion EXCEPT !.fresh = FALSE]
        /\ UNCHANGED <<mux, converting, pointer>>
    BY <1>3 DEF ReadData, ReadCont, Call
  <2>2. FlagsOK'
    BY <1>t, <2>1, Zenon DEF FlagsOK, Idle
  <2>3. conversion' \in Sample \cup {NoSample}
    <3>1. ASSUME conversion \in Sample
          PROVE  [conversion EXCEPT !.fresh = FALSE] \in Sample
      BY <3>1 DEF Sample
    <3>2. [NoSample EXCEPT !.fresh = FALSE] = NoSample
      <4>1. NoSample.fresh = FALSE /\ [NoSample EXCEPT !.fresh = NoSample.fresh] = NoSample
        BY DEF NoSample
      <4> QED
        BY <4>1, Zenon
    <3> QED
      BY <1>t, <2>1, <3>1, <3>2 DEF DeviceOK
  <2> QED
    BY <1>t, <2>1, <2>2, <2>3 DEF DeviceOK
<1>4. CASE Start
  BY <1>4, <1>b, <1>in, <1>config DEF Start, driver
<1>5. CASE Continuous
  BY <1>5, <1>b, <1>in, <1>config DEF Continuous, driver
<1>6. CASE Fetch
  BY <1>6, <1>t DEF Fetch, DeviceOK, FlagsOK
<1>7. CASE NextInput
  BY <1>7, <1>b, <1>in, <1>kept, <1>config DEF NextInput
<1>8. CASE Complete
  <2>1. conversion' \in Sample
    <3>1. converting \in Input
      BY <1>8, <1>t DEF Complete, Idle, DeviceOK
    <3> QED
      BY <1>8, <1>t, <3>1, SampleType DEF Complete, FlagsOK
  <2>2. begun' \in BOOLEAN
    BY <1>8, Zenon DEF Complete
  <2>3. UNCHANGED <<mux, single, pointer, idleBefore>> /\ converting' \in {NoInput, mux}
    BY <1>8 DEF Complete, driver
  <2> QED
    BY <1>t, <2>1, <2>2, <2>3 DEF DeviceOK, FlagsOK
<1>9. CASE Destroy \/ StartLost \/ ContinuousLost \/ StatBusy \/ StatAgain \/ WaitAgain
           \/ WaitDone \/ Failed \/ UNCHANGED vars
  BY <1>9, <1>kept DEF Destroy, StartLost, ContinuousLost, Lost, StatBusy, StatAgain,
                      WaitAgain, WaitDone, Failed, vars, driver
<1> QED
  BY <1>1, <1>2, <1>3, <1>4, <1>5, <1>6, <1>7, <1>8, <1>9 DEF Next, Progress

\* The driver keeps to the four entries of data.
LEMMA DriverStep == TypeOK /\ [Next]_vars => DriverOK'
<1> SUFFICES ASSUME TypeOK, [Next]_vars PROVE DriverOK'
  OBVIOUS
<1>t. DriverOK
  BY TypeParts
<1> USE <1>t DEF DriverOK, driver
<1>1. CASE Open \/ ReadConfig \/ Complete \/ Failed \/ WaitAgain \/ UNCHANGED vars
  BY <1>1 DEF Open, ReadConfig, Complete, Failed, WaitAgain, vars
<1>2. CASE Destroy
  BY <1>2 DEF Destroy
<1>3. CASE ReadData \/ ReadCont
  BY <1>3 DEF ReadData, ReadCont, Call
<1>4. CASE StartLost \/ ContinuousLost
  BY <1>4 DEF StartLost, ContinuousLost, Lost, Return
<1>5. CASE Start \/ Continuous \/ StatBusy \/ StatAgain \/ WaitDone
  BY <1>5 DEF Start, Continuous, StatBusy, StatAgain, WaitDone
<1>6. CASE Fetch
  <2>1. PICK word \in {Zero, ConfigWord, conversion} :
            data' = [data EXCEPT ![i] = word]
    BY <1>6 DEF Fetch
  <2>2. conversion \in Sample \cup {NoSample}
    BY TypeParts DEF DeviceOK
  <2>3. data' \in [0 .. 3 -> Sample \cup {Unread, NoSample, ConfigWord, Zero}]
    BY <2>1, <2>2
  <2> QED
    BY <1>6, <2>3 DEF Fetch
<1>7. CASE NextInput
  BY <1>7 DEF NextInput, Return
<1> QED
  BY <1>1, <1>2, <1>3, <1>4, <1>5, <1>6, <1>7 DEF Next, Progress

LEMMA TypeStep == TypeOK /\ [Next]_vars => TypeOK'
<1>1. TypeOK' <=> DeviceOK' /\ FlagsOK' /\ DriverOK'
  BY Zenon DEF TypeOK, DeviceOK, FlagsOK, DriverOK
<1> QED
  BY <1>1, DeviceStep, DriverStep

-----------------------------------------------------------------------------
(* The samples of a call that succeeds.                                    *)

\* What can be told from one another: a converter that idles, samples, and what is none.
LEMMA Distinct ==
    /\ AIN0 # NoInput
    /\ Ain0Sample \notin {ConfigWord, Zero} /\ Unread \notin {ConfigWord, Zero}
    /\ NoSample \notin {ConfigWord, Zero, Unread}
    /\ \A s \in Sample : s \notin {ConfigWord, Zero, Unread, NoSample}
<1>1. \A s \in Sample : s.of \in 0 .. 7
  BY DEF Sample, Input
<1> QED
  BY <1>1 DEF AIN0, NoInput, Ain0Sample, ConfigWord, Zero, Unread, NoSample

LEMMA PlaceStep == IInv /\ [Next]_vars => PlaceInv'
<1> SUFFICES ASSUME IInv, [Next]_vars PROVE PlaceInv'
  OBVIOUS
<1>i. PlaceInv
  BY DEF IInv
<1> USE <1>i DEF PlaceInv, driver
<1>1. CASE Open \/ ReadConfig \/ Complete \/ Failed \/ WaitAgain \/ UNCHANGED vars
  BY <1>1 DEF Open, ReadConfig, Complete, Failed, WaitAgain, vars
<1>2. CASE Destroy
  BY <1>2 DEF Destroy
<1>3. CASE ReadData \/ ReadCont
  BY <1>3 DEF ReadData, ReadCont, Call
<1>4. CASE StartLost \/ ContinuousLost
  BY <1>4 DEF StartLost, ContinuousLost, Lost, Return
<1>5. CASE Start \/ Continuous \/ StatBusy \/ StatAgain \/ WaitDone
  BY <1>5 DEF Start, Continuous, StatBusy, StatAgain, WaitDone
<1>6. CASE Fetch
  BY <1>6 DEF Fetch
<1>7. CASE NextInput
  BY <1>7 DEF NextInput, Return
<1> QED
  BY <1>1, <1>2, <1>3, <1>4, <1>5, <1>6, <1>7 DEF Next, Progress

\* The driver's steps by what they do to data and to the result a call is to have.
LEMMA DataKeep ==
    ASSUME [Next]_vars, ~Open, ~Destroy, ~ReadData, ~ReadCont, ~Fetch, ~NextInput,
           ~StartLost, ~ContinuousLost
    PROVE  /\ UNCHANGED driver
           /\ Called' <=> Called
           /\ pc' = pc \/ /\ pc \in {"start", "stat", "wait", "continuous"}
                          /\ pc' \in {"start", "stat", "wait", "fetch"}
<1>1. CASE Start \/ Continuous \/ StatBusy \/ StatAgain \/ WaitDone
  BY <1>1 DEF Start, Continuous, StatBusy, StatAgain, WaitDone, Called
<1>2. CASE ReadConfig \/ Complete \/ Failed \/ WaitAgain \/ UNCHANGED vars
  BY <1>2 DEF ReadConfig, Complete, Failed, WaitAgain, vars, driver, Called
<1> QED
  BY <1>1, <1>2 DEF Next, Progress

\* An entry that leaves the call able to succeed is the conversion register's.
LEMMA FetchSucceeds ==
    ASSUME Fetch, status' = 1
    PROVE  status = 1 /\ data' = [data EXCEPT ![i] = conversion]
<1>1. PICK pointed \in BOOLEAN, answered \in BOOLEAN :
          /\ pointer' = IF pointed THEN "conversion" ELSE pointer
          /\ data' = [data EXCEPT ![i] = IF ~answered THEN Zero
                                         ELSE IF pointer' = "config" THEN ConfigWord
                                         ELSE conversion]
          /\ status' = IF pointed /\ answered THEN status ELSE 0
  BY DEF Fetch
<1>2. pointed /\ answered
  BY <1>1
<1>3. status' = status /\ pointer' = "conversion"
  BY <1>1, <1>2
<1>4. data' = [data EXCEPT ![i] = conversion]
  BY <1>1, <1>2, <1>3
<1> QED
  BY <1>3, <1>4

\* A lost transfer leaves its mark on the status together with its entry.
LEMMA LostStep == IInv /\ [Next]_vars => LostInv'
<1> SUFFICES ASSUME IInv, [Next]_vars PROVE LostInv'
  OBVIOUS
<1>i. LostInv /\ PlaceInv /\ DriverOK /\ DeviceOK
  BY TypeParts DEF IInv
<1> USE <1>i DEF LostInv
<1>1. CASE Open \/ Destroy \/ StartLost \/ ContinuousLost
  BY <1>1 DEF Open, Destroy, StartLost, ContinuousLost, Lost, Return, Called
<1>2. CASE ReadData \/ ReadCont
  <2>1. data' = [n \in 0 .. 3 |-> Unread]
    BY <1>2 DEF ReadData, ReadCont, Call
  <2> QED
    BY <2>1, Distinct DEF NoneLost
<1>3. CASE Fetch
  <2>1. Called
    BY <1>3 DEF Fetch, Called
  <2>2. status' = 1 => status = 1 /\ data' = [data EXCEPT ![i] = conversion]
    BY <1>3, FetchSucceeds
  <2>3. conversion \notin {ConfigWord, Zero}
    BY Distinct DEF DeviceOK
  <2> QED
    BY <2>1, <2>2, <2>3 DEF NoneLost, DriverOK
<1>4. CASE NextInput
  <2>1. Called /\ data' = data /\ (status' = 1 => status = 1)
    BY <1>4 DEF NextInput, Called, DriverOK
  <2> QED
    BY <2>1 DEF NoneLost
<1>5. CASE UNCHANGED driver /\ (Called' <=> Called)
  BY <1>5 DEF driver, NoneLost
<1> QED
  BY <1>1, <1>2, <1>3, <1>4, <1>5, DataKeep

\* A step of the converter or of a call that found it idle starts no conversion but the
\* one of AIN0 before that has been read.
LEMMA AskedStep == IInv /\ [Next]_vars => RunningInv' /\ AskedInv'
<1> SUFFICES ASSUME IInv, [Next]_vars PROVE RunningInv' /\ AskedInv'
  OBVIOUS
<1>i. RunningInv /\ AskedInv /\ PlaceInv /\ DriverOK /\ FlagsOK
  BY TypeParts DEF IInv
<1>1. CASE pc' \notin {"start", "stat", "wait", "fetch"}
  BY <1>1 DEF RunningInv, AskedInv
<1>2. CASE ReadData
  BY <1>2 DEF ReadData, Call, RunningInv, AskedInv, FromIdle, Idle
<1>3. CASE Start
  BY <1>3, <1>i, Distinct
  DEF Start, WriteConfig, RunningInv, AskedInv, FromIdle, Idle, driver, Called
<1>4. CASE StatBusy \/ StatAgain \/ WaitDone
  BY <1>4, <1>i
  DEF StatBusy, StatAgain, WaitDone, device, driver, RunningInv, AskedInv, FromIdle, Idle
<1>5. CASE Continuous
  BY <1>5, <1>i DEF Continuous, driver, PlaceInv, RunningInv, AskedInv, FromIdle
<1>6. CASE NextInput
  BY <1>6, <1>i DEF NextInput, Return, DriverOK, RunningInv, AskedInv
<1>7. CASE Complete
  BY <1>7, <1>i
  DEF Complete, driver, RunningInv, AskedInv, FromIdle, Idle, Ain0Sample, FlagsOK
<1>8. CASE WaitAgain \/ UNCHANGED vars
  BY <1>8, <1>i
  DEF WaitAgain, vars, device, driver, RunningInv, AskedInv, FromIdle, Idle
<1>9. CASE Open \/ Destroy \/ ReadConfig \/ ReadCont \/ StartLost \/ ContinuousLost
           \/ Fetch \/ Failed
  BY <1>9, <1>1, <1>8 DEF Open, Destroy, ReadConfig, ReadCont, Call, StartLost,
                          ContinuousLost, Lost, Return, Fetch, Failed
<1> QED
  BY <1>1, <1>2, <1>3, <1>4, <1>5, <1>6, <1>7, <1>8, <1>9 DEF Next, Progress

\* The sample of AIN0 gets into the first entry, and stays there.
LEMMA FirstStep == IInv /\ [Next]_vars => FirstInv'
<1> SUFFICES ASSUME IInv, [Next]_vars PROVE FirstInv'
  OBVIOUS
<1>i. FirstInv /\ AskedInv /\ PlaceInv /\ DriverOK
  BY TypeParts DEF IInv
<1>1. CASE Fetch
  <2> SUFFICES ASSUME FromIdle', status' = 1 PROVE data'[0] = Ain0Sample
    BY DEF FirstInv
  <2>1. FromIdle /\ status = 1 /\ data' = [data EXCEPT ![i] = conversion]
    BY <1>1, FetchSucceeds DEF Fetch, FromIdle
  <2>2. CASE i = 0
    BY <1>1, <1>i, <2>1, <2>2 DEF Fetch, AskedInv, DriverOK
  <2>3. CASE i > 0
    BY <1>1, <1>i, <2>1, <2>3 DEF Fetch, FirstInv, DriverOK
  <2> QED
    BY <1>i, <2>2, <2>3 DEF DriverOK
<1>2. CASE NextInput
  <2>1. UNCHANGED <<data, call, idleBefore>> /\ pc = "next" /\ pc' # "next"
        /\ (status' = 1 => status = 1)
    BY <1>2, <1>i DEF NextInput, Return, DriverOK
  <2> QED
    BY <1>i, <2>1 DEF FirstInv, FromIdle
<1>3. CASE Open \/ Destroy \/ ReadData \/ ReadCont \/ StartLost \/ ContinuousLost
  BY <1>3 DEF Open, Destroy, ReadData, ReadCont, Call, StartLost, ContinuousLost, Lost,
              Return, FirstInv
<1>4. CASE /\ ~Open /\ ~Destroy /\ ~ReadData /\ ~ReadCont /\ ~Fetch /\ ~NextInput
           /\ ~StartLost /\ ~ContinuousLost
  <2>1. /\ UNCHANGED <<data, call, idleBefore, i, status>>
        /\ \/ pc' = pc
           \/ i = 0 /\ pc' \in {"start", "stat", "wait", "fetch"}
    BY <1>4, <1>i, DataKeep DEF driver, PlaceInv
  <2> QED
    BY <1>i, <2>1 DEF FirstInv, FromIdle
<1> QED
  BY <1>1, <1>2, <1>3, <1>4

\* The register holds a sample once a conversion has ended.
LEMMA ConvertedStep == IInv /\ [Next]_vars => ConvertedInv'
<1> SUFFICES ASSUME IInv, [Next]_vars PROVE ConvertedInv'
  OBVIOUS
<1>i. ConvertedInv /\ PlaceInv /\ DriverOK /\ DeviceOK /\ FlagsOK
  BY TypeParts DEF IInv
<1>1. CASE pc' \notin {"wait", "fetch", "next"}
  BY <1>1 DEF ConvertedInv
<1>2. CASE StatBusy \/ WaitDone
  BY <1>2, <1>i DEF StatBusy, WaitDone, device, driver, ConvertedInv, Idle
<1>3. CASE Continuous
  BY <1>3, <1>i DEF Continuous, driver, PlaceInv, ConvertedInv
<1>4. CASE Fetch
  BY <1>4, <1>i DEF Fetch, ConvertedInv
<1>5. CASE NextInput
  <2>1. pc = "next" /\ UNCHANGED <<call, conversion>> /\ pc' \in {"fetch", "open"}
    BY <1>5 DEF NextInput, WriteConfig, device, Return
  <2> QED
    BY <1>i, <2>1 DEF ConvertedInv
<1>6. CASE Complete
  <2>1. converting \in Input
    BY <1>6, <1>i DEF Complete, Idle, DeviceOK
  <2>2. conversion' \in Sample
    BY <1>6, <1>i, <2>1, SampleType DEF Complete, FlagsOK
  <2> QED
    BY <2>2, Distinct DEF ConvertedInv
<1>7. CASE WaitAgain \/ UNCHANGED vars
  BY <1>7, <1>i DEF WaitAgain, vars, device, driver, ConvertedInv, Idle
<1>8. CASE Open \/ Destroy \/ ReadConfig \/ ReadData \/ ReadCont \/ StartLost
           \/ ContinuousLost \/ Start \/ StatAgain \/ Failed
  <2>1. pc' \notin {"wait", "fetch", "next"}
    BY <1>8 DEF Open, Destroy, ReadConfig, ReadData, ReadCont, Call, StartLost,
                ContinuousLost, Lost, Return, Start, StatAgain, Failed, vars
  <2> QED
    BY <1>1, <2>1
<1> QED
  BY <1>2, <1>3, <1>4, <1>5, <1>6, <1>7, <1>8 DEF Next, Progress

\* The entries are filled from the first to the last.
LEMMA FilledStep == IInv /\ [Next]_vars => FilledInv'
<1> SUFFICES ASSUME IInv, [Next]_vars PROVE FilledInv'
  OBVIOUS
<1>i. FilledInv /\ PlaceInv /\ DriverOK /\ DeviceOK
  BY TypeParts DEF IInv
<1>1. CASE Open \/ Destroy \/ StartLost \/ ContinuousLost
  <2>1. ~Called'
    BY <1>1 DEF Open, Destroy, StartLost, ContinuousLost, Lost, Return, Called
  <2> QED
    BY <2>1 DEF FilledInv
<1>2. CASE ReadData \/ ReadCont
  <2>1. data' = [n \in 0 .. 3 |-> Unread] /\ i' = 0 /\ pc' # "next"
    BY <1>2 DEF ReadData, ReadCont, Call
  <2> QED
    BY <2>1 DEF FilledInv
<1>3. CASE Fetch
  <2>1. PICK word \in {Zero, ConfigWord, conversion} :
            data' = [data EXCEPT ![i] = word]
    BY <1>3 DEF Fetch
  <2>2. word # Unread
    BY <1>i, Distinct DEF DeviceOK
  <2>3. i' = i /\ Called /\ i \in 0 .. 3
    BY <1>3, <1>i DEF Fetch, Called, DriverOK
  <2> QED
    BY <1>i, <2>1, <2>2, <2>3 DEF FilledInv, DriverOK
<1>4. CASE NextInput
  <2>1. Called /\ pc = "next" /\ data' = data /\ i \in 0 .. 3
    BY <1>4, <1>i DEF NextInput, Called, DriverOK
  <2>2. \/ i' = i + 1 /\ pc' = "fetch"
        \/ i' = i /\ pc' = "open"
    BY <1>4 DEF NextInput, Return
  <2> QED
    BY <1>i, <2>1, <2>2 DEF FilledInv
<1>5. CASE /\ ~Open /\ ~Destroy /\ ~ReadData /\ ~ReadCont /\ ~Fetch /\ ~NextInput
           /\ ~StartLost /\ ~ContinuousLost
  <2>1. UNCHANGED <<data, i>> /\ (Called' <=> Called) /\ (pc' = "next" => pc = "next")
    BY <1>5, DataKeep DEF driver
  <2> QED
    BY <1>i, <2>1 DEF FilledInv
<1> QED
  BY <1>1, <1>2, <1>3, <1>4, <1>5

\* A conversion register never loses the sample it has.
LEMMA ConversionKeeps == IInv /\ [Next]_vars /\ conversion' = NoSample => conversion = NoSample
<1> SUFFICES ASSUME IInv, [Next]_vars, conversion # NoSample PROVE conversion' # NoSample
  OBVIOUS
<1>i. DeviceOK /\ FlagsOK
  BY TypeParts DEF IInv
<1>1. CASE UNCHANGED conversion
  BY <1>1
<1>2. CASE ReadData \/ ReadCont
  <2>1. conversion' = [conversion EXCEPT !.fresh = FALSE] /\ conversion \in Sample
    BY <1>2, <1>i DEF ReadData, ReadCont, Call, DeviceOK
  <2>2. conversion' \in Sample
    BY <2>1 DEF Sample
  <2> QED
    BY <2>2, Distinct
<1>3. CASE Complete
  <2>1. converting \in Input
    BY <1>3, <1>i DEF Complete, Idle, DeviceOK
  <2>2. conversion' \in Sample
    BY <1>3, <1>i, <2>1, SampleType DEF Complete, FlagsOK
  <2> QED
    BY <2>2, Distinct
<1>4. ASSUME ~ReadData, ~ReadCont, ~Complete PROVE UNCHANGED conversion
  BY <1>4 DEF Next, Progress, Open, Destroy, ReadConfig, Start, StartLost, StatBusy,
      StatAgain, Continuous, ContinuousLost, Fetch, NextInput, WaitAgain, WaitDone, Failed,
      Lost, WriteConfig, device, vars
<1> QED
  BY <1>1, <1>2, <1>3, <1>4

\* An entry without a sample comes from a register without one.
LEMMA BlankStep == IInv /\ [Next]_vars => BlankInv'
<1> SUFFICES ASSUME IInv, [Next]_vars PROVE BlankInv'
  OBVIOUS
<1>i. BlankInv /\ PlaceInv /\ ConvertedInv /\ DriverOK
  BY TypeParts DEF IInv
<1>1. CASE ReadData \/ ReadCont
  <2>1. data' = [n \in 0 .. 3 |-> Unread]
    BY <1>1 DEF ReadData, ReadCont, Call
  <2> QED
    BY <2>1, Distinct DEF BlankInv
<1>2. CASE Destroy
  <2>1. data' = [n \in 0 .. 3 |-> Unread]
    BY <1>2 DEF Destroy
  <2> QED
    BY <2>1, Distinct DEF BlankInv
<1>3. CASE Fetch
  <2>1. PICK word \in {Zero, ConfigWord, conversion} :
            data' = [data EXCEPT ![i] = word]
    BY <1>3 DEF Fetch
  <2>2. UNCHANGED <<call, conversion>> /\ pc = "fetch" /\ Called
    BY <1>3 DEF Fetch, Called
  <2>3. word = NoSample => call = "cont"
    BY <1>i, <2>1, <2>2, Distinct DEF ConvertedInv, DriverOK
  <2>4. \A n \in 0 .. 3 : data'[n] = NoSample => call' = "cont"
    BY <1>i, <2>1, <2>2, <2>3 DEF BlankInv, DriverOK
  <2>5. status' = 1 => status = 1 /\ data' = [data EXCEPT ![i] = conversion]
    BY <1>3, FetchSucceeds
  <2>6. status' = 1 /\ conversion' = NoSample => \A n \in 0 .. 3 : data'[n] \in {Unread, NoSample}
    BY <1>i, <2>2, <2>5 DEF BlankInv, DriverOK
  <2> QED
    BY <2>4, <2>6 DEF BlankInv
<1>4. CASE UNCHANGED <<data, call>> /\ (Called' => Called) /\ (status' = 1 => status = 1)
  BY <1>4, <1>i, ConversionKeeps DEF BlankInv
<1>5. CASE Open \/ NextInput \/ StartLost \/ ContinuousLost
  <2>1. UNCHANGED <<data, call>> /\ (Called' => Called)
    BY <1>5 DEF Open, NextInput, StartLost, ContinuousLost, Lost, Return, Called, driver
  <2>2. status' = 1 => status = 1
    BY <1>5, <1>i DEF Open, NextInput, StartLost, ContinuousLost, Lost, driver, DriverOK
  <2> QED
    BY <1>4, <2>1, <2>2
<1>6. CASE /\ ~Open /\ ~Destroy /\ ~ReadData /\ ~ReadCont /\ ~Fetch /\ ~NextInput
           /\ ~StartLost /\ ~ContinuousLost
  <2>1. UNCHANGED <<data, call, status>> /\ (Called' <=> Called)
    BY <1>6, DataKeep DEF driver
  <2> QED
    BY <1>4, <2>1
<1> QED
  BY <1>1, <1>2, <1>3, <1>5, <1>6

\* What is read while the register has no sample comes before what is read later.
LEMMA OrderStep == IInv /\ [Next]_vars => OrderInv'
<1> SUFFICES ASSUME IInv, [Next]_vars PROVE OrderInv'
  OBVIOUS
<1>i. OrderInv /\ BlankInv /\ FilledInv /\ DriverOK
  BY TypeParts DEF IInv
<1>1. CASE Open \/ Destroy \/ StartLost \/ ContinuousLost
  <2>1. ~Called'
    BY <1>1 DEF Open, Destroy, StartLost, ContinuousLost, Lost, Return, Called
  <2> QED
    BY <2>1 DEF OrderInv
<1>2. CASE ReadData \/ ReadCont
  <2>1. data' = [n \in 0 .. 3 |-> Unread]
    BY <1>2 DEF ReadData, ReadCont, Call
  <2> QED
    BY <2>1, Distinct DEF OrderInv, InOrder
<1>3. CASE Fetch
  <2> SUFFICES ASSUME status' = 1, NEW m \in 0 .. 3, NEW n \in 0 .. 3, m < n,
                      data'[n] = NoSample
               PROVE  data'[m] = NoSample
    BY DEF OrderInv, InOrder
  <2>1. status = 1 /\ data' = [data EXCEPT ![i] = conversion] /\ Called /\ i \in 0 .. 3
    BY <1>3, <1>i, FetchSucceeds DEF Fetch, Called, DriverOK
  <2>2. n <= i
    BY <1>i, <2>1, Distinct DEF FilledInv, DriverOK
  <2>3. CASE n = i
    <3>1. conversion = NoSample
      BY <1>i, <2>1, <2>3 DEF DriverOK
    <3>2. data[m] # Unread /\ data'[m] = data[m]
      BY <1>i, <2>1, <2>3 DEF FilledInv, DriverOK
    <3> QED
      BY <1>i, <2>1, <3>1, <3>2 DEF BlankInv
  <2>4. CASE n < i
    BY <1>i, <2>1, <2>4 DEF OrderInv, InOrder, DriverOK
  <2> QED
    BY <2>1, <2>2, <2>3, <2>4
<1>4. CASE NextInput
  <2>1. Called /\ data' = data /\ (status' = 1 => status = 1)
    BY <1>4, <1>i DEF NextInput, Called, DriverOK
  <2> QED
    BY <1>i, <2>1 DEF OrderInv, InOrder
<1>5. CASE /\ ~Open /\ ~Destroy /\ ~ReadData /\ ~ReadCont /\ ~Fetch /\ ~NextInput
           /\ ~StartLost /\ ~ContinuousLost
  <2>1. UNCHANGED <<data, status>> /\ (Called' <=> Called)
    BY <1>5, DataKeep DEF driver
  <2> QED
    BY <1>i, <2>1 DEF OrderInv, InOrder
<1> QED
  BY <1>1, <1>2, <1>3, <1>4, <1>5

\* A call returns success from its last entry only, with all it has gathered.
LEMMA SuccessStep == IInv /\ [Next]_vars => SuccessIsSampled'
<1> SUFFICES ASSUME IInv, [Next]_vars, pc' = "open", result' = 1, data'[0] # Unread
             PROVE  /\ \A n \in 0 .. 3 :
                           data'[n] \in Sample \/ (call' = "cont" /\ data'[n] = NoSample)
                    /\ InOrder'
                    /\ FromIdle' => data'[0] = Ain0Sample
  BY DEF SuccessIsSampled, InOrder, FromIdle, Ain0Sample
<1>i. /\ FirstInv /\ LostInv /\ PlaceInv /\ DriverOK /\ SuccessIsSampled
      /\ FilledInv /\ BlankInv /\ OrderInv
  BY TypeParts DEF IInv
<1>1. CASE Open
  <2>1. data' = [n \in 0 .. 3 |-> Unread]
    BY <1>1, <1>i DEF Open, PlaceInv, driver
  <2> QED
    BY <2>1
<1>2. CASE NextInput
  <2>1. status' = 1 /\ pc = "next" /\ i = 3 /\ UNCHANGED <<data, call, idleBefore>>
    BY <1>2, <1>i DEF NextInput, Return, DriverOK
  <2>2. status = 1 /\ Called
    BY <1>2, <1>i, <2>1 DEF NextInput, DriverOK, Called
  <2>3. NoneLost /\ InOrder
    BY <1>i, <2>2 DEF LostInv, OrderInv
  <2>4. FromIdle => data[0] = Ain0Sample
    BY <1>i, <2>1, <2>2 DEF FirstInv
  <2>5. \A n \in 0 .. 3 : data[n] # Unread
    BY <1>i, <2>1, <2>2 DEF FilledInv
  <2>6. \A n \in 0 .. 3 : data[n] \in Sample \/ (call = "cont" /\ data[n] = NoSample)
    BY <1>i, <2>3, <2>5 DEF NoneLost, BlankInv, DriverOK
  <2> QED
    BY <2>1, <2>3, <2>4, <2>6 DEF InOrder, FromIdle
<1>3. CASE Destroy \/ ReadData \/ ReadCont \/ StartLost \/ ContinuousLost \/ Fetch
  BY <1>3 DEF Destroy, ReadData, ReadCont, Call, StartLost, ContinuousLost, Lost, Return,
              Fetch
<1>4. CASE /\ ~Open /\ ~Destroy /\ ~ReadData /\ ~ReadCont /\ ~Fetch /\ ~NextInput
           /\ ~StartLost /\ ~ContinuousLost
  <2>1. UNCHANGED <<data, call, idleBefore, result>> /\ pc = "open"
    BY <1>4, DataKeep DEF driver
  <2> QED
    BY <1>i, <2>1 DEF SuccessIsSampled, InOrder, FromIdle, Ain0Sample
<1> QED
  BY <1>1, <1>2, <1>3, <1>4

-----------------------------------------------------------------------------

LEMMA InitInv == Init => IInv
<1> SUFFICES ASSUME Init PROVE IInv
  OBVIOUS
<1>1. DeviceOK
  <2>1. Selected \subseteq Input
    BY DEF Selected, Input, AIN0
  <2>2. mux \in Input /\ converting \in Input \cup {NoInput}
    BY <2>1, Zenon DEF Init
  <2>3. [of : Selected, fresh : {FALSE}] \subseteq Sample
    BY <2>1 DEF Sample
  <2>4. conversion \in Sample \cup {NoSample}
    BY <2>3, Zenon DEF Init
  <2> QED
    BY <2>2, <2>4 DEF Init, DeviceOK
<1>8. DriverOK
  BY DEF Init, DriverOK
<1>2. FlagsOK
  BY Zenon DEF Init, FlagsOK
<1>3. TypeOK
  BY <1>1, <1>2, <1>8, TypeParts
<1>4. NoneLost
  BY Distinct DEF Init, NoneLost
<1>5. PlaceInv /\ RunningInv /\ AskedInv /\ FirstInv /\ LostInv
  BY <1>4 DEF Init, PlaceInv, RunningInv, AskedInv, FirstInv, LostInv
<1>7. ConvertedInv /\ FilledInv /\ BlankInv /\ OrderInv
  BY Distinct DEF Init, ConvertedInv, FilledInv, BlankInv, OrderInv, Called
<1>6. SuccessIsSampled
  BY DEF Init, SuccessIsSampled
<1> QED
  BY <1>3, <1>5, <1>6, <1>7 DEF IInv

\* The inductive invariant holds of any calls, losses and conversions.
THEOREM Inductive == Spec => []IInv
<1>1. IInv /\ [Next]_vars => IInv'
  BY TypeStep, PlaceStep, AskedStep, FirstStep, LostStep, ConvertedStep, FilledStep,
     BlankStep, OrderStep, SuccessStep DEF IInv
<1> QED
  BY InitInv, <1>1, PTL DEF Spec

\* Settings, samples and the entry a call is at keep their ranges: no call writes past
\* its array of four.
THEOREM TypeCorrect == Spec => []TypeOK
<1>1. IInv => TypeOK
  BY DEF IInv
<1> QED
  BY Inductive, <1>1, PTL

\* A single-shot call that reports success has samples only, and one that found the
\* converter idle has in its first entry a sample of AIN0 converted for it; a continuous
\* call that does has samples from the first conversion of the converter on.
THEOREM SuccessHasSamples == Spec => []SuccessIsSampled
<1>1. IInv => SuccessIsSampled
  BY DEF IInv
<1> QED
  BY Inductive, <1>1, PTL
=============================================================================
