---------------------------- MODULE SitlRegister ----------------------------
(***************************************************************************)
(* What the SITL serial exchange promises: accepted frames, never older    *)
(* than the ones before, are written and taken in single steps, and so is  *)
(* the firing command.  SitlExchange is shown to implement it.             *)
(***************************************************************************)
EXTENDS Integers

CONSTANTS MaxFrame, Command, Off

VARIABLES
    frame,             \* the newest accepted frame
    taken,             \* the frame the control loop works from
    fire,              \* the firing command
    fetched,           \* the command about to be sent
    answered           \* the command the simulator got last

vars == <<frame, taken, fire, fetched, answered>>

Init ==
    /\ frame = 0 /\ taken = 0
    /\ fire = Off /\ fetched = Off /\ answered = Off

Accept ==
    /\ frame' \in frame .. MaxFrame
    /\ UNCHANGED <<taken, fire, fetched, answered>>

Take ==
    /\ taken' = frame
    /\ UNCHANGED <<frame, fire, fetched, answered>>

SetCommand ==
    /\ fire' \in Command
    /\ UNCHANGED <<frame, taken, fetched, answered>>

Fetch ==
    /\ fetched' = fire
    /\ UNCHANGED <<frame, taken, fire, answered>>

Reply ==
    /\ answered' = fetched
    /\ UNCHANGED <<frame, taken, fire, fetched>>

Next == Accept \/ Take \/ SetCommand \/ Fetch \/ Reply

Spec == Init /\ [][Next]_vars
=============================================================================
