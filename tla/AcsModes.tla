------------------------------ MODULE AcsModes ------------------------------
(***************************************************************************)
(* What the attitude control loop promises about its mode, without its     *)
(* buffers: a mode is decided only after an unbroken run of good readings, *)
(* a fault puts the satellite into night mode and restarts the run, and    *)
(* the modes that need the sun are entered and kept only while it is seen. *)
(* AcsCore is shown to implement this module.                              *)
(***************************************************************************)
EXTENDS Integers

CONSTANT WINDOW              \* good readings in a row that a decision needs

VARIABLES
    mode,              \* the ACS mode
    neverDetumbled,    \* the satellite has not been detumbled since power-up
    streak,            \* good readings since power-up or the last fault
    lit                \* the newest sun vector shows a sun

vars == <<mode, neverDetumbled, streak, lit>>

Init ==
    /\ mode = "DETUMBLE"
    /\ neverDetumbled = TRUE
    /\ streak = 0
    /\ lit = FALSE

Reading ==
    /\ streak' = IF streak = WINDOW THEN WINDOW ELSE streak + 1
    /\ UNCHANGED <<mode, neverDetumbled, lit>>

Look ==
    /\ lit' \in BOOLEAN
    /\ UNCHANGED <<mode, neverDetumbled, streak>>

Fault ==
    /\ mode' = "NIGHT"
    /\ streak' = 0
    /\ lit' = FALSE
    /\ UNCHANGED neverDetumbled

\* The first detumbling goes on in the dark; everything else then sleeps.
Dark ==
    /\ ~lit
    /\ \/ mode = "DETUMBLE" /\ mode' = "DETUMBLE"
          /\ neverDetumbled /\ UNCHANGED neverDetumbled
       \/ mode = "DETUMBLE" /\ mode' = "NIGHT"
          /\ neverDetumbled' \in {FALSE, neverDetumbled}
       \/ mode # "DETUMBLE" /\ mode' = "NIGHT" /\ UNCHANGED neverDetumbled

\* Detumbling ends in night mode, which the next decision leaves.
StopDetumbling ==
    /\ lit /\ mode = "DETUMBLE" /\ mode' = "NIGHT"
    /\ neverDetumbled' = FALSE

\* A sun in view: night mode is left, and READY is left only by way of SUNPOINT.
Turn ==
    /\ lit
    /\ \/ mode = "DETUMBLE" /\ mode' = "DETUMBLE"
       \/ mode = "SUNPOINT" /\ mode' \in {"SUNPOINT", "DETUMBLE", "READY"}
       \/ mode \in {"NIGHT", "READY"} /\ mode' \in {"SUNPOINT", "READY"}
    /\ UNCHANGED neverDetumbled

Decide ==
    /\ streak = WINDOW
    /\ Dark \/ StopDetumbling \/ Turn
    /\ UNCHANGED <<streak, lit>>

Next == Reading \/ Look \/ Fault \/ Decide

Spec == Init /\ [][Next]_vars
=============================================================================
