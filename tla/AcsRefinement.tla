--------------------------- MODULE AcsRefinement ---------------------------
(***************************************************************************)
(* The refinement mapping from the attitude control loop (AcsCore) to the  *)
(* promise about its mode (AcsModes).                                      *)
(***************************************************************************)
EXTENDS AcsCore

\* W_full is set while the third reading after the buffers' first turn is handled,
\* because the rate of change needs two readings and the angular velocity two rates.
WindowReadings == SH_BUFFER_SIZE + 3

\* Good readings since the last flush, recovered from the field's index and flags.
Streak ==
    IF W_full THEN WindowReadings
    ELSE IF B_full THEN SH_BUFFER_SIZE + 1 + mag_index
    ELSE mag_index + 1

Modes == INSTANCE AcsModes WITH
            WINDOW <- WindowReadings,
            mode <- g_acs_mode,
            neverDetumbled <- g_first_detumble,
            streak <- Streak,
            lit <- Lit

\* The control loop implements the promise: every step of acs_thread is a reading, a
\* look at the sun, a fault, a decision from WindowReadings good readings in a row, or
\* changes nothing the promise speaks of.
ImplementsModes == Modes!Spec
=============================================================================
