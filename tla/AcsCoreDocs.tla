----------------------------- MODULE AcsCoreDocs -----------------------------
(***************************************************************************)
(* What comments of src/src/acs.c say of the control loop and its code     *)
(* does not do; a run shows how the loop breaks it.                        *)
(***************************************************************************)
EXTENDS AcsCore

\* "check if any of the values are NaN" (acs.c:550), where an index of -1 "indicates
\* uninitiated buffer" (acs.c:172): the values tested are those of written slots.
\* On the second reading g_W[omega_index] lies before the array.
NanCheckReadsSamples == pc = "nan" => omega_index >= 0
=============================================================================
