---------------------------- MODULE LifecycleDocs ----------------------------
(***************************************************************************)
(* What the comment on the SIGINT handler says and the program does not    *)
(* do.                                                                     *)
(***************************************************************************)
EXTENDS Lifecycle

\* The handler sets done "so that thread loops can break. Wakes up sitl_comm and datavis
\* threads to ensure they exit." (main.c:95).  acs_thread, on its first run, and
\* datavis_thread test done without the mutex their waits use: a SIGINT between the two
\* is a wake-up nobody hears, the other threads may leave without making another, and
\* main stays in pthread_join.
InterruptAlwaysEnds == done ~> Over
=============================================================================
