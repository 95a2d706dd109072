---------------------------- MODULE MCLifecycle -----------------------------
(***************************************************************************)
(* Lifecycle with the numbers of main.go, in units of 5 s.                 *)
(***************************************************************************)
EXTENDS Lifecycle

\* Ready at once, during the first delay, around the last attempt, never.
MCReadyTimes == {0, 1, 33, 34, 36, 38, 1000}
=============================================================================
