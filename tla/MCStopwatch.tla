---------------------------- MODULE MCStopwatch ----------------------------
(* A model value for checking StopwatchDriver. *)
EXTENDS StopwatchDriver

CONSTANTS a1

OneApp == {a1}
=============================================================================
