----------------------------- MODULE Stopwatch -----------------------------
(***************************************************************************)
(* What the HW3 stopwatch promises its user, without interrupts, timers or *)
(* register accesses: a counter of seconds that runs or stands still.      *)
(* StopwatchDriver is shown to implement it.                               *)
(***************************************************************************)
EXTENDS Integers

CONSTANTS
  Hour,   \* seconds after which the display starts again from 00:00
  Slack   \* seconds that may be lost when it does

VARIABLES
  session,  \* an application has the device open
  running,  \* the counter advances
  count     \* seconds counted

vars == <<session, running, count>>

Init == session = FALSE /\ running = FALSE /\ count = 0

(* A new session starts from zero, unless the counter was left running by    *)
(* the last one, whose tick may then undo that; closing keeps the counter.   *)
Open ==
  /\ ~session
  /\ session' = TRUE
  /\ count' = 0 \/ (running /\ count' = count)
  /\ UNCHANGED running

Close == session /\ session' = FALSE /\ UNCHANGED <<running, count>>

(* SW2 starts, SW3 pauses (so does the end of a session), SW4 resets. *)
Start == running' = TRUE /\ UNCHANGED <<session, count>>

Pause == running' = FALSE /\ UNCHANGED <<session, count>>

Reset == running' = FALSE /\ count' = 0 /\ UNCHANGED session

Tick == running /\ count' = count + 1 /\ UNCHANGED <<session, running>>

(* The counter goes back to zero by itself only at the full hour, where the *)
(* first seconds of the new hour may be swallowed.                          *)
Wrap ==
  /\ session
  /\ count >= Hour \/ count <= Slack
  /\ count' = 0
  /\ UNCHANGED <<session, running>>

Next == Open \/ Close \/ Start \/ Pause \/ Reset \/ Tick \/ Wrap

Spec == Init /\ [][Next]_vars
=============================================================================
