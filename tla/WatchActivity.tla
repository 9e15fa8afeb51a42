--------------------------- MODULE WatchActivity ---------------------------
(***************************************************************************)
(* The stopwatch of HW5's watch (WatchActivity.java and jni/Watch.c): the  *)
(* listeners and the key handler, which the main thread runs one after the *)
(* other; the stopwatch threads, a new one after each Stop; and the thread *)
(* that polls the push switches and posts clicks to the main thread. They  *)
(* share the fields of the activity and of the threads without a lock, and *)
(* the FND of the board. A thread is taken to see what another one has     *)
(* written to a field.                                                     *)
(***************************************************************************)
EXTENDS Integers, Sequences, FiniteSets

CONSTANTS
  Threads,    \* bounds the stopwatch objects, numbered as they are created
  Minute,     \* seconds of a minute, 60 in the code
  MaxSeconds, \* bounds the seconds a thread counts that nobody ends
  Presses,    \* the sets of push switches that a poll may find down
  Keys,       \* keys of the device, "back" and "other"
  Queue,      \* bounds the clicks that wait for the main thread
  Events      \* bounds touches, keys and polls that find a switch down

ASSUME WatchAssumption ==
  /\ Threads \in Nat \ {0} /\ Minute \in Nat \ {0}
  /\ MaxSeconds \in Nat /\ Queue \in Nat /\ Events \in Nat
  /\ Presses \subseteq SUBSET (1..9)
  /\ Keys \subseteq {"back", "other"}

VARIABLES
  screen,    \* "menu" before the activity, "open", back key "down", "left"
  crashed,   \* an exception that nobody catches has ended the application
  ui,        \* what the main thread is in the middle of
  posts,     \* posted clicks
  thread,    \* the current stopwatch object
  pc,        \* progress of each stopwatch thread
  flag, pause, min, sec,  \* its fields; stop_min and stop_sec
  fnd, lcd,  \* what the board's FND and text LCD show; the LCD is "again" when
             \* the time was put there after the back key had cleared it
  poller, on, input,      \* the switch thread, its flag and switch_input
  events,    \* events still to come
  late       \* times a thread wrote after it was told to end or pause (history)

main == <<screen, crashed, ui, posts, thread>>
time == <<min, sec>>
board == <<fnd, lcd>>
switches == <<poller, on, input>>
vars == <<main, pc, flag, pause, time, board, switches, events, late>>

Objects == 1..Threads
Zero == <<0, 0>>

(* Between start() and the end of run(). *)
Alive(t) == pc[t] \notin {"new", "done"}

Init ==
  /\ screen = "menu" /\ crashed = FALSE /\ ui = "idle" /\ posts = <<>>
  /\ thread = 1
  /\ pc = [t \in Objects |-> "new"]
  /\ flag = [t \in Objects |-> TRUE] /\ pause = [t \in Objects |-> FALSE]
  /\ min = [t \in Objects |-> 0] /\ sec = [t \in Objects |-> 0]
  /\ fnd = Zero /\ lcd = "blank"
  /\ poller = "new" /\ on = FALSE /\ input = {}
  /\ events = Events
  /\ late = [t \in Objects |-> 0]

(* onCreate makes the first stopwatch and starts the switch thread. *)
Create ==
  /\ screen = "menu" /\ screen' = "open"
  /\ poller' = "begin"
  /\ UNCHANGED <<crashed, ui, posts, thread, pc, flag, pause, time, board, on,
                 input, events, late>>

(* The native functions: the displays are written, the switches are read. *)
Watch(text) == lcd' = text

WatchFND(data) == fnd' = data

WatchControl == Presses

-----------------------------------------------------------------------------
(* A stopwatch thread tests the flag and then pause, which it waits for      *)
(* without sleeping, ...                                                     *)
Goto(t, from, to) == pc[t] = from /\ pc' = [pc EXCEPT ![t] = to]

TestNothing(t) ==  \* mutant: while(true)
  /\ Goto(t, "flag", "pause")
  /\ UNCHANGED <<main, flag, pause, time, board, switches, events, late>>

TestFlag(t) ==
  /\ Goto(t, "flag", IF flag[t] THEN "pause" ELSE "done")
  /\ UNCHANGED <<main, flag, pause, time, board, switches, events, late>>

WaitOutPause(t) ==  \* mutant: while(pause){} inside the round
  /\ Goto(t, "pause", IF pause[t] THEN "pause" ELSE "write")
  /\ UNCHANGED <<main, flag, pause, time, board, switches, events, late>>

TestPause(t) ==
  /\ Goto(t, "pause", IF pause[t] THEN "flag" ELSE "write")
  /\ UNCHANGED <<main, flag, pause, time, board, switches, events, late>>

(* ... shows its time, ... *)
Show(t) ==
  /\ Goto(t, "write", "sleep")
  /\ WatchFND(<<min[t], sec[t]>>)
  /\ late' = [late EXCEPT ![t] = IF flag[t] /\ ~pause[t] THEN 0 ELSE @ + 1]
  /\ UNCHANGED <<main, flag, pause, time, lcd, switches, events>>

(* ... and counts it on when it has slept for a second. *)
InBounds(t) == flag[t] => min[t] * Minute + sec[t] < MaxSeconds

CountSeconds(t) ==  \* mutant: stop_min++ left out
  /\ InBounds(t)
  /\ Goto(t, "sleep", "flag")
  /\ sec' = [sec EXCEPT ![t] = (@ + 1) % Minute]
  /\ UNCHANGED <<main, flag, pause, min, board, switches, events, late>>

Count(t) ==
  /\ InBounds(t)
  /\ Goto(t, "sleep", "flag")
  /\ LET full == sec[t] + 1 > Minute - 1
     IN  /\ sec' = [sec EXCEPT ![t] = IF full THEN 0 ELSE @ + 1]
         /\ min' = [min EXCEPT ![t] = IF full THEN @ + 1 ELSE @]
  /\ UNCHANGED <<main, flag, pause, board, switches, events, late>>

Run(t) == TestFlag(t) \/ TestPause(t) \/ Show(t) \/ Count(t)

-----------------------------------------------------------------------------
(* The listeners. Start ends a pause, or else starts the thread, which       *)
(* throws when that has been started before.                                 *)
Resume ==
  /\ pause[thread]
  /\ pause' = [pause EXCEPT ![thread] = FALSE]
  /\ late' = [late EXCEPT ![thread] = 0]
  /\ UNCHANGED <<crashed, ui, pc, flag, board>>

Start ==
  /\ ~pause[thread]
  /\ pc' = [pc EXCEPT ![thread] = IF @ = "new" THEN "flag" ELSE @]
  /\ crashed' = (pc[thread] = "done")
  /\ UNCHANGED <<ui, flag, pause, board, late>>

Pause ==
  /\ pause' = [pause EXCEPT ![thread] = TRUE]
  /\ UNCHANGED <<crashed, ui, pc, flag, board, late>>

StopWithoutFlag ==  \* mutant: thread.flag = false left out
  /\ thread < Threads
  /\ ui' = "stop"
  /\ UNCHANGED <<crashed, pc, flag, pause, board, late>>

(* Stop tells the thread to end, and then ... *)
Stop ==
  /\ thread < Threads
  /\ ui' = "stop"
  /\ flag' = [flag EXCEPT ![thread] = IF Alive(thread) THEN FALSE ELSE @]
  /\ UNCHANGED <<crashed, pc, pause, board, late>>

(* Main clears the devices, and then ... *)
ClearDevices == Watch("blank") /\ WatchFND(Zero)

Leave ==
  /\ ui' = "leave" /\ ClearDevices
  /\ UNCHANGED <<crashed, pc, flag, pause, late>>

(* Set time shows the date and the time on the LCD. *)
SetTime ==
  /\ Watch(IF screen = "open" THEN "time" ELSE "again")
  /\ UNCHANGED <<crashed, ui, pc, flag, pause, fnd, late>>

Clicked(b) ==
  \/ b = 1 /\ (Resume \/ Start)
  \/ b = 2 /\ Pause
  \/ b = 3 /\ Stop
  \/ b = 4 /\ Leave
  \/ b = 5 /\ SetTime

(* ... the FND is cleared and the thread replaced; ... *)
Replace ==
  /\ ui = "stop" /\ ui' = "idle"
  /\ WatchFND(Zero)
  /\ thread' = thread + 1
  /\ UNCHANGED <<screen, crashed, posts, pc, flag, pause, time, lcd, switches, events,
                 late>>

(* ... the threads are told to end. *)
EndSwitch == flag' = flag /\ on' = FALSE  \* mutant: thread.flag = false left out

EndThreads == flag' = [flag EXCEPT ![thread] = FALSE] /\ on' = FALSE

Left ==
  /\ ui = "leave" /\ ui' = "idle"
  /\ screen' = "left"
  /\ EndThreads
  /\ UNCHANGED <<crashed, posts, thread, pc, pause, time, board, poller, input,
                 events, late>>

(* onKeyDown does the same for every key; the back key then leaves the       *)
(* activity when it is released.                                             *)
KeyDown ==
  /\ ui = "idle" /\ screen = "open"
  /\ events > 0 /\ events' = events - 1
  /\ \E k \in Keys : ui' = k
  /\ ClearDevices
  /\ UNCHANGED <<screen, crashed, posts, thread, pc, flag, pause, time, switches,
                 late>>

KeyHandled ==
  /\ ui \in {"back", "other"} /\ ui' = "idle"
  /\ screen' = IF ui = "back" THEN "down" ELSE screen
  /\ EndThreads
  /\ UNCHANGED <<crashed, posts, thread, pc, pause, time, board, poller, input,
                 events, late>>

KeyUp ==
  /\ ui = "idle" /\ screen = "down" /\ screen' = "left"
  /\ UNCHANGED <<crashed, ui, posts, thread, pc, flag, pause, time, board,
                 switches, events, late>>

(* A click comes from the queue, also when the activity has been left since, *)
(* or from the touch screen, also while the back key is held down.           *)
RunPosted ==
  /\ ui = "idle" /\ posts # <<>> /\ posts' = Tail(posts)
  /\ Clicked(Head(posts))
  /\ UNCHANGED <<screen, thread, time, switches, events>>

Touch ==
  /\ ui = "idle" /\ screen \in {"open", "down"}
  /\ events > 0 /\ events' = events - 1
  /\ \E b \in 1..5 : Clicked(b)
  /\ UNCHANGED <<screen, posts, thread, time, switches>>

-----------------------------------------------------------------------------
(* The switch thread sets its own flag, and then collects what is pressed    *)
(* until a poll finds no switch down.                                        *)
PollerBegins ==
  /\ poller = "begin" /\ poller' = "test"
  /\ on' = TRUE
  /\ UNCHANGED <<main, pc, flag, pause, time, board, input, events, late>>

PollerTests ==
  /\ poller = "test" /\ poller' = IF on THEN "poll" ELSE "done"
  /\ UNCHANGED <<main, pc, flag, pause, time, board, on, input, events, late>>

Collect ==
  /\ poller = "poll" /\ poller' = "test"
  /\ events > 0 /\ events' = events - 1
  /\ \E p \in WatchControl \ {{}} : input' = input \cup p
  /\ UNCHANGED <<main, pc, flag, pause, time, board, on, late>>

(* A switch that was pressed alone clicks a button, if it is one of four. *)
Meant == IF Cardinality(input) = 1 THEN input \cap 1..4 ELSE {}

Released ==
  /\ poller = "poll" /\ poller' = "test"
  /\ input' = {}
  /\ \/ Meant = {} /\ UNCHANGED posts
     \/ Len(posts) < Queue /\ \E b \in Meant : posts' = Append(posts, b)
  /\ UNCHANGED <<screen, crashed, ui, thread, pc, flag, pause, time, board, on,
                 events, late>>

Poller == PollerBegins \/ PollerTests \/ Released

-----------------------------------------------------------------------------
Main == RunPosted \/ Replace \/ Left \/ KeyHandled \/ KeyUp

Next ==
  /\ ~crashed
  /\ \/ Create \/ KeyDown \/ Touch \/ Main \/ Poller \/ Collect
     \/ \E t \in Objects : Run(t)

Spec == Init /\ [][Next]_vars

(* Every thread is scheduled, and the main thread comes to what it has been  *)
(* posted.                                                                   *)
FairSpec ==
  /\ Spec
  /\ WF_vars(~crashed /\ Main) /\ WF_vars(~crashed /\ Poller)
  /\ \A t \in Objects : WF_vars(~crashed /\ Run(t))

-----------------------------------------------------------------------------
TypeOK ==
  /\ screen \in {"menu", "open", "down", "left"} /\ crashed \in BOOLEAN
  /\ ui \in {"idle", "stop", "leave", "back", "other"}
  /\ posts \in Seq(1..4) /\ Len(posts) <= Queue
  /\ thread \in Objects
  /\ pc \in [Objects -> {"new", "flag", "pause", "write", "sleep", "done"}]
  /\ flag \in [Objects -> BOOLEAN] /\ pause \in [Objects -> BOOLEAN]
  /\ min \in [Objects -> Nat] /\ sec \in [Objects -> 0..(Minute - 1)]
  /\ fnd \in Nat \X (0..(Minute - 1)) /\ lcd \in {"blank", "time", "again"}
  /\ poller \in {"new", "begin", "test", "poll", "done"}
  /\ on \in BOOLEAN /\ input \in SUBSET (1..9)
  /\ events \in 0..Events
  /\ late \in [Objects -> Nat]

(* Stop replaces a thread that may go on for a second: whatever is clicked   *)
(* next, only the current stopwatch counts on, and a replaced one is on its  *)
(* way to its end.                                                           *)
OneStopwatchRuns == \A t \in Objects : Alive(t) /\ flag[t] => t = thread

(* A thread that is told to end or to pause may have passed its tests, and   *)
(* then writes its time (line 220) after the main thread has cleared the     *)
(* FND, or even after the next thread has written; but only once.            *)
ObeysWithinARound == \A t \in Objects : late[t] <= 1

(* But for such a late write, the FND shows the time of the stopwatch that   *)
(* sleeps until its next second, however often it was replaced before; and   *)
(* the text is gone when the activity is left, if nobody has set it again    *)
(* while the back key was held.                                              *)
Undisturbed == ui = "idle" /\ \A t \in Objects : t # thread => late[t] = 0

BoardShowsTime ==
  /\ Undisturbed /\ flag[thread] /\ pc[thread] = "sleep"
       => fnd = <<min[thread], sec[thread]>>
  /\ screen = "left" => lcd # "time"

(* The time of the current thread behaves like the stopwatch of HW3: it      *)
(* counts second by second while the stopwatch runs, also over the minute;   *)
(* Pause keeps it, and Stop resets it. The second that is under way counts,  *)
(* since Pause does not cut it short.                                        *)
Running ==
  \/ pc[thread] \in {"write", "sleep"}
  \/ pc[thread] \in {"flag", "pause"} /\ ~pause[thread]

Begun ==
  min[thread] * Minute + sec[thread] + (IF pc[thread] = "sleep" THEN 1 ELSE 0)

Promise == INSTANCE Stopwatch WITH
  session <- screen \in {"open", "down"} /\ ~crashed,
  running <- Running,
  count <- Begun,
  Hour <- MaxSeconds + 2,
  Slack <- -1

ImplementsStopwatch == Promise!Spec

(* A thread that is told to end does, also one that is paused, asleep or     *)
(* replaced, and any key and the button that leaves tell the current one and *)
(* the switch thread. What a posted click or a touch starts later is not     *)
(* told, and the flag of a switch thread that has not set it yet is lost.    *)
Leaving == ui \in {"leave", "back", "other"}

LeavingEndsThreads ==
  /\ \A t \in Objects :
       Alive(t) /\ (~flag[t] \/ (t = thread /\ Leaving)) ~> crashed \/ ~Alive(t)
  /\ Leaving /\ poller # "begin" ~> crashed \/ poller = "done"
=============================================================================
