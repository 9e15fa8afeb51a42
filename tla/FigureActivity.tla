--------------------------- MODULE FigureActivity ---------------------------
(***************************************************************************)
(* The figure switch of HW5 (FigureActivity.java, jni/FigureSwitch.c): Go  *)
(* starts a thread that shows a figure on all devices of the board, steps  *)
(* it on num times and then switches the devices off. The main thread (Go, *)
(* Clear, Main, keys), the thread that polls the push switches and any     *)
(* number of figure threads share num, option and the reference to the     *)
(* current figure thread, and write to the counter i of another thread,    *)
(* all without a lock. A thread is taken to see what another one has       *)
(* written to a field, and one call of a native function is one step.      *)
(***************************************************************************)
EXTENDS Integers, Sequences

CONSTANTS
  Threads,  \* bounds the figure threads, numbered as they are created
  Places,   \* places of an option, 4 in the code
  Last,     \* the last figure of a place, 8 in the code
  Inputs,   \* what Go finds typed: a number, and an option or <<>> if the
            \* third word is not a number (the time is left out)
  Queue,    \* bounds the clicks that wait for the main thread
  Events    \* bounds clicks, keys and chords

Options == [1..Places -> 0..Last]

ASSUME FigureAssumption ==
  /\ Threads \in Nat \ {0} /\ Places \in Nat \ {0} /\ Last \in Nat \ {0}
  /\ Inputs \subseteq [num : Nat, option : Options \cup {<<>>}]
  /\ Queue \in Nat /\ Events \in Nat

VARIABLES
  screen,      \* "menu" before the activity, "open", "left"
  crashed,     \* "no", or what ended the application: "stop", "start", "figure"
  num, option, \* the fields; option is <<>> before the first one is typed
  thread,      \* the current figure thread
  made,        \* the figure threads made so far
  pc, i, op,   \* progress, counter and copy of option of each of them
  reg,         \* the counter that i++ has loaded
  board, lcd,  \* what the devices show: the figure with a number, the text
  ui, typed,   \* what the main thread is in the middle of, what it has read
  posts,       \* clicks on Go that are posted
  poller, on,  \* the switch thread and its flag
  events,      \* events still to come
  wrong,       \* Go has found no option of exactly one figure (history)
  asked        \* the input of the run, unless it was disturbed (history)

shared == <<num, option, thread, made>>
run == <<pc, i, op, reg>>
devices == <<board, lcd>>
main == <<ui, typed, posts>>
switches == <<poller, on>>
history == <<wrong, asked>>
vars == <<screen, crashed, shared, run, devices, main, switches, events, history>>

Objects == 1..Threads
Nothing == [num |-> 0, option |-> <<>>]
Dark == [place |-> 0, figure |-> 0, left |-> 0]
Blank == [p \in 1..Places |-> 0]
Alive(t) == pc[t] \notin {"new", "done", "killed"}

(* The first place of an option that is not '0', as all who read it look for. *)
Filled(o) == o # <<>> /\ \E p \in 1..Places : o[p] # 0
Place(o) == CHOOSE p \in 1..Places : o[p] # 0 /\ \A q \in 1..(p - 1) : o[q] = 0

OneFigure(o) ==
  /\ o \in Options
  /\ \E p \in 1..Places : o[p] # 0 /\ \A q \in 1..Places \ {p} : o[q] = 0

-----------------------------------------------------------------------------
(* The native functions: place and figure go to the FND, the LEDs and the    *)
(* dot matrix, the number to the other FND; the two lines to the text LCD.   *)
FigureSwitch(o, left) ==
  board' = IF Filled(o)
             THEN [place |-> Place(o), figure |-> o[Place(o)], left |-> left]
             ELSE [Dark EXCEPT !.left = left]

TextPrint(text) == lcd' = text

Init ==
  /\ screen = "menu" /\ crashed = "no"
  /\ num = 0 /\ option = <<>> /\ thread = 1 /\ made = 1
  /\ pc = [t \in Objects |-> "new"] /\ i = [t \in Objects |-> 0]
  /\ op = [t \in Objects |-> <<>>] /\ reg = [t \in Objects |-> 0]
  /\ board = Dark /\ lcd = "blank"
  /\ ui = "idle" /\ typed = Nothing /\ posts = 0
  /\ poller = "new" /\ on = FALSE
  /\ events = Events
  /\ wrong = FALSE /\ asked = Nothing

(* onCreate makes the first figure thread and starts the switch thread. *)
Create ==
  /\ screen = "menu" /\ screen' = "open"
  /\ poller' = "begin"
  /\ UNCHANGED <<crashed, shared, run, devices, main, on, events, history>>

-----------------------------------------------------------------------------
(* A figure thread starts to count, ...                                      *)
Goto(t, from, to) == pc[t] = from /\ pc' = [pc EXCEPT ![t] = to]

Begin(t) ==
  /\ Goto(t, "begin", "test")
  /\ i' = [i EXCEPT ![t] = 0]
  /\ UNCHANGED <<screen, crashed, shared, op, reg, devices, main, switches,
                 events, history>>

TestOwn(t) ==  \* mutant: only the current thread leaves the loop
  /\ Goto(t, "test", IF i[t] < num THEN "load"
                     ELSE IF t = thread THEN "off" ELSE "test")
  /\ UNCHANGED <<screen, crashed, shared, i, op, reg, devices, main, switches,
                 events, history>>

Test(t) ==
  /\ Goto(t, "test", IF i[t] < num THEN "load" ELSE "off")
  /\ UNCHANGED <<screen, crashed, shared, i, op, reg, devices, main, switches,
                 events, history>>

(* ... copies the option (an exception ends the application when there is    *)
(* none, or none of its places is filled), ...                               *)
Load(t) ==
  /\ Goto(t, "load", "show")
  /\ op' = [op EXCEPT ![t] = option]
  /\ crashed' = IF Filled(option) THEN crashed ELSE "figure"
  /\ UNCHANGED <<screen, shared, i, reg, devices, main, switches, events, history>>

(* ... shows the option and num as they are now, ... *)
Show(t) ==
  /\ Goto(t, "show", "text")
  /\ FigureSwitch(option, num - i[t])
  /\ UNCHANGED <<screen, crashed, shared, i, op, reg, lcd, main, switches, events,
                 history>>

ShowText(t) ==
  /\ Goto(t, "text", "sleep")
  /\ TextPrint("lines")
  /\ UNCHANGED <<screen, crashed, shared, i, op, reg, board, main, switches,
                 events, history>>

(* ... sleeps, counts on with a load and a store, ... *)
Wake(t) ==
  /\ Goto(t, "sleep", "store")
  /\ reg' = [reg EXCEPT ![t] = i[t]]
  /\ UNCHANGED <<screen, crashed, shared, i, op, devices, main, switches, events,
                 history>>

Store(t) ==
  /\ Goto(t, "store", "step")
  /\ i' = [i EXCEPT ![t] = reg[t] + 1] /\ reg' = [reg EXCEPT ![t] = 0]
  /\ UNCHANGED <<screen, crashed, shared, op, devices, main, switches, events,
                 history>>

(* ... and steps its copy on: from the last figure to the first of the next  *)
(* place, and from the last place to the first one.                          *)
SteppedInPlace(o) ==  \* mutant: the last figure of the last place stays there
  LET j == Place(o)
  IN  IF o[j] # Last THEN [o EXCEPT ![j] = @ + 1]
      ELSE IF j # Places THEN [o EXCEPT ![j + 1] = 1, ![j] = 0]
      ELSE [o EXCEPT ![j] = 1]

SteppedWithoutReset(o) ==  \* mutant: op[j] = '0' left out in the last place
  LET j == Place(o)
  IN  IF o[j] # Last THEN [o EXCEPT ![j] = @ + 1]
      ELSE IF j # Places THEN [o EXCEPT ![j + 1] = 1, ![j] = 0]
      ELSE [o EXCEPT ![1] = 1]

Stepped(o) ==
  LET j == Place(o)
  IN  IF o[j] # Last THEN [o EXCEPT ![j] = @ + 1]
      ELSE IF j # Places THEN [o EXCEPT ![j + 1] = 1, ![j] = 0]
      ELSE [o EXCEPT ![j] = 0, ![1] = 1]

Step(t) ==
  /\ Goto(t, "step", "test")
  /\ option' = Stepped(op[t]) /\ op' = [op EXCEPT ![t] = <<>>]
  /\ UNCHANGED <<screen, crashed, num, thread, made, i, reg, devices, main,
                 switches, events, history>>

(* At the end of the run the devices are switched off, and a new thread      *)
(* takes the place of whichever is the current one.                          *)
OffWithLeft(t) ==  \* mutant: num - i shown instead of 0
  /\ Goto(t, "off", "blank")
  /\ FigureSwitch(Blank, num - i[t])
  /\ UNCHANGED <<screen, crashed, shared, i, op, reg, lcd, main, switches, events,
                 history>>

Off(t) ==
  /\ Goto(t, "off", "blank")
  /\ FigureSwitch(Blank, 0)
  /\ UNCHANGED <<screen, crashed, shared, i, op, reg, lcd, main, switches, events,
                 history>>

BlankText(t) ==
  /\ Goto(t, "blank", "renew")
  /\ TextPrint("blank")
  /\ UNCHANGED <<screen, crashed, shared, i, op, reg, board, main, switches,
                 events, history>>

MakeThread == made < Threads /\ made' = made + 1 /\ thread' = made + 1

Renew(t) ==
  /\ Goto(t, "renew", "done")
  /\ MakeThread
  /\ UNCHANGED <<screen, crashed, num, option, i, op, reg, devices, main,
                 switches, events, history>>

Run(t) ==
  \/ Begin(t) \/ Test(t) \/ Load(t) \/ Show(t) \/ ShowText(t) \/ Wake(t)
  \/ Store(t) \/ Step(t) \/ Off(t) \/ BlankText(t) \/ Renew(t)

-----------------------------------------------------------------------------
(* Go reads what is typed into num and option, also while a figure thread    *)
(* runs and before it has looked whether the option is a good one.           *)
Quiet == \A t \in Objects : ~Alive(t)

Go ==
  /\ ui' = "option"
  /\ \E in \in Inputs :
       /\ typed' = in /\ num' = in.num
       /\ wrong' = (wrong \/ ~OneFigure(in.option))
       /\ asked' = IF Quiet THEN in ELSE Nothing
  /\ UNCHANGED <<screen, crashed, option, thread, made, run, devices, poller, on>>

GoOption ==
  /\ ui = "option" /\ ui' = "start"
  /\ option' = IF typed.option = <<>> THEN option ELSE typed.option
  /\ UNCHANGED <<screen, crashed, num, thread, made, run, devices, typed, posts,
                 switches, events, history>>

(* The current thread is started if it is not alive; a thread that has been  *)
(* started before would throw.                                               *)
GoStarts ==
  /\ ui = "start" /\ ui' = "idle" /\ typed' = Nothing
  /\ LET start == /\ num # 0 /\ ~Alive(thread)
                  /\ typed.option = <<>> \/ OneFigure(typed.option)
     IN  /\ crashed' = IF start /\ pc[thread] # "new" THEN "start" ELSE crashed
         /\ pc' = IF start /\ pc[thread] = "new"
                    THEN [pc EXCEPT ![thread] = "begin"] ELSE pc
  /\ UNCHANGED <<screen, shared, i, op, reg, devices, posts, switches, events,
                 history>>

(* Clear tells the thread to end, and then replaces it. Both the main thread *)
(* and the switch thread do it.                                              *)
TellEnd == i' = [i EXCEPT ![thread] = num]

Clear ==
  /\ Alive(thread)
  /\ ui' = "clear"
  /\ TellEnd
  /\ asked' = Nothing
  /\ UNCHANGED <<screen, crashed, shared, pc, op, reg, devices, typed, poller, on,
                 wrong>>

Replace ==
  /\ ui = "clear" /\ ui' = "idle"
  /\ MakeThread
  /\ UNCHANGED <<screen, crashed, num, option, run, devices, typed, posts,
                 switches, events, history>>

(* Main stops the thread where it is, or fails to: Thread.stop throws where  *)
(* the system does not support it.                                           *)
Main ==
  /\ ui' = "idle"
  /\ \/ ~Alive(thread) /\ UNCHANGED <<crashed, pc>>
     \/ /\ Alive(thread)
        /\ pc' = [pc EXCEPT ![thread] = "killed"] /\ UNCHANGED crashed
     \/ Alive(thread) /\ crashed' = "stop" /\ UNCHANGED pc
  /\ on' = FALSE /\ screen' = "left"
  /\ UNCHANGED <<shared, i, op, reg, devices, typed, poller, history>>

(* Any key ends the run and the switch thread; the back key also leaves the  *)
(* activity.                                                                 *)
Leave ==
  /\ TellEnd /\ on' = FALSE
  /\ asked' = Nothing

Key ==
  /\ ui' = "idle"
  /\ screen' \in {"open", "left"}
  /\ Leave
  /\ UNCHANGED <<crashed, shared, pc, op, reg, devices, typed, poller, wrong>>

Event == events > 0 /\ events' = events - 1

Touch ==
  /\ screen = "open" /\ ui = "idle" /\ Event
  /\ Go \/ Clear \/ Main \/ Key
  /\ UNCHANGED posts

(* A posted click on Go comes also after the activity has been left. *)
RunPosted ==
  /\ ui = "idle" /\ posts > 0 /\ posts' = posts - 1
  /\ Go
  /\ UNCHANGED events

UI == RunPosted \/ GoOption \/ GoStarts \/ Replace

-----------------------------------------------------------------------------
(* The switch thread sets its own flag, and then acts on what was pressed    *)
(* when a poll finds no switch down: on 2 and 3 it leaves the activity, on 4 *)
(* and 5 it clears, on 7 and 8 it posts a click on Go. (The other ones only  *)
(* change what is typed.)                                                    *)
PollerBegins ==
  /\ poller = "begin" /\ poller' = "test"
  /\ on' = TRUE
  /\ UNCHANGED <<screen, crashed, shared, run, devices, main, events, history>>

PollerTests ==
  /\ poller = "test" /\ poller' = IF on THEN "poll" ELSE "done"
  /\ UNCHANGED <<screen, crashed, shared, run, devices, main, on, events, history>>

PushSwitch(pressed) == poller = "poll" /\ Event /\ poller' = pressed

ChordQuit ==
  /\ PushSwitch("test")
  /\ Leave /\ screen' = "left"
  /\ UNCHANGED <<crashed, shared, pc, op, reg, devices, main, wrong>>

ChordClear ==
  /\ PushSwitch("clear")
  /\ Alive(thread) /\ TellEnd
  /\ asked' = Nothing
  /\ UNCHANGED <<screen, crashed, shared, pc, op, reg, devices, main, on, wrong>>

PollerReplaces ==
  /\ poller = "clear" /\ poller' = "test"
  /\ MakeThread
  /\ UNCHANGED <<screen, crashed, num, option, run, devices, main, on, events,
                 history>>

ChordGo ==
  /\ PushSwitch("test")
  /\ posts < Queue /\ posts' = posts + 1
  /\ UNCHANGED <<screen, crashed, shared, run, devices, ui, typed, on, history>>

(* A poll with nothing to act on; without one the thread would wait for it.  *)
PollerIdles ==
  /\ poller = "poll" /\ poller' = "test"
  /\ UNCHANGED <<screen, crashed, shared, run, devices, main, on, events, history>>

Poller == PollerBegins \/ PollerTests \/ PollerReplaces \/ PollerIdles
Chord == ChordQuit \/ ChordClear \/ ChordGo

-----------------------------------------------------------------------------
Next ==
  /\ crashed = "no"
  /\ \/ Create \/ Touch \/ UI \/ Poller \/ Chord
     \/ \E t \in Objects : Run(t)

Spec == Init /\ [][Next]_vars

(* Every thread is scheduled, and the main thread comes to what it has been  *)
(* posted.                                                                   *)
FairSpec ==
  /\ Spec
  /\ WF_vars(crashed = "no" /\ UI) /\ WF_vars(crashed = "no" /\ Poller)
  /\ \A t \in Objects : WF_vars(crashed = "no" /\ Run(t))

-----------------------------------------------------------------------------
Steps == {"begin", "test", "load", "show", "text", "sleep", "store", "step",
          "off", "blank", "renew"}

TypeOK ==
  /\ screen \in {"menu", "open", "left"} /\ crashed \in {"no", "stop", "start", "figure"}
  /\ num \in Nat /\ option \in Options \cup {<<>>}
  /\ thread \in Objects /\ made \in Objects
  /\ pc \in [Objects -> Steps \cup {"new", "done", "killed"}]
  /\ i \in [Objects -> Nat] /\ reg \in [Objects -> Nat]
  /\ op \in [Objects -> Options \cup {<<>>}]
  /\ board \in [place : 0..Places, figure : 0..Last, left : Int]
  /\ lcd \in {"blank", "lines"}
  /\ ui \in {"idle", "option", "start", "clear"}
  /\ typed \in [num : Nat, option : Options \cup {<<>>}]
  /\ posts \in 0..Queue
  /\ poller \in {"new", "begin", "test", "poll", "clear", "done"} /\ on \in BOOLEAN
  /\ events \in 0..Events
  /\ wrong \in BOOLEAN /\ asked \in [num : Nat, option : Options \cup {<<>>}]

(* Several figure threads may step the option on at a time, after Clear or   *)
(* when a run that ends has replaced the thread of the next one (line 253).  *)
(* As each works on a copy, the option keeps exactly one figure, no thread   *)
(* meets an option it cannot step on as long as every option typed was good, *)
(* and Go never starts a thread that has come to its end.                    *)
GoodInputIsSafe ==
  /\ ~wrong => crashed # "figure" /\ (option = <<>> \/ OneFigure(option))
  /\ pc[thread] # "done"

(* The devices are dark whenever no figure thread is between its first       *)
(* output and its last one: whatever threads have run at a time, were        *)
(* replaced, or missed that they were told to end, none leaves a figure or   *)
(* its text behind, unless Main has stopped it.                              *)
DarkAtRest ==
  /\ board # Dark => \E t \in Objects :
       pc[t] \in {"test", "load", "show", "text", "sleep", "store", "step", "off",
                  "killed"}
  /\ lcd # "blank" => \E t \in Objects :
       pc[t] \in (Steps \ {"begin", "renew"}) \cup {"killed"}

(* In a run that nobody disturbs the kth output is the figure k - 1 steps on *)
(* from the one typed, and what is left of the number, although each step    *)
(* edits the string that the next one starts from. (When Go reads its input  *)
(* while a run comes to its end, that may still step the new option on.)     *)
RunShowsWhatWasAsked ==
  \A t \in Objects :
    LET p == Place(asked.option)
        steps == asked.option[p] - 1 + i[t]
    IN  asked # Nothing /\ ~wrong /\ pc[t] = "sleep" =>
          board = [place |-> 1 + ((p - 1 + (steps \div Last)) % Places),
                   figure |-> 1 + (steps % Last),
                   left |-> asked.num - i[t]]

(* Every run ends: a thread that has missed that it was told to (i++ or      *)
(* i = 0 has overwritten it) still comes to the end of num, and the devices  *)
(* go dark for good.                                                         *)
RunsEnd ==
  <>[](\/ crashed # "no"
       \/ Quiet /\ ((\A t \in Objects : pc[t] # "killed") =>
                      board = Dark /\ lcd = "blank"))
=============================================================================
