-------------------------- MODULE StopwatchDriver --------------------------
(***************************************************************************)
(* The HW3 stopwatch kernel module (HW3/module/stopwatch.c) with the       *)
(* applications that open it (HW3/app/app.c), the four button interrupts,  *)
(* and its two kernel timers.                                              *)
(*                                                                         *)
(* Three kinds of context run concurrently: the applications (file         *)
(* operations), one interrupt handler at a time (the four lines share one  *)
(* GPIO interrupt group), and the timer callbacks.  Every access to the    *)
(* unprotected globals that another context may interleave with is a step  *)
(* of its own.                                                             *)
(***************************************************************************)
EXTENDS Integers, Sequences

CONSTANTS
  Apps,           \* application processes
  SecondsPerMin,  \* 60 in the code (stopwatch.c:242)
  MinPerHour,     \* 60 in the code (stopwatch.c:246)
  TickBound,      \* ticks that may come without an undisturbed round of the
                  \* write loop among them
  CountBound      \* the bound up to which the counter is followed

ASSUME SizeAssumption ==
  /\ SecondsPerMin \in Nat \ {0}
  /\ MinPerHour \in Nat \ {0}
  /\ TickBound \in Nat \ {0}
  /\ CountBound \in Nat

(* In a session a round of the write loop takes some 20 ms and a tick comes  *)
(* once a second, so many rounds fit between two ticks; the code needs no    *)
(* more than this.  Without a session there are no rounds, and no limit.     *)
ASSUME TickAssumption == TickBound <= SecondsPerMin

VARIABLES
  loaded,           \* the module is inserted
  stopwatch_usage,  \* 1 while a session holds the device
  quit_flag,        \* 1 while the write loop has to go on
  count,            \* mydata.count, in seconds
  timerPending,     \* mydata.timer is in the kernel's timer list
  quitPending,      \* quit_timer.timer is in the kernel's timer list
  blink,            \* progress of kernel_timer_blink, "idle" when not running
  blinkReg,         \* the value it loaded for count++
  quitting,         \* kernel_quit_timer is running
  irq,              \* progress of the interrupt handler being served
  nested,           \* the timer callback that interrupt suspends, or "none"
  lines,            \* buttons whose interrupt line is requested
  sw6,              \* level of the SW6 pin
  edge,             \* an edge of SW6 is latched and not yet served
  pc,               \* progress of each application
  k,                \* next interrupt line it requests or frees
  min, sec,         \* locals of its stopwatch_write
  shown,            \* <<minutes, seconds>> on the FND device, or Off
  clean,            \* no tick has disturbed its current round
  lag,              \* ticks since the last round that none disturbed
  late              \* timers armed after the release had removed them and
                    \* before an open found no tick under way

session == <<stopwatch_usage, quit_flag, lines>>
timers == <<timerPending, quitPending, blink, blinkReg, quitting>>
button == <<sw6, edge>>
apps == <<pc, k, min, sec, shown>>
time == <<clean, lag, late>>
vars == <<loaded, session, count, timers, irq, nested, button, apps, time>>

Off == <<-1, -1>>

(* The order in which the lines are requested and freed. *)
ButtonLines == <<"SW2", "SW3", "SW4", "SW6">>

Handlers == {"start.sync", "start.arm", "pause.sync", "reset.sync",
             "reset.zero", "quit.test", "quit.sync", "quit.arm"}

(* The line a handler serves. *)
LineOf(h) ==
  CASE h \in {"start.sync", "start.arm"} -> "SW2"
    [] h = "pause.sync" -> "SW3"
    [] h \in {"reset.sync", "reset.zero"} -> "SW4"
    [] OTHER -> "SW6"

Init ==
  /\ loaded = TRUE
  /\ stopwatch_usage = 0 /\ quit_flag = 1 /\ lines = {}
  /\ count = 0
  /\ timerPending = FALSE /\ quitPending = FALSE
  /\ blink = "idle" /\ blinkReg = 0 /\ quitting = FALSE
  /\ irq = "idle" /\ nested = "none"
  /\ sw6 = "up" /\ edge = FALSE
  /\ pc = [a \in Apps |-> "idle"]
  /\ k = [a \in Apps |-> 1]
  /\ min = [a \in Apps |-> 0] /\ sec = [a \in Apps |-> 0]
  /\ shown = Off
  /\ clean = [a \in Apps |-> FALSE] /\ lag = 0 /\ late = {}

-----------------------------------------------------------------------------
(* The kernel's timers.  del_timer_sync waits for a callback that is running *)
(* elsewhere and then takes the timer off the list; add_timer is a BUG on a  *)
(* timer that is already in the list: the context that calls it never comes  *)
(* back.                                                                     *)

LiveTimers ==
  {t \in {"tick", "quit"} :
     IF t = "tick" THEN timerPending \/ blink # "idle" ELSE quitPending \/ quitting}

CallbackIgnored == TRUE   \* mutant: del_timer, which does not wait

CallbackDone == blink = "idle"

NoSession == \A a \in Apps : pc[a] \in {"idle", "open"}

(* kernel_timer_blink leaves the list and loads count ... *)
BlinkFires ==
  /\ loaded
  /\ timerPending
  /\ blink = "idle"
  /\ NoSession \/ lag < TickBound
  /\ count < CountBound
  /\ timerPending' = FALSE
  /\ blink' = "store"
  /\ blinkReg' = count
  /\ lag' = IF NoSession THEN lag ELSE lag + 1
  /\ clean' = [a \in Apps |-> FALSE]
  /\ UNCHANGED <<loaded, session, count, quitPending, quitting, irq, nested,
                 button, apps, late>>

(* ... stores it incremented ... *)
BlinkStores ==
  /\ blink = "store"
  /\ nested # "blink"
  /\ count' = blinkReg + 1
  /\ blink' = "rearm"
  /\ blinkReg' = 0
  /\ UNCHANGED <<loaded, session, timerPending, quitPending, quitting, irq,
                 nested, button, apps, time>>

(* ... and arms itself for the next second. *)
BlinkRearms ==
  /\ blink = "rearm"
  /\ ~timerPending
  /\ nested # "blink"
  /\ timerPending' = TRUE
  /\ blink' = "idle"
  /\ UNCHANGED <<loaded, session, count, quitPending, blinkReg, quitting, irq,
                 nested, button, apps, time>>

QuitFires ==
  /\ loaded
  /\ quitPending
  /\ quitPending' = FALSE
  /\ quitting' = TRUE
  /\ UNCHANGED <<loaded, session, count, timerPending, blink, blinkReg, irq,
                 nested, button, apps, time>>

QuitClearsFlag ==
  /\ quitting
  /\ nested # "quit"
  /\ quitting' = FALSE
  /\ quit_flag' = 0
  /\ UNCHANGED <<loaded, stopwatch_usage, lines, count, timerPending,
                 quitPending, blink, blinkReg, irq, nested, button, apps, time>>

Timer ==
  BlinkFires \/ BlinkStores \/ BlinkRearms \/ QuitFires \/ QuitClearsFlag

-----------------------------------------------------------------------------
(* The interrupt handlers.  A button press is served at once, perhaps on the *)
(* CPU of a timer callback, which then has to wait; the two edges of SW6 are *)
(* latched in one bit until its handler starts.                              *)

EnterIrq(line, handler) ==
  /\ irq = "idle"
  /\ line \in lines
  /\ irq' = handler
  /\ \/ nested' = "none"
     \/ blink # "idle" /\ nested' = "blink"
     \/ quitting /\ nested' = "quit"

LeaveIrq == irq' = "idle" /\ nested' = "none"

Press(line, handler) ==
  /\ EnterIrq(line, handler)
  /\ UNCHANGED <<loaded, session, count, timers, button, apps, time>>

PressButton ==
  \/ Press("SW2", "start.sync")
  \/ Press("SW3", "pause.sync")
  \/ Press("SW4", "reset.sync")

MoveSw6 ==
  /\ sw6' = IF sw6 = "up" THEN "down" ELSE "up"
  /\ edge' = (edge \/ "SW6" \in lines)
  /\ UNCHANGED <<loaded, session, count, timers, irq, nested, apps, time>>

Sw6Interrupt ==
  /\ edge
  /\ EnterIrq("SW6", "quit.test")
  /\ edge' = FALSE
  /\ UNCHANGED <<loaded, session, count, timers, sw6, apps, time>>

Button == PressButton \/ MoveSw6 \/ Sw6Interrupt

(* What a handler arms while a session is closed may miss its removal.  *)
Arms(timer, removed) ==
  late' = IF \E a \in Apps : pc[a] \in removed THEN late \cup {timer} ELSE late

(* inter_handler1 (SW2): remove the timer, then arm it for one second. *)
StartSync ==
  /\ irq = "start.sync"
  /\ CallbackDone
  /\ timerPending' = FALSE
  /\ irq' = "start.arm"
  /\ UNCHANGED <<loaded, session, count, quitPending, blink, blinkReg,
                 quitting, nested, button, apps, time>>

StartArm ==
  /\ irq = "start.arm"
  /\ ~timerPending
  /\ timerPending' = TRUE
  /\ Arms("tick", {"release.quit", "free"})
  /\ LeaveIrq
  /\ UNCHANGED <<loaded, session, count, quitPending, blink, blinkReg,
                 quitting, button, apps, clean, lag>>

(* inter_handler2 (SW3): remove the timer. *)
PauseSync ==
  /\ irq = "pause.sync"
  /\ CallbackDone
  /\ timerPending' = FALSE
  /\ LeaveIrq
  /\ UNCHANGED <<loaded, session, count, quitPending, blink, blinkReg,
                 quitting, button, apps, time>>

(* inter_handler3 (SW4): remove the timer, then clear the counter. *)
ResetKeepsTimer ==   \* mutant: no del_timer_sync
  /\ irq = "reset.sync"
  /\ irq' = "reset.zero"
  /\ UNCHANGED <<loaded, session, count, timers, nested, button, apps, time>>

ResetSync ==
  /\ irq = "reset.sync"
  /\ CallbackDone
  /\ timerPending' = FALSE
  /\ irq' = "reset.zero"
  /\ UNCHANGED <<loaded, session, count, quitPending, blink, blinkReg,
                 quitting, nested, button, apps, time>>

ResetZero ==
  /\ irq = "reset.zero"
  /\ count' = 0
  /\ LeaveIrq
  /\ UNCHANGED <<loaded, session, timers, button, apps, time>>

(* inter_handler4 (SW6): the level decides whether the quit timer is removed *)
(* (released) or armed for three seconds (pressed).                          *)
QuitTest ==
  /\ irq = "quit.test"
  /\ irq' = IF sw6 = "up" THEN "quit.sync" ELSE "quit.arm"
  /\ UNCHANGED <<loaded, session, count, timers, nested, button, apps, time>>

QuitSync ==
  /\ irq = "quit.sync"
  /\ ~quitting
  /\ quitPending' = FALSE
  /\ LeaveIrq
  /\ UNCHANGED <<loaded, session, count, timerPending, blink, blinkReg,
                 quitting, button, apps, time>>

QuitArm ==
  /\ irq = "quit.arm"
  /\ ~quitPending
  /\ quitPending' = TRUE
  /\ Arms("quit", {"free"})
  /\ LeaveIrq
  /\ UNCHANGED <<loaded, session, count, timerPending, blink, blinkReg,
                 quitting, button, apps, clean, lag>>

Irq ==
  \/ StartSync \/ StartArm \/ PauseSync \/ ResetSync \/ ResetZero
  \/ QuitTest \/ QuitSync \/ QuitArm

-----------------------------------------------------------------------------
(* The file operations, called by app.c in the order open, write, close. *)

Goto(a, from, to) == pc[a] = from /\ pc' = [pc EXCEPT ![a] = to]

(* stopwatch_open: the device is taken when stopwatch_usage was read as 0. *)
OpenCheck(a) ==
  /\ loaded
  /\ stopwatch_usage = 0
  /\ Goto(a, "idle", "open")
  /\ UNCHANGED <<loaded, session, count, timers, irq, nested, button, k, min,
                 sec, shown, time>>

OpenSet(a) ==
  /\ Goto(a, "open", "request")
  /\ stopwatch_usage' = 1
  /\ quit_flag' = 1
  /\ count' = 0
  /\ lag' = 0
  /\ late' = IF blink = "idle" THEN {} ELSE late
  /\ UNCHANGED <<loaded, lines, timers, irq, nested, button, k, min, sec,
                 shown, clean>>

(* request_irq fails when the line is taken; its result is ignored. *)
RequestIrq(a) ==
  /\ pc[a] = "request"
  /\ lines' = lines \cup {ButtonLines[k[a]]}
  /\ IF k[a] < Len(ButtonLines)
     THEN k' = [k EXCEPT ![a] = @ + 1] /\ UNCHANGED pc
     ELSE k' = [k EXCEPT ![a] = 1] /\ Goto(a, "request", "write")
  /\ UNCHANGED <<loaded, stopwatch_usage, quit_flag, count, timers, irq,
                 nested, button, min, sec, shown, time>>

(* stopwatch_write: one round of the loop reads count for the minutes, reads *)
(* it again for the seconds, wraps at the hour and shows the four digits.    *)
ReadForever(a) ==   \* mutant: while (1)
  /\ Goto(a, "write", "seconds")
  /\ min' = [min EXCEPT ![a] = count \div SecondsPerMin]
  /\ clean' = [clean EXCEPT ![a] = (blink = "idle")]
  /\ UNCHANGED <<loaded, session, count, timers, irq, nested, button, k, sec,
                 shown, lag, late>>

ReadMinutes(a) ==
  /\ quit_flag = 1
  /\ Goto(a, "write", "seconds")
  /\ min' = [min EXCEPT ![a] = count \div SecondsPerMin]
  /\ clean' = [clean EXCEPT ![a] = (blink = "idle")]
  /\ UNCHANGED <<loaded, session, count, timers, irq, nested, button, k, sec,
                 shown, lag, late>>

ReadSeconds(a) ==
  /\ Goto(a, "seconds", "show")
  /\ sec' = [sec EXCEPT ![a] = count % SecondsPerMin]
  /\ UNCHANGED <<loaded, session, count, timers, irq, nested, button, k, min,
                 shown, time>>

WrapPast(a) == min[a] > MinPerHour   \* mutant: min > 60

AtHour(a) == min[a] = MinPerHour

WrapAndShow(a) ==
  /\ Goto(a, "show", "write")
  /\ IF AtHour(a)
     THEN count' = 0 /\ shown' = <<0, sec[a]>>
     ELSE UNCHANGED count /\ shown' = <<min[a], sec[a]>>
  /\ min' = [min EXCEPT ![a] = 0]
  /\ sec' = [sec EXCEPT ![a] = 0]
  /\ lag' = IF clean[a] THEN 0 ELSE lag
  /\ clean' = [clean EXCEPT ![a] = FALSE]
  /\ UNCHANGED <<loaded, session, timers, irq, nested, button, k, late>>

WriteReturns(a) ==
  /\ quit_flag = 0
  /\ Goto(a, "write", "release")
  /\ UNCHANGED <<loaded, session, count, timers, irq, nested, button, k, min,
                 sec, shown, time>>

(* stopwatch_release: give the device up, remove both timers, switch the FND *)
(* off, and only then free the lines one by one.                             *)
ReleaseUsage(a) ==
  /\ Goto(a, "release", "release.timer")
  /\ stopwatch_usage' = 0
  /\ UNCHANGED <<loaded, quit_flag, lines, count, timers, irq, nested, button,
                 k, min, sec, shown, time>>

ReleaseTimer(a) ==
  /\ CallbackDone
  /\ Goto(a, "release.timer", "release.quit")
  /\ timerPending' = FALSE
  /\ late' = late \ {"tick"}
  /\ UNCHANGED <<loaded, session, count, quitPending, blink, blinkReg,
                 quitting, irq, nested, button, k, min, sec, shown, clean, lag>>

ReleaseQuit(a) ==
  /\ ~quitting
  /\ Goto(a, "release.quit", "free")
  /\ quitPending' = FALSE
  /\ late' = late \ {"quit"}
  /\ shown' = Off
  /\ UNCHANGED <<loaded, session, count, timerPending, blink, blinkReg,
                 quitting, irq, nested, button, k, min, sec, clean, lag>>

(* free_irq waits for a handler of the line that is being served. *)
FreeIrq(a) ==
  LET line == ButtonLines[k[a]] IN
  /\ pc[a] = "free"
  /\ irq = "idle" \/ LineOf(irq) # line
  /\ lines' = lines \ {line}
  /\ edge' = (edge /\ line # "SW6")
  /\ IF k[a] < Len(ButtonLines)
     THEN k' = [k EXCEPT ![a] = @ + 1] /\ UNCHANGED pc
     ELSE k' = [k EXCEPT ![a] = 1] /\ Goto(a, "free", "idle")
  /\ UNCHANGED <<loaded, stopwatch_usage, quit_flag, count, timers, irq,
                 nested, sw6, min, sec, shown, time>>

App(a) ==
  \/ OpenCheck(a) \/ OpenSet(a) \/ RequestIrq(a)
  \/ ReadMinutes(a) \/ ReadSeconds(a) \/ WrapAndShow(a) \/ WriteReturns(a)
  \/ ReleaseUsage(a) \/ ReleaseTimer(a) \/ ReleaseQuit(a) \/ FreeIrq(a)

-----------------------------------------------------------------------------
(* stopwatch_exit runs when no file is open (fops.owner counts them) and     *)
(* leaves the timers alone; stopwatch_init finds fresh memory.  A machine    *)
(* whose timer list still points into the removed module is not modelled on. *)
Rmmod ==
  /\ loaded
  /\ \A a \in Apps : pc[a] = "idle"
  /\ loaded' = FALSE
  /\ UNCHANGED <<session, count, timers, irq, nested, button, apps, time>>

Insmod ==
  /\ ~loaded
  /\ ~timerPending /\ ~quitPending /\ blink = "idle" /\ ~quitting
  /\ loaded' = TRUE
  /\ stopwatch_usage' = 0 /\ quit_flag' = 1 /\ count' = 0 /\ lag' = 0
  /\ UNCHANGED <<lines, timers, irq, nested, button, apps, clean, late>>

Module == Rmmod \/ Insmod

Next ==
  \/ Timer
  \/ Button
  \/ Irq
  \/ Module
  \/ \E a \in Apps : App(a)

Spec == Init /\ [][Next]_vars

(* The kernel runs expired timers to their end; del_timer_sync looks again   *)
(* and again while a callback runs once a second, so a handler does not miss *)
(* every moment between two of them; a latched edge is served although other *)
(* buttons compete for the handler; and an application that entered the      *)
(* driver is scheduled until it leaves.                                      *)
Fairness ==
  /\ WF_vars(BlinkStores \/ BlinkRearms) /\ WF_vars(QuitFires \/ QuitClearsFlag)
  /\ SF_vars(Irq) /\ SF_vars(Sw6Interrupt)
  /\ \A a \in Apps : WF_vars(App(a) /\ pc[a] # "idle")

FairSpec == Spec /\ Fairness

-----------------------------------------------------------------------------
DeviceTypes ==
  /\ loaded \in BOOLEAN
  /\ stopwatch_usage \in {0, 1} /\ quit_flag \in {0, 1}
  /\ lines \subseteq {"SW2", "SW3", "SW4", "SW6"}
  /\ sw6 \in {"up", "down"} /\ edge \in BOOLEAN

TimerTypes ==
  /\ timerPending \in BOOLEAN /\ quitPending \in BOOLEAN
  /\ blink \in {"idle", "store", "rearm"}
  /\ quitting \in BOOLEAN

CounterTypes == count \in Nat /\ blinkReg \in Nat /\ lag \in 0..TickBound

IrqTypes ==
  /\ irq \in Handlers \cup {"idle"}
  /\ nested \in {"none", "blink", "quit"}

AppTypes ==
  /\ pc \in [Apps -> {"idle", "open", "request", "write", "seconds", "show",
                      "release", "release.timer", "release.quit", "free"}]
  /\ k \in [Apps -> 1..Len(ButtonLines)]
  /\ min \in [Apps -> Nat]
  /\ sec \in [Apps -> 0..SecondsPerMin - 1]
  /\ shown \in Int \X Int
  /\ clean \in [Apps -> BOOLEAN]
  /\ late \subseteq {"tick", "quit"}

TypeOK ==
  DeviceTypes /\ TimerTypes /\ CounterTypes /\ IrqTypes /\ AppTypes

(* The tick timer has one owner at a time: the kernel's list, the running    *)
(* callback, or the handler that has just removed it.  Inductive, and what   *)
(* del_timer_sync buys over del_timer.                                       *)
TickTimerOwned ==
  /\ timerPending => blink = "idle"
  /\ irq \in {"start.arm", "reset.zero"} => ~timerPending /\ blink = "idle"

(* The tick timer is never added to the kernel's list twice, although the    *)
(* SW2 handler (line 100) and the callback itself (line 79) both add it:     *)
(* add_timer halts the kernel on a timer that is pending.                    *)
TickTimerArmedOnce ==
  timerPending => irq # "start.arm" /\ blink # "rearm"

(* A finished reset (SW4) stays finished: no callback that had already       *)
(* loaded the old count is left over to store it back or to re-arm the timer *)
(* after the handler has cleared the counter (lines 120-121).                *)
ResetIsFinal ==
  [][irq = "reset.zero" /\ irq' = "idle"
     => count' = 0 /\ ~timerPending' /\ blink' = "idle"]_vars

Writing(a) == pc[a] \in {"write", "seconds", "show"}

(* The write loop tests for the full hour with == (line 246) although the    *)
(* counter may move several seconds between two rounds, and a tick that      *)
(* races with the wrap undoes it; still no minute beyond 59 reaches the FND, *)
(* unless a timer that outlived the session before was counting just when    *)
(* open cleared the counter: it brings back a count of any size.             *)
DisplayedTimeValid ==
  (\E a \in Apps : Writing(a)) /\ shown # Off /\ "tick" \notin late
    => shown[1] < MinPerHour

(* A timer is left after the session, pending or its callback under way,     *)
(* only if a handler armed it after stopwatch_release had removed it (lines  *)
(* 179-180) and before its line was freed.                                   *)
OnlyLateTimersSurvive ==
  (\A a \in Apps : pc[a] = "idle") => LiveTimers \subseteq late

(* Holding SW6 in a session ends it (lines 126-139): the loop of             *)
(* stopwatch_write is left.  The press has to find no quit timer armed       *)
(* before and no SW6 handler under way, or line 137 may add a timer that is  *)
(* pending, which halts the kernel; and no interrupt may suspend a callback, *)
(* or its handler may wait forever (NoHandlerWaitsForItsOwnCpu).             *)
HeldButtonEndsSession ==
  [](nested = "none") =>
    ( /\ edge /\ sw6 = "down"
      /\ ~quitPending /\ irq \notin {"quit.test", "quit.sync", "quit.arm"} )
    ~> (sw6 = "up" \/ \A a \in Apps : ~Writing(a))

(* The mapping to the abstract stopwatch: it runs while its timer is pending *)
(* or owned by a context that will arm it, and a count that the callback has *)
(* loaded is still the count until it is stored.                             *)
Implements == INSTANCE Stopwatch WITH
  Hour <- SecondsPerMin * MinPerHour,
  Slack <- TickBound,
  session <- stopwatch_usage = 1,
  running <- timerPending \/ blink # "idle" \/ irq = "start.arm",
  count <- IF blink = "store" THEN blinkReg ELSE count

(* Every run of the driver with one application is a run of the abstract     *)
(* stopwatch: seconds are counted one by one and only while it runs, and the *)
(* counter goes back only at a reset, a new session or the full hour.        *)
ImplementsStopwatch == Implements!Spec

-----------------------------------------------------------------------------
(* What comments and notes of the repository say of the driver.              *)

(* Line 178, "remove timers": neither timer outlives the session.            *)
TimersRemoved == (\A a \in Apps : pc[a] = "idle") => LiveTimers = {}

(* The device does not freeze: a handler never waits for a callback that its *)
(* own interrupt has suspended.                                              *)
NoHandlerWaitsForItsOwnCpu ==
  /\ ~(nested = "blink" /\ irq \in {"start.sync", "pause.sync", "reset.sync"})
  /\ ~(nested = "quit" /\ irq = "quit.sync")
=============================================================================
