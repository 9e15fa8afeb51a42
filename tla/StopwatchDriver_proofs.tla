----------------------- MODULE StopwatchDriver_proofs -----------------------
(***************************************************************************)
(* Safety of the HW3 stopwatch driver for any number of applications and   *)
(* any sizes; and for one application that it implements the abstract      *)
(* stopwatch, that no timer outlives the session but one that a handler    *)
(* armed too late, and that the display shows no minute beyond 59.         *)
(***************************************************************************)
EXTENDS StopwatchDriver, TLAPS

LEMMA ButtonLinesType ==
  /\ Len(ButtonLines) = 4
  /\ \A i \in 1..4 : ButtonLines[i] \in {"SW2", "SW3", "SW4", "SW6"}
BY DEF ButtonLines

-----------------------------------------------------------------------------
(* Type correctness, one kind of variable at a time. *)

LEMMA DeviceTyped == ASSUME TypeOK, [Next]_vars PROVE DeviceTypes'
<1> USE DEF TypeOK, DeviceTypes, session, timers, button, apps, time
<1>1. CASE Timer
  BY Zenon, <1>1 DEF Timer, BlinkFires, BlinkStores, BlinkRearms, QuitFires,
              QuitClearsFlag
<1>2. CASE Button
  BY Zenon, <1>2 DEF Button, PressButton, Press, EnterIrq, MoveSw6, Sw6Interrupt
<1>3. CASE Irq
  BY Zenon, <1>3 DEF Irq, StartSync, StartArm, PauseSync, ResetSync, ResetZero,
              QuitTest, QuitSync, QuitArm
<1>4. CASE Module
  BY Zenon, <1>4 DEF Module, Rmmod, Insmod
<1>5. ASSUME NEW a \in Apps, App(a) PROVE DeviceTypes'
  BY Zenon, <1>5, ButtonLinesType
     DEF AppTypes, App, OpenCheck, OpenSet, RequestIrq, ReadMinutes,
         ReadSeconds, WrapAndShow, WriteReturns, ReleaseUsage, ReleaseTimer,
         ReleaseQuit, FreeIrq
<1>6. CASE UNCHANGED vars
  BY <1>6 DEF vars
<1>7. QED
  BY <1>1, <1>2, <1>3, <1>4, <1>5, <1>6 DEF Next

LEMMA TimerTyped == ASSUME TypeOK, [Next]_vars PROVE TimerTypes'
<1> USE DEF TypeOK, TimerTypes, session, timers, button, apps, time
<1>1. CASE Timer
  BY Zenon, <1>1 DEF Timer, BlinkFires, BlinkStores, BlinkRearms, QuitFires,
              QuitClearsFlag
<1>2. CASE Button
  BY <1>2 DEF Button, PressButton, Press, MoveSw6, Sw6Interrupt
<1>3. CASE Irq
  BY Zenon, <1>3 DEF Irq, StartSync, StartArm, PauseSync, ResetSync, ResetZero,
              QuitTest, QuitSync, QuitArm
<1>4. CASE Module
  BY <1>4 DEF Module, Rmmod, Insmod
<1>5. ASSUME NEW a \in Apps, App(a) PROVE TimerTypes'
  BY Zenon, <1>5 DEF App, OpenCheck, OpenSet, RequestIrq, ReadMinutes, ReadSeconds,
              WrapAndShow, WriteReturns, ReleaseUsage, ReleaseTimer,
              ReleaseQuit, FreeIrq
<1>6. CASE UNCHANGED vars
  BY <1>6 DEF vars
<1>7. QED
  BY <1>1, <1>2, <1>3, <1>4, <1>5, <1>6 DEF Next

LEMMA CounterTyped == ASSUME TypeOK, [Next]_vars PROVE CounterTypes'
<1> USE SizeAssumption
    DEF TypeOK, CounterTypes, session, timers, button, apps, time
<1>1. CASE Timer
  BY <1>1 DEF Timer, BlinkFires, BlinkStores, BlinkRearms, QuitFires,
              QuitClearsFlag
<1>2. CASE Button
  BY <1>2 DEF Button, PressButton, Press, MoveSw6, Sw6Interrupt
<1>3. CASE Irq
  BY <1>3 DEF Irq, StartSync, StartArm, PauseSync, ResetSync, ResetZero,
              QuitTest, QuitSync, QuitArm
<1>4. CASE Module
  BY <1>4 DEF Module, Rmmod, Insmod
<1>5. ASSUME NEW a \in Apps, App(a) PROVE CounterTypes'
  BY <1>5 DEF App, OpenCheck, OpenSet, RequestIrq, ReadMinutes, ReadSeconds,
              WrapAndShow, WriteReturns, ReleaseUsage, ReleaseTimer,
              ReleaseQuit, FreeIrq
<1>6. CASE UNCHANGED vars
  BY <1>6 DEF vars
<1>7. QED
  BY <1>1, <1>2, <1>3, <1>4, <1>5, <1>6 DEF Next

LEMMA IrqTyped == ASSUME TypeOK, [Next]_vars PROVE IrqTypes'
<1> USE DEF TypeOK, IrqTypes, Handlers, session, timers, button, apps, time
<1>1. CASE Timer
  BY <1>1 DEF Timer, BlinkFires, BlinkStores, BlinkRearms, QuitFires,
              QuitClearsFlag
<1>2. CASE Button
  BY <1>2 DEF Button, PressButton, Press, EnterIrq, MoveSw6, Sw6Interrupt
<1>3. CASE Irq
  BY <1>3 DEF Irq, StartSync, StartArm, PauseSync, ResetSync, ResetZero,
              QuitTest, QuitSync, QuitArm, LeaveIrq
<1>4. CASE Module
  BY <1>4 DEF Module, Rmmod, Insmod
<1>5. ASSUME NEW a \in Apps, App(a) PROVE IrqTypes'
  BY <1>5 DEF App, OpenCheck, OpenSet, RequestIrq, ReadMinutes, ReadSeconds,
              WrapAndShow, WriteReturns, ReleaseUsage, ReleaseTimer,
              ReleaseQuit, FreeIrq
<1>6. CASE UNCHANGED vars
  BY <1>6 DEF vars
<1>7. QED
  BY <1>1, <1>2, <1>3, <1>4, <1>5, <1>6 DEF Next

LEMMA AppTyped == ASSUME TypeOK, [Next]_vars PROVE AppTypes'
<1> USE DEF TypeOK, AppTypes, session, timers, button, apps, time
<1>1. CASE Timer
  BY Zenon, <1>1 DEF Timer, BlinkFires, BlinkStores, BlinkRearms, QuitFires,
              QuitClearsFlag
<1>2. CASE Button
  BY <1>2 DEF Button, PressButton, Press, MoveSw6, Sw6Interrupt
<1>3. CASE Irq
  BY <1>3 DEF Irq, StartSync, StartArm, PauseSync, ResetSync, ResetZero,
              QuitTest, QuitSync, QuitArm, Arms
<1>4. CASE Module
  BY <1>4 DEF Module, Rmmod, Insmod
<1>5. ASSUME NEW a \in Apps, App(a) PROVE AppTypes'
  <2> USE ButtonLinesType DEF Goto
  <2>1. CASE OpenCheck(a)
    BY <2>1 DEF OpenCheck
  <2>2. CASE OpenSet(a)
    <3>1. late' \subseteq {"tick", "quit"}
      BY <2>2 DEF OpenSet
    <3>2. QED
      BY <2>2, <3>1 DEF OpenSet
  <2>3. CASE RequestIrq(a)
    BY <2>3 DEF RequestIrq
  <2>4. CASE ReadMinutes(a)
    BY <2>4, SizeAssumption DEF ReadMinutes, CounterTypes
  <2>5. CASE ReadSeconds(a)
    BY <2>5, SizeAssumption DEF ReadSeconds, CounterTypes
  <2>6. CASE WrapAndShow(a)
    BY <2>6, SizeAssumption DEF WrapAndShow
  <2>7. CASE WriteReturns(a) \/ ReleaseUsage(a) \/ ReleaseTimer(a)
    BY <2>7 DEF WriteReturns, ReleaseUsage, ReleaseTimer
  <2>8. CASE ReleaseQuit(a)
    <3>1. late' \subseteq {"tick", "quit"} /\ shown' \in Int \X Int
      BY <2>8 DEF ReleaseQuit, Off
    <3>2. QED
      BY <2>8, <3>1 DEF ReleaseQuit
  <2>9. CASE FreeIrq(a)
    BY <2>9 DEF FreeIrq
  <2>10. QED
    BY <1>5, <2>1, <2>2, <2>3, <2>4, <2>5, <2>6, <2>7, <2>8, <2>9 DEF App
<1>6. CASE UNCHANGED vars
  BY <1>6 DEF vars
<1>7. QED
  BY <1>1, <1>2, <1>3, <1>4, <1>5, <1>6 DEF Next

LEMMA InitTyped == Init => TypeOK
<1> SUFFICES ASSUME Init PROVE TypeOK
  OBVIOUS
<1>1. DeviceTypes
  BY Zenon DEF Init, DeviceTypes
<1>2. TimerTypes
  BY Zenon DEF Init, TimerTypes
<1>3. CounterTypes /\ IrqTypes
  BY SizeAssumption DEF Init, CounterTypes, IrqTypes
<1>4. AppTypes
  BY SizeAssumption, ButtonLinesType DEF Init, AppTypes, Off
<1>5. QED
  BY <1>1, <1>2, <1>3, <1>4 DEF TypeOK

(* Every variable keeps its type, whatever the applications, the buttons and *)
(* the timers do.                                                            *)
THEOREM TypeCorrect == Spec => []TypeOK
<1>1. TypeOK /\ [Next]_vars => TypeOK'
  BY DeviceTyped, TimerTyped, CounterTyped, IrqTyped, AppTyped DEF TypeOK
<1>2. QED
  BY InitTyped, <1>1, PTL DEF Spec
-----------------------------------------------------------------------------
(* The ownership of the tick timer, and what follows from it. *)

LEMMA OwnedStep ==
  ASSUME TickTimerOwned, TypeOK, [Next]_vars PROVE TickTimerOwned'
<1> USE DEF TickTimerOwned, session, timers, button, apps, time
<1>1. CASE Timer
  BY <1>1 DEF Timer, BlinkFires, BlinkStores, BlinkRearms, QuitFires,
              QuitClearsFlag
<1>2. CASE Button
  BY <1>2 DEF Button, PressButton, Press, EnterIrq, MoveSw6, Sw6Interrupt
<1>3. CASE Irq
  BY <1>3 DEF Irq, StartSync, StartArm, PauseSync, ResetSync, ResetZero,
              QuitTest, QuitSync, QuitArm, LeaveIrq, CallbackDone
<1>4. CASE Module
  BY <1>4 DEF Module, Rmmod, Insmod
<1>5. ASSUME NEW a \in Apps, App(a) PROVE TickTimerOwned'
  BY <1>5 DEF App, OpenCheck, OpenSet, RequestIrq, ReadMinutes, ReadSeconds,
              WrapAndShow, WriteReturns, ReleaseUsage, ReleaseTimer,
              ReleaseQuit, FreeIrq
<1>6. CASE UNCHANGED vars
  BY <1>6 DEF vars
<1>7. QED
  BY <1>1, <1>2, <1>3, <1>4, <1>5, <1>6 DEF Next

LEMMA Owned == Spec => []TickTimerOwned
<1>1. Init => TickTimerOwned
  BY DEF Init, TickTimerOwned
<1>2. TickTimerOwned /\ TypeOK /\ [Next]_vars => TickTimerOwned'
  BY OwnedStep
<1>3. QED
  BY <1>1, <1>2, TypeCorrect, PTL DEF Spec

(* add_timer is never called on the pending tick timer: lines 79 and 100     *)
(* cannot halt the kernel, however many applications race in open and        *)
(* release and whenever SW2 is pressed.                                      *)
THEOREM ArmedOnce == Spec => []TickTimerArmedOnce
<1>1. TickTimerOwned => TickTimerArmedOnce
  BY DEF TickTimerOwned, TickTimerArmedOnce
<1>2. QED
  BY <1>1, Owned, PTL

(* When the SW4 handler returns, the counter is zero and nothing is left     *)
(* that could advance it before SW2 is pressed again.                        *)
THEOREM ResetFinal == Spec => ResetIsFinal
<1>1. TickTimerOwned /\ [Next]_vars =>
        [irq = "reset.zero" /\ irq' = "idle"
         => count' = 0 /\ ~timerPending' /\ blink' = "idle"]_vars
  <2> SUFFICES ASSUME TickTimerOwned, [Next]_vars,
                      irq = "reset.zero", irq' = "idle"
               PROVE count' = 0 /\ ~timerPending' /\ blink' = "idle"
    OBVIOUS
  <2> USE DEF session, timers, button, apps, time
  <2>1. ~Timer
    BY DEF Timer, BlinkFires, BlinkStores, BlinkRearms, QuitFires,
           QuitClearsFlag
  <2>2. ~Button
    BY DEF Button, PressButton, Press, EnterIrq, MoveSw6, Sw6Interrupt
  <2>3. ~Module
    BY DEF Module, Rmmod, Insmod
  <2>4. ASSUME NEW a \in Apps PROVE ~App(a)
    BY DEF App, OpenCheck, OpenSet, RequestIrq, ReadMinutes, ReadSeconds,
           WrapAndShow, WriteReturns, ReleaseUsage, ReleaseTimer,
           ReleaseQuit, FreeIrq
  <2>5. CASE Irq
    BY <2>5 DEF Irq, StartSync, StartArm, PauseSync, ResetSync, ResetZero,
                QuitTest, QuitSync, QuitArm, TickTimerOwned
  <2>6. CASE UNCHANGED vars
    BY <2>6 DEF vars
  <2>7. QED
    BY <2>1, <2>2, <2>3, <2>4, <2>5, <2>6 DEF Next
<1>2. QED
  BY <1>1, Owned, PTL DEF Spec, ResetIsFinal
-----------------------------------------------------------------------------
(* One application at a time: what its session has requested, and that no    *)
(* handler outlives its line.                                                *)

Holding(a) == pc[a] \in {"request", "write", "seconds", "show", "release"}

SessionInv(a) ==
  /\ pc[a] \notin {"request", "free"} => k[a] = 1
  /\ pc[a] \in {"idle", "open"} => lines = {}
  /\ pc[a] = "free" => \A l \in lines : \E i \in k[a]..4 : l = ButtonLines[i]
  /\ irq # "idle" => LineOf(irq) \in lines
  /\ ~loaded => pc[a] = "idle"
  /\ stopwatch_usage = 1 <=> Holding(a)

LEMMA SessionStep ==
  ASSUME NEW a \in Apps, Apps = {a}, TypeOK, SessionInv(a), [Next]_vars
  PROVE  SessionInv(a)'
<1> USE DEF SessionInv, Holding, session, timers, button, apps, time
<1>1. CASE Timer
  BY <1>1 DEF Timer, BlinkFires, BlinkStores, BlinkRearms, QuitFires,
              QuitClearsFlag
<1>2. CASE Button
  <2>1. CASE MoveSw6
    BY <2>1 DEF MoveSw6
  <2>2. CASE Sw6Interrupt
    BY <2>2 DEF Sw6Interrupt, EnterIrq, LineOf
  <2>3. CASE PressButton
    BY <2>3 DEF PressButton, Press, EnterIrq, LineOf
  <2>4. QED
    BY <1>2, <2>1, <2>2, <2>3 DEF Button
<1>3. CASE Irq
  BY <1>3 DEF Irq, StartSync, StartArm, PauseSync, ResetSync, ResetZero,
              QuitTest, QuitSync, QuitArm, LeaveIrq, LineOf
<1>4. CASE Module
  BY <1>4 DEF Module, Rmmod, Insmod
<1>5. CASE App(a)
  <2> USE DEF Goto, TypeOK, AppTypes, DeviceTypes
  <2>1. CASE OpenCheck(a) \/ OpenSet(a)
    BY Zenon, <2>1 DEF OpenCheck, OpenSet
  <2>2. CASE RequestIrq(a)
    BY <2>2, ButtonLinesType DEF RequestIrq
  <2>3. CASE ReadMinutes(a) \/ ReadSeconds(a) \/ WrapAndShow(a)
    BY <2>3 DEF ReadMinutes, ReadSeconds, WrapAndShow
  <2>4. CASE WriteReturns(a) \/ ReleaseUsage(a) \/ ReleaseTimer(a)
    BY <2>4 DEF WriteReturns, ReleaseUsage, ReleaseTimer
  <2>5. CASE ReleaseQuit(a)
    <3>1. \A l \in lines : \E i \in 1..4 : l = ButtonLines[i]
      BY DEF ButtonLines
    <3>2. QED
      BY <2>5, <3>1 DEF ReleaseQuit
  <2>6. CASE FreeIrq(a)
    <3> USE <2>6, ButtonLinesType DEF FreeIrq
    <3>1. irq' = irq /\ (irq # "idle" => LineOf(irq) \in lines')
      OBVIOUS
    <3>2. ASSUME NEW l \in lines' PROVE \E i \in k[a] + 1..4 : l = ButtonLines[i]
      <4>1. PICK i \in k[a]..4 : l = ButtonLines[i]
        BY <3>2
      <4>2. i # k[a]
        BY <3>2, <4>1
      <4>3. QED
        BY <4>1, <4>2
    <3>3. CASE k[a] < 4
      <4>1. pc'[a] = "free" /\ k'[a] = k[a] + 1
        BY <3>3
      <4>2. QED
        BY <3>1, <3>2, <4>1
    <3>4. CASE k[a] = 4
      <4>1. pc'[a] = "idle" /\ k'[a] = 1
        BY <3>4
      <4>2. lines' = {}
        <5>1. ASSUME NEW l \in lines' PROVE FALSE
          <6>1. PICK i \in k[a] + 1..4 : l = ButtonLines[i]
            BY <3>2, <5>1
          <6>2. QED
            BY <6>1, <3>4
        <5>2. QED
          BY Zenon, <5>1
      <4>3. QED
        BY Zenon, <3>1, <4>1, <4>2
    <3>5. QED
      BY <3>3, <3>4
  <2>7. QED
    BY <1>5, <2>1, <2>2, <2>3, <2>4, <2>5, <2>6 DEF App
<1>6. CASE UNCHANGED vars
  BY <1>6 DEF vars
<1>7. QED
  BY <1>1, <1>2, <1>3, <1>4, <1>5, <1>6 DEF Next
-----------------------------------------------------------------------------
(* One session at a time: only a timer that is armed late outlives it, and   *)
(* the comparison of line 246 catches every full hour.                       *)

Hour == SecondsPerMin * MinPerHour

(* Once release has removed a timer, only a handler that is late arms it.    *)
StoppedInv(a) ==
  /\ pc[a] \in {"idle", "open", "release.quit", "free"} /\ "tick" \notin late =>
       ~timerPending /\ blink = "idle"
  /\ pc[a] \in {"idle", "open", "free"} /\ "quit" \notin late =>
       ~quitPending /\ ~quitting

(* In a session, each tick since the last undisturbed round of the write     *)
(* loop has carried the counter at most one second past the last second of   *)
(* the hour, if the session did not open on top of a late timer's tick.      *)
CountInv(a) ==
  pc[a] \notin {"idle", "open", "release.quit", "free"} /\ "tick" \notin late =>
    /\ count <= Hour - 1 + lag
    /\ blink = "store" => blinkReg + 1 <= Hour - 1 + lag

(* A round that is going to show a full hour has seen it; one that no tick   *)
(* has disturbed and that sees none leaves the counter below the hour.       *)
RoundInv(a) ==
  pc[a] \in {"seconds", "show"} /\ "tick" \notin late =>
    /\ min[a] <= MinPerHour
    /\ clean[a] => /\ blink = "idle"
                   /\ min[a] # MinPerHour => count <= Hour - 1

(* A session starts with the display off. *)
OffInv(a) == pc[a] \in {"idle", "open", "request", "free"} => shown = Off

OneSessionInv(a) == CountInv(a) /\ RoundInv(a) /\ OffInv(a) /\ DisplayedTimeValid

LEMMA ProductMonotonic ==
  ASSUME NEW n \in Nat \ {0}, NEW p \in Int, NEW q \in Int, p <= q
  PROVE  n * p <= n * q
OBVIOUS

(* A counter that overshoots the hour by no more than a minute still has the *)
(* full hour as its minutes, and has less only within the hour.              *)
LEMMA MinutesOf ==
  ASSUME NEW c \in Nat, NEW d \in 0..SecondsPerMin, c <= Hour - 1 + d
  PROVE  /\ c \div SecondsPerMin \in Nat
         /\ c \div SecondsPerMin <= MinPerHour
         /\ c \div SecondsPerMin # MinPerHour => c <= Hour - 1
<1> USE SizeAssumption
<1> DEFINE m == c \div SecondsPerMin
<1>1. m \in Nat /\ SecondsPerMin * m <= c /\ c < SecondsPerMin * m + SecondsPerMin
  OBVIOUS
<1> HIDE DEF m
<1>2. m <= MinPerHour
  <2>1. ASSUME m > MinPerHour PROVE FALSE
    <3>1. SecondsPerMin * (MinPerHour + 1) <= SecondsPerMin * m
      BY <1>1, <2>1, ProductMonotonic
    <3>2. QED
      BY <1>1, <3>1 DEF Hour
  <2>2. QED
    BY <1>1, <2>1
<1>3. ASSUME m # MinPerHour PROVE c <= Hour - 1
  <2>1. SecondsPerMin * (m + 1) <= SecondsPerMin * MinPerHour
    BY <1>1, <1>2, <1>3, ProductMonotonic
  <2>2. QED
    BY <1>1, <2>1 DEF Hour
<1>4. QED
  BY <1>1, <1>2, <1>3 DEF m

LEMMA HourType == Hour \in Nat \ {0}
<1>1. SecondsPerMin * 1 <= SecondsPerMin * MinPerHour
  BY SizeAssumption, ProductMonotonic
<1>2. QED
  BY <1>1, SizeAssumption DEF Hour

LEMMA StoppedStep ==
  ASSUME NEW a \in Apps, Apps = {a}, TypeOK, SessionInv(a), StoppedInv(a),
         [Next]_vars
  PROVE  StoppedInv(a)'
<1> USE DEF StoppedInv, session, timers, button, apps, time
<1>1. CASE Timer
  BY <1>1 DEF Timer, BlinkFires, BlinkStores, BlinkRearms, QuitFires,
              QuitClearsFlag
<1>2. CASE Button
  BY <1>2 DEF Button, PressButton, Press, EnterIrq, MoveSw6, Sw6Interrupt
<1>3. CASE Irq
  <2>1. pc[a] \notin {"idle", "open"}
    BY <1>3 DEF Irq, StartSync, StartArm, PauseSync, ResetSync, ResetZero,
                QuitTest, QuitSync, QuitArm, SessionInv
  <2>2. CASE StartArm
    BY <2>1, <2>2 DEF StartArm, Arms
  <2>3. CASE QuitArm
    BY <2>1, <2>3 DEF QuitArm, Arms
  <2>4. CASE StartSync \/ PauseSync \/ ResetSync \/ ResetZero \/ QuitTest \/ QuitSync
    BY <2>4 DEF StartSync, PauseSync, ResetSync, ResetZero, QuitTest, QuitSync
  <2>5. QED
    BY <1>3, <2>2, <2>3, <2>4 DEF Irq
<1>4. CASE Module
  BY <1>4 DEF Module, Rmmod, Insmod
<1>5. CASE App(a)
  <2> USE DEF Goto, TypeOK, AppTypes, DeviceTypes
  <2>1. CASE OpenCheck(a) \/ OpenSet(a) \/ RequestIrq(a)
    BY <2>1 DEF OpenCheck, OpenSet, RequestIrq
  <2>2. CASE ReadMinutes(a) \/ ReadSeconds(a) \/ WrapAndShow(a)
    BY <2>2 DEF ReadMinutes, ReadSeconds, WrapAndShow
  <2>3. CASE WriteReturns(a) \/ ReleaseUsage(a)
    BY <2>3 DEF WriteReturns, ReleaseUsage
  <2>4. CASE ReleaseTimer(a)
    BY <2>4 DEF ReleaseTimer, CallbackDone
  <2>5. CASE ReleaseQuit(a)
    BY <2>5 DEF ReleaseQuit
  <2>6. CASE FreeIrq(a)
    BY <2>6 DEF FreeIrq
  <2>7. QED
    BY <1>5, <2>1, <2>2, <2>3, <2>4, <2>5, <2>6 DEF App
<1>6. CASE UNCHANGED vars
  BY <1>6 DEF vars
<1>7. QED
  BY <1>1, <1>2, <1>3, <1>4, <1>5, <1>6 DEF Next

LEMMA CountStep ==
  ASSUME NEW a \in Apps, Apps = {a}, TypeOK, StoppedInv(a), CountInv(a),
         RoundInv(a), [Next]_vars
  PROVE  CountInv(a)'
<1> USE HourType DEF CountInv, session, timers, button, apps, time
<1>1. CASE Timer
  BY <1>1 DEF Timer, BlinkFires, BlinkStores, BlinkRearms, QuitFires,
              QuitClearsFlag, NoSession, TypeOK, CounterTypes
<1>2. CASE Button
  BY <1>2 DEF Button, PressButton, Press, MoveSw6, Sw6Interrupt
<1>3. CASE Irq
  BY <1>3 DEF Irq, StartSync, StartArm, PauseSync, ResetSync, ResetZero,
              QuitTest, QuitSync, QuitArm, Arms, TypeOK, CounterTypes
<1>4. CASE Module
  BY <1>4 DEF Module, Rmmod, Insmod
<1>5. CASE App(a)
  <2> USE DEF Goto, TypeOK, AppTypes, CounterTypes
  <2>1. CASE OpenCheck(a)
    BY <2>1 DEF OpenCheck
  <2>2. CASE OpenSet(a)
    BY <2>2 DEF OpenSet, StoppedInv
  <2>3. CASE RequestIrq(a)
    BY <2>3 DEF RequestIrq
  <2>4. CASE ReadMinutes(a) \/ ReadSeconds(a)
    BY <2>4 DEF ReadMinutes, ReadSeconds
  <2>5. CASE WrapAndShow(a)
    BY <2>5 DEF WrapAndShow, AtHour, RoundInv
  <2>6. CASE WriteReturns(a) \/ ReleaseUsage(a) \/ ReleaseTimer(a)
    BY <2>6 DEF WriteReturns, ReleaseUsage, ReleaseTimer
  <2>7. CASE ReleaseQuit(a) \/ FreeIrq(a)
    BY <2>7 DEF ReleaseQuit, FreeIrq
  <2>8. QED
    BY <1>5, <2>1, <2>2, <2>3, <2>4, <2>5, <2>6, <2>7 DEF App
<1>6. CASE UNCHANGED vars
  BY <1>6 DEF vars
<1>7. QED
  BY <1>1, <1>2, <1>3, <1>4, <1>5, <1>6 DEF Next

LEMMA RoundStep ==
  ASSUME NEW a \in Apps, Apps = {a}, TypeOK, CountInv(a), RoundInv(a),
         OffInv(a), DisplayedTimeValid, [Next]_vars
  PROVE  RoundInv(a)' /\ OffInv(a)' /\ DisplayedTimeValid'
<1> USE HourType
    DEF RoundInv, OffInv, Writing, DisplayedTimeValid, session, timers, button, apps, time
<1>1. CASE Timer
  BY <1>1 DEF Timer, BlinkFires, BlinkStores, BlinkRearms, QuitFires,
              QuitClearsFlag
<1>2. CASE Button
  BY <1>2 DEF Button, PressButton, Press, MoveSw6, Sw6Interrupt
<1>3. CASE Irq
  BY <1>3 DEF Irq, StartSync, StartArm, PauseSync, ResetSync, ResetZero,
              QuitTest, QuitSync, QuitArm, Arms
<1>4. CASE Module
  BY <1>4 DEF Module, Rmmod, Insmod
<1>5. CASE App(a)
  <2> USE DEF Goto, TypeOK, AppTypes, CounterTypes
  <2>1. CASE OpenCheck(a) \/ OpenSet(a) \/ RequestIrq(a)
    BY <2>1 DEF OpenCheck, OpenSet, RequestIrq
  <2>2. CASE ReadMinutes(a)
    <3>1. "tick" \notin late => count <= Hour - 1 + lag /\ lag \in 0..SecondsPerMin
      BY <2>2, SizeAssumption, TickAssumption DEF ReadMinutes, CountInv
    <3>2. QED
      BY Zenon, <2>2, <3>1, MinutesOf DEF ReadMinutes
  <2>3. CASE ReadSeconds(a)
    BY <2>3 DEF ReadSeconds
  <2>4. CASE WrapAndShow(a)
    BY <2>4, SizeAssumption DEF WrapAndShow, AtHour
  <2>5. CASE WriteReturns(a) \/ ReleaseUsage(a) \/ ReleaseTimer(a)
    BY <2>5 DEF WriteReturns, ReleaseUsage, ReleaseTimer
  <2>6. CASE ReleaseQuit(a) \/ FreeIrq(a)
    BY <2>6 DEF ReleaseQuit, FreeIrq
  <2>7. QED
    BY <1>5, <2>1, <2>2, <2>3, <2>4, <2>5, <2>6 DEF App
<1>6. CASE UNCHANGED vars
  BY <1>6 DEF vars
<1>7. QED
  BY <1>1, <1>2, <1>3, <1>4, <1>5, <1>6 DEF Next

LEMMA Stops ==
  ASSUME NEW a \in Apps, Apps = {a}
  PROVE  Spec => [](SessionInv(a) /\ StoppedInv(a))
<1>1. Init => SessionInv(a) /\ StoppedInv(a)
  BY DEF Init, SessionInv, Holding, StoppedInv
<1>2. TypeOK /\ SessionInv(a) /\ StoppedInv(a) /\ [Next]_vars
        => SessionInv(a)' /\ StoppedInv(a)'
  BY SessionStep, StoppedStep
<1>3. QED
  BY <1>1, <1>2, TypeCorrect, PTL DEF Spec

(* When no session is open any more, a timer is pending or its callback under *)
(* way only if a button handler armed it between its removal in release and   *)
(* the end of free_irq: no callback re-arms itself past del_timer_sync, and   *)
(* nothing armed in the session itself survives it.                           *)
THEOREM TimersEnd ==
  ASSUME NEW a \in Apps, Apps = {a}
  PROVE  Spec => []OnlyLateTimersSurvive
<1>1. StoppedInv(a) => OnlyLateTimersSurvive
  BY DEF StoppedInv, OnlyLateTimersSurvive, LiveTimers
<1>2. QED
  BY <1>1, Stops, PTL

(* With one session at a time the FND never shows a minute beyond 59, for    *)
(* every number of seconds that may pass between undisturbed rounds of the   *)
(* write loop up to a whole minute, unless the session was opened on top of  *)
(* a late timer's tick.                                                      *)
THEOREM OneSessionSafe ==
  ASSUME NEW a \in Apps, Apps = {a}
  PROVE  Spec => []DisplayedTimeValid
<1>1. Init => OneSessionInv(a)
  BY DEF Init, OneSessionInv, CountInv, RoundInv, OffInv, DisplayedTimeValid
<1>2. TypeOK /\ StoppedInv(a) /\ OneSessionInv(a) /\ [Next]_vars
        => OneSessionInv(a)'
  BY CountStep, RoundStep DEF OneSessionInv
<1>3. OneSessionInv(a) => DisplayedTimeValid
  BY DEF OneSessionInv
<1>4. QED
  BY <1>1, <1>2, <1>3, TypeCorrect, Stops, PTL DEF Spec
-----------------------------------------------------------------------------
(* One application: the driver implements the abstract stopwatch.            *)

(* The count as the user's: one that the callback has loaded is still to be  *)
(* counted on.                                                               *)
Counted == IF blink = "store" THEN blinkReg ELSE count

(* A round that is going to wrap has seen a full hour; if SW4 has reset the  *)
(* counter since, it has come no further than the ticks in between.          *)
WrapInv(a) ==
  /\ blink = "store" => blinkReg = count \/ count = 0
  /\ pc[a] \in {"seconds", "show"} /\ min[a] = MinPerHour =>
       \/ Counted >= Hour
       \/ Counted + (IF blink = "store" THEN 1 ELSE 0) <= lag

LEMMA WrapStep ==
  ASSUME NEW a \in Apps, Apps = {a}, TypeOK, TickTimerOwned, WrapInv(a), [Next]_vars
  PROVE  WrapInv(a)'
<1> USE HourType DEF WrapInv, Counted, session, timers, button, apps, time
<1>1. CASE Timer
  BY <1>1 DEF Timer, BlinkFires, BlinkStores, BlinkRearms, QuitFires,
              QuitClearsFlag, NoSession, TypeOK, CounterTypes
<1>2. CASE Button
  BY <1>2 DEF Button, PressButton, Press, MoveSw6, Sw6Interrupt
<1>3. CASE Irq
  BY <1>3 DEF Irq, StartSync, StartArm, PauseSync, ResetSync, ResetZero,
              QuitTest, QuitSync, QuitArm, TickTimerOwned, TypeOK, CounterTypes
<1>4. CASE Module
  <2>1. CASE Rmmod
    BY <2>1 DEF Rmmod
  <2>2. CASE Insmod
    BY <2>2 DEF Insmod, TypeOK, CounterTypes
  <2>3. QED
    BY <1>4, <2>1, <2>2 DEF Module
<1>5. CASE App(a)
  <2> USE DEF Goto, TypeOK, AppTypes, CounterTypes
  <2>1. CASE OpenCheck(a) \/ OpenSet(a) \/ RequestIrq(a)
    BY <2>1 DEF OpenCheck, OpenSet, RequestIrq
  <2>2. CASE ReadMinutes(a)
    <3>1. count \div SecondsPerMin = MinPerHour => count >= Hour
      <4>1. SecondsPerMin * (count \div SecondsPerMin) <= count
        BY SizeAssumption
      <4>2. QED
        BY <4>1 DEF Hour
    <3>2. /\ pc'[a] = "seconds" /\ min'[a] = count \div SecondsPerMin
          /\ UNCHANGED <<blink, blinkReg, count, lag>>
      BY <2>2 DEF ReadMinutes
    <3>3. QED
      BY <3>1, <3>2, HourType
  <2>3. CASE ReadSeconds(a)
    BY <2>3 DEF ReadSeconds
  <2>4. CASE WrapAndShow(a)
    BY <2>4 DEF WrapAndShow
  <2>5. CASE WriteReturns(a) \/ ReleaseUsage(a) \/ ReleaseTimer(a)
    BY <2>5 DEF WriteReturns, ReleaseUsage, ReleaseTimer
  <2>6. CASE ReleaseQuit(a) \/ FreeIrq(a)
    BY <2>6 DEF ReleaseQuit, FreeIrq
  <2>7. QED
    BY <1>5, <2>1, <2>2, <2>3, <2>4, <2>5, <2>6 DEF App
<1>6. CASE UNCHANGED vars
  BY <1>6 DEF vars
<1>7. QED
  BY <1>1, <1>2, <1>3, <1>4, <1>5, <1>6 DEF Next

(* Each step of the driver is one of the abstract stopwatch, or is hidden.   *)
LEMMA StepImplements ==
  ASSUME NEW a \in Apps, Apps = {a}, TypeOK, TickTimerOwned, SessionInv(a),
         WrapInv(a), [Next]_vars
  PROVE  [Implements!Next]_(Implements!vars)
<1> DEFINE open == stopwatch_usage = 1
           on == timerPending \/ blink # "idle" \/ irq = "start.arm"
           Hidden == UNCHANGED <<open, on, Counted>>
<1> USE DEF session, timers, button, apps, time, Counted
<1>0. ASSUME \/ Hidden
             \/ ~open /\ open' /\ (Counted' = 0 \/ (on /\ Counted' = Counted)) /\ on' = on
             \/ open /\ ~open' /\ on' = on /\ Counted' = Counted
             \/ on' /\ open' = open /\ Counted' = Counted
             \/ ~on' /\ open' = open /\ Counted' = Counted
             \/ ~on' /\ Counted' = 0 /\ open' = open
             \/ on /\ Counted' = Counted + 1 /\ open' = open /\ on' = on
             \/ /\ open /\ open' = open /\ on' = on
                /\ Counted >= SecondsPerMin * MinPerHour \/ Counted <= TickBound
                /\ Counted' = 0
      PROVE  [Implements!Next]_(Implements!vars)
  BY <1>0, Zenon DEF Implements!Next, Implements!vars, Implements!Open, Implements!Close,
              Implements!Start, Implements!Pause, Implements!Reset,
              Implements!Tick, Implements!Wrap
<1>1. CASE Timer
  BY <1>0, <1>1 DEF Timer, BlinkFires, BlinkStores, BlinkRearms, QuitFires,
                    QuitClearsFlag
<1>2. CASE Button
  BY <1>0, <1>2 DEF Button, PressButton, Press, EnterIrq, MoveSw6, Sw6Interrupt
<1>3. CASE Irq
  BY <1>0, <1>3 DEF Irq, StartSync, StartArm, PauseSync, ResetSync, ResetZero,
                    QuitTest, QuitSync, QuitArm, LeaveIrq, CallbackDone, TickTimerOwned
<1>4. CASE Module
  <2>1. CASE Rmmod
    BY <1>0, <2>1 DEF Rmmod
  <2>2. CASE Insmod
    <3>1. irq = "idle" /\ ~open
      BY <2>2 DEF Insmod, SessionInv, Holding
    <3>2. QED
      BY <1>0, <2>2, <3>1 DEF Insmod
  <2>3. QED
    BY <1>4, <2>1, <2>2 DEF Module
<1>5. CASE App(a)
  <2>1. CASE OpenCheck(a) \/ RequestIrq(a) \/ ReadMinutes(a) \/ ReadSeconds(a)
               \/ WriteReturns(a) \/ ReleaseQuit(a) \/ FreeIrq(a)
    BY <1>0, <2>1 DEF OpenCheck, RequestIrq, ReadMinutes, ReadSeconds, WriteReturns,
                      ReleaseQuit, FreeIrq
  <2>2. CASE OpenSet(a)
    <3>1. ~open
      BY <2>2 DEF OpenSet, Goto, SessionInv, Holding
    <3>2. QED
      BY <1>0, <2>2, <3>1 DEF OpenSet
  <2>3. CASE WrapAndShow(a)
    <3>1. open
      BY <2>3 DEF WrapAndShow, Goto, SessionInv, Holding
    <3>2. AtHour(a) /\ blink # "store" => Counted >= Hour \/ Counted <= TickBound
      BY <2>3, HourType, SizeAssumption
         DEF WrapAndShow, Goto, WrapInv, AtHour, TypeOK, CounterTypes
    <3>3. QED
      BY <1>0, <2>3, <3>1, <3>2 DEF WrapAndShow, Hour
  <2>4. CASE ReleaseUsage(a)
    <3>1. open
      BY <2>4 DEF ReleaseUsage, Goto, SessionInv, Holding
    <3>2. QED
      BY <1>0, <2>4, <3>1 DEF ReleaseUsage
  <2>5. CASE ReleaseTimer(a)
    BY <1>0, <2>5 DEF ReleaseTimer, CallbackDone
  <2>6. QED
    BY <1>5, <2>1, <2>2, <2>3, <2>4, <2>5 DEF App
<1>6. CASE UNCHANGED vars
  BY <1>0, <1>6 DEF vars
<1>7. QED
  BY <1>1, <1>2, <1>3, <1>4, <1>5, <1>6 DEF Next

(* With one application the driver is a stopwatch: seconds are counted one   *)
(* by one and only while it runs, and the counter goes back only at a reset, *)
(* a new session or the full hour; for minutes and hours of any length.      *)
THEOREM Refinement ==
  ASSUME NEW a \in Apps, Apps = {a}
  PROVE  Spec => ImplementsStopwatch
<1>1. Init => SessionInv(a) /\ WrapInv(a) /\ Implements!Init
  <2> SUFFICES ASSUME Init PROVE SessionInv(a) /\ WrapInv(a) /\ Implements!Init
    OBVIOUS
  <2>1. SessionInv(a) /\ WrapInv(a)
    BY DEF Init, SessionInv, Holding, WrapInv
  <2>2. Implements!Init
    BY DEF Init, Implements!Init
  <2>3. QED
    BY <2>1, <2>2
<1>2. TypeOK /\ TickTimerOwned /\ SessionInv(a) /\ WrapInv(a) /\ [Next]_vars
        => SessionInv(a)' /\ WrapInv(a)' /\ [Implements!Next]_(Implements!vars)
  BY SessionStep, WrapStep, StepImplements
<1>3. QED
  BY <1>1, <1>2, TypeCorrect, Owned, PTL
     DEF Spec, ImplementsStopwatch, Implements!Spec
=============================================================================
