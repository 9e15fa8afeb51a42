------------------------ MODULE WatchActivity_proofs ------------------------
(* Proofs that the watch keeps its types, that only the current stopwatch    *)
(* runs, that a thread writes at most once after it was told to end or to    *)
(* pause, that the board shows the time and that the time is that of a       *)
(* stopwatch, for any number of threads, events and posted clicks.           *)
EXTENDS WatchActivity, TLAPS

(* A stopwatch not yet made is new, and one that is about to be replaced, or *)
(* was, does not go on.                                                      *)
Replaced ==
  /\ \A t \in Objects : t > thread => pc[t] = "new"
  /\ \A t \in Objects : t < thread /\ Alive(t) => ~flag[t]
  /\ ui = "stop" => thread < Threads /\ (Alive(thread) => ~flag[thread])

(* A late thread does not get past its tests unless Start resumes it.        *)
LateOnce ==
  \A t \in Objects :
    /\ late[t] <= 1
    /\ late[t] > 0 => /\ flag[t] => pause[t]
                      /\ pc[t] \in {"sleep", "flag", "pause", "done"}
                      /\ pc[t] = "pause" => pause[t]

(* A thread that was not started has not counted; nothing happens before the *)
(* activity is opened, and only the open one handles a key.                  *)
Fresh ==
  /\ \A t \in Objects : pc[t] = "new" => min[t] = 0 /\ sec[t] = 0
  /\ screen = "menu" => /\ ui = "idle" /\ posts = <<>> /\ poller = "new"
                        /\ pc[thread] = "new"
  /\ ui \in {"back", "other"} => screen = "open"

(* BoardShowsTime, and the text is blank from the click or the key on that   *)
(* leaves the activity, unless a touch sets it again.                        *)
Shows ==
  /\ Undisturbed /\ flag[thread] /\ pc[thread] = "sleep"
       => fnd = <<min[thread], sec[thread]>>
  /\ screen \in {"down", "left"} \/ ui \in {"leave", "back"} => lcd # "time"

IInv == TypeOK /\ Replaced /\ LateOnce /\ Fresh /\ Shows

USE WatchAssumption DEF vars, main, time, board, switches

(* What all clicks leave alone, whether they are posted or touched.          *)
Click ==
  /\ ui = "idle" /\ screen # "menu"
  /\ events' \in 0..Events /\ posts' \in Seq(1..4) /\ Len(posts') <= Queue
  /\ UNCHANGED <<screen, thread, time, switches>>

LEMMA ClickCases ==
  ASSUME TypeOK, Fresh, RunPosted \/ Touch
  PROVE  /\ Click
         /\ Resume \/ Start \/ Pause \/ Stop \/ Leave \/ SetTime
<1>1. CASE RunPosted
  <2>1. posts # <<>> /\ posts' = Tail(posts) /\ events' \in 0..Events
    BY <1>1 DEF RunPosted, TypeOK
  <2>2. posts' \in Seq(1..4) /\ Len(posts') <= Queue
    <3>1. posts \in Seq(1..4) /\ Len(posts) <= Queue
      BY DEF TypeOK
    <3> QED
      BY <2>1, <3>1
  <2>3. Head(posts) \in 1..4
    <3>1. posts \in Seq(1..4)
      BY DEF TypeOK
    <3> QED
      BY <2>1, <3>1
  <2> QED
    BY <1>1, <2>1, <2>2, <2>3 DEF RunPosted, Click, Clicked, Fresh
<1>2. CASE Touch
  <2>1. events' \in 0..Events
    BY <1>2 DEF Touch, TypeOK
  <2>2. posts' \in Seq(1..4) /\ Len(posts') <= Queue
    BY <1>2 DEF Touch, TypeOK
  <2> QED
    BY <1>2, <2>1, <2>2 DEF Touch, Click, Clicked
<1> QED
  BY <1>1, <1>2

LEMMA ZeroTyped == Zero \in Nat \X (0..(Minute - 1))
BY DEF Zero

LEMMA InitHolds == Init => IInv
<1> SUFFICES ASSUME Init PROVE IInv
  OBVIOUS
<1>1. crashed \in BOOLEAN /\ on \in BOOLEAN
  BY Zenon DEF Init
<1>2. TypeOK
  BY <1>1 DEF Init, TypeOK, Objects, Zero
<1>3. Replaced /\ LateOnce /\ Fresh /\ Shows
  BY DEF Init, Replaced, LateOnce, Fresh, Shows, Objects, Alive
<1> QED
  BY <1>2, <1>3 DEF IInv

LEMMA TypeStep ==
  ASSUME IInv, Next
  PROVE  TypeOK'
<1> USE DEF TypeOK, Objects, Goto
<1>1. TypeOK /\ Replaced /\ Fresh
  BY DEF IInv
<1> SUFFICES ASSUME TypeOK, Replaced, Fresh PROVE TypeOK'
  BY Zenon, <1>1
<1>2. ASSUME NEW t \in Objects, TestFlag(t) PROVE TypeOK'
  BY SMTT(60), <1>2 DEF TestFlag
<1>3. ASSUME NEW t \in Objects, TestPause(t) PROVE TypeOK'
  BY SMTT(60), <1>3 DEF TestPause
<1>4. ASSUME NEW t \in Objects, Show(t) PROVE TypeOK'
  <2>1. <<min[t], sec[t]>> \in Nat \X (0..(Minute - 1))
    OBVIOUS
  <2>2. late' \in [Objects -> Nat]
    BY SMTT(60), <1>4 DEF Show
  <2> QED
    BY SMTT(60), <1>4, <2>1, <2>2 DEF Show, WatchFND
<1>5. ASSUME NEW t \in Objects, Count(t) PROVE TypeOK'
  <2> DEFINE full == sec[t] + 1 > Minute - 1
             s == IF full THEN 0 ELSE sec[t] + 1
             m == IF full THEN min[t] + 1 ELSE min[t]
  <2>1. sec[t] \in 0..(Minute - 1) /\ min[t] \in Nat
    OBVIOUS
  <2>2. sec' = [sec EXCEPT ![t] = s] /\ min' = [min EXCEPT ![t] = m]
    BY <1>5 DEF Count
  <2>3. s \in 0..(Minute - 1) /\ m \in Nat
    BY SMTT(60), <2>1
  <2> HIDE DEF s, m
  <2>4. sec' \in [Objects -> 0..(Minute - 1)] /\ min' \in [Objects -> Nat]
    BY Zenon, <2>2, <2>3
  <2>5. pc' \in [Objects -> {"new", "flag", "pause", "write", "sleep", "done"}]
    BY <1>5 DEF Count
  <2>6. UNCHANGED <<main, flag, pause, board, switches, events, late>>
    BY <1>5 DEF Count
  <2> QED
    BY SMTT(60), <2>4, <2>5, <2>6
<1>6. CASE Click /\ Resume
  BY Zenon, <1>6 DEF Click, Resume
<1>7. CASE Click /\ Start
  <2>1. crashed' \in BOOLEAN
    BY <1>7, Zenon DEF Start
  <2>2. pc' \in [Objects -> {"new", "flag", "pause", "write", "sleep", "done"}]
    BY <1>7 DEF Start
  <2> QED
    BY Zenon, <1>7, <2>1, <2>2 DEF Click, Start
<1>8. CASE Click /\ Pause
  BY SMTT(60), <1>8 DEF Click, Pause
<1>9. CASE Click /\ Stop
  <2>1. flag' \in [Objects -> BOOLEAN]
    BY Zenon, <1>9 DEF Stop
  <2> QED
    BY Zenon, <1>9, <2>1 DEF Click, Stop
<1>10. CASE Click /\ Leave
  BY Zenon, <1>10, ZeroTyped DEF Click, Leave, ClearDevices, Watch, WatchFND
<1>11. CASE Click /\ SetTime
  BY SMTT(60), <1>11 DEF Click, SetTime, Watch
<1>12. CASE Create
  BY SMTT(60), <1>12 DEF Create
<1>13. CASE Replace
  <2>1. thread + 1 \in Objects
    BY <1>13 DEF Replace, Replaced
  <2> QED
    BY SMTT(60), <1>13, <2>1, ZeroTyped DEF Replace, WatchFND
<1>14. CASE Left
  BY Zenon, <1>14 DEF Left, EndThreads
<1>15. CASE KeyDown
  <2>1. ui' \in {"back", "other"}
    BY <1>15 DEF KeyDown
  <2>2. events' \in 0..Events
    BY <1>15 DEF KeyDown
  <2>3. fnd' = Zero /\ lcd' = "blank"
    BY <1>15 DEF KeyDown, ClearDevices, Watch, WatchFND
  <2> QED
    BY SMTT(60), <1>15, <2>1, <2>2, <2>3, ZeroTyped DEF KeyDown
<1>16. CASE KeyHandled
  BY Zenon, <1>16 DEF KeyHandled, EndThreads
<1>17. CASE KeyUp
  BY SMTT(60), <1>17 DEF KeyUp
<1>18. CASE PollerBegins
  BY SMTT(60), <1>18 DEF PollerBegins
<1>19. CASE PollerTests
  BY SMTT(60), <1>19 DEF PollerTests
<1>20. CASE Collect
  <2>1. input' \in SUBSET (1..9)
    BY <1>20 DEF Collect, WatchControl
  <2> QED
    BY SMTT(60), <1>20, <2>1 DEF Collect
<1>21. CASE Released
  <2>1. posts' \in Seq(1..4) /\ Len(posts') <= Queue
    <3>1. CASE posts' = posts
      BY <3>1
    <3>2. CASE Len(posts) < Queue /\ \E b \in Meant : posts' = Append(posts, b)
      <4>1. PICK b \in 1..4 : posts' = Append(posts, b)
        BY <3>2 DEF Meant
      <4>2. posts \in Seq(1..4) /\ Len(posts) \in Nat
        OBVIOUS
      <4> QED
        BY <3>2, <4>1, <4>2
    <3> QED
      BY <1>21, <3>1, <3>2 DEF Released
  <2> QED
    BY SMTT(60), <1>21, <2>1 DEF Released
<1> QED
  BY Zenon, <1>2, <1>3, <1>4, <1>5, <1>6, <1>7, <1>8, <1>9, <1>10, <1>11, <1>12,
     <1>13, <1>14, <1>15, <1>16, <1>17, <1>18, <1>19, <1>20, <1>21, ClickCases
     DEF Next, Run, Main, Poller

LEMMA ReplacedStep ==
  ASSUME IInv, Next
  PROVE  Replaced'
<1> USE DEF Replaced, Objects, Goto, Alive
<1>1. TypeOK /\ Replaced /\ Fresh
  BY DEF IInv
<1> SUFFICES ASSUME TypeOK, Replaced, Fresh PROVE Replaced'
  BY <1>1
<1>2. ASSUME NEW t \in Objects, TestFlag(t) PROVE Replaced'
  BY <1>2 DEF TestFlag
<1>3. ASSUME NEW t \in Objects, TestPause(t) PROVE Replaced'
  BY <1>3 DEF TestPause
<1>4. ASSUME NEW t \in Objects, Show(t) PROVE Replaced'
  BY <1>4 DEF Show, WatchFND
<1>5. ASSUME NEW t \in Objects, Count(t) PROVE Replaced'
  BY <1>5 DEF Count
<1>6. CASE Click /\ Resume
  BY <1>6 DEF Click, Resume
<1>7. CASE Click /\ Start
  BY <1>7 DEF Click, Start
<1>8. CASE Click /\ Pause
  BY <1>8 DEF Click, Pause
<1>9. CASE Click /\ Stop
  <2>1. \A t \in Objects : flag'[t] => flag[t]
    BY <1>9 DEF Stop, TypeOK
  <2>2. Alive(thread) => ~flag'[thread]
    BY <1>9 DEF Stop, TypeOK
  <2> QED
    BY <1>9, <2>1, <2>2 DEF Click, Stop
<1>10. CASE Click /\ Leave
  BY <1>10 DEF Click, Leave, ClearDevices, Watch, WatchFND
<1>11. CASE Click /\ SetTime
  BY <1>11 DEF Click, SetTime, Watch
<1>12. CASE Create
  BY <1>12 DEF Create
<1>13. CASE Replace
  <2>1. /\ ui = "stop" /\ ui' = "idle" /\ thread' = thread + 1
        /\ UNCHANGED <<pc, flag>> /\ thread \in Int
    BY <1>13 DEF Replace, TypeOK
  <2>2. \A t \in Objects : t > thread' => pc'[t] = "new"
    BY <2>1
  <2>3. \A t \in Objects : t < thread' => t < thread \/ t = thread
    BY <2>1
  <2>4. \A t \in Objects : t < thread' /\ Alive(t) => ~flag[t]
    BY <2>1, <2>3
  <2> QED
    BY <2>1, <2>2, <2>4
<1>14. CASE Left
  BY <1>14 DEF Left, EndThreads
<1>15. CASE KeyDown
  BY <1>15 DEF KeyDown, ClearDevices, Watch, WatchFND
<1>16. CASE KeyHandled
  BY <1>16 DEF KeyHandled, EndThreads
<1>17. CASE KeyUp
  BY <1>17 DEF KeyUp
<1>18. CASE PollerBegins
  BY <1>18 DEF PollerBegins
<1>19. CASE PollerTests
  BY <1>19 DEF PollerTests
<1>20. CASE Collect
  BY <1>20 DEF Collect
<1>21. CASE Released
  BY <1>21 DEF Released
<1> QED
  BY <1>2, <1>3, <1>4, <1>5, <1>6, <1>7, <1>8, <1>9, <1>10, <1>11, <1>12, <1>13,
     <1>14, <1>15, <1>16, <1>17, <1>18, <1>19, <1>20, <1>21, ClickCases
     DEF Next, Run, Main, Poller

LEMMA LateStep ==
  ASSUME IInv, Next
  PROVE  LateOnce'
<1> USE DEF LateOnce, Objects, Goto
<1>1. TypeOK /\ LateOnce /\ Fresh
  BY DEF IInv
<1> SUFFICES ASSUME TypeOK, LateOnce, Fresh PROVE LateOnce'
  BY <1>1
<1>2. ASSUME NEW t \in Objects, TestFlag(t) PROVE LateOnce'
  BY <1>2 DEF TestFlag
<1>3. ASSUME NEW t \in Objects, TestPause(t) PROVE LateOnce'
  BY <1>3 DEF TestPause
<1>4. ASSUME NEW t \in Objects, Show(t) PROVE LateOnce'
  <2>1. pc[t] = "write" /\ late[t] \in Nat
    BY <1>4 DEF Show, TypeOK
  <2>2. late[t] = 0
    BY <2>1
  <2>3. pc' = [pc EXCEPT ![t] = "sleep"] /\ UNCHANGED <<flag, pause>>
    BY <1>4 DEF Show
  <2> DEFINE n == IF flag[t] /\ ~pause[t] THEN 0 ELSE late[t] + 1
  <2>4. late' = [late EXCEPT ![t] = n]
    BY <1>4, Zenon DEF Show
  <2>5. n \in {0, 1} /\ (n > 0 => (flag[t] => pause[t]))
    BY <2>2
  <2> HIDE DEF n
  <2>6. late'[t] \in {0, 1} /\ (late'[t] > 0 => (flag[t] => pause[t]))
    BY <2>4, <2>5 DEF TypeOK
  <2>7. pc'[t] = "sleep"
    BY <2>3 DEF TypeOK
  <2>8. \A u \in Objects \ {t} : late'[u] = late[u] /\ pc'[u] = pc[u]
    BY <2>3, <2>4 DEF TypeOK
  <2> QED
    BY <2>3, <2>6, <2>7, <2>8
<1>5. ASSUME NEW t \in Objects, Count(t) PROVE LateOnce'
  BY <1>5 DEF Count
<1>6. CASE Click /\ Resume
  <2>1. late'[thread] = 0
    BY <1>6 DEF Resume, TypeOK
  <2>2. \A u \in Objects \ {thread} : late'[u] = late[u] /\ pause'[u] = pause[u]
    BY <1>6 DEF Resume, TypeOK
  <2> QED
    BY <1>6, <2>1, <2>2 DEF Click, Resume
<1>7. CASE Click /\ Start
  BY <1>7 DEF Click, Start
<1>8. CASE Click /\ Pause
  BY <1>8 DEF Click, Pause
<1>9. CASE Click /\ Stop
  BY <1>9 DEF Click, Stop
<1>10. CASE Click /\ Leave
  BY <1>10 DEF Click, Leave, ClearDevices, Watch, WatchFND
<1>11. CASE Click /\ SetTime
  BY <1>11 DEF Click, SetTime, Watch
<1>12. CASE Create
  BY <1>12 DEF Create
<1>13. CASE Replace
  BY <1>13 DEF Replace, WatchFND
<1>14. CASE Left
  BY <1>14 DEF Left, EndThreads
<1>15. CASE KeyDown
  BY <1>15 DEF KeyDown, ClearDevices, Watch, WatchFND
<1>16. CASE KeyHandled
  BY <1>16 DEF KeyHandled, EndThreads
<1>17. CASE KeyUp
  BY <1>17 DEF KeyUp
<1>18. CASE PollerBegins
  BY <1>18 DEF PollerBegins
<1>19. CASE PollerTests
  BY <1>19 DEF PollerTests
<1>20. CASE Collect
  BY <1>20 DEF Collect
<1>21. CASE Released
  BY <1>21 DEF Released
<1> QED
  BY <1>2, <1>3, <1>4, <1>5, <1>6, <1>7, <1>8, <1>9, <1>10, <1>11, <1>12, <1>13,
     <1>14, <1>15, <1>16, <1>17, <1>18, <1>19, <1>20, <1>21, ClickCases
     DEF Next, Run, Main, Poller

LEMMA FreshStep ==
  ASSUME IInv, Next
  PROVE  Fresh'
<1> USE DEF Fresh, Objects, Goto
<1>1. TypeOK /\ Replaced /\ Fresh
  BY DEF IInv
<1> SUFFICES ASSUME TypeOK, Replaced, Fresh PROVE Fresh'
  BY <1>1
<1>2. ASSUME NEW t \in Objects, TestFlag(t) PROVE Fresh'
  BY <1>2 DEF TestFlag
<1>3. ASSUME NEW t \in Objects, TestPause(t) PROVE Fresh'
  BY <1>3 DEF TestPause
<1>4. ASSUME NEW t \in Objects, Show(t) PROVE Fresh'
  BY <1>4 DEF Show, WatchFND
<1>5. ASSUME NEW t \in Objects, Count(t) PROVE Fresh'
  <2>1. /\ pc[t] = "sleep" /\ pc' = [pc EXCEPT ![t] = "flag"]
        /\ \A u \in Objects \ {t} : min'[u] = min[u] /\ sec'[u] = sec[u]
        /\ UNCHANGED <<screen, ui, posts, thread, poller>>
    BY <1>5 DEF Count, TypeOK
  <2> QED
    BY Zenon, <1>5, <2>1 DEF TypeOK
<1>6. CASE Click /\ Resume
  BY <1>6 DEF Click, Resume
<1>7. CASE Click /\ Start
  BY <1>7 DEF Click, Start
<1>8. CASE Click /\ Pause
  BY <1>8 DEF Click, Pause
<1>9. CASE Click /\ Stop
  BY <1>9 DEF Click, Stop
<1>10. CASE Click /\ Leave
  BY <1>10 DEF Click, Leave, ClearDevices, Watch, WatchFND
<1>11. CASE Click /\ SetTime
  BY <1>11 DEF Click, SetTime, Watch
<1>12. CASE Create
  BY <1>12 DEF Create
<1>13. CASE Replace
  <2>1. thread + 1 \in Objects
    BY <1>13 DEF Replace, Replaced, TypeOK
  <2> QED
    BY <1>13, <2>1 DEF Replace, Replaced
<1>14. CASE Left
  BY <1>14 DEF Left, EndThreads
<1>15. CASE KeyDown
  BY <1>15 DEF KeyDown, ClearDevices, Watch, WatchFND
<1>16. CASE KeyHandled
  BY <1>16 DEF KeyHandled, EndThreads
<1>17. CASE KeyUp
  BY <1>17 DEF KeyUp
<1>18. CASE PollerBegins
  BY <1>18 DEF PollerBegins
<1>19. CASE PollerTests
  BY <1>19 DEF PollerTests
<1>20. CASE Collect
  BY <1>20 DEF Collect
<1>21. CASE Released
  BY <1>21 DEF Released
<1> QED
  BY <1>2, <1>3, <1>4, <1>5, <1>6, <1>7, <1>8, <1>9, <1>10, <1>11,
     <1>12, <1>13, <1>14, <1>15, <1>16, <1>17, <1>18, <1>19, <1>20, <1>21, ClickCases
     DEF Next, Run, Main, Poller

LEMMA ShowsStep ==
  ASSUME IInv, Next
  PROVE  Shows'
<1> USE DEF Shows, Undisturbed, Objects, Goto
<1>1. TypeOK /\ Replaced /\ Fresh /\ Shows
  BY DEF IInv
<1> SUFFICES ASSUME TypeOK, Replaced, Fresh, Shows PROVE Shows'
  BY <1>1
<1>2. ASSUME NEW t \in Objects, TestFlag(t) PROVE Shows'
  BY <1>2 DEF TestFlag
<1>3. ASSUME NEW t \in Objects, TestPause(t) PROVE Shows'
  BY <1>3 DEF TestPause
<1>4. ASSUME NEW t \in Objects, Show(t) PROVE Shows'
  <2>1. /\ pc[t] = "write" /\ fnd' = <<min[t], sec[t]>>
        /\ UNCHANGED <<screen, ui, thread, flag, pause, min, sec, lcd>>
    BY <1>4 DEF Show, WatchFND
  <2>2. CASE t = thread
    BY <2>1, <2>2
  <2>3. CASE t # thread
    <3>1. t < thread \/ t > thread
      BY <2>3 DEF TypeOK
    <3>2. ~flag[t]
      BY <2>1, <3>1 DEF Replaced, Alive
    <3>3. late'[t] # 0
      BY SMTT(30), <1>4, <3>2 DEF Show, TypeOK
    <3> QED
      BY <2>1, <2>3, <3>3
  <2> QED
    BY <2>2, <2>3
<1>5. ASSUME NEW t \in Objects, Count(t) PROVE Shows'
  <2>1. /\ pc[t] = "sleep" /\ pc'[t] = "flag"
        /\ \A u \in Objects \ {t} : /\ min'[u] = min[u] /\ sec'[u] = sec[u]
                                     /\ pc'[u] = pc[u]
        /\ UNCHANGED <<screen, ui, thread, flag, fnd, lcd, late>>
    BY <1>5 DEF Count, TypeOK
  <2> QED
    BY SMTT(30), <2>1 DEF TypeOK
<1>6. CASE Click /\ Resume
  BY <1>6 DEF Click, Resume
<1>7. CASE Click /\ Start
  BY <1>7 DEF Click, Start
<1>8. CASE Click /\ Pause
  BY <1>8 DEF Click, Pause
<1>9. CASE Click /\ Stop
  BY <1>9 DEF Click, Stop
<1>10. CASE Click /\ Leave
  BY <1>10 DEF Click, Leave, ClearDevices, Watch, WatchFND
<1>11. CASE Click /\ SetTime
  BY <1>11 DEF Click, SetTime, Watch
<1>12. CASE Create
  BY <1>12 DEF Create
<1>13. CASE Replace
  <2>1. thread + 1 \in Objects /\ pc[thread + 1] = "new"
    BY <1>13 DEF Replace, Replaced, TypeOK
  <2> QED
    BY <1>13, <2>1 DEF Replace
<1>14. CASE Left
  <2>1. ui = "leave" /\ ui' = "idle" /\ ~flag'[thread] /\ UNCHANGED <<thread, lcd>>
    BY <1>14 DEF Left, EndThreads, TypeOK
  <2> QED
    BY <2>1
<1>15. CASE KeyDown
  BY <1>15 DEF KeyDown, ClearDevices, Watch, WatchFND
<1>16. CASE KeyHandled
  <2>1. /\ ui' = "idle" /\ ~flag'[thread] /\ UNCHANGED <<thread, lcd>>
        /\ screen = "open" /\ screen' \in {"open", "down"}
        /\ screen' = "down" => ui = "back"
    BY <1>16 DEF KeyHandled, EndThreads, TypeOK, Fresh
  <2> QED
    BY <2>1
<1>17. CASE KeyUp
  BY <1>17 DEF KeyUp
<1>18. CASE PollerBegins
  BY <1>18 DEF PollerBegins
<1>19. CASE PollerTests
  BY <1>19 DEF PollerTests
<1>20. CASE Collect
  BY <1>20 DEF Collect
<1>21. CASE Released
  BY <1>21 DEF Released
<1> QED
  BY <1>2, <1>3, <1>4, <1>5, <1>6, <1>7, <1>8, <1>9, <1>10, <1>11,
     <1>12, <1>13, <1>14, <1>15, <1>16, <1>17, <1>18, <1>19, <1>20, <1>21, ClickCases
     DEF Next, Run, Main, Poller

LEMMA Inductive == Spec => []IInv
<1>1. IInv /\ [Next]_vars => IInv'
  <2> SUFFICES ASSUME IInv, [Next]_vars PROVE IInv'
    OBVIOUS
  <2>1. CASE Next
    BY <2>1, TypeStep, ReplacedStep, LateStep, FreshStep, ShowsStep DEF IInv
  <2>2. CASE UNCHANGED vars
    BY <2>2 DEF IInv, TypeOK, Replaced, LateOnce, Fresh, Shows, Undisturbed, Alive
  <2> QED
    BY <2>1, <2>2
<1> QED
  BY <1>1, InitHolds, PTL DEF Spec

(* Every variable of the watch keeps its type; the seconds stay below the    *)
(* minute, for any length of it.                                             *)
THEOREM TypeCorrect == Spec => []TypeOK
<1>1. IInv => TypeOK
  BY DEF IInv
<1> QED
  BY <1>1, Inductive, PTL

(* Only the current stopwatch counts on, however often Stop has replaced it  *)
(* and whatever the threads were doing then.                                 *)
THEOREM OneRuns == Spec => []OneStopwatchRuns
<1>1. IInv => OneStopwatchRuns
  BY DEF IInv, TypeOK, Replaced, OneStopwatchRuns, Objects, Alive
<1> QED
  BY <1>1, Inductive, PTL

(* A thread writes at most once after it was told to end or to pause.        *)
THEOREM ObeysSoon == Spec => []ObeysWithinARound
<1>1. IInv => ObeysWithinARound
  BY DEF IInv, LateOnce, ObeysWithinARound
<1> QED
  BY <1>1, Inductive, PTL

(* But for a late write, the FND shows the time of the stopwatch that sleeps *)
(* until its next second, and the text is gone when the activity is left.    *)
THEOREM BoardRight == Spec => []BoardShowsTime
<1>1. IInv => BoardShowsTime
  BY DEF IInv, Shows, BoardShowsTime
<1> QED
  BY <1>1, Inductive, PTL

-----------------------------------------------------------------------------
(* The session of the promised stopwatch. *)
Session == screen \in {"open", "down"} /\ ~crashed

Kept == (Session' <=> Session) /\ Begun' = Begun

Promised == Promise!Next \/ UNCHANGED Promise!vars

(* A step that leaves the session and the count alone is one that starts or  *)
(* pauses the stopwatch, ...                                                 *)
LEMMA KeptIsPromised ==
  ASSUME Kept
  PROVE  Promised
<1> USE DEF Kept, Session, Promised, Promise!Next
<1>1. CASE Running'
  BY <1>1, Zenon DEF Promise!Start
<1>2. CASE ~Running'
  <2>1. Running' = FALSE
    BY <1>2 DEF Running
  <2> QED
    BY <2>1, Zenon DEF Promise!Pause
<1> QED
  BY <1>1, <1>2

(* ... and the session may end besides when the stopwatch goes on as it was. *)
LEMMA ClosedIsPromised ==
  ASSUME Session' => Session, Running' <=> Running, Begun' = Begun
  PROVE  Promised
<1> USE DEF Kept, Session, Promised, Promise!Next
<1>1. CASE Session' <=> Session
  BY <1>1, KeptIsPromised
<1>2. CASE Session /\ ~Session'
  BY <1>2, Zenon DEF Promise!Close
<1> QED
  BY <1>1, <1>2

(* What the current thread does to the count depends on its own fields.      *)
LEMMA OthersKeep ==
  ASSUME TypeOK, screen' = screen, crashed' = crashed, thread' = thread,
         UNCHANGED <<min[thread], sec[thread]>>,
         (pc'[thread] = "sleep") <=> (pc[thread] = "sleep")
  PROVE  Kept
BY DEF Kept, Session, Begun

LEMMA StepRefines ==
  ASSUME IInv, Next
  PROVE  Promised
<1> USE DEF Objects, Goto
<1>1. TypeOK /\ Replaced /\ Fresh /\ ~crashed
  BY DEF IInv, Next
<1> SUFFICES ASSUME TypeOK, Replaced, Fresh, ~crashed PROVE Promised
  BY <1>1
<1>2. ASSUME NEW t \in Objects, TestFlag(t) \/ TestPause(t) PROVE Promised
  <2>1. PICK s \in {"pause", "done", "flag", "write"} :
          pc[t] \in {"flag", "pause"} /\ pc' = [pc EXCEPT ![t] = s]
    BY <1>2 DEF TestFlag, TestPause
  <2>2. (pc'[thread] = "sleep") <=> (pc[thread] = "sleep")
    BY <2>1 DEF TypeOK
  <2>3. UNCHANGED <<screen, crashed, thread, min, sec>>
    BY <1>2 DEF TestFlag, TestPause
  <2> QED
    BY <2>2, <2>3, OthersKeep, KeptIsPromised
<1>3. ASSUME NEW t \in Objects, Show(t), t # thread PROVE Promised
  <2>1. /\ (pc'[thread] = "sleep") <=> (pc[thread] = "sleep")
        /\ UNCHANGED <<screen, crashed, thread, min, sec>>
    BY <1>3 DEF Show, TypeOK
  <2> QED
    BY <2>1, OthersKeep, KeptIsPromised
<1>4. ASSUME Show(thread) PROVE Promised
  <2>1. /\ pc[thread] = "write" /\ pc'[thread] = "sleep"
        /\ UNCHANGED <<screen, crashed, thread, min, sec>>
    BY <1>4 DEF Show, TypeOK
  <2>2. min[thread] \in Nat /\ sec[thread] \in Nat
    BY DEF TypeOK
  <2>3. Begun' = Begun + 1
    BY <2>1, <2>2 DEF Begun
  <2>4. Running /\ Running' /\ (Session' <=> Session)
    BY <2>1 DEF Running, Session
  <2> QED
    BY <2>3, <2>4, Zenon DEF Promised, Promise!Next, Promise!Tick, Session
<1>5. ASSUME NEW t \in Objects, Count(t), t # thread PROVE Promised
  <2>1. /\ (pc'[thread] = "sleep") <=> (pc[thread] = "sleep")
        /\ UNCHANGED <<screen, crashed, thread, min[thread], sec[thread]>>
    BY <1>5 DEF Count, TypeOK
  <2> QED
    BY <2>1, OthersKeep, KeptIsPromised
<1>6. ASSUME Count(thread) PROVE Promised
  <2> DEFINE full == sec[thread] + 1 > Minute - 1
             m == min[thread]
  <2>1. /\ pc[thread] = "sleep" /\ pc'[thread] = "flag"
        /\ UNCHANGED <<screen, crashed, thread>>
        /\ sec'[thread] = IF full THEN 0 ELSE sec[thread] + 1
        /\ min'[thread] = IF full THEN m + 1 ELSE m
    BY <1>6 DEF Count, TypeOK
  <2>2. m \in Nat /\ sec[thread] \in 0..(Minute - 1) /\ Minute \in Nat
    BY DEF TypeOK
  <2>3. (m + 1) * Minute = m * Minute + Minute /\ m * Minute \in Nat
    BY <2>2
  <2>4. Begun' = min'[thread] * Minute + sec'[thread] /\ Begun = m * Minute + sec[thread] + 1
    <3>1. Begun' = min'[thread] * Minute + sec'[thread] + 0
      BY <2>1 DEF Begun
    <3>2. min'[thread] \in Nat /\ sec'[thread] \in Nat
      BY <2>1, <2>2
    <3>3. min'[thread] * Minute \in Nat
      BY <3>2, <2>2
    <3> QED
      BY <2>1, <3>1, <3>2, <3>3 DEF Begun
  <2>5. Begun' = Begun
    <3>1. CASE full
      <4>1. min'[thread] = m + 1 /\ sec'[thread] = 0 /\ sec[thread] + 1 = Minute
        BY <2>1, <2>2, <3>1
      <4> HIDE DEF m, full
      <4> QED
        BY <2>2, <2>3, <2>4, <4>1
    <3>2. CASE ~full
      BY <2>1, <2>2, <2>3, <2>4, <3>2
    <3> QED
      BY <3>1, <3>2
  <2>6. Kept
    BY <2>1, <2>5 DEF Kept, Session
  <2> QED
    BY <2>6, KeptIsPromised
<1>7. CASE Click /\ (Resume \/ Pause \/ Stop \/ Leave \/ SetTime)
  <2>1. UNCHANGED <<screen, crashed, thread, pc, min, sec>>
    BY Zenon, <1>7 DEF Click, Resume, Pause, Stop, Leave, SetTime
  <2> QED
    BY <2>1, OthersKeep, KeptIsPromised
<1>8. CASE Click /\ Start
  <2>1. /\ UNCHANGED <<screen, thread, min, sec, pause>>
        /\ crashed' = (pc[thread] = "done") /\ ~pause[thread]
        /\ pc'[thread] = IF pc[thread] = "new" THEN "flag" ELSE pc[thread]
    BY <1>8 DEF Click, Start, TypeOK
  <2>2. Begun' = Begun
    BY <2>1 DEF Begun
  <2>3. CASE pc[thread] = "done"
    <3>1. Session' => Session
      BY <2>1, <2>3 DEF Session
    <3>2. Running' <=> Running
      BY <2>1, <2>3 DEF Running
    <3> QED
      BY <2>2, <3>1, <3>2, ClosedIsPromised
  <2>4. CASE pc[thread] # "done"
    <3>1. Session' <=> Session
      BY Zenon, <2>1, <2>4 DEF Session
    <3> QED
      BY <2>2, <3>1, KeptIsPromised DEF Kept
  <2> QED
    BY <2>3, <2>4
<1>9. CASE Create
  <2>1. /\ screen = "menu" /\ screen' = "open"
        /\ pc[thread] = "new" /\ min[thread] = 0 /\ sec[thread] = 0
        /\ UNCHANGED <<crashed, thread, pc, pause, min, sec>>
    BY <1>9 DEF Create, Fresh, TypeOK
  <2>2. Begun' = 0 /\ ~Session /\ Session'
    BY <2>1 DEF Begun, Session
  <2>3. Running' <=> Running
    BY <2>1 DEF Running
  <2> QED
    BY <2>2, <2>3, Zenon DEF Promised, Promise!Next, Promise!Open, Session
<1>10. CASE Replace
  <2>1. thread + 1 \in Objects /\ pc[thread + 1] = "new"
    BY <1>10 DEF Replace, Replaced, TypeOK
  <2>2. /\ thread' = thread + 1
        /\ UNCHANGED <<screen, crashed, pc, pause, min, sec>>
    BY <1>10 DEF Replace
  <2>3. Begun' = 0 /\ ~Running' /\ (Session' <=> Session)
    BY <2>1, <2>2 DEF Fresh, Begun, Running, Session
  <2>4. Running' = FALSE
    BY <2>3 DEF Running
  <2> QED
    BY <2>3, <2>4, Zenon DEF Promised, Promise!Next, Promise!Reset, Session
<1>11. CASE Left \/ KeyUp
  <2>1. screen' = "left" /\ UNCHANGED <<crashed, thread, pc, pause, min, sec>>
    BY <1>11 DEF Left, KeyUp
  <2>2. Begun' = Begun /\ (Running' <=> Running) /\ ~Session'
    BY <2>1 DEF Begun, Running, Session
  <2> QED
    BY <2>2, ClosedIsPromised
<1>12. CASE KeyHandled
  <2>1. /\ screen = "open" /\ screen' \in {"open", "down"}
        /\ UNCHANGED <<crashed, thread, pc, min, sec>>
    BY <1>12 DEF KeyHandled, Fresh
  <2>2. Kept
    BY <2>1 DEF Kept, Begun, Session
  <2> QED
    BY <2>2, KeptIsPromised
<1>13. CASE KeyDown \/ PollerBegins \/ PollerTests \/ Collect \/ Released
  <2>1. UNCHANGED <<screen, crashed, thread, pc, min, sec>>
    BY <1>13 DEF KeyDown, PollerBegins, PollerTests, Collect, Released
  <2> QED
    BY <2>1, OthersKeep, KeptIsPromised
<1> QED
  BY <1>2, <1>3, <1>4, <1>5, <1>6, <1>7, <1>8, <1>9, <1>10, <1>11, <1>12, <1>13,
     ClickCases
     DEF Next, Run, Main, Poller

(* The time of the current thread is that of a stopwatch, whatever threads   *)
(* it replaces and however the clicks, the keys and the rounds interleave:   *)
(* also the seconds carried into a minute of any length are counted once.    *)
THEOREM Refinement == Spec => ImplementsStopwatch
<1>1. Init => Promise!Init
  <2> SUFFICES ASSUME Init PROVE Promise!Init
    OBVIOUS
  <2>1. Begun = 0
    BY DEF Init, Begun, Objects
  <2>2. ~Running /\ ~Session
    BY DEF Init, Running, Session, Objects
  <2>3. Running = FALSE /\ Session = FALSE
    BY <2>2 DEF Running, Session
  <2> QED
    BY <2>1, <2>3, Zenon DEF Promise!Init, Session
<1>2. IInv /\ [Next]_vars => [Promise!Next]_(Promise!vars)
  <2> SUFFICES ASSUME IInv, [Next]_vars PROVE Promised
    BY DEF Promised
  <2>1. CASE Next
    BY <2>1, StepRefines
  <2>2. CASE UNCHANGED vars
    BY <2>2, Zenon DEF Promised, Promise!vars, Running, Begun
  <2> QED
    BY <2>1, <2>2
<1> QED
  BY <1>1, <1>2, Inductive, PTL DEF Spec, ImplementsStopwatch, Promise!Spec
=============================================================================
