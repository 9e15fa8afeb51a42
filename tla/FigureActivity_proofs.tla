----------------------- MODULE FigureActivity_proofs -----------------------
(* Proofs that the figure threads keep their types, that an option typed     *)
(* with one figure keeps one, that the devices go dark, and that a run shows *)
(* what was asked of it, for any number of threads, places and figures.      *)
EXTENDS FigureActivity, TLAPS, WellFoundedInduction

USE FigureAssumption

LEMMA SomePlace ==
  ASSUME NEW o \in Options, Filled(o)
  PROVE  /\ Place(o) \in 1..Places
         /\ o[Place(o)] # 0
<1> DEFINE T == {p \in 1..Places : o[p] # 0}
<1>1. T # {} /\ T \subseteq Nat
  BY DEF Filled
<1>2. PICK p \in T : \A q \in T : <<q, p>> \notin OpToRel(<, Nat)
  <2> HIDE DEF T
  <2> QED
    BY Zenon, <1>1, WFMin, NatLessThanWellFounded
<1>3. \A q \in 1..(p - 1) : o[q] = 0
  <2> SUFFICES ASSUME NEW q \in 1..(p - 1), o[q] # 0 PROVE FALSE
    OBVIOUS
  <2>1. q \in T /\ q \in Nat /\ p \in Nat /\ q < p
    OBVIOUS
  <2>2. <<q, p>> \in OpToRel(<, Nat)
    BY <2>1 DEF OpToRel
  <2> QED
    BY Zenon, <2>1, <2>2, <1>2
<1>4. \E r \in 1..Places : o[r] # 0 /\ \A q \in 1..(r - 1) : o[q] = 0
  BY <1>3
<1> QED
  BY <1>4 DEF Place

LEMMA NotEmpty ==
  ASSUME NEW o \in Options
  PROVE  o # <<>>
<1>1. DOMAIN o = 1..Places /\ 1 \in 1..Places
  BY DEF Options
<1> QED
  BY <1>1

LEMMA BlankIsDark == ~Filled(Blank)
BY DEF Filled, Blank

LEMMA SteppedTyped ==
  ASSUME NEW o \in Options, Filled(o)
  PROVE  Stepped(o) \in Options
<1> DEFINE j == Place(o)
<1>1. j \in 1..Places /\ o[j] \in 0..Last
  BY SomePlace DEF Options
<1> HIDE DEF j
<1>2. CASE o[j] # Last
  <2>1. o[j] + 1 \in 0..Last
    BY <1>1, <1>2
  <2>2. [o EXCEPT ![j] = @ + 1] \in Options
    BY <1>1, <2>1 DEF Options
  <2> QED
    BY <1>2, <2>2 DEF Stepped, j
<1>3. CASE o[j] = Last /\ j # Places
  <2>1. j + 1 \in 1..Places /\ 1 \in 0..Last /\ 0 \in 0..Last
    BY <1>1, <1>3
  <2>2. [o EXCEPT ![j + 1] = 1, ![j] = 0] \in Options
    BY <1>1, <2>1 DEF Options
  <2> QED
    BY <1>3, <2>2 DEF Stepped, j
<1>4. CASE o[j] = Last /\ j = Places
  <2>1. 1 \in 1..Places /\ 1 \in 0..Last /\ 0 \in 0..Last
    OBVIOUS
  <2>2. [o EXCEPT ![j] = 0, ![1] = 1] \in Options
    BY <1>1, <2>1 DEF Options
  <2> QED
    BY <1>4, <2>2 DEF Stepped, j
<1> QED
  BY <1>2, <1>3, <1>4

LEMMA OneIsFilled ==
  ASSUME NEW o, OneFigure(o)
  PROVE  o \in Options /\ Filled(o)
BY NotEmpty DEF OneFigure, Filled

(* A step keeps the one figure of an option.                                 *)
LEMMA SteppedOne ==
  ASSUME NEW o, OneFigure(o)
  PROVE  OneFigure(Stepped(o))
<1>1. o \in Options /\ Filled(o)
  BY OneIsFilled
<1> DEFINE j == Place(o)
<1>2. j \in 1..Places /\ o[j] # 0 /\ o[j] \in 0..Last
  BY <1>1, SomePlace DEF Options
<1>3. \A q \in 1..Places \ {j} : o[q] = 0
  BY <1>2 DEF OneFigure
<1>4. Stepped(o) \in Options
  BY <1>1, SteppedTyped
<1> HIDE DEF j
<1>5. CASE o[j] # Last
  <2> DEFINE n == [o EXCEPT ![j] = @ + 1]
  <2>1. n[j] # 0 /\ \A q \in 1..Places \ {j} : n[q] = 0
    BY <1>1, <1>2, <1>3 DEF Options
  <2>2. n = Stepped(o)
    BY <1>5 DEF Stepped, j
  <2> HIDE DEF n
  <2> QED
    BY <1>2, <1>4, <2>1, <2>2 DEF OneFigure
<1>6. CASE o[j] = Last /\ j # Places
  <2> DEFINE n == [o EXCEPT ![j + 1] = 1, ![j] = 0]
  <2>1. j + 1 \in 1..Places
    BY <1>2, <1>6
  <2>2. n[j + 1] # 0 /\ \A q \in 1..Places \ {j + 1} : n[q] = 0
    BY <1>1, <1>2, <1>3, <2>1 DEF Options
  <2>3. n = Stepped(o)
    BY <1>6 DEF Stepped, j
  <2> HIDE DEF n
  <2> QED
    BY <1>4, <2>1, <2>2, <2>3 DEF OneFigure
<1>7. CASE o[j] = Last /\ j = Places
  <2> DEFINE n == [o EXCEPT ![j] = 0, ![1] = 1]
  <2>1. n[1] # 0 /\ \A q \in 1..Places \ {1} : n[q] = 0
    BY <1>1, <1>2, <1>3 DEF Options
  <2>2. n = Stepped(o) /\ 1 \in 1..Places
    BY <1>7 DEF Stepped, j
  <2> HIDE DEF n
  <2> QED
    BY <1>4, <2>1, <2>2 DEF OneFigure
<1> QED
  BY <1>5, <1>6, <1>7

-----------------------------------------------------------------------------
(* The inductive invariant: its parts. A thread not yet made is new, the     *)
(* current one has not come to its end, and a copy that is to be stepped on  *)
(* can be.                                                                   *)
Holding == {"show", "text", "sleep", "store", "step"}

Numbered ==
  /\ thread <= made
  /\ \A t \in Objects : t > made => pc[t] = "new"
  /\ pc[thread] # "done"

Steppable ==
  crashed = "no" => \A t \in Objects : pc[t] \in Holding => Filled(op[t])

(* As long as all that was typed was good: what the main thread has read is, *)
(* and so is what the threads that may run work on.                          *)
GoodSoFar ==
  /\ crashed # "figure"
  /\ option = <<>> \/ OneFigure(option)
  /\ ui \in {"option", "start"} => OneFigure(typed.option)
  /\ ui = "start" => OneFigure(option)
  /\ \A t \in Objects : Alive(t) => OneFigure(option)
  /\ \A t \in Objects : pc[t] \in Holding => OneFigure(op[t])

IInv ==
  /\ TypeOK /\ Numbered /\ Steppable
  /\ ~wrong => GoodSoFar

USE DEF vars, shared, run, devices, main, switches, history

LEMMA InitHolds == Init => IInv
<1> SUFFICES ASSUME Init PROVE IInv
  OBVIOUS
<1>1. TypeOK
  <2>1. Dark \in [place : 0..Places, figure : 0..Last, left : Int]
    BY DEF Dark
  <2>2. Nothing \in [num : Nat, option : Options \cup {<<>>}]
    BY DEF Nothing
  <2>3. on \in BOOLEAN /\ wrong \in BOOLEAN
    BY Zenon DEF Init
  <2> QED
    BY <2>1, <2>2, <2>3 DEF Init, TypeOK, Objects, Steps
<1>2. Numbered /\ Steppable
  BY DEF Init, Numbered, Steppable, Objects, Holding
<1>3. GoodSoFar
  BY DEF Init, GoodSoFar, Alive, Objects, Holding
<1> QED
  BY <1>1, <1>2, <1>3 DEF IInv

(* What the figure goes to the displays as.                                  *)
LEMMA ShownTyped ==
  ASSUME NEW o \in Options \cup {<<>>}, NEW n \in Int, FigureSwitch(o, n)
  PROVE  board' \in [place : 0..Places, figure : 0..Last, left : Int]
<1>1. CASE Filled(o)
  <2>1. o \in Options
    BY <1>1 DEF Filled
  <2>2. Place(o) \in 1..Places /\ o[Place(o)] \in 0..Last
    BY <1>1, <2>1, SomePlace DEF Options
  <2> QED
    BY <1>1, <2>2 DEF FigureSwitch
<1>2. CASE ~Filled(o)
  BY <1>2 DEF FigureSwitch, Dark
<1> QED
  BY <1>1, <1>2

LEMMA BlankTyped == Blank \in Options
BY DEF Blank, Options

LEMMA GoHistory ==
  ASSUME TypeOK, Go
  PROVE  /\ wrong' \in BOOLEAN
         /\ asked' \in [num : Nat, option : Options \cup {<<>>}]
<1>1. PICK in \in Inputs : /\ wrong' = (wrong \/ ~OneFigure(in.option))
                           /\ asked' = IF Quiet THEN in ELSE Nothing
  BY DEF Go
<1>2. wrong' \in BOOLEAN
  BY <1>1, Zenon DEF TypeOK
<1>3. asked' \in [num : Nat, option : Options \cup {<<>>}]
  BY <1>1 DEF Nothing
<1> QED
  BY <1>2, <1>3

LEMMA TypeStep ==
  ASSUME IInv, Next
  PROVE  TypeOK'
<1> USE DEF TypeOK, Steps, Goto
<1>1. TypeOK /\ crashed = "no" /\ Steppable
  BY DEF IInv, Next
<1> SUFFICES ASSUME TypeOK, crashed = "no", Steppable PROVE TypeOK'
  BY Zenon, <1>1
<1>2. CASE Create
  BY SMTT(60), <1>2 DEF Create
<1>3. ASSUME NEW t \in Objects, Begin(t) PROVE TypeOK'
  BY SMTT(60), <1>3 DEF Begin
<1>4. ASSUME NEW t \in Objects, Test(t) PROVE TypeOK'
  BY SMTT(60), <1>4 DEF Test
<1>5. ASSUME NEW t \in Objects, Load(t) PROVE TypeOK'
  BY SMTT(60), <1>5 DEF Load
<1>6. ASSUME NEW t \in Objects, Show(t) PROVE TypeOK'
  <2>1. num - i[t] \in Int
    BY DEF Objects
  <2>2. FigureSwitch(option, num - i[t])
    BY SMTT(60), <1>6 DEF Show
  <2>3. board' \in [place : 0..Places, figure : 0..Last, left : Int]
    BY <2>1, <2>2, ShownTyped
  <2> QED
    BY SMTT(60), <1>6, <2>3 DEF Show
<1>7. ASSUME NEW t \in Objects, ShowText(t) PROVE TypeOK'
  BY SMTT(60), <1>7 DEF ShowText, TextPrint
<1>8. ASSUME NEW t \in Objects, Wake(t) PROVE TypeOK'
  BY SMTT(60), <1>8 DEF Wake
<1>9. ASSUME NEW t \in Objects, Store(t) PROVE TypeOK'
  BY SMTT(60), <1>9 DEF Store
<1>10. ASSUME NEW t \in Objects, Step(t) PROVE TypeOK'
  <2>1. op[t] \in Options \cup {<<>>} /\ Filled(op[t])
    BY SMTT(60), <1>10 DEF Step, Steppable, Holding
  <2>2. Stepped(op[t]) \in Options
    BY <2>1, SteppedTyped DEF Filled
  <2> QED
    BY SMTT(60), <1>10, <2>2 DEF Step
<1>11. ASSUME NEW t \in Objects, Off(t) PROVE TypeOK'
  <2>1. FigureSwitch(Blank, 0)
    BY SMTT(60), <1>11 DEF Off
  <2>2. board' \in [place : 0..Places, figure : 0..Last, left : Int]
    BY <2>1, BlankTyped, ShownTyped
  <2> QED
    BY SMTT(60), <1>11, <2>2 DEF Off
<1>12. ASSUME NEW t \in Objects, BlankText(t) PROVE TypeOK'
  BY SMTT(60), <1>12 DEF BlankText, TextPrint
<1>13. ASSUME NEW t \in Objects, Renew(t) PROVE TypeOK'
  BY SMTT(60), <1>13 DEF Renew, MakeThread, Objects
<1>14. CASE Touch /\ Go
  <2>1. PICK in \in Inputs : typed' = in /\ num' = in.num
    BY SMTT(60), <1>14 DEF Go
  <2>2. in \in [num : Nat, option : Options \cup {<<>>}]
    BY <2>1
  <2> QED
    BY SMTT(60), <1>14, <2>1, <2>2, GoHistory DEF Touch, Event, Go
<1>15. CASE Touch /\ Clear
  BY SMTT(60), <1>15 DEF Touch, Event, Clear, TellEnd, Nothing
<1>16. CASE Touch /\ Main
  <2>1. on' \in BOOLEAN
    BY <1>16, Zenon DEF Main
  <2>2. pc' \in [Objects -> Steps \cup {"new", "done", "killed"}]
    BY SMTT(60), <1>16 DEF Main
  <2>3. crashed' \in {"no", "stop", "start", "figure"}
    BY SMTT(60), <1>16 DEF Main
  <2> QED
    BY SMTT(60), <1>16, <2>1, <2>2, <2>3 DEF Touch, Event, Main
<1>17. CASE Touch /\ Key
  <2>1. on' \in BOOLEAN
    BY <1>17, Zenon DEF Key, Leave
  <2> QED
    BY SMTT(60), <1>17, <2>1 DEF Touch, Event, Key, Leave, TellEnd, Nothing
<1>18. CASE RunPosted
  <2>1. PICK in \in Inputs : typed' = in /\ num' = in.num
    BY SMTT(60), <1>18 DEF RunPosted, Go
  <2>2. in \in [num : Nat, option : Options \cup {<<>>}]
    BY <2>1
  <2> QED
    BY SMTT(60), <1>18, <2>1, <2>2, GoHistory DEF RunPosted, Go
<1>19. CASE GoOption
  BY SMTT(60), <1>19 DEF GoOption
<1>20. CASE GoStarts
  BY SMTT(60), <1>20 DEF GoStarts, Nothing
<1>21. CASE Replace
  BY SMTT(60), <1>21 DEF Replace, MakeThread, Objects
<1>22. CASE PollerBegins
  BY SMTT(60), <1>22 DEF PollerBegins
<1>23. CASE PollerTests
  BY SMTT(60), <1>23 DEF PollerTests
<1>24. CASE PollerReplaces
  BY SMTT(60), <1>24 DEF PollerReplaces, MakeThread, Objects
<1>25. CASE PollerIdles
  BY SMTT(60), <1>25 DEF PollerIdles
<1>26. CASE ChordQuit
  <2>1. on' \in BOOLEAN
    BY <1>26, Zenon DEF ChordQuit, Leave
  <2> QED
    BY SMTT(60), <1>26, <2>1 DEF ChordQuit, PushSwitch, Event, Leave, TellEnd, Nothing
<1>27. CASE ChordClear
  BY SMTT(60), <1>27 DEF ChordClear, PushSwitch, Event, TellEnd, Nothing
<1>28. CASE ChordGo
  BY SMTT(60), <1>28 DEF ChordGo, PushSwitch, Event
<1> QED
  BY Zenon, <1>2, <1>3, <1>4, <1>5, <1>6, <1>7, <1>8, <1>9, <1>10, <1>11, <1>12,
     <1>13, <1>14, <1>15, <1>16, <1>17, <1>18, <1>19, <1>20, <1>21, <1>22, <1>23,
     <1>24, <1>25, <1>26, <1>27, <1>28
     DEF Next, Touch, UI, Poller, Chord, Run

LEMMA NumberedStep ==
  ASSUME IInv, Next
  PROVE  Numbered'
<1> USE DEF Numbered, Goto, Alive, Objects, Steps
<1>1. Numbered /\ thread \in Objects /\ made \in Objects
      /\ pc \in [Objects -> Steps \cup {"new", "done", "killed"}]
  BY DEF IInv, TypeOK
<1> SUFFICES ASSUME Numbered, thread \in Objects, made \in Objects,
                    pc \in [Objects -> Steps \cup {"new", "done", "killed"}]
             PROVE  Numbered'
  BY <1>1
<1>2. ASSUME NEW t \in Objects, Begin(t) PROVE Numbered'
  BY <1>2 DEF Begin
<1>3. ASSUME NEW t \in Objects, Test(t) PROVE Numbered'
  BY <1>3 DEF Test
<1>4. ASSUME NEW t \in Objects, Load(t) PROVE Numbered'
  BY <1>4 DEF Load
<1>5. ASSUME NEW t \in Objects, Show(t) PROVE Numbered'
  BY <1>5 DEF Show
<1>6. ASSUME NEW t \in Objects, ShowText(t) PROVE Numbered'
  BY <1>6 DEF ShowText
<1>7. ASSUME NEW t \in Objects, Wake(t) PROVE Numbered'
  BY <1>7 DEF Wake
<1>8. ASSUME NEW t \in Objects, Store(t) PROVE Numbered'
  BY <1>8 DEF Store
<1>9. ASSUME NEW t \in Objects, Step(t) PROVE Numbered'
  BY <1>9 DEF Step
<1>10. ASSUME NEW t \in Objects, Off(t) PROVE Numbered'
  BY <1>10 DEF Off
<1>11. ASSUME NEW t \in Objects, BlankText(t) PROVE Numbered'
  BY <1>11 DEF BlankText
<1>12. ASSUME NEW t \in Objects, Renew(t) PROVE Numbered'
  BY <1>12 DEF Renew, MakeThread
<1>13. CASE Touch /\ Go
  BY <1>13 DEF Touch, Go
<1>14. CASE Touch /\ Clear
  BY <1>14 DEF Touch, Clear
<1>15. CASE Touch /\ Main
  BY <1>15 DEF Touch, Main
<1>16. CASE Touch /\ Key
  BY <1>16 DEF Touch, Key, Leave
<1>17. CASE Create
  BY <1>17 DEF Create
<1>18. CASE RunPosted
  BY <1>18 DEF RunPosted, Go
<1>19. CASE GoOption
  BY <1>19 DEF GoOption
<1>20. CASE GoStarts
  BY <1>20 DEF GoStarts, Nothing
<1>21. CASE Replace
  BY <1>21 DEF Replace, MakeThread
<1>22. CASE PollerBegins
  BY <1>22 DEF PollerBegins
<1>23. CASE PollerTests
  BY <1>23 DEF PollerTests
<1>24. CASE PollerReplaces
  BY <1>24 DEF PollerReplaces, MakeThread
<1>25. CASE PollerIdles
  BY <1>25 DEF PollerIdles
<1>26. CASE ChordQuit
  BY <1>26 DEF ChordQuit, Leave
<1>27. CASE ChordClear
  BY <1>27 DEF ChordClear, PushSwitch
<1>28. CASE ChordGo
  BY <1>28 DEF ChordGo
<1> QED
  BY <1>2, <1>3, <1>4, <1>5, <1>6, <1>7, <1>8, <1>9, <1>10, <1>11, <1>12, <1>13,
     <1>14, <1>15, <1>16, <1>17, <1>18, <1>19, <1>20, <1>21, <1>22, <1>23, <1>24,
     <1>25, <1>26, <1>27, <1>28
     DEF Next, Touch, UI, Poller, Chord, Run

LEMMA SteppableStep ==
  ASSUME IInv, Next
  PROVE  Steppable'
<1> USE DEF Steppable, Goto, Holding
<1>1. Steppable /\ crashed = "no" /\ thread \in Objects
      /\ pc \in [Objects -> Steps \cup {"new", "done", "killed"}]
      /\ op \in [Objects -> Options \cup {<<>>}]
  BY DEF IInv, TypeOK, Next
<1> SUFFICES ASSUME Steppable, crashed = "no", thread \in Objects,
                    pc \in [Objects -> Steps \cup {"new", "done", "killed"}],
                    op \in [Objects -> Options \cup {<<>>}]
             PROVE  Steppable'
  BY <1>1
<1>2. ASSUME NEW t \in Objects, Begin(t) PROVE Steppable'
  BY <1>2 DEF Begin
<1>3. ASSUME NEW t \in Objects, Test(t) PROVE Steppable'
  BY <1>3 DEF Test
<1>4. ASSUME NEW t \in Objects, Load(t) PROVE Steppable'
  <2>1. crashed' = "no" => Filled(option)
    BY <1>4 DEF Load
  <2> QED
    BY <1>4, <2>1 DEF Load
<1>5. ASSUME NEW t \in Objects, Show(t) PROVE Steppable'
  BY <1>5 DEF Show
<1>6. ASSUME NEW t \in Objects, ShowText(t) PROVE Steppable'
  BY <1>6 DEF ShowText
<1>7. ASSUME NEW t \in Objects, Wake(t) PROVE Steppable'
  BY <1>7 DEF Wake
<1>8. ASSUME NEW t \in Objects, Store(t) PROVE Steppable'
  BY <1>8 DEF Store
<1>9. ASSUME NEW t \in Objects, Step(t) PROVE Steppable'
  BY <1>9 DEF Step
<1>10. ASSUME NEW t \in Objects, Off(t) PROVE Steppable'
  BY <1>10 DEF Off
<1>11. ASSUME NEW t \in Objects, BlankText(t) PROVE Steppable'
  BY <1>11 DEF BlankText
<1>12. ASSUME NEW t \in Objects, Renew(t) PROVE Steppable'
  BY <1>12 DEF Renew, MakeThread
<1>13. CASE Touch /\ Go
  BY <1>13 DEF Touch, Go
<1>14. CASE Touch /\ Clear
  BY <1>14 DEF Touch, Clear
<1>15. CASE Touch /\ Main
  BY <1>15 DEF Touch, Main
<1>16. CASE Touch /\ Key
  BY <1>16 DEF Touch, Key, Leave
<1>17. CASE Create
  BY <1>17 DEF Create
<1>18. CASE RunPosted
  BY <1>18 DEF RunPosted, Go
<1>19. CASE GoOption
  BY <1>19 DEF GoOption
<1>20. CASE GoStarts
  BY <1>20 DEF GoStarts, Nothing
<1>21. CASE Replace
  BY <1>21 DEF Replace, MakeThread
<1>22. CASE PollerBegins
  BY <1>22 DEF PollerBegins
<1>23. CASE PollerTests
  BY <1>23 DEF PollerTests
<1>24. CASE PollerReplaces
  BY <1>24 DEF PollerReplaces, MakeThread
<1>25. CASE PollerIdles
  BY <1>25 DEF PollerIdles
<1>26. CASE ChordQuit
  BY <1>26 DEF ChordQuit, Leave
<1>27. CASE ChordClear
  BY <1>27 DEF ChordClear, PushSwitch
<1>28. CASE ChordGo
  BY <1>28 DEF ChordGo
<1> QED
  BY <1>2, <1>3, <1>4, <1>5, <1>6, <1>7, <1>8, <1>9, <1>10, <1>11, <1>12, <1>13,
     <1>14, <1>15, <1>16, <1>17, <1>18, <1>19, <1>20, <1>21, <1>22, <1>23, <1>24,
     <1>25, <1>26, <1>27, <1>28
     DEF Next, Touch, UI, Poller, Chord, Run

LEMMA DarkStep ==
  ASSUME IInv, DarkAtRest, Next
  PROVE  DarkAtRest'
<1> USE DEF Goto, Steps, Alive, Objects
<1> DEFINE Figure == {"test", "load", "show", "text", "sleep", "store", "step",
                      "off", "killed"}
           Text == (Steps \ {"begin", "renew"}) \cup {"killed"}
           DarkBoard == board # Dark => \E t \in Objects : pc[t] \in Figure
           DarkText == lcd # "blank" => \E t \in Objects : pc[t] \in Text
<1>1. DarkBoard /\ DarkText /\ thread \in Objects
      /\ pc \in [Objects -> Steps \cup {"new", "done", "killed"}]
  BY DEF IInv, TypeOK, DarkAtRest
<1> SUFFICES ASSUME DarkBoard, DarkText, thread \in Objects,
                    pc \in [Objects -> Steps \cup {"new", "done", "killed"}]
             PROVE  DarkBoard' /\ DarkText'
  BY <1>1 DEF DarkAtRest
<1>2. ASSUME NEW t \in Objects, Begin(t) PROVE DarkBoard' /\ DarkText'
  BY <1>2 DEF Begin
<1>3. ASSUME NEW t \in Objects, Test(t) PROVE DarkBoard' /\ DarkText'
  BY <1>3 DEF Test
<1>4. ASSUME NEW t \in Objects, Load(t) PROVE DarkBoard' /\ DarkText'
  BY <1>4 DEF Load
<1>5. ASSUME NEW t \in Objects, Show(t) PROVE DarkBoard' /\ DarkText'
  BY <1>5 DEF Show
<1>6. ASSUME NEW t \in Objects, ShowText(t) PROVE DarkBoard' /\ DarkText'
  BY <1>6 DEF ShowText
<1>7. ASSUME NEW t \in Objects, Wake(t) PROVE DarkBoard' /\ DarkText'
  BY <1>7 DEF Wake
<1>8. ASSUME NEW t \in Objects, Store(t) PROVE DarkBoard' /\ DarkText'
  BY <1>8 DEF Store
<1>9. ASSUME NEW t \in Objects, Step(t) PROVE DarkBoard' /\ DarkText'
  BY <1>9 DEF Step
<1>10. ASSUME NEW t \in Objects, Off(t) PROVE DarkBoard' /\ DarkText'
  <2>1. board' = Dark
    BY <1>10, BlankIsDark DEF Off, FigureSwitch, Dark
  <2> QED
    BY <1>10, <2>1 DEF Off
<1>11. ASSUME NEW t \in Objects, BlankText(t) PROVE DarkBoard' /\ DarkText'
  <2>1. lcd' = "blank"
    BY <1>11 DEF BlankText, TextPrint
  <2> QED
    BY <1>11, <2>1 DEF BlankText
<1>12. ASSUME NEW t \in Objects, Renew(t) PROVE DarkBoard' /\ DarkText'
  BY <1>12 DEF Renew, MakeThread
<1>13. CASE Touch /\ Go
  BY <1>13 DEF Touch, Go
<1>14. CASE Touch /\ Clear
  BY <1>14 DEF Touch, Clear
<1>15. CASE Touch /\ Main
  BY <1>15 DEF Touch, Main
<1>16. CASE Touch /\ Key
  BY <1>16 DEF Touch, Key, Leave
<1>17. CASE Create
  BY <1>17 DEF Create
<1>18. CASE RunPosted
  BY <1>18 DEF RunPosted, Go
<1>19. CASE GoOption
  BY <1>19 DEF GoOption
<1>20. CASE GoStarts
  BY <1>20 DEF GoStarts, Nothing
<1>21. CASE Replace
  BY <1>21 DEF Replace, MakeThread
<1>22. CASE PollerBegins
  BY <1>22 DEF PollerBegins
<1>23. CASE PollerTests
  BY <1>23 DEF PollerTests
<1>24. CASE PollerReplaces
  BY <1>24 DEF PollerReplaces, MakeThread
<1>25. CASE PollerIdles
  BY <1>25 DEF PollerIdles
<1>26. CASE ChordQuit
  BY <1>26 DEF ChordQuit, Leave
<1>27. CASE ChordClear
  BY <1>27 DEF ChordClear, PushSwitch
<1>28. CASE ChordGo
  BY <1>28 DEF ChordGo
<1> QED
  BY <1>2, <1>3, <1>4, <1>5, <1>6, <1>7, <1>8, <1>9, <1>10, <1>11, <1>12, <1>13,
     <1>14, <1>15, <1>16, <1>17, <1>18, <1>19, <1>20, <1>21, <1>22, <1>23, <1>24,
     <1>25, <1>26, <1>27, <1>28
     DEF Next, Touch, UI, Poller, Chord, Run

LEMMA GoodStep ==
  ASSUME IInv, Next
  PROVE  (~wrong => GoodSoFar)'
<1> USE DEF GoodSoFar, Goto, Steps, Alive, Holding
<1> DEFINE Good == ~wrong => GoodSoFar
<1>1. Good /\ crashed = "no" /\ thread \in Objects
      /\ pc \in [Objects -> Steps \cup {"new", "done", "killed"}]
      /\ op \in [Objects -> Options \cup {<<>>}]
  BY DEF IInv, TypeOK, Next
<1> SUFFICES ASSUME Good, crashed = "no", thread \in Objects,
                    pc \in [Objects -> Steps \cup {"new", "done", "killed"}],
                    op \in [Objects -> Options \cup {<<>>}]
             PROVE  Good'
  BY <1>1
<1>2. ASSUME NEW t \in Objects, Begin(t) PROVE Good'
  BY <1>2 DEF Begin
<1>3. ASSUME NEW t \in Objects, Test(t) PROVE Good'
  BY <1>3 DEF Test
<1>4. ASSUME NEW t \in Objects, Load(t) PROVE Good'
  <2>1. ~wrong => OneFigure(option) /\ Filled(option)
    BY <1>4, OneIsFilled DEF Load
  <2> QED
    BY <1>4, <2>1 DEF Load
<1>5. ASSUME NEW t \in Objects, Show(t) PROVE Good'
  BY <1>5 DEF Show
<1>6. ASSUME NEW t \in Objects, ShowText(t) PROVE Good'
  BY <1>6 DEF ShowText
<1>7. ASSUME NEW t \in Objects, Wake(t) PROVE Good'
  BY <1>7 DEF Wake
<1>8. ASSUME NEW t \in Objects, Store(t) PROVE Good'
  BY <1>8 DEF Store
<1>9. ASSUME NEW t \in Objects, Step(t) PROVE Good'
  <2>1. ~wrong => OneFigure(Stepped(op[t]))
    BY <1>9, SteppedOne DEF Step
  <2> QED
    BY <1>9, <2>1 DEF Step
<1>10. ASSUME NEW t \in Objects, Off(t) PROVE Good'
  BY <1>10 DEF Off
<1>11. ASSUME NEW t \in Objects, BlankText(t) PROVE Good'
  BY <1>11 DEF BlankText
<1>12. ASSUME NEW t \in Objects, Renew(t) PROVE Good'
  BY <1>12 DEF Renew, MakeThread
<1>13. CASE Touch /\ Go
  <2>1. PICK in \in Inputs : /\ typed' = in
                             /\ wrong' = (wrong \/ ~OneFigure(in.option))
    BY <1>13 DEF RunPosted, Go
  <2>2. ~wrong' => ~wrong /\ OneFigure(in.option)
    BY <2>1, Zenon
  <2> QED
    BY <1>13, <2>1, <2>2 DEF Touch, RunPosted, Go
<1>14. CASE Touch /\ Clear
  BY <1>14 DEF Touch, Clear
<1>15. CASE Touch /\ Main
  BY <1>15 DEF Touch, Main
<1>16. CASE Touch /\ Key
  BY <1>16 DEF Touch, Key, Leave
<1>17. CASE Create
  BY <1>17 DEF Create
<1>18. CASE RunPosted
  <2>1. PICK in \in Inputs : /\ typed' = in
                             /\ wrong' = (wrong \/ ~OneFigure(in.option))
    BY <1>18 DEF RunPosted, Go
  <2>2. ~wrong' => ~wrong /\ OneFigure(in.option)
    BY <2>1, Zenon
  <2> QED
    BY <1>18, <2>1, <2>2 DEF Touch, RunPosted, Go
<1>19. CASE GoOption
  <2>1. ~wrong => typed.option # <<>> /\ OneFigure(typed.option)
    BY <1>19, OneIsFilled, NotEmpty DEF GoOption
  <2> QED
    BY <1>19, <2>1 DEF GoOption
<1>20. CASE GoStarts
  BY <1>20 DEF GoStarts, Nothing
<1>21. CASE Replace
  BY <1>21 DEF Replace, MakeThread
<1>22. CASE PollerBegins
  BY <1>22 DEF PollerBegins
<1>23. CASE PollerTests
  BY <1>23 DEF PollerTests
<1>24. CASE PollerReplaces
  BY <1>24 DEF PollerReplaces, MakeThread
<1>25. CASE PollerIdles
  BY <1>25 DEF PollerIdles
<1>26. CASE ChordQuit
  BY <1>26 DEF ChordQuit, Leave
<1>27. CASE ChordClear
  BY <1>27 DEF ChordClear, PushSwitch
<1>28. CASE ChordGo
  BY <1>28 DEF ChordGo
<1> QED
  BY <1>2, <1>3, <1>4, <1>5, <1>6, <1>7, <1>8, <1>9, <1>10, <1>11, <1>12, <1>13,
     <1>14, <1>15, <1>16, <1>17, <1>18, <1>19, <1>20, <1>21, <1>22, <1>23, <1>24,
     <1>25, <1>26, <1>27, <1>28
     DEF Next, Touch, UI, Poller, Chord, Run

LEMMA StutterHolds ==
  ASSUME IInv, DarkAtRest, UNCHANGED vars
  PROVE  IInv' /\ DarkAtRest'
<1>1. TypeOK'
  BY DEF IInv, TypeOK
<1>2. Numbered' /\ Steppable' /\ (~wrong => GoodSoFar)'
  BY DEF IInv, Numbered, Steppable, GoodSoFar, Alive
<1>3. DarkAtRest'
  BY DEF DarkAtRest
<1> QED
  BY <1>1, <1>2, <1>3 DEF IInv

LEMMA StepHolds ==
  ASSUME IInv, DarkAtRest, [Next]_vars
  PROVE  IInv' /\ DarkAtRest'
<1>1. CASE Next
  BY <1>1, TypeStep, NumberedStep, SteppableStep, GoodStep, DarkStep DEF IInv
<1>2. CASE UNCHANGED vars
  BY <1>2, StutterHolds
<1> QED
  BY <1>1, <1>2

LEMMA Inductive == Spec => [](IInv /\ DarkAtRest)
<1>1. Init => IInv /\ DarkAtRest
  BY InitHolds DEF Init, DarkAtRest, Dark
<1>2. IInv /\ DarkAtRest /\ [Next]_vars => IInv' /\ DarkAtRest'
  BY StepHolds
<1> QED
  BY <1>1, <1>2, PTL DEF Spec

(* Every variable keeps its type, for any number of threads, places and      *)
(* figures; in particular every option that is stepped on has a figure.      *)
THEOREM TypeCorrect == Spec => []TypeOK
<1>1. IInv => TypeOK
  BY DEF IInv
<1> QED
  BY <1>1, Inductive, PTL

(* Whatever threads run at a time: options typed with one figure keep one,   *)
(* no thread meets one it cannot step on, and Go never starts a thread that  *)
(* has come to its end.                                                      *)
THEOREM InputSafe == Spec => []GoodInputIsSafe
<1>1. IInv => GoodInputIsSafe
  BY DEF IInv, Numbered, GoodSoFar, GoodInputIsSafe
<1> QED
  BY <1>1, Inductive, PTL

(* No figure thread that comes to its end leaves a figure or its text on the *)
(* devices, for any number of threads at a time.                             *)
THEOREM GoesDark == Spec => []DarkAtRest
BY Inductive, PTL

-----------------------------------------------------------------------------
(* Quotients and remainders of numbers that are counted up.                  *)
LEMMA DivMod ==
  ASSUME NEW a \in Nat, NEW n \in Nat \ {0}
  PROVE  a = n * (a \div n) + (a % n) /\ a \div n \in Nat /\ a % n \in 0..(n - 1)
<1>1. a = n * (a \div n) + (a % n)
  BY Z3
<1>2. a \div n \in Nat
  OBVIOUS
<1>3. a % n \in 0..(n - 1)
  OBVIOUS
<1> QED
  BY <1>1, <1>2, <1>3

LEMMA DivModUnique ==
  ASSUME NEW n \in Nat \ {0}, NEW q \in Int, NEW d \in Int,
         NEW r \in 0..(n - 1), NEW m \in 0..(n - 1), n * q + r = n * d + m
  PROVE  q = d /\ r = m
<1>1. \A x \in Int : x >= 1 => n * x >= n
  OBVIOUS
<1>2. n * (q - d) = n * q - n * d /\ n * (d - q) = n * d - n * q
  OBVIOUS
<1>3. ~(q - d >= 1)
  BY <1>1, <1>2
<1>4. ~(d - q >= 1)
  BY <1>1, <1>2
<1> QED
  BY <1>3, <1>4

LEMMA DivModOf ==
  ASSUME NEW n \in Nat \ {0}, NEW a \in Nat, NEW d \in Nat, NEW m \in 0..(n - 1),
         a = n * d + m
  PROVE  a \div n = d /\ a % n = m
<1> DEFINE q == a \div n
           r == a % n
<1>1. a = n * q + r /\ q \in Nat /\ r \in 0..(n - 1)
  BY Zenon, DivMod
<1> HIDE DEF q, r
<1>2. q = d /\ r = m
  BY <1>1, DivModUnique
<1> QED
  BY <1>2 DEF q, r

LEMMA DivModNext ==
  ASSUME NEW a \in Nat, NEW n \in Nat \ {0}
  PROVE  /\ a % n = n - 1 => (a + 1) % n = 0 /\ (a + 1) \div n = (a \div n) + 1
         /\ a % n # n - 1 => /\ (a + 1) % n = (a % n) + 1
                             /\ (a + 1) \div n = a \div n
<1> DEFINE d == a \div n
           m == a % n
<1>1. a = n * d + m /\ m \in 0..(n - 1) /\ d \in Nat
  BY Zenon, DivMod
<1> HIDE DEF d, m
<1>2. n * (d + 1) = n * d + n
  BY <1>1
<1>3. ASSUME m = n - 1 PROVE (a + 1) % n = 0 /\ (a + 1) \div n = d + 1
  <2>1. a + 1 = n * (d + 1) + 0 /\ a + 1 \in Nat /\ d + 1 \in Nat /\ 0 \in 0..(n - 1)
    BY <1>1, <1>2, <1>3
  <2> QED
    BY <2>1, DivModOf
<1>4. ASSUME m # n - 1 PROVE (a + 1) % n = m + 1 /\ (a + 1) \div n = d
  <2>1. a + 1 = n * d + (m + 1) /\ a + 1 \in Nat /\ m + 1 \in 0..(n - 1)
    BY <1>1, <1>4
  <2> QED
    BY <1>1, <2>1, DivModOf
<1> QED
  BY <1>3, <1>4 DEF d, m

(* The figure of an option is where its only place is that is not zero.      *)
LEMMA PlaceIs ==
  ASSUME NEW o, OneFigure(o), NEW p \in 1..Places, o[p] # 0
  PROVE  Place(o) = p
<1>1. o \in Options /\ Filled(o)
  BY OneIsFilled
<1>2. Place(o) \in 1..Places /\ o[Place(o)] # 0
  BY <1>1, SomePlace
<1> QED
  BY <1>2 DEF OneFigure

(* A step goes to the next figure of the place, or to the first of the next. *)
LEMMA SteppedTo ==
  ASSUME NEW o, OneFigure(o)
  PROVE  LET j == Place(o)
         IN  /\ o[j] # Last => /\ Place(Stepped(o)) = j
                               /\ Stepped(o)[j] = o[j] + 1
             /\ o[j] = Last /\ j # Places => /\ Place(Stepped(o)) = j + 1
                                             /\ Stepped(o)[j + 1] = 1
             /\ o[j] = Last /\ j = Places => /\ Place(Stepped(o)) = 1
                                             /\ Stepped(o)[1] = 1
<1> DEFINE j == Place(o)
           n == Stepped(o)
<1>1. o \in [1..Places -> 0..Last] /\ j \in 1..Places /\ o[j] \in 1..Last
  <2>1. o \in Options /\ Filled(o)
    BY OneIsFilled
  <2>2. j \in 1..Places /\ o[j] # 0
    BY <2>1, SomePlace
  <2> QED
    BY <2>1, <2>2 DEF Options
<1>2. n = IF o[j] # Last THEN [o EXCEPT ![j] = @ + 1]
          ELSE IF j # Places THEN [o EXCEPT ![j + 1] = 1, ![j] = 0]
          ELSE [o EXCEPT ![j] = 0, ![1] = 1]
  BY DEF Stepped
<1>3. OneFigure(n)
  BY SteppedOne
<1> HIDE DEF j, n
<1>4. ASSUME o[j] # Last PROVE Place(n) = j /\ n[j] = o[j] + 1
  <2>1. n[j] = o[j] + 1
    BY <1>1, <1>2, <1>4
  <2> QED
    BY <1>1, <1>3, <2>1, PlaceIs
<1>5. ASSUME o[j] = Last, j # Places PROVE Place(n) = j + 1 /\ n[j + 1] = 1
  <2>1. n[j + 1] = 1 /\ j + 1 \in 1..Places
    BY <1>1, <1>2, <1>5
  <2> QED
    BY <1>3, <2>1, PlaceIs
<1>6. ASSUME o[j] = Last, j = Places PROVE Place(n) = 1 /\ n[1] = 1
  <2>1. n[1] = 1 /\ 1 \in 1..Places
    BY <1>1, <1>2, <1>6
  <2> QED
    BY <1>3, <2>1, PlaceIs
<1> QED
  BY <1>4, <1>5, <1>6 DEF j, n

-----------------------------------------------------------------------------
(* The invariant of a run.                                                   *)
(* An option k steps on from the one asked for. *)
StepsOn(o, k) ==
  LET p == Place(asked.option)
      n == asked.option[p] - 1 + k
  IN  /\ OneFigure(o)
      /\ Place(o) = 1 + ((p - 1 + (n \div Last)) % Places)
      /\ o[Place(o)] = 1 + (n % Last)

(* What a thread of the run does: after i rounds the option is i steps on.   *)
InRun(t) ==
  /\ pc[t] = "begin" => option = asked.option
  /\ pc[t] \in {"test", "load", "show", "text", "sleep", "store"} =>
       StepsOn(option, i[t])
  /\ pc[t] \in Holding => op[t] = option
  /\ pc[t] \in {"text", "sleep"} =>
       board = [place |-> Place(option), figure |-> option[Place(option)],
                left |-> num - i[t]]
  /\ pc[t] = "store" => reg[t] = i[t]
  /\ pc[t] = "step" => i[t] > 0 /\ StepsOn(option, i[t] - 1)

(* A run that nobody disturbs has one thread, which starts when Go has taken *)
(* what was typed over into num and option.                                  *)
RunRight ==
  /\ OneFigure(asked.option)
  /\ ui # "clear" /\ num = asked.num
  /\ ui = "option" => typed = asked
  /\ ui = "start" => option = asked.option
  /\ ui # "idle" => Quiet
  /\ \A t \in Objects, u \in Objects : Alive(t) /\ Alive(u) => t = u
  /\ \A t \in Objects : InRun(t)

RunInv == asked # Nothing /\ ~wrong => RunRight

LEMMA StepsOnNothing ==
  ASSUME OneFigure(asked.option)
  PROVE  StepsOn(asked.option, 0)
<1> DEFINE o == asked.option
           p == Place(o)
           n == o[p] - 1
<1>1. p \in 1..Places /\ o[p] \in 1..Last
  <2>1. o \in Options /\ Filled(o)
    BY OneIsFilled
  <2> QED
    BY <2>1, SomePlace DEF Options
<1> HIDE DEF o, p
<1>2. n \div Last = 0 /\ n % Last = n /\ n \in Nat
  <2>1. n \in 0..(Last - 1) /\ n \in Nat /\ n = Last * 0 + n
    BY <1>1
  <2> HIDE DEF n
  <2> QED
    BY <2>1, DivModOf
<1>3. (p - 1) % Places = p - 1
  <2> DEFINE a == p - 1
  <2>1. a \in 0..(Places - 1) /\ a \in Nat /\ a = Places * 0 + a
    BY <1>1
  <2> HIDE DEF a
  <2>2. a % Places = a
    BY <2>1, DivModOf
  <2> QED
    BY <2>2 DEF a
<1>4. o[p] = 1 + n
  BY <1>1
<1> HIDE DEF n
<1>5. p = 1 + ((p - 1 + ((n + 0) \div Last)) % Places) /\ o[p] = 1 + ((n + 0) % Last)
  <2>1. n + 0 = n /\ p - 1 + 0 = p - 1
    BY <1>1, <1>2
  <2> QED
    BY <1>1, <1>2, <1>3, <1>4, <2>1
<1> QED
  BY <1>5 DEF StepsOn, o, p, n

LEMMA StepsOnNext ==
  ASSUME OneFigure(asked.option), NEW o, NEW k \in Nat, StepsOn(o, k)
  PROVE  StepsOn(Stepped(o), k + 1)
<1> DEFINE p == Place(asked.option)
           n == asked.option[p] - 1 + k
           d == n \div Last
           m == n % Last
           a == p - 1 + d
           b == a % Places
           j == Place(o)
<1>1. p \in 1..Places /\ n \in Nat /\ asked.option[p] - 1 + (k + 1) = n + 1
  <2>1. asked.option \in Options /\ Filled(asked.option)
    BY OneIsFilled
  <2>2. p \in 1..Places /\ asked.option[p] # 0 /\ asked.option[p] \in 0..Last
    BY <2>1, SomePlace DEF Options
  <2> HIDE DEF p
  <2> QED
    BY SMTT(30), <2>2
<1>2. OneFigure(o) /\ j = 1 + b /\ o[j] = 1 + m
  BY DEF StepsOn
<1> HIDE DEF p, n
<1>3. d \in Nat /\ m \in 0..(Last - 1)
  BY Zenon, <1>1, DivMod
<1>4. /\ m = Last - 1 => (n + 1) % Last = 0 /\ (n + 1) \div Last = d + 1
      /\ m # Last - 1 => (n + 1) % Last = m + 1 /\ (n + 1) \div Last = d
  BY Zenon, <1>1, DivModNext
<1> HIDE DEF d, m
<1>5. a \in Nat /\ p - 1 + (d + 1) = a + 1
  BY <1>1, <1>3
<1> HIDE DEF a
<1>6. b \in 0..(Places - 1)
  BY <1>5, DivMod
<1>7. /\ b = Places - 1 => (a + 1) % Places = 0
      /\ b # Places - 1 => (a + 1) % Places = b + 1
  BY Zenon, <1>5, DivModNext
<1> HIDE DEF b
<1>8. /\ o[j] # Last => Place(Stepped(o)) = j /\ Stepped(o)[j] = o[j] + 1
      /\ o[j] = Last /\ j # Places => Place(Stepped(o)) = j + 1 /\ Stepped(o)[j + 1] = 1
      /\ o[j] = Last /\ j = Places => Place(Stepped(o)) = 1 /\ Stepped(o)[1] = 1
  BY <1>2, SteppedTo
<1> HIDE DEF j
<1>9. /\ Place(Stepped(o)) = 1 + ((p - 1 + ((n + 1) \div Last)) % Places)
      /\ Stepped(o)[Place(Stepped(o))] = 1 + ((n + 1) % Last)
  <2>1. CASE m # Last - 1
    <3>1. o[j] # Last /\ o[j] + 1 = 1 + (m + 1)
      BY <1>2, <1>3, <2>1
    <3>2. (n + 1) \div Last = d /\ (n + 1) % Last = m + 1
      BY <1>4, <2>1
    <3>3. j = 1 + ((p - 1 + d) % Places)
      BY <1>2 DEF b, a
    <3> QED
      BY <1>8, <3>1, <3>2, <3>3
  <2>2. CASE m = Last - 1
    <3>1. o[j] = Last /\ (n + 1) % Last = 0 /\ (n + 1) \div Last = d + 1
      BY <1>2, <1>4, <2>2
    <3>2. CASE b # Places - 1
      <4>1. j # Places /\ j + 1 = 1 + (b + 1)
        BY <1>2, <1>6, <3>2
      <4>2. Place(Stepped(o)) = 1 + ((a + 1) % Places)
        BY <1>7, <1>8, <3>1, <3>2, <4>1
      <4> QED
        BY <1>5, <1>8, <3>1, <4>1, <4>2
    <3>3. CASE b = Places - 1
      <4>1. j = Places
        BY <1>2, <3>3
      <4>2. Place(Stepped(o)) = 1 + ((a + 1) % Places)
        BY <1>7, <1>8, <3>1, <3>3, <4>1
      <4> QED
        BY <1>5, <1>8, <3>1, <4>1, <4>2
    <3> QED
      BY <3>2, <3>3
  <2> QED
    BY <2>1, <2>2
<1>10. OneFigure(Stepped(o))
  BY <1>2, SteppedOne
<1> QED
  BY <1>1, <1>9, <1>10 DEF StepsOn, n, p

(* A round of a thread that runs alone.                                      *)
LEMMA ThreadRuns ==
  ASSUME IInv, RunInv, crashed = "no", NEW t \in Objects, Run(t)
  PROVE  RunInv'
<1> USE DEF Goto, Alive
<1>1. TypeOK
  BY DEF IInv
<1>2. /\ pc[t] \in Steps
      /\ \E to \in Steps \cup {"done"} : pc' = [pc EXCEPT ![t] = to]
      /\ UNCHANGED <<num, ui, typed, asked, wrong>>
  BY DEF Run, Begin, Test, Load, Show, ShowText, Wake, Store, Step, Off, BlankText,
         Renew, Steps
<1>3. SUFFICES ASSUME asked # Nothing, ~wrong PROVE RunRight'
  BY <1>2 DEF RunInv
<1>4. RunRight
  BY <1>3 DEF RunInv
<1>5. Alive(t)
  BY <1>2 DEF Steps
<1>6. ui = "idle" /\ OneFigure(asked.option) /\ num = asked.num
  BY <1>4, <1>5 DEF RunRight, Quiet, TypeOK
<1>7. \A u \in Objects \ {t} : pc'[u] = pc[u] /\ ~Alive(u)
  BY <1>1, <1>2, <1>4, <1>5 DEF RunRight, TypeOK
<1>8. \A u \in Objects : InRun(u)
  BY <1>4 DEF RunRight
<1>9. i[t] \in Nat /\ num \in Nat
  BY <1>1 DEF TypeOK
<1>10. InRun(t)'
  <2> USE DEF InRun, Holding
  <2>1. pc \in [Objects -> Steps \cup {"new", "done", "killed"}]
        /\ i \in [Objects -> Nat] /\ reg \in [Objects -> Nat]
        /\ op \in [Objects -> Options \cup {<<>>}]
    BY <1>1 DEF TypeOK
  <2>2. CASE Begin(t)
    <3>1. pc'[t] = "test" /\ i'[t] = 0 /\ option' = asked.option
      BY <1>8, <2>1, <2>2 DEF Begin
    <3>2. StepsOn(asked.option, 0)
      BY <1>6, StepsOnNothing
    <3> QED
      BY <1>2, <3>1, <3>2 DEF StepsOn
  <2>3. CASE Test(t)
    <3>1. /\ pc[t] = "test" /\ pc'[t] \in {"load", "off"}
          /\ UNCHANGED <<option, i>>
      BY <2>1, <2>3 DEF Test
    <3> QED
      BY <1>2, <1>8, <3>1 DEF StepsOn
  <2>4. CASE Load(t)
    <3>1. /\ pc[t] = "load" /\ pc'[t] = "show" /\ op'[t] = option
          /\ UNCHANGED <<option, i>>
      BY <2>1, <2>4 DEF Load
    <3> QED
      BY <1>2, <1>8, <3>1 DEF StepsOn
  <2>5. CASE Show(t)
    <3>1. /\ pc[t] = "show" /\ pc'[t] = "text" /\ UNCHANGED <<option, i, op>>
          /\ FigureSwitch(option, num - i[t])
      BY <2>1, <2>5 DEF Show
    <3>2. StepsOn(option, i[t]) /\ Filled(option)
      BY <1>8, <3>1, OneIsFilled DEF StepsOn
    <3>3. board' = [place |-> Place(option), figure |-> option[Place(option)],
                    left |-> num - i[t]]
      BY <3>1, <3>2 DEF FigureSwitch
    <3> QED
      BY <1>2, <1>8, <3>1, <3>2, <3>3 DEF StepsOn
  <2>6. CASE ShowText(t)
    <3>1. /\ pc[t] = "text" /\ pc'[t] = "sleep"
          /\ UNCHANGED <<option, i, op, board>>
      BY <2>1, <2>6 DEF ShowText
    <3> QED
      BY <1>2, <1>8, <3>1 DEF StepsOn
  <2>7. CASE Wake(t)
    <3>1. /\ pc[t] = "sleep" /\ pc'[t] = "store" /\ reg'[t] = i[t]
          /\ UNCHANGED <<option, i, op>>
      BY <2>1, <2>7 DEF Wake
    <3> QED
      BY <1>2, <1>8, <3>1 DEF StepsOn
  <2>8. CASE Store(t)
    <3>1. /\ pc[t] = "store" /\ pc'[t] = "step" /\ i'[t] = reg[t] + 1
          /\ UNCHANGED <<option, op>>
      BY <2>1, <2>8 DEF Store
    <3>2. reg[t] = i[t] /\ StepsOn(option, i[t]) /\ op[t] = option
      BY <1>8, <3>1
    <3>3. i'[t] > 0 /\ i'[t] - 1 = i[t]
      BY <1>9, <3>1, <3>2
    <3> QED
      BY <1>2, <3>1, <3>2, <3>3 DEF StepsOn
  <2>9. CASE Step(t)
    <3>1. /\ pc[t] = "step" /\ pc'[t] = "test" /\ UNCHANGED i
          /\ option' = Stepped(op[t])
      BY <2>1, <2>9 DEF Step
    <3>2. i[t] > 0 /\ StepsOn(option, i[t] - 1) /\ op[t] = option
      BY <1>8, <3>1
    <3>3. i[t] - 1 \in Nat /\ (i[t] - 1) + 1 = i[t]
      BY <1>9, <3>2
    <3>4. StepsOn(option', i[t])
      BY <1>6, <3>1, <3>2, <3>3, StepsOnNext
    <3> QED
      BY <1>2, <3>1, <3>4 DEF StepsOn
  <2>10. CASE Off(t) \/ BlankText(t) \/ Renew(t)
    <3>1. pc'[t] \in {"blank", "renew", "done"}
      BY <2>1, <2>10 DEF Off, BlankText, Renew
    <3> QED
      BY <3>1
  <2> QED
    BY <2>2, <2>3, <2>4, <2>5, <2>6, <2>7, <2>8, <2>9, <2>10 DEF Run
<1>11. \A u \in Objects \ {t} : InRun(u)'
  BY <1>7 DEF InRun, Holding
<1> QED
  BY <1>2, <1>6, <1>7, <1>10, <1>11 DEF RunRight

(* The steps of the other threads that leave the run alone.                  *)
LEMMA OthersKeepRun ==
  ASSUME RunInv, UNCHANGED <<num, option, pc, i, op, reg, board, wrong, asked>>,
         UNCHANGED <<ui, typed>>
  PROVE  RunInv'
BY DEF RunInv, RunRight, InRun, StepsOn, Quiet, Alive

LEMMA GoRuns ==
  ASSUME RunInv, crashed = "no", Go
  PROVE  RunInv'
<1>1. PICK in \in Inputs : /\ typed' = in /\ num' = in.num
                           /\ wrong' = (wrong \/ ~OneFigure(in.option))
                           /\ asked' = IF Quiet THEN in ELSE Nothing
  BY DEF Go
<1>2. SUFFICES ASSUME asked' # Nothing, ~wrong' PROVE RunRight'
  BY DEF RunInv
<1>3. Quiet /\ asked' = in
  BY <1>1, <1>2
<1>4. OneFigure(in.option)
  BY <1>1, <1>2, Zenon
<1>5. ui' = "option" /\ pc' = pc
  BY DEF Go
<1>6. \A t \in Objects : ~Alive(t)'
  BY <1>3, <1>5 DEF Quiet, Alive
<1> QED
  BY <1>1, <1>3, <1>4, <1>5, <1>6
     DEF RunRight, InRun, Quiet, Alive, Holding, OneFigure

LEMMA RunStep ==
  ASSUME IInv, RunInv, Next
  PROVE  RunInv'
<1>1. crashed = "no" /\ TypeOK
  BY DEF Next, IInv
<1>2. ASSUME NEW t \in Objects, Run(t) PROVE RunInv'
  BY <1>1, <1>2, ThreadRuns
<1>3. CASE Touch /\ Go
  BY <1>1, <1>3, GoRuns
<1>4. CASE RunPosted
  BY <1>1, <1>4, GoRuns DEF RunPosted
<1>5. CASE Touch /\ (Clear \/ Key)
  BY <1>5 DEF Clear, Key, Leave, RunInv
<1>6. CASE ChordQuit \/ ChordClear
  BY <1>6 DEF ChordQuit, ChordClear, Leave, RunInv
<1>7. CASE Touch /\ Main
  <2>1. /\ UNCHANGED <<num, option, i, op, reg, board, wrong, asked, typed>>
        /\ ui = "idle" /\ ui' = "idle"
    BY <1>7 DEF Touch, Main
  <2>2. \A t \in Objects : pc'[t] = pc[t] \/ pc'[t] = "killed"
    BY <1>1, <1>7 DEF Main, TypeOK
  <2> QED
    BY <2>1, <2>2 DEF RunInv, RunRight, InRun, StepsOn, Alive, Holding
<1>8. CASE GoOption
  <2>1. /\ ui = "option" /\ ui' = "start"
        /\ option' = IF typed.option = <<>> THEN option ELSE typed.option
        /\ UNCHANGED <<num, pc, wrong, asked>>
    BY <1>8 DEF GoOption
  <2>2. SUFFICES ASSUME asked # Nothing, ~wrong PROVE RunRight'
    BY <2>1 DEF RunInv
  <2>3. RunRight
    BY <2>2 DEF RunInv
  <2>4. OneFigure(asked.option) /\ typed = asked /\ Quiet /\ num = asked.num
    BY <2>1, <2>3 DEF RunRight
  <2>5. option' = asked.option
    BY <2>1, <2>4, OneIsFilled, NotEmpty
  <2>6. \A t \in Objects : ~Alive(t)'
    BY <2>1, <2>4 DEF Quiet, Alive
  <2> QED
    BY <2>1, <2>4, <2>5, <2>6 DEF RunRight, InRun, Quiet, Alive, Holding, OneFigure
<1>9. CASE GoStarts
  <2>1. /\ ui = "start" /\ ui' = "idle"
        /\ \A t \in Objects : pc'[t] = pc[t] \/ (t = thread /\ pc'[t] = "begin")
        /\ UNCHANGED <<num, option, wrong, asked>>
    BY <1>1, <1>9 DEF GoStarts, TypeOK
  <2>2. SUFFICES ASSUME asked # Nothing, ~wrong PROVE RunRight'
    BY <2>1 DEF RunInv
  <2>3. RunRight
    BY <2>2 DEF RunInv
  <2>4. OneFigure(asked.option) /\ option = asked.option /\ Quiet /\ num = asked.num
    BY <2>1, <2>3 DEF RunRight
  <2>5. \A t \in Objects : ~Alive(t)' \/ (t = thread /\ pc'[t] = "begin")
    BY <2>1, <2>4 DEF Quiet, Alive
  <2>6. \A t \in Objects : InRun(t)'
    BY <2>1, <2>4, <2>5 DEF InRun, Alive, Holding
  <2> QED
    BY <2>1, <2>4, <2>5, <2>6 DEF RunRight, OneFigure
<1>10. CASE Replace
  <2>1. /\ ui = "clear" /\ UNCHANGED <<asked, wrong>>
    BY <1>10 DEF Replace
  <2> QED
    BY <2>1 DEF RunInv, RunRight
<1>11. CASE Create \/ Poller \/ ChordGo
  <2>1. UNCHANGED <<num, option, pc, i, op, reg, board, wrong, asked, ui, typed>>
    BY <1>11 DEF Create, Poller, PollerBegins, PollerTests, PollerReplaces,
                 PollerIdles, ChordGo
  <2> QED
    BY <2>1, OthersKeepRun
<1> QED
  BY <1>1, <1>2, <1>3, <1>4, <1>5, <1>6, <1>7, <1>8, <1>9, <1>10, <1>11
     DEF Next, Touch, UI, Chord

(* The kth output of a run that nobody disturbs is the figure k - 1 steps on *)
(* from the one typed, for any number of places and of figures of a place.   *)
THEOREM RunsAsAsked == Spec => []RunShowsWhatWasAsked
<1>1. Init => RunInv
  BY DEF Init, RunInv
<1>2. IInv /\ RunInv /\ [Next]_vars => RunInv'
  <2> SUFFICES ASSUME IInv, RunInv, [Next]_vars PROVE RunInv'
    OBVIOUS
  <2>1. CASE UNCHANGED vars
    BY <2>1, OthersKeepRun
  <2> QED
    BY <2>1, RunStep
<1>3. RunInv => RunShowsWhatWasAsked
  <2> SUFFICES ASSUME RunInv, NEW t \in Objects, asked # Nothing, ~wrong,
                      pc[t] = "sleep"
               PROVE  LET p == Place(asked.option)
                          steps == asked.option[p] - 1 + i[t]
                      IN  board = [place |-> 1 + ((p - 1 + (steps \div Last)) % Places),
                                   figure |-> 1 + (steps % Last),
                                   left |-> asked.num - i[t]]
    BY DEF RunShowsWhatWasAsked
  <2>1. RunRight /\ InRun(t)
    BY DEF RunInv, RunRight
  <2>2. /\ StepsOn(option, i[t]) /\ num = asked.num
        /\ board = [place |-> Place(option), figure |-> option[Place(option)],
                    left |-> num - i[t]]
    BY <2>1 DEF RunRight, InRun
  <2> QED
    BY <2>2 DEF StepsOn
<1> QED
  BY <1>1, <1>2, <1>3, Inductive, PTL DEF Spec
=============================================================================
