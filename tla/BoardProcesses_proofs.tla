----------------------- MODULE BoardProcesses_proofs -----------------------
(* Proofs that the processes keep the types of what they share, that a       *)
(* stopwatch counts from a time that was set, and that no command is carried *)
(* out twice, for any number of keys and any length of the queue.            *)
EXTENDS BoardProcesses, TLAPS

Processes == {"key", "main", "input", "output"}

IsRecord == pc = [p \in Processes |-> pc[p]]

(* A command to start is one of this visit to the stopwatch, or about to be  *)
(* cleared.                                                                  *)
Fresh ==
  /\ pc.main = "second" => timed \/ hasty
  /\ mode = "1" /\ in0 \in {"3", "4"} /\ pc.key # "mail" => timed \/ hasty

(* A command that waits for the output process is owed, and one that waits   *)
(* for main on top of that, unless it is passed on already or about to be    *)
(* cleared.                                                                  *)
Waits(c) == out32 = c /\ pc.output # "clear"

Pending(c) ==
  mode = "3" /\ in0 = c /\ pc.key # "mail" /\ pc.main \notin {"mail", "passed"}

Owed ==
  \A c \in Commands :
    /\ owed[c] >= 0
    /\ Waits(c) => owed[c] >= 1
    /\ Pending(c) => owed[c] >= 1
    /\ Waits(c) /\ Pending(c) => owed[c] >= 2

IInv == TypeOK /\ IsRecord

USE BoardAssumption DEF vars, watch, keyVars, orders

LEMMA CommandTyped ==
  /\ DOMAIN CommandOf = {"SW1", "SW2", "SW3", "SW4"}
  /\ \A k \in DOMAIN CommandOf : CommandOf[k] \in Commands
<1>1. DOMAIN CommandOf = {"SW1", "SW2", "SW3", "SW4"}
  BY DEF CommandOf
<1>2. /\ CommandOf["SW1"] = "1" /\ CommandOf["SW2"] = "2"
      /\ CommandOf["SW3"] = "3" /\ CommandOf["SW4"] = "4"
  BY DEF CommandOf
<1> QED
  BY <1>1, <1>2 DEF Commands

LEMMA LoopIs ==
  /\ Loop["1"] = "watch" /\ Loop["2"] = "editor" /\ Loop["3"] = "custom"
  /\ Loop["0"] = "ended"
BY DEF Loop

LEMMA PickTyped ==
  ASSUME NEW m
  PROVE  Up(m) \in {"1", "2", "3"} /\ Down(m) \in {"1", "2", "3"}
BY DEF Up, Down

(* Where the last command may be. *)
Places == {"none", "in", "out", "done", "raced"}

LEMMA MovesTyped ==
  ASSUME latest \in Places, NEW from, NEW to \in Places, Moves(from, to)
  PROVE  latest' \in Places
BY DEF Moves

LEMMA InitHolds == Init => IInv /\ Fresh /\ Owed
<1> SUFFICES ASSUME Init PROVE IInv /\ Fresh /\ Owed
  OBVIOUS
<1>1. timed \in BOOLEAN /\ hasty \in BOOLEAN
  BY Zenon DEF Init
<1>2. TypeOK
  <2>1. queue \in Seq(Keys) /\ Len(queue) <= QueueSize /\ keysLeft \in 0..KeyBound
    BY DEF Init
  <2>2. owed \in [Commands -> Int]
    BY DEF Init
  <2>3. /\ pc.key = "test" /\ pc.main = "dispatch"
        /\ pc.input = "test" /\ pc.output = "dispatch"
    BY DEF Init
  <2> QED
    BY <1>1, <2>1, <2>2, <2>3 DEF Init, TypeOK
<1>3. IsRecord
  BY DEF Init, IsRecord, Processes
<1>4. Fresh
  BY DEF Init, Fresh
<1>5. Owed
  BY DEF Init, Owed, Waits, Pending, Commands
<1> QED
  BY <1>2, <1>3, <1>4, <1>5 DEF IInv

(* Where the processes may be. *)
PcTyped ==
  /\ pc.key \in Keys \cup {"1", "2", "3", "test", "read", "mail", "cells", "ended"}
  /\ pc.main \in {"dispatch", "watch", "second", "editor", "chord3",
                  "chord0", "mail", "cells", "custom", "passed", "ended"}
  /\ pc.input \in {"test", "store", "ended"}
  /\ pc.output \in {"dispatch", "watch", "editor", "custom", "clear", "ended"}

LEMMA OthersStay ==
  ASSUME IsRecord, NEW p \in Processes, NEW s, pc' = [pc EXCEPT ![p] = s]
  PROVE  IsRecord' /\ pc'[p] = s /\ \A q \in Processes \ {p} : pc'[q] = pc[q]
BY DEF IsRecord

(* A process that only goes on. *)
LEMMA GoesOn ==
  ASSUME IInv, UNCHANGED <<mode, in0, out32, keyVars, orders, watch>>,
         NEW p \in {"input", "output"}, NEW s, pc' = [pc EXCEPT ![p] = s],
         p = "input" => s \in {"test", "store", "ended"},
         p = "output" => s \in {"dispatch", "watch", "editor", "custom", "clear", "ended"}
  PROVE  IInv'
<1>1. IsRecord' /\ pc'[p] = s /\ \A q \in Processes \ {p} : pc'[q] = pc[q]
  BY OthersStay DEF IInv, Processes
<1>2. PcTyped'
  BY <1>1 DEF IInv, TypeOK, PcTyped, Processes
<1> QED
  BY <1>1, <1>2 DEF IInv, TypeOK, PcTyped

LEMMA TypeStep ==
  ASSUME IInv, Next
  PROVE  IInv'
<1> USE DEF IInv, TypeOK, IsRecord, Processes, Commands, Goto, MainGoto
<1>2. ASSUME NEW k \in Keys, KeyEvent(k) PROVE IInv'
  <2>1. queue' \in Seq(Keys) /\ Len(queue') <= QueueSize
    BY <1>2 DEF KeyEvent
  <2>2. keysLeft' \in 0..KeyBound
    BY <1>2 DEF KeyEvent
  <2> QED
    BY <1>2, <2>1, <2>2 DEF KeyEvent
<1>3. CASE KeyTest
  <2>1. IsRecord' /\ PcTyped'
    BY <1>3, OthersStay DEF KeyTest, PcTyped
  <2>2. UNCHANGED <<mode, in0, out32, keyVars, orders, watch>>
    BY <1>3 DEF KeyTest
  <2> QED
    BY <2>1, <2>2 DEF PcTyped
<1>4. CASE KeyRead
  <2>1. Head(queue) \in Keys
    BY <1>4 DEF KeyRead
  <2>2. queue' \in Seq(Keys) /\ Len(queue') <= QueueSize
    BY <1>4 DEF KeyRead
  <2> QED
    BY ZenonT(60), <1>4, <2>1, <2>2 DEF KeyRead
<1>5. CASE KeyFails
  BY ZenonT(60), <1>5 DEF KeyFails, Die
<1>6. CASE StoreWatch
  <2>1. in0' \in Commands
    BY <1>6, CommandTyped DEF StoreWatch
  <2>2. hasty' \in BOOLEAN
    BY <1>6, Zenon DEF StoreWatch
  <2>3. IsRecord' /\ PcTyped'
    BY <1>6, OthersStay DEF StoreWatch, PcTyped
  <2> QED
    BY Zenon, <1>6, <2>1, <2>2, <2>3 DEF StoreWatch, PcTyped
<1>7. CASE StoreCommand
  <2>1. in0' \in Commands
    BY <1>7, CommandTyped DEF StoreCommand
  <2>2. owed' \in [Commands -> Int]
    BY <1>7, <2>1 DEF StoreCommand
  <2> QED
    BY ZenonT(60), <1>7, <2>1, <2>2 DEF StoreCommand
<1>8. CASE IgnoreKey
  <2>1. pc' = [pc EXCEPT !["key"] = "test"]
    BY <1>8 DEF IgnoreKey
  <2>2. UNCHANGED <<mode, in0, out32, keyVars, orders, watch>>
    BY <1>8 DEF IgnoreKey
  <2> QED
    BY ZenonT(60), <2>1, <2>2
<1>9. CASE PickMode
  <2>1. pc' = [pc EXCEPT !["key"] = Up(mode)] \/ pc' = [pc EXCEPT !["key"] = Down(mode)]
    BY <1>9 DEF PickMode
  <2> QED
    BY <1>9, <2>1, PickTyped DEF PickMode
<1>10. CASE StoreMode
  BY ZenonT(60), <1>10 DEF StoreMode
<1>11. CASE KeyQuits
  BY ZenonT(60), <1>11 DEF KeyQuits
<1>12. CASE ResetMail("key")
  <2>1. latest' \in Places
    BY <1>12, MovesTyped DEF ResetMail, Places
  <2> QED
    BY ZenonT(60), <1>12, <2>1 DEF ResetMail, Places
<1>13. CASE ResetCells("key", "test")
  <2>1. latest' \in Places
    BY <1>13, MovesTyped DEF ResetCells, Places
  <2>2. IsRecord' /\ PcTyped'
    BY <1>13, OthersStay DEF ResetCells, PcTyped
  <2> QED
    BY Zenon, <1>13, <2>1, <2>2 DEF ResetCells, Places, PcTyped
<1>14. CASE Dispatch
  <2>1. IsRecord' /\ PcTyped'
    BY <1>14, LoopIs, OthersStay DEF Dispatch, PcTyped
  <2>2. UNCHANGED <<mode, in0, out32, keyVars, orders, watch>>
    BY <1>14 DEF Dispatch
  <2> QED
    BY <2>1, <2>2 DEF PcTyped
<1>15. CASE LeaveWatch
  BY ZenonT(60), <1>15 DEF LeaveWatch
<1>16. CASE Leave("2", "editor")
  BY ZenonT(60), <1>16 DEF Leave
<1>17. CASE Leave("3", "custom")
  BY ZenonT(60), <1>17 DEF Leave
<1>18. CASE WatchReset
  BY ZenonT(60), <1>18 DEF WatchReset
<1>19. CASE WatchRuns
  BY ZenonT(60), <1>19 DEF WatchRuns
<1>20. CASE WatchSecond
  BY ZenonT(60), <1>20 DEF WatchSecond
<1>21. ASSUME NEW c \in {"chord3", "chord0", "mail"}, PressChord(c)
      PROVE  IInv'
  BY ZenonT(60), <1>21 DEF PressChord
<1>22. CASE ChordMode
  BY ZenonT(60), <1>22 DEF ChordMode
<1>23. CASE ChordQuit
  BY ZenonT(60), <1>23 DEF ChordQuit
<1>24. CASE ResetMail("main")
  <2>1. latest' \in Places
    BY <1>24, MovesTyped DEF ResetMail, Places
  <2> QED
    BY ZenonT(60), <1>24, <2>1 DEF ResetMail, Places
<1>25. CASE ResetCells("main", "editor")
  <2>1. latest' \in Places
    BY <1>25, MovesTyped DEF ResetCells, Places
  <2> QED
    BY ZenonT(60), <1>25, <2>1 DEF ResetCells, Places
<1>26. CASE PassCommand
  <2>1. latest' \in Places
    BY <1>26, MovesTyped DEF PassCommand, Places
  <2> QED
    BY ZenonT(60), <1>26, <2>1 DEF PassCommand, Places
<1>27. CASE ClearMail
  BY ZenonT(60), <1>27 DEF ClearMail
<1>28. CASE InputTest
  <2>1. PICK s \in {"store", "ended"} : pc' = [pc EXCEPT !["input"] = s]
    BY <1>28 DEF InputTest
  <2>2. UNCHANGED <<mode, in0, out32, keyVars, orders, watch>>
    BY <1>28 DEF InputTest
  <2> QED
    BY <2>1, <2>2, GoesOn
<1>29. CASE InputStore
  BY ZenonT(60), <1>29 DEF InputStore
<1>30. CASE OutputDispatch
  <2>1. Loop[mode] \in {"watch", "editor", "custom", "ended"}
    BY LoopIs
  <2>2. UNCHANGED <<mode, in0, out32, keyVars, orders, watch>>
    BY <1>30 DEF OutputDispatch
  <2>3. pc' = [pc EXCEPT !["output"] = Loop[mode]]
    BY <1>30 DEF OutputDispatch
  <2> QED
    BY <2>1, <2>2, <2>3, GoesOn
<1>31. CASE OutputFails
  BY ZenonT(60), <1>31 DEF OutputFails, Die
<1>32. ASSUME NEW m \in {"1", "2", "3"}, OutputLeave(m) PROVE IInv'
  <2>1. pc' = [pc EXCEPT !["output"] = "dispatch"]
    BY <1>32 DEF OutputLeave
  <2>2. UNCHANGED <<mode, in0, out32, keyVars, orders, watch>>
    BY <1>32 DEF OutputLeave
  <2> QED
    BY <2>1, <2>2, GoesOn
<1>33. CASE CarryOut
  <2>1. owed' \in [Commands -> Int]
    BY <1>33 DEF CarryOut
  <2>2. pc' = [pc EXCEPT !["output"] = "clear"]
    BY <1>33 DEF CarryOut
  <2>3. latest' \in Places
    BY <1>33, MovesTyped DEF CarryOut, Places
  <2> QED
    BY ZenonT(60), <1>33, <2>1, <2>2, <2>3 DEF CarryOut, Places
<1>34. CASE ClearCommand
  BY Zenon, <1>34 DEF ClearCommand
<1> QED
  BY <1>2, <1>3, <1>4, <1>5, <1>6, <1>7, <1>8, <1>9, <1>10, <1>11, <1>12, <1>13,
     <1>14, <1>15, <1>16, <1>17, <1>18, <1>19, <1>20, <1>21, <1>22, <1>23, <1>24,
     <1>25, <1>26, <1>27, <1>28, <1>29, <1>30, <1>31, <1>32, <1>33, <1>34
     DEF Next, Key, Main, Input, Output

LEMMA FreshStep ==
  ASSUME IInv, Fresh, Prompt, Next
  PROVE  Fresh'
<1> USE DEF IInv, IsRecord, Processes, Fresh, Goto, MainGoto, Commands
<1>2. ASSUME NEW k \in Keys, KeyEvent(k) PROVE Fresh'
  BY <1>2 DEF KeyEvent
<1>3. CASE KeyTest
  BY <1>3 DEF KeyTest
<1>4. CASE KeyRead
  BY <1>4 DEF KeyRead
<1>5. CASE KeyFails
  BY <1>5 DEF KeyFails, Die
<1>6. CASE StoreWatch
  BY Zenon, <1>6, CommandTyped DEF StoreWatch
<1>7. CASE StoreCommand
  BY <1>7, CommandTyped DEF StoreCommand
<1>8. CASE IgnoreKey
  BY <1>8 DEF IgnoreKey
<1>9. CASE PickMode
  BY <1>9 DEF PickMode
<1>10. CASE StoreMode
  BY <1>10 DEF StoreMode
<1>11. CASE KeyQuits
  BY <1>11 DEF KeyQuits
<1>12. CASE ResetMail("key")
  BY Zenon, <1>12 DEF ResetMail
<1>13. CASE ResetCells("key", "test")
  BY <1>13 DEF ResetCells
<1>14. CASE Dispatch
  BY <1>14, LoopIs DEF Dispatch, TypeOK
<1>15. CASE LeaveWatch
  BY <1>15 DEF LeaveWatch
<1>16. CASE Leave("2", "editor")
  BY <1>16 DEF Leave
<1>17. CASE Leave("3", "custom")
  BY <1>17 DEF Leave
<1>18. CASE WatchReset
  BY <1>18 DEF WatchReset
<1>19. CASE WatchRuns
  BY <1>19 DEF WatchRuns
<1>20. CASE WatchSecond
  BY <1>20 DEF WatchSecond
<1>21. ASSUME NEW c \in {"chord3", "chord0", "mail"}, PressChord(c)
      PROVE  Fresh'
  BY <1>21 DEF PressChord
<1>22. CASE ChordMode
  BY <1>22 DEF ChordMode
<1>23. CASE ChordQuit
  BY <1>23 DEF ChordQuit
<1>24. CASE ResetMail("main")
  BY <1>24 DEF ResetMail
<1>25. CASE ResetCells("main", "editor")
  BY <1>25 DEF ResetCells
<1>26. CASE PassCommand
  BY <1>26 DEF PassCommand
<1>27. CASE ClearMail
  BY <1>27 DEF ClearMail
<1>28. CASE InputTest
  BY <1>28 DEF InputTest
<1>29. CASE InputStore
  BY <1>29 DEF InputStore
<1>30. CASE OutputDispatch
  BY <1>30, LoopIs DEF OutputDispatch, TypeOK
<1>31. CASE OutputFails
  BY <1>31 DEF OutputFails, Die
<1>32. ASSUME NEW m \in {"1", "2", "3"}, OutputLeave(m) PROVE Fresh'
  BY <1>32 DEF OutputLeave
<1>33. CASE CarryOut
  BY <1>33 DEF CarryOut
<1>34. CASE ClearCommand
  BY <1>34 DEF ClearCommand
<1> QED
  BY <1>2, <1>3, <1>4, <1>5, <1>6, <1>7, <1>8, <1>9, <1>10, <1>11, <1>12, <1>13,
     <1>14, <1>15, <1>16, <1>17, <1>18, <1>19, <1>20, <1>21, <1>22, <1>23, <1>24,
     <1>25, <1>26, <1>27, <1>28, <1>29, <1>30, <1>31, <1>32, <1>33, <1>34
     DEF Next, Key, Main, Input, Output

LEMMA OwedStep ==
  ASSUME IInv, Owed, Prompt, Next
  PROVE  Owed'
<1> USE DEF IInv, IsRecord, Processes, Owed, Waits, Pending, Goto, MainGoto,
            Commands
<1>2. ASSUME NEW k \in Keys, KeyEvent(k) PROVE Owed'
  BY <1>2 DEF KeyEvent
<1>3. CASE KeyTest
  BY <1>3 DEF KeyTest
<1>4. CASE KeyRead
  BY <1>4 DEF KeyRead
<1>5. CASE KeyFails
  BY <1>5 DEF KeyFails, Die
<1>6. CASE StoreWatch
  BY <1>6, CommandTyped DEF StoreWatch
<1>7. CASE StoreCommand
  <2>1. PICK c \in Commands : in0' = c /\ owed' = [owed EXCEPT ![c] = owed[c] + 1]
    BY Zenon, <1>7, CommandTyped DEF StoreCommand
  <2>2. owed \in [Commands -> Int]
    BY DEF TypeOK
  <2>3. UNCHANGED out32 /\ pc' = [pc EXCEPT !["key"] = "test"]
    BY <1>7 DEF StoreCommand
  <2> QED
    BY <2>1, <2>2, <2>3
<1>8. CASE IgnoreKey
  BY <1>8 DEF IgnoreKey
<1>9. CASE PickMode
  BY <1>9 DEF PickMode
<1>10. CASE StoreMode
  BY <1>10 DEF StoreMode
<1>11. CASE KeyQuits
  BY <1>11 DEF KeyQuits
<1>12. CASE ResetMail("key")
  BY <1>12 DEF ResetMail
<1>13. CASE ResetCells("key", "test")
  BY <1>13 DEF ResetCells
<1>14. CASE Dispatch
  BY <1>14, LoopIs DEF Dispatch, TypeOK
<1>15. CASE LeaveWatch
  BY <1>15 DEF LeaveWatch
<1>16. CASE Leave("2", "editor")
  BY <1>16 DEF Leave
<1>17. CASE Leave("3", "custom")
  BY <1>17 DEF Leave
<1>18. CASE WatchReset
  BY <1>18 DEF WatchReset
<1>19. CASE WatchRuns
  BY <1>19 DEF WatchRuns
<1>20. CASE WatchSecond
  BY <1>20 DEF WatchSecond
<1>21. ASSUME NEW c \in {"chord3", "chord0", "mail"}, PressChord(c)
      PROVE  Owed'
  BY <1>21 DEF PressChord
<1>22. CASE ChordMode
  BY <1>22 DEF ChordMode
<1>23. CASE ChordQuit
  BY <1>23 DEF ChordQuit
<1>24. CASE ResetMail("main")
  BY <1>24 DEF ResetMail
<1>25. CASE ResetCells("main", "editor")
  BY <1>25 DEF ResetCells
<1>26. CASE PassCommand
  BY <1>26 DEF PassCommand
<1>27. CASE ClearMail
  BY <1>27 DEF ClearMail
<1>28. CASE InputTest
  BY <1>28 DEF InputTest
<1>29. CASE InputStore
  BY <1>29 DEF InputStore
<1>30. CASE OutputDispatch
  BY <1>30, LoopIs DEF OutputDispatch, TypeOK
<1>31. CASE OutputFails
  BY <1>31 DEF OutputFails, Die
<1>32. ASSUME NEW m \in {"1", "2", "3"}, OutputLeave(m) PROVE Owed'
  <2>1. pc.output # "clear" /\ pc' = [pc EXCEPT !["output"] = "dispatch"]
    BY <1>32, LoopIs DEF OutputLeave
  <2> QED
    BY <1>32, <2>1 DEF OutputLeave
<1>33. CASE CarryOut
  <2>1. PICK c \in Commands : out32 = c /\ owed' = [owed EXCEPT ![c] = owed[c] - 1]
    BY Zenon, <1>33 DEF CarryOut
  <2>2. owed \in [Commands -> Int]
    BY DEF TypeOK
  <2>3. /\ UNCHANGED <<mode, in0, out32>>
        /\ pc.output = "custom" /\ pc' = [pc EXCEPT !["output"] = "clear"]
    BY <1>33 DEF CarryOut
  <2> QED
    BY <2>1, <2>2, <2>3
<1>34. CASE ClearCommand
  BY <1>34 DEF ClearCommand
<1> QED
  BY <1>2, <1>3, <1>4, <1>5, <1>6, <1>7, <1>8, <1>9, <1>10, <1>11, <1>12, <1>13,
     <1>14, <1>15, <1>16, <1>17, <1>18, <1>19, <1>20, <1>21, <1>22, <1>23, <1>24,
     <1>25, <1>26, <1>27, <1>28, <1>29, <1>30, <1>31, <1>32, <1>33, <1>34
     DEF Next, Key, Main, Input, Output

LEMMA Inductive ==
  /\ Spec => []IInv
  /\ Prompt => (Spec => [](IInv /\ Fresh /\ Owed))
<1>1. IInv /\ [Next]_vars => IInv'
  <2> SUFFICES ASSUME IInv, [Next]_vars PROVE IInv'
    OBVIOUS
  <2>1. CASE UNCHANGED vars
    BY <2>1 DEF IInv, TypeOK, IsRecord
  <2> QED
    BY <2>1, TypeStep
<1>2. Prompt /\ IInv /\ Fresh /\ Owed /\ [Next]_vars => (Fresh /\ Owed)'
  <2> SUFFICES ASSUME Prompt, IInv, Fresh, Owed, [Next]_vars
               PROVE  Fresh' /\ Owed'
    OBVIOUS
  <2>1. CASE UNCHANGED vars
    BY <2>1 DEF Fresh, Owed, Waits, Pending
  <2> QED
    BY <2>1, FreshStep, OwedStep
<1>3. Spec => []IInv
  BY <1>1, InitHolds, PTL DEF Spec
<1>4. Prompt => (Spec => [](IInv /\ Fresh /\ Owed))
  <2> SUFFICES ASSUME Prompt PROVE Spec => [](IInv /\ Fresh /\ Owed)
    OBVIOUS
  <2>1. IInv /\ Fresh /\ Owed /\ [Next]_vars => (IInv /\ Fresh /\ Owed)'
    BY <1>1, <1>2
  <2> QED
    BY <2>1, InitHolds, PTL DEF Spec
<1> QED
  BY <1>3, <1>4

(* Whatever the order in which the processes read, overwrite and clear the   *)
(* shared cells, each holds one of the values that its readers know.         *)
THEOREM TypeCorrect == Spec => []TypeOK
<1>1. IInv => TypeOK
  BY DEF IInv
<1> QED
  BY <1>1, Inductive, PTL

(* The stopwatch counts from a time that was set, or SW3 or SW4 came before  *)
(* main had come round to it, if the key process is done with a key before   *)
(* main looks again.                                                         *)
THEOREM StartsFromZero == Prompt => (Spec => []CountsFromZero)
<1>1. Fresh => CountsFromZero
  BY DEF Fresh, CountsFromZero
<1> QED
  BY <1>1, Inductive, PTL

(* No press of a key is obeyed twice, however many come, under the same      *)
(* condition.                                                                *)
THEOREM ObeyedOnce == Prompt => (Spec => []NeverObeyedTwice)
<1>1. Owed => NeverObeyedTwice
  BY DEF Owed, NeverObeyedTwice
<1> QED
  BY <1>1, Inductive, PTL
=============================================================================
