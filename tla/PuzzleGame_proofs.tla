------------------------- MODULE PuzzleGame_proofs -------------------------
(* Proofs about a puzzle of any size: it keeps its types and bounds, one     *)
(* that has been solved stays solved, one that can be solved can still be    *)
(* solved after every move, and the score in the end is that of the board.   *)
EXTENDS PuzzleGame, FiniteSetTheorems, FunctionTheorems, TLAPS

(* After check_finish the UI thread is past the exchange, the buttons are    *)
(* locked, and no key takes it back to the start button.                     *)
WonIsLocked ==
  won => /\ ~playing
         /\ ui \in {"time", "full", "idle", "key", "dark", "zero", "left"}
         /\ ui \in {"key", "dark", "zero"} => after \in {"idle", "left"}

USE DEF vars, board, clock, history, shared, UiGoto, TimerGoto

LEMMA ListenerLocks == WonIsLocked /\ Listener => WonIsLocked'
<1> SUFFICES ASSUME WonIsLocked, Listener PROVE WonIsLocked'
  OBVIOUS
<1>1. CASE Mix \/ StartThread \/ SetBounds \/ Play
  BY Zenon, <1>1 DEF WonIsLocked, Mix, StartThread, SetBounds, Play
<1>2. CASE Move \/ Stay \/ SetNumber \/ Check
  BY Zenon, <1>2 DEF WonIsLocked, Move, Stay, SetNumber, Check
<1>3. CASE End
  BY <1>3 DEF WonIsLocked, End
<1>4. CASE EndTime \/ FullScore
  BY Zenon, <1>4 DEF WonIsLocked, EndTime, FullScore
<1>5. CASE KeyScore \/ KeyDot \/ KeyFnd
  BY Zenon, <1>5 DEF WonIsLocked, KeyScore, KeyDot, KeyFnd
<1> QED
  BY <1>1, <1>2, <1>3, <1>4, <1>5 DEF Listener

(* The thread only ever locks the buttons. *)
LEMMA TimerLocks ==
  Timer => UNCHANGED <<ui, after, won, tiles>> /\ playing' \in {playing, FALSE}
BY Zenon DEF Timer, Loop, Test, Show, Sleep, Store, Final, Count, ShowScore, Stop

LEMMA StepLocks == WonIsLocked /\ [Next]_vars => WonIsLocked'
<1> SUFFICES ASSUME WonIsLocked, [Next]_vars PROVE WonIsLocked'
  OBVIOUS
<1>1. CASE Create \/ Click
  BY Zenon, <1>1 DEF WonIsLocked, Create, Click
<1>2. CASE Key
  BY <1>2 DEF WonIsLocked, Key
<1>3. CASE Listener
  BY <1>3, ListenerLocks
<1>4. CASE Timer
  BY Zenon, <1>4, TimerLocks DEF WonIsLocked
<1>5. CASE UNCHANGED vars
  BY <1>5 DEF WonIsLocked
<1> QED
  BY <1>1, <1>2, <1>3, <1>4, <1>5 DEF Next

(* Only the start button and a click write to the buttons, and a puzzle that *)
(* is won lets neither of them (create_listener, move_listener).             *)
LEMMA WonKeepsTiles == WonIsLocked /\ [Next]_vars => (won => UNCHANGED tiles)
<1> SUFFICES ASSUME WonIsLocked, [Next]_vars, won PROVE UNCHANGED tiles
  BY Zenon
<1>1. CASE Create \/ Click \/ Key
  BY Zenon, <1>1 DEF WonIsLocked, Create, Click, Key
<1>2. CASE Listener
  BY Zenon, <1>2 DEF WonIsLocked, Listener, Mix, StartThread, SetBounds, Play, Move,
              Stay, SetNumber, Check, End, EndTime, FullScore, KeyScore,
              KeyDot, KeyFnd
<1>3. CASE Timer
  BY <1>3, TimerLocks
<1>4. CASE UNCHANGED vars
  BY <1>4
<1> QED
  BY Zenon, <1>1, <1>2, <1>3, <1>4 DEF Next

(* A solved puzzle is never taken apart: check_finish clears playing before  *)
(* it does anything else, and nothing but a new puzzle sets it.              *)
THEOREM SolvedKept == Spec => SolvedStaysSolved
<1>1. Init => WonIsLocked
  BY DEF Init, WonIsLocked
<1>2. WonIsLocked /\ [Next]_vars => [won => UNCHANGED tiles]_vars
  BY WonKeepsTiles
<1> QED
  BY <1>1, <1>2, StepLocks, PTL DEF Spec, SolvedStaysSolved

-----------------------------------------------------------------------------
(* The bounds of the clock and of the score rest on where the thread is: it  *)
(* counts down only from above zero, and only once.                          *)
Counting == {"test", "show", "sleep", "store"}

ClockBounds ==
  /\ timer \in Counting => time_left >= 0
  /\ timer = "store" => reg >= 0
  /\ timer = "final" => time_left <= 0
  /\ timer \in {"show"} => time_left <= ShowFrom

ScoreBounds == score <= 10 * counted

(* TypeOK, variable by variable.                                             *)
BoardTyped ==
  /\ tiles \in [Cells -> Cells] /\ hole \in Cells /\ from \in Cells /\ to \in Cells
  /\ text \in Cells /\ mixes \in 0..Mixes

PlaceTyped ==
  /\ ui \in {"menu", "mix", "bounds", "play", "idle", "move", "number", "check",
             "end", "time", "full", "key", "dark", "zero", "left"}
  /\ after \in {"menu", "idle", "left"}
  /\ timer \in {"new", "loop", "test", "show", "sleep", "store", "final",
                "count", "stop", "done"}
  /\ keyed \in {"no", "before", "since"}

FlagsTyped ==
  playing \in BOOLEAN /\ bounds \in BOOLEAN /\ moved \in BOOLEAN /\ won \in BOOLEAN

ClockTyped ==
  /\ time_left \in -1..TimeLimit /\ reg \in -1..TimeLimit
  /\ score \in 0..10 * Gap /\ fnd \in 0..10 * Gap /\ counted \in 0..Gap
  /\ dot \in -1..ShowFrom

LEMMA Flat ==
  TypeOK <=> BoardTyped /\ PlaceTyped /\ FlagsTyped /\ ClockTyped
BY DEF TypeOK, BoardTyped, PlaceTyped, FlagsTyped, ClockTyped

TypeInv ==
  /\ BoardTyped /\ PlaceTyped /\ FlagsTyped /\ ClockTyped
  /\ ClockBounds /\ ScoreBounds

LEMMA GapTyped == Gap \in Nat \ {0}
BY BoardAssumption DEF Gap

LEMMA CellsTyped == Cells = 1..Gap /\ Gap \in Cells
BY GapTyped DEF Cells

LEMMA InitTyped == Init => TypeInv
<1> SUFFICES ASSUME Init PROVE TypeInv
  OBVIOUS
<1>1. FlagsTyped
  BY Zenon DEF Init, FlagsTyped
<1>2. BoardTyped
  BY CellsTyped, PuzzleAssumption DEF Init, BoardTyped, InOrder
<1>3. PlaceTyped
  BY DEF Init, PlaceTyped
<1>4. ClockTyped
  BY GapTyped, PuzzleAssumption DEF Init, ClockTyped
<1>5. ClockBounds /\ ScoreBounds
  BY DEF Init, ClockBounds, ScoreBounds, Counting
<1> QED
  BY <1>1, <1>2, <1>3, <1>4, <1>5 DEF TypeInv

LEMMA BoardStep ==
  ASSUME TypeInv, Next
  PROVE  BoardTyped'
<1> USE DEF BoardTyped
<1>1. BoardTyped
  BY DEF TypeInv
<1> SUFFICES ASSUME BoardTyped PROVE BoardTyped'
  BY <1>1
<1>0. Gap \in Cells
  BY CellsTyped
<1>2. CASE Create
  BY <1>2, <1>0, PuzzleAssumption DEF Create, InOrder
<1>3. CASE Click
  BY <1>3 DEF Click
<1>4. CASE Key
  BY <1>4 DEF Key
<1>5. CASE Mix
  <2>1. tiles' \in [Cells -> Cells] /\ hole' \in Cells
    <3>1. CASE UNCHANGED <<tiles, hole>>
      BY <3>1
    <3>2. CASE \E n \in Neighbours(hole) :
                 /\ tiles' = [tiles EXCEPT ![n] = Gap, ![hole] = tiles[n]]
                 /\ hole' = n
      <4>1. PICK n \in Cells :
                 /\ tiles' = [tiles EXCEPT ![n] = Gap, ![hole] = tiles[n]]
                 /\ hole' = n
        BY Zenon, <3>2 DEF Neighbours
      <4> QED
        BY <4>1, <1>0
    <3> QED
      BY <1>5, <3>1, <3>2 DEF Mix
  <2>2. mixes' \in 0..Mixes
    BY <1>5, PuzzleAssumption DEF Mix
  <2> QED
    BY <1>5, <2>1, <2>2 DEF Mix
<1>6. CASE StartThread
  BY <1>6, <1>0, PuzzleAssumption DEF StartThread
<1>7. CASE SetBounds
  BY <1>7 DEF SetBounds
<1>8. CASE Play
  BY <1>8 DEF Play
<1>9. CASE Move
  BY <1>9 DEF Move, Neighbours
<1>10. CASE Stay
  BY <1>10 DEF Stay
<1>11. CASE SetNumber
  BY <1>11 DEF SetNumber
<1>12. CASE Check
  BY <1>12, <1>0 DEF Check
<1>13. CASE End
  BY <1>13 DEF End
<1>14. CASE EndTime
  BY <1>14 DEF EndTime
<1>15. CASE FullScore
  BY <1>15 DEF FullScore
<1>16. CASE KeyScore
  BY <1>16 DEF KeyScore
<1>17. CASE KeyDot
  BY <1>17 DEF KeyDot
<1>18. CASE KeyFnd
  BY <1>18 DEF KeyFnd
<1>19. CASE Loop
  BY <1>19 DEF Loop
<1>20. CASE Test
  BY <1>20 DEF Test
<1>21. CASE Show
  BY <1>21 DEF Show
<1>22. CASE Sleep
  BY <1>22 DEF Sleep
<1>23. CASE Store
  BY <1>23 DEF Store
<1>24. CASE Final
  BY <1>24 DEF Final
<1>25. CASE Count
  BY <1>25 DEF Count
<1>26. CASE ShowScore
  BY <1>26 DEF ShowScore
<1>27. CASE Stop
  BY <1>27 DEF Stop
<1> QED
  BY <1>2, <1>3, <1>4, <1>5, <1>6, <1>7, <1>8, <1>9, <1>10, <1>11, <1>12, <1>13,
     <1>14, <1>15, <1>16, <1>17, <1>18, <1>19, <1>20, <1>21, <1>22, <1>23, <1>24,
     <1>25, <1>26, <1>27
     DEF Next, Listener, Timer

LEMMA PlaceStep ==
  ASSUME TypeInv, Next
  PROVE  PlaceTyped'
<1> USE DEF PlaceTyped
<1>1. PlaceTyped
  BY DEF TypeInv
<1> SUFFICES ASSUME PlaceTyped PROVE PlaceTyped'
  BY <1>1
<1>2. CASE Create
  BY <1>2 DEF Create
<1>3. CASE Click
  BY <1>3 DEF Click
<1>4. CASE Key
  BY <1>4 DEF Key
<1>5. CASE Mix
  BY <1>5 DEF Mix
<1>6. CASE StartThread
  BY <1>6 DEF StartThread
<1>7. CASE SetBounds
  BY <1>7 DEF SetBounds
<1>8. CASE Play
  BY <1>8 DEF Play
<1>9. CASE Move
  BY <1>9 DEF Move
<1>10. CASE Stay
  BY <1>10 DEF Stay
<1>11. CASE SetNumber
  BY <1>11 DEF SetNumber
<1>12. CASE Check
  BY <1>12 DEF Check
<1>13. CASE End
  BY <1>13 DEF End
<1>14. CASE EndTime
  BY <1>14 DEF EndTime
<1>15. CASE FullScore
  BY <1>15 DEF FullScore
<1>16. CASE KeyScore
  BY <1>16 DEF KeyScore
<1>17. CASE KeyDot
  BY <1>17 DEF KeyDot
<1>18. CASE KeyFnd
  BY <1>18 DEF KeyFnd
<1>19. CASE Loop
  BY <1>19 DEF Loop
<1>20. CASE Test
  BY <1>20 DEF Test
<1>21. CASE Show
  BY <1>21 DEF Show
<1>22. CASE Sleep
  BY <1>22 DEF Sleep
<1>23. CASE Store
  BY <1>23 DEF Store
<1>24. CASE Final
  BY <1>24 DEF Final
<1>25. CASE Count
  BY <1>25 DEF Count
<1>26. CASE ShowScore
  BY <1>26 DEF ShowScore
<1>27. CASE Stop
  BY <1>27 DEF Stop
<1> QED
  BY <1>2, <1>3, <1>4, <1>5, <1>6, <1>7, <1>8, <1>9, <1>10, <1>11, <1>12, <1>13,
     <1>14, <1>15, <1>16, <1>17, <1>18, <1>19, <1>20, <1>21, <1>22, <1>23, <1>24,
     <1>25, <1>26, <1>27
     DEF Next, Listener, Timer

LEMMA FlagsStep ==
  ASSUME TypeInv, Next
  PROVE  FlagsTyped'
<1> USE DEF FlagsTyped
<1>1. FlagsTyped
  BY DEF TypeInv
<1> SUFFICES ASSUME FlagsTyped PROVE FlagsTyped'
  BY <1>1
<1>2. CASE Create
  BY <1>2, Zenon DEF Create
<1>3. CASE Click
  BY <1>3, Zenon DEF Click
<1>4. CASE Key
  BY <1>4, Zenon DEF Key
<1>5. CASE Mix
  BY <1>5, Zenon DEF Mix
<1>6. CASE StartThread
  BY <1>6, Zenon DEF StartThread
<1>7. CASE SetBounds
  BY <1>7, Zenon DEF SetBounds
<1>8. CASE Play
  BY <1>8, Zenon DEF Play
<1>9. CASE Move
  BY <1>9, Zenon DEF Move
<1>10. CASE Stay
  BY <1>10, Zenon DEF Stay
<1>11. CASE SetNumber
  BY <1>11, Zenon DEF SetNumber
<1>12. CASE Check
  BY <1>12, Zenon DEF Check
<1>13. CASE End
  BY <1>13, Zenon DEF End
<1>14. CASE EndTime
  BY <1>14, Zenon DEF EndTime
<1>15. CASE FullScore
  BY <1>15, Zenon DEF FullScore
<1>16. CASE KeyScore
  BY <1>16, Zenon DEF KeyScore
<1>17. CASE KeyDot
  BY <1>17, Zenon DEF KeyDot
<1>18. CASE KeyFnd
  BY <1>18, Zenon DEF KeyFnd
<1>19. CASE Loop
  BY <1>19, Zenon DEF Loop
<1>20. CASE Test
  BY <1>20, Zenon DEF Test
<1>21. CASE Show
  BY <1>21, Zenon DEF Show
<1>22. CASE Sleep
  BY <1>22, Zenon DEF Sleep
<1>23. CASE Store
  BY <1>23, Zenon DEF Store
<1>24. CASE Final
  BY <1>24, Zenon DEF Final
<1>25. CASE Count
  BY <1>25, Zenon DEF Count
<1>26. CASE ShowScore
  BY <1>26, Zenon DEF ShowScore
<1>27. CASE Stop
  BY <1>27, Zenon DEF Stop
<1> QED
  BY <1>2, <1>3, <1>4, <1>5, <1>6, <1>7, <1>8, <1>9, <1>10, <1>11, <1>12, <1>13,
     <1>14, <1>15, <1>16, <1>17, <1>18, <1>19, <1>20, <1>21, <1>22, <1>23, <1>24,
     <1>25, <1>26, <1>27
     DEF Next, Listener, Timer

LEMMA ClockStep ==
  ASSUME TypeInv, Next
  PROVE  ClockTyped' /\ ClockBounds' /\ ScoreBounds'
<1> USE DEF ClockTyped, ClockBounds, ScoreBounds, Counting
<1>1. ClockTyped /\ ClockBounds /\ ScoreBounds
  BY DEF TypeInv
<1> SUFFICES ASSUME ClockTyped, ClockBounds, ScoreBounds
             PROVE  ClockTyped' /\ ClockBounds' /\ ScoreBounds'
  BY <1>1
<1> USE GapTyped, PuzzleAssumption
<1>2. CASE Create
  BY <1>2 DEF Create
<1>3. CASE Click
  BY <1>3 DEF Click
<1>4. CASE Key
  BY <1>4 DEF Key
<1>5. CASE Mix
  BY <1>5 DEF Mix
<1>6. CASE StartThread
  BY <1>6 DEF StartThread
<1>7. CASE SetBounds
  BY <1>7 DEF SetBounds
<1>8. CASE Play
  BY <1>8 DEF Play
<1>9. CASE Move
  BY <1>9 DEF Move
<1>10. CASE Stay
  BY <1>10 DEF Stay
<1>11. CASE SetNumber
  BY <1>11 DEF SetNumber
<1>12. CASE Check
  BY <1>12 DEF Check
<1>13. CASE End
  BY <1>13 DEF End
<1>14. CASE EndTime
  BY <1>14 DEF EndTime
<1>15. CASE FullScore
  BY <1>15 DEF FullScore
<1>16. CASE KeyScore
  BY <1>16 DEF KeyScore
<1>17. CASE KeyDot
  BY <1>17 DEF KeyDot
<1>18. CASE KeyFnd
  BY <1>18 DEF KeyFnd
<1>19. CASE Loop
  BY <1>19 DEF Loop
<1>20. CASE Test
  BY <1>20 DEF Test
<1>21. CASE Show
  BY <1>21 DEF Show, Digit
<1>22. CASE Sleep
  BY <1>22 DEF Sleep
<1>23. CASE Store
  BY <1>23 DEF Store
<1>24. CASE Final
  BY <1>24 DEF Final, Digit
<1>25. CASE Count
  <2>1. counted' \in 0..Gap /\ counted' = counted + 1
    BY <1>25 DEF Count, Buttons
  <2>2. score' \in {score, score + 10}
    BY <1>25 DEF Count
  <2> QED
    BY <1>25, <2>1, <2>2 DEF Count
<1>26. CASE ShowScore
  BY <1>26 DEF ShowScore
<1>27. CASE Stop
  BY <1>27 DEF Stop
<1> QED
  BY <1>2, <1>3, <1>4, <1>5, <1>6, <1>7, <1>8, <1>9, <1>10, <1>11, <1>12, <1>13,
     <1>14, <1>15, <1>16, <1>17, <1>18, <1>19, <1>20, <1>21, <1>22, <1>23, <1>24,
     <1>25, <1>26, <1>27
     DEF Next, Listener, Timer

LEMMA TypeStep == TypeInv /\ [Next]_vars => TypeInv'
<1> SUFFICES ASSUME TypeInv, [Next]_vars PROVE TypeInv'
  OBVIOUS
<1>1. CASE UNCHANGED vars
  BY <1>1 DEF TypeInv, BoardTyped, PlaceTyped, FlagsTyped, ClockTyped,
              ClockBounds, ScoreBounds
<1> QED
  BY <1>1, BoardStep, PlaceStep, FlagsStep, ClockStep DEF TypeInv

(* Every variable of the puzzle keeps its type for every size of the board:  *)
(* the time never passes -1, the score never exceeds ten points a button,    *)
(* and the dot matrix gets a digit that it can show.                         *)
THEOREM TypeCorrect == Spec => []TypeOK
<1>1. TypeInv => TypeOK
  BY Flat DEF TypeInv
<1> QED
  BY <1>1, InitTyped, TypeStep, PTL DEF Spec

-----------------------------------------------------------------------------
(* The parity of a board. The pairs in the wrong order are counted as a set, *)
(* and an exchange of any two buttons changes an odd number of them.         *)
LEMMA CellsFinite == IsFiniteSet(Cells) /\ Cardinality(Cells) = Gap
BY FS_Interval, CellsTyped, GapTyped

(* Each number is there once.                                                *)
Permuted(t) == t \in [Cells -> Cells] /\ {t[c] : c \in Cells} = Cells

(* So no two buttons have the same number.                                   *)
LEMMA Apart ==
  ASSUME NEW t, Permuted(t)
  PROVE  \A c, d \in Cells : t[c] = t[d] => c = d
<1>1. t \in Surjection(Cells, Cells)
  <2>1. \A x \in Cells : \E c \in Cells : t[c] = x
    BY DEF Permuted
  <2> QED
    BY <2>1 DEF Permuted, Surjection
<1> QED
  BY <1>1, CellsFinite, FS_SurjSameCardinalityImpliesInj DEF Injection, IsInjective

Exchanged(t, i, j) == [t EXCEPT ![i] = t[j], ![j] = t[i]]

LEMMA StaysPermuted ==
  ASSUME NEW t, Permuted(t), NEW i \in Cells, NEW j \in Cells
  PROVE  Permuted(Exchanged(t, i, j))
<1> DEFINE u == Exchanged(t, i, j)
<1>1. u \in [Cells -> Cells]
  BY DEF Exchanged, Permuted
<1>2. ASSUME NEW x \in Cells PROVE \E c \in Cells : u[c] = x
  <2>1. PICK d \in Cells : t[d] = x
    BY DEF Permuted
  <2>2. u[IF d = i THEN j ELSE IF d = j THEN i ELSE d] = x
    BY <2>1 DEF Exchanged, Permuted
  <2> QED
    BY <2>2
<1> QED
  BY <1>1, <1>2 DEF Permuted

LEMMA InversionsFinite ==
  ASSUME NEW t
  PROVE  IsFiniteSet(Inversions(t)) /\ Cardinality(Inversions(t)) \in Nat
<1>1. IsFiniteSet(Cells \X Cells)
  BY CellsFinite, FS_Product
<1>2. Inversions(t) \in SUBSET (Cells \X Cells)
  BY DEF Inversions
<1> QED
  BY <1>1, <1>2, FS_Subset, FS_CardinalityType

(* Two sets have sizes of the same parity if they differ in an even number. *)
LEMMA Differences ==
  ASSUME NEW S, NEW T, IsFiniteSet(S), IsFiniteSet(T)
  PROVE  LET D == (S \ T) \cup (T \ S)
         IN  /\ IsFiniteSet(D)
             /\ Cardinality(D) + 2 * Cardinality(S \cap T)
                  = Cardinality(S) + Cardinality(T)
             /\ Cardinality(D) \in Nat /\ Cardinality(S \cap T) \in Nat
             /\ Cardinality(S) \in Nat /\ Cardinality(T) \in Nat
<1>1. /\ IsFiniteSet(S \ T) /\ IsFiniteSet(T \ S)
      /\ Cardinality(S \ T) = Cardinality(S) - Cardinality(S \cap T)
      /\ Cardinality(T \ S) = Cardinality(T) - Cardinality(T \cap S)
  BY Zenon, FS_Difference
<1>2. /\ IsFiniteSet((S \ T) \cup (T \ S))
      /\ Cardinality((S \ T) \cup (T \ S))
           = Cardinality(S \ T) + Cardinality(T \ S) - Cardinality((S \ T) \cap (T \ S))
  BY <1>1, FS_Union
<1>3. (S \ T) \cap (T \ S) = {} /\ S \cap T = T \cap S
  OBVIOUS
<1>4. Cardinality((S \ T) \cap (T \ S)) = 0
  BY <1>3, FS_EmptySet
<1>5. IsFiniteSet(S \cap T)
  BY FS_Intersection
<1>6. /\ Cardinality(S) \in Nat /\ Cardinality(T) \in Nat
      /\ Cardinality(S \cap T) \in Nat
      /\ Cardinality((S \ T) \cup (T \ S)) \in Nat
  BY <1>5, <1>2, FS_CardinalityType
<1>7. Cardinality(T \cap S) = Cardinality(S \cap T)
  BY <1>3
<1> DEFINE d == Cardinality((S \ T) \cup (T \ S))
           m == Cardinality(S \cap T)
<1>8. d = (Cardinality(S) - m) + (Cardinality(T) - m)
  BY <1>1, <1>2, <1>4, <1>6, <1>7
<1>9. d + 2 * m = Cardinality(S) + Cardinality(T)
  <2> HIDE DEF d, m
  <2> QED
    BY <1>8, <1>6 DEF d, m
<1> QED
  BY <1>2, <1>6, <1>9

(* The two cells, the smaller one first.                                     *)
Pair(i, k) == IF k < i THEN <<k, i>> ELSE <<i, k>>

(* Each third cell k forms one pair with i and one with j, and the exchange  *)
(* turns both of them round or none; and it turns the pair of i and j.       *)
LEMMA ExchangeFlips ==
  ASSUME NEW t, Permuted(t), NEW i \in Cells, NEW j \in Cells, i < j
  PROVE  Cardinality(Inversions(t)) % 2
           # Cardinality(Inversions(Exchanged(t, i, j))) % 2
<1> DEFINE u == Exchanged(t, i, j)
           A == Inversions(t)
           B == Inversions(u)
           D == (A \ B) \cup (B \ A)
           K == {k \in Cells \ {i, j} : Pair(i, k) \in D}
           DI == {Pair(i, k) : k \in K}
           DJ == {Pair(j, k) : k \in K}
<1>1. Cells \subseteq Int
  BY CellsTyped, GapTyped
<1>2. /\ \A c \in Cells : t[c] \in Int /\ u[c] \in Int
      /\ \A c \in Cells \ {i, j} : u[c] = t[c]
      /\ u[i] = t[j] /\ u[j] = t[i]
      /\ \A c, d \in Cells : t[c] = t[d] => c = d
  BY Zenon, <1>1, Apart DEF Permuted, Exchanged
<1>3. \A c, d \in Cells : <<c, d>> \in D <=>
        c < d /\ ~(t[c] > t[d] <=> u[c] > u[d])
  BY DEF Inversions
<1>4. <<i, j>> \in D
  BY <1>1, <1>2, <1>3
<1>5. \A k \in Cells \ {i, j} : Pair(i, k) \in D <=> Pair(j, k) \in D
  <2> SUFFICES ASSUME NEW k \in Cells \ {i, j}
               PROVE  Pair(i, k) \in D <=> Pair(j, k) \in D
    OBVIOUS
  <2> HIDE DEF D, u
  <2>0. /\ <<k, i>> \in D <=> k < i /\ ~(t[k] > t[i] <=> t[k] > t[j])
        /\ <<i, k>> \in D <=> i < k /\ ~(t[i] > t[k] <=> t[j] > t[k])
        /\ <<k, j>> \in D <=> k < j /\ ~(t[k] > t[j] <=> t[k] > t[i])
        /\ <<j, k>> \in D <=> j < k /\ ~(t[j] > t[k] <=> t[i] > t[k])
    BY <1>2, <1>3
  <2>1. t[i] \in Int /\ t[j] \in Int /\ t[k] \in Int /\ t[k] # t[i] /\ t[k] # t[j]
        /\ i \in Int /\ j \in Int /\ k \in Int
    BY <1>1, <1>2
  <2>2. CASE k < i
    BY <2>0, <2>1, <2>2 DEF Pair
  <2>3. CASE i < k /\ k < j
    BY <2>0, <2>1, <2>3 DEF Pair
  <2>4. CASE j < k
    BY <2>0, <2>1, <2>4 DEF Pair
  <2> QED
    BY <2>1, <2>2, <2>3, <2>4
<1>6. D = {<<i, j>>} \cup (DI \cup DJ)
  <2>1. DI \subseteq D /\ DJ \subseteq D
    BY <1>5
  <2>2. ASSUME NEW p \in D, p # <<i, j>> PROVE p \in DI \cup DJ
    <3>1. PICK c \in Cells, d \in Cells : p = <<c, d>> /\ c < d
      BY DEF Inversions
    <3>2. c \in Int /\ d \in Int /\ i \in Int /\ j \in Int
      BY <1>1
    <3>3. c \in {i, j} \/ d \in {i, j}
      BY <3>1, <1>2, <1>3
    <3>4. CASE c = i
      <4>1. d \in Cells \ {i, j} /\ Pair(i, d) = p
        BY <3>1, <3>2, <3>4, <2>2 DEF Pair
      <4> QED
        BY <4>1, <2>2
    <3>5. CASE d = i
      <4>1. c \in Cells \ {i, j} /\ Pair(i, c) = p
        BY <3>1, <3>2, <3>5, <2>2 DEF Pair
      <4> QED
        BY <4>1, <2>2
    <3>6. CASE c = j
      <4>1. d \in Cells \ {i, j} /\ Pair(j, d) = p
        BY <3>1, <3>2, <3>6, <2>2 DEF Pair
      <4> QED
        BY <4>1, <2>2, <1>5
    <3>7. CASE d = j /\ c # i
      <4>1. c \in Cells \ {i, j} /\ Pair(j, c) = p
        BY <3>1, <3>2, <3>7, <2>2 DEF Pair
      <4> QED
        BY <4>1, <2>2, <1>5
    <3> QED
      BY <3>3, <3>4, <3>5, <3>6, <3>7
  <2> QED
    BY <2>1, <2>2, <1>4
<1>7. IsFiniteSet(K) /\ Cardinality(K) \in Nat
  <2>1. K \in SUBSET Cells
    OBVIOUS
  <2> QED
    BY <2>1, CellsFinite, FS_Subset, FS_CardinalityType
<1>8. \A e \in {i, j} : /\ IsFiniteSet({Pair(e, k) : k \in K})
                        /\ Cardinality({Pair(e, k) : k \in K}) = Cardinality(K)
  <2> SUFFICES ASSUME NEW e \in {i, j}
               PROVE  /\ IsFiniteSet({Pair(e, k) : k \in K})
                      /\ Cardinality({Pair(e, k) : k \in K}) = Cardinality(K)
    OBVIOUS
  <2> DEFINE f == [k \in K |-> Pair(e, k)]
             T == {Pair(e, k) : k \in K}
  <2>0. \A a, b \in K : Pair(e, a) = Pair(e, b) => a = b
    <3> SUFFICES ASSUME NEW a \in K, NEW b \in K, Pair(e, a) = Pair(e, b)
                 PROVE  a = b
      OBVIOUS
    <3>1. a \in Int /\ b \in Int /\ e \in Int /\ a # e /\ b # e
      BY <1>1
    <3> QED
      BY <3>1 DEF Pair
  <2>1. f \in [K -> T]
    OBVIOUS
  <2>2. \A a, b \in K : f[a] = f[b] => a = b
    BY <2>0
  <2>3. \A x \in T : \E k \in K : f[k] = x
    OBVIOUS
  <2>4. f \in Bijection(K, T)
    <3> HIDE DEF f, T
    <3> QED
      BY <2>1, <2>2, <2>3, Fun_IsBij
  <2>5. ExistsBijection(K, T)
    BY <2>4 DEF ExistsBijection
  <2> QED
    BY <2>5, <1>7, FS_Bijection
<1>9. DI \cap DJ = {} /\ <<i, j>> \notin DI \cup DJ
  <2>1. \A k \in K, l \in K : Pair(i, k) # Pair(j, l)
    <3> SUFFICES ASSUME NEW k \in K, NEW l \in K PROVE Pair(i, k) # Pair(j, l)
      OBVIOUS
    <3>1. k \in Int /\ l \in Int /\ i \in Int /\ j \in Int /\ k \notin {i, j} /\ l \notin {i, j}
      BY <1>1
    <3> QED
      BY <3>1 DEF Pair
  <2>2. \A k \in K : Pair(i, k) # <<i, j>> /\ Pair(j, k) # <<i, j>>
    <3> SUFFICES ASSUME NEW k \in K PROVE Pair(i, k) # <<i, j>> /\ Pair(j, k) # <<i, j>>
      OBVIOUS
    <3>1. k \in Int /\ i \in Int /\ j \in Int /\ k \notin {i, j}
      BY <1>1
    <3> QED
      BY <3>1 DEF Pair
  <2> QED
    BY <2>1, <2>2
<1>10. Cardinality(D) = 2 * Cardinality(K) + 1
  <2> HIDE DEF D, K
  <2>1. IsFiniteSet(DI \cup DJ) /\ Cardinality(DI \cup DJ) = 2 * Cardinality(K)
    <3>1. IsFiniteSet(DI) /\ IsFiniteSet(DJ)
          /\ Cardinality(DI) = Cardinality(K) /\ Cardinality(DJ) = Cardinality(K)
      BY <1>8
    <3> HIDE DEF DI, DJ
    <3>2. Cardinality(DI \cap DJ) = 0
      BY <1>9, FS_EmptySet
    <3>3. /\ IsFiniteSet(DI \cup DJ)
          /\ Cardinality(DI \cup DJ)
               = Cardinality(DI) + Cardinality(DJ) - Cardinality(DI \cap DJ)
      BY <3>1, FS_Union
    <3> QED
      BY <3>1, <3>2, <3>3, <1>7
  <2> HIDE DEF DI, DJ
  <2>2. Cardinality((DI \cup DJ) \cup {<<i, j>>}) = Cardinality(DI \cup DJ) + 1
    BY SMTT(30), <2>1, <1>9, FS_AddElement
  <2>3. D = (DI \cup DJ) \cup {<<i, j>>}
    BY <1>6
  <2> QED
    BY <2>1, <2>2, <2>3
<1>11. /\ Cardinality(D) + 2 * Cardinality(A \cap B) = Cardinality(A) + Cardinality(B)
       /\ Cardinality(A \cap B) \in Nat
       /\ Cardinality(A) \in Nat /\ Cardinality(B) \in Nat
  BY InversionsFinite, Differences
<1> QED
  <2> HIDE DEF A, B, D, K
  <2> SUFFICES Cardinality(A) % 2 # Cardinality(B) % 2
    BY DEF A, B
  <2>1. Cardinality(A) + Cardinality(B) = 2 * (Cardinality(K) + Cardinality(A \cap B)) + 1
    BY <1>7, <1>10, <1>11
  <2> QED
    BY <2>1, <1>7, <1>11

LEMMA PlacesTyped ==
  \A c \in Cells : Row(c) \in Int /\ Col(c) \in Int
BY BoardAssumption, CellsTyped, GapTyped DEF Row, Col

(* The way of the gap to its corner: a move changes it by one.               *)
LEMMA GapInCorner == Row(Gap) = Rows - 1 /\ Col(Gap) = Cols - 1
<1>1. Gap - 1 = (Rows - 1) * Cols + (Cols - 1)
  BY BoardAssumption DEF Gap
<1>2. \A q \in Nat, d \in Nat \ {0} : \A r \in 0..(d - 1) :
         (q * d + r) \div d = q /\ (q * d + r) % d = r
  OBVIOUS
<1>3. Rows - 1 \in Nat /\ Cols \in Nat \ {0} /\ Cols - 1 \in 0..(Cols - 1)
  BY BoardAssumption
<1>4. /\ ((Rows - 1) * Cols + (Cols - 1)) \div Cols = Rows - 1
      /\ ((Rows - 1) * Cols + (Cols - 1)) % Cols = Cols - 1
  BY <1>2, <1>3
<1> QED
  BY <1>1, <1>4 DEF Row, Col

GapOf(t) == CHOOSE c \in Cells : t[c] = Gap

LEMMA GapFound ==
  ASSUME NEW t, Permuted(t), NEW g \in Cells, t[g] = Gap
  PROVE  GapOf(t) = g
BY Apart DEF GapOf

WayOf(g) == (Rows - 1 - Row(g) + Cols - 1 - Col(g)) % 2

LEMMA SolvableMeans ==
  ASSUME NEW t \in [Cells -> Cells], NEW g \in Cells, t[g] = Gap
  PROVE  Solvable(t) <=> Permuted(t) /\ Cardinality(Inversions(t)) % 2 = WayOf(g)
BY Zenon, GapFound DEF Solvable, Permuted, GapOf, WayOf

LEMMA InOrderSolvable == Solvable(InOrder) /\ InOrder \in [Cells -> Cells]
<1>1. Permuted(InOrder) /\ InOrder[Gap] = Gap
  BY CellsTyped DEF Permuted, InOrder
<1>2. Inversions(InOrder) = {}
  BY CellsTyped, GapTyped DEF Inversions, InOrder
<1>3. WayOf(Gap) = 0
  BY GapInCorner, BoardAssumption DEF WayOf
<1>4. Cardinality(Inversions(InOrder)) % 2 = 0
  BY <1>2, FS_EmptySet
<1> QED
  BY Zenon, <1>1, <1>3, <1>4, CellsTyped, SolvableMeans DEF Permuted

LEMMA ExchangeKeepsSolvable ==
  ASSUME NEW t \in [Cells -> Cells], Solvable(t), NEW g \in Cells, t[g] = Gap,
         NEW n \in Cells, n \in Neighbours(g) \/ g \in Neighbours(n)
  PROVE  Solvable(Exchanged(t, g, n))
<1> DEFINE u == Exchanged(t, g, n)
<1>1. Permuted(t) /\ Cardinality(Inversions(t)) % 2 = WayOf(g)
  BY SolvableMeans
<1>2. Permuted(u) /\ u \in [Cells -> Cells]
  <2>1. Permuted(u)
    BY <1>1, StaysPermuted
  <2> QED
    BY <2>1 DEF Permuted
<1>3. u[n] = Gap
  BY DEF Exchanged
<1>4. WayOf(g) # WayOf(n)
  <2>1. Row(g) \in Int /\ Col(g) \in Int /\ Row(n) \in Int /\ Col(n) \in Int
    BY PlacesTyped
  <2>2. \/ Col(n) = Col(g) /\ Row(n) - Row(g) \in {-1, 1}
        \/ Row(n) = Row(g) /\ Col(n) - Col(g) \in {-1, 1}
    BY <2>1 DEF Neighbours
  <2> QED
    BY <2>1, <2>2, BoardAssumption DEF WayOf
<1>5. n # g
  BY <1>4
<1>6. Exchanged(t, g, n) = Exchanged(t, n, g)
  BY Zenon, <1>5 DEF Exchanged
<1>7. Cardinality(Inversions(t)) % 2 # Cardinality(Inversions(u)) % 2
  <2>1. g < n \/ n < g
    BY <1>5, CellsTyped, GapTyped
  <2> QED
    BY <2>1, <1>1, <1>6, ExchangeFlips
<1>8. /\ Cardinality(Inversions(t)) % 2 \in {0, 1}
      /\ Cardinality(Inversions(u)) % 2 \in {0, 1}
  BY InversionsFinite
<1>9. WayOf(g) \in {0, 1} /\ WayOf(n) \in {0, 1}
  <2>1. \A x \in Int : x % 2 \in {0, 1}
    OBVIOUS
  <2>2. \A c \in Cells : Rows - 1 - Row(c) + Cols - 1 - Col(c) \in Int
    BY PlacesTyped, BoardAssumption
  <2> QED
    BY <2>1, <2>2 DEF WayOf
<1> QED
  <2> HIDE DEF u
  <2>1. Cardinality(Inversions(u)) % 2 = WayOf(n)
    BY <1>1, <1>4, <1>7, <1>8, <1>9
  <2>2. Solvable(u)
    BY <1>2, <1>3, <2>1, SolvableMeans
  <2> QED
    BY <2>2 DEF u

(* While a button's number is under way the board is that of after the       *)
(* exchange.                                                                 *)
Due == IF ui = "number" THEN [tiles EXCEPT ![to] = text] ELSE tiles

SolvInv == Solvable(Due) /\ (ui = "mix" => tiles[hole] = Gap)

LEMMA MixKeepsSolvable ==
  ASSUME TypeInv, SolvInv, Mix PROVE SolvInv'
<1>1. tiles \in [Cells -> Cells] /\ hole \in Cells
  BY DEF TypeInv, BoardTyped
<1>2. CASE UNCHANGED <<tiles, hole>>
  BY <1>2 DEF SolvInv, Due, Mix
<1>3. ASSUME NEW n \in Neighbours(hole),
             tiles' = [tiles EXCEPT ![n] = Gap, ![hole] = tiles[n]], hole' = n
      PROVE  SolvInv'
  <2>1. n \in Cells /\ tiles[hole] = Gap /\ Solvable(tiles)
    BY DEF Neighbours, SolvInv, Due, Mix
  <2>2. Solvable(Exchanged(tiles, hole, n))
    BY <1>1, <2>1, ExchangeKeepsSolvable
  <2>3. tiles' = Exchanged(tiles, hole, n) /\ tiles'[n] = Gap
    BY Zenon, <1>1, <1>3, <2>1, CellsTyped DEF Exchanged
  <2> QED
    BY Zenon, <1>3, <2>2, <2>3 DEF SolvInv, Due, Mix
<1> QED
  BY <1>2, <1>3 DEF Mix

LEMMA MoveKeepsSolvable ==
  ASSUME TypeInv, SolvInv, Move PROVE SolvInv'
<1>1. tiles \in [Cells -> Cells] /\ from \in Cells
  BY DEF TypeInv, BoardTyped
<1>2. PICK n \in Neighbours(from) :
        /\ tiles[n] = Gap
        /\ to' = n /\ text' = tiles[from]
        /\ tiles' = [tiles EXCEPT ![from] = Gap]
  BY DEF Move
<1>3. n \in Cells /\ Solvable(tiles)
  BY DEF Neighbours, SolvInv, Due, Move
<1>4. Solvable(Exchanged(tiles, n, from))
  BY <1>1, <1>2, <1>3, ExchangeKeepsSolvable
<1>5. [tiles' EXCEPT ![to'] = text'] = Exchanged(tiles, n, from)
  BY Zenon, <1>1, <1>2, <1>3 DEF Exchanged
<1> QED
  BY Zenon, <1>4, <1>5 DEF SolvInv, Due, Move

(* The board can always be brought into order, for any number of rows and    *)
(* columns: every move and every step of the mixing exchanges the gap with   *)
(* one of its neighbours, and is over before anything else happens to it.    *)
THEOREM SolvableKept == Spec => []StaysSolvable
<1>1. Init => SolvInv
  BY InOrderSolvable DEF Init, SolvInv, Due
<1>2. TypeInv /\ SolvInv /\ [Next]_vars => SolvInv'
  <2> SUFFICES ASSUME TypeInv, SolvInv, [Next]_vars PROVE SolvInv'
    OBVIOUS
  <2>1. CASE Create
    <3>1. InOrder[Gap] = Gap
      BY CellsTyped DEF InOrder
    <3> QED
      BY <2>1, <3>1, InOrderSolvable DEF Create, SolvInv, Due
  <2>2. CASE Click \/ Key
    BY <2>2 DEF Click, Key, SolvInv, Due
  <2>3. CASE Mix
    BY <2>3, MixKeepsSolvable
  <2>4. CASE Move
    BY <2>4, MoveKeepsSolvable
  <2>5. CASE SetNumber
    BY <2>5 DEF SetNumber, SolvInv, Due
  <2>6. CASE StartThread \/ SetBounds \/ Play
    BY <2>6 DEF StartThread, SetBounds, Play, SolvInv, Due
  <2>7. CASE Stay \/ Check \/ End \/ EndTime \/ FullScore
    BY <2>7 DEF Stay, Check, End, EndTime, FullScore, SolvInv, Due
  <2>8. CASE KeyScore \/ KeyDot \/ KeyFnd
    <3>1. ui' # "number" /\ ui # "number" /\ ui' # "mix" /\ tiles' = tiles
      BY <2>8 DEF KeyScore, KeyDot, KeyFnd, TypeInv, PlaceTyped
    <3> QED
      BY <3>1 DEF SolvInv, Due
  <2>9. CASE Timer
    <3>1. UNCHANGED <<board, ui>>
      BY <2>9 DEF Timer, Loop, Test, Show, Sleep, Store, Final, Count,
                  ShowScore, Stop
    <3> QED
      BY <3>1 DEF SolvInv, Due
  <2>10. CASE UNCHANGED vars
    BY <2>10 DEF SolvInv, Due
  <2> QED
    BY <2>1, <2>2, <2>3, <2>4, <2>5, <2>6, <2>7, <2>8, <2>9, <2>10
       DEF Next, Listener
<1>3. SolvInv => StaysSolvable
  BY DEF SolvInv, Due, StaysSolvable
<1> QED
  BY <1>1, <1>2, <1>3, InitTyped, TypeStep, PTL DEF Spec

-----------------------------------------------------------------------------
(* The score. What of it is right depends on where the thread is; the board  *)
(* is left alone meanwhile, and a key has not been pressed.                  *)
Counted(n) == {c \in InPlace(tiles) : c <= n}

Started == ui \notin {"menu", "mix", "bounds"}

ScoreInv ==
  /\ timer \notin {"count", "stop", "done"} => score = 0 /\ counted = 0
  /\ ui \in {"menu", "mix"} => timer = "new"
  /\ ui \in {"key", "dark", "zero"} /\ after = "menu" => timer = "new"
  /\ keyed = "no" =>
       /\ ui \notin {"key", "dark", "zero", "left"}
       /\ timer = "new" => ui \in {"menu", "mix"}
       /\ Started => bounds
       /\ timer = "new" => time_left > 0
       /\ ui \in {"bounds", "play"} =>
            timer \in {"new", "loop", "test", "show", "sleep"} /\ time_left > 0
       /\ ui \in {"end", "time", "full"} => Solved(tiles)
       /\ ~moved =>
            /\ timer = "count" => score = 10 * Cardinality(Counted(counted))
            /\ timer \in {"stop", "done"} =>
                 fnd = 10 * Cardinality(InPlace(tiles))

LEMMA InPlaceCounted ==
  /\ IsFiniteSet(InPlace(tiles)) /\ Cardinality(InPlace(tiles)) \in Nat
  /\ Counted(Gap) = InPlace(tiles)
  /\ Counted(0) = {}
<1>1. InPlace(tiles) \in SUBSET Cells
  BY DEF InPlace
<1> QED
  BY <1>1, CellsFinite, CellsTyped, GapTyped, FS_Subset, FS_CardinalityType
     DEF Counted

LEMMA SolvedCounts == Solved(tiles) => Cardinality(InPlace(tiles)) = Gap
<1> SUFFICES ASSUME Solved(tiles) PROVE Cardinality(InPlace(tiles)) = Gap
  OBVIOUS
<1>1. InPlace(tiles) = Cells
  BY DEF InPlace, Solved
<1> QED
  BY <1>1, CellsFinite

LEMMA NextCounted ==
  ASSUME NEW n \in 0..(Gap - 1)
  PROVE  Cardinality(Counted(n + 1))
           = Cardinality(Counted(n)) + (IF tiles[n + 1] = n + 1 THEN 1 ELSE 0)
<1>1. IsFiniteSet(Counted(n)) /\ Cardinality(Counted(n)) \in Nat
  <2>1. Counted(n) \in SUBSET Cells
    BY DEF Counted, InPlace
  <2> QED
    BY <2>1, CellsFinite, FS_Subset, FS_CardinalityType
<1>2. n + 1 \notin Counted(n) /\ n + 1 \in Cells
  BY CellsTyped, GapTyped DEF Counted, InPlace
<1>3. CASE tiles[n + 1] = n + 1
  <2>1. Counted(n + 1) = Counted(n) \cup {n + 1}
    BY <1>2, <1>3, CellsTyped, GapTyped DEF Counted, InPlace
  <2> QED
    BY <1>1, <1>2, <1>3, <2>1, FS_AddElement
<1>4. CASE tiles[n + 1] # n + 1
  <2>1. Counted(n + 1) = Counted(n)
    BY <1>2, <1>4, CellsTyped, GapTyped DEF Counted, InPlace
  <2> QED
    BY <1>1, <1>4, <2>1
<1> QED
  BY <1>3, <1>4

LEMMA CountKeepsScore ==
  ASSUME TypeInv, ScoreInv, Count PROVE ScoreInv'
<1> SUFFICES ASSUME keyed = "no" PROVE ScoreInv'
  BY DEF Count, ScoreInv
<1>1. counted \in 0..(Gap - 1)
  BY GapTyped DEF TypeInv, ClockTyped, Count, Buttons
<1>2. Cardinality(Counted(counted')) = Cardinality(Counted(counted))
        + (IF tiles[counted'] = counted' THEN 1 ELSE 0)
  BY <1>1, NextCounted DEF Count
<1>3. Cardinality(Counted(counted)) \in Nat
  <2>1. Counted(counted) \in SUBSET Cells
    BY DEF Counted, InPlace
  <2> QED
    BY <2>1, CellsFinite, FS_Subset, FS_CardinalityType
<1>4. ~moved => score' = 10 * Cardinality(Counted(counted'))
  <2> SUFFICES ASSUME ~moved PROVE score' = 10 * Cardinality(Counted(counted'))
    OBVIOUS
  <2>1. score = 10 * Cardinality(Counted(counted))
    BY DEF Count, ScoreInv
  <2>2. score' = score + (IF tiles[counted'] = counted' THEN 10 ELSE 0)
    BY DEF Count
  <2> QED
    BY <1>2, <1>3, <2>1, <2>2
<1>5. Counted(counted)' = Counted(counted')
  BY DEF Count, Counted, InPlace
<1> QED
  BY <1>4, <1>5 DEF Count, ScoreInv, Started, Solved

LEMMA TimerKeepsScore ==
  ASSUME TypeInv, ScoreInv, Timer PROVE ScoreInv'
<1> USE DEF ScoreInv, Started, Solved
<1>0. UNCHANGED <<board, ui, history>>
  BY DEF Timer, Loop, Test, Show, Sleep, Store, Final, Count, ShowScore, Stop
<1>1. InPlace(tiles)' = InPlace(tiles)
  BY <1>0 DEF InPlace
<1>2. CASE Loop \/ Test \/ Show
  BY <1>0, <1>2 DEF Loop, Test, Show
<1>3. CASE Sleep \/ Store
  BY <1>0, <1>3 DEF Sleep, Store
<1>4. CASE Final
  <2>1. score = 0 /\ counted = 0 /\ score' = 0 /\ counted' = 0 /\ timer' = "count"
    BY <1>4 DEF Final
  <2>2. Counted(counted)' = {}
    BY <1>0, <2>1, InPlaceCounted DEF Counted, InPlace
  <2>3. 0 = 10 * Cardinality(Counted(counted)')
    BY <2>2, FS_EmptySet
  <2> QED
    BY <1>0, <1>4, <2>1, <2>3 DEF Final
<1>5. CASE Count
  BY <1>5, CountKeepsScore
<1>6. CASE ShowScore
  <2>1. keyed = "no" => counted = Gap
    BY <1>6, GapTyped DEF ShowScore, Buttons, TypeInv, ClockTyped
  <2>2. keyed = "no" /\ ~moved => fnd' = 10 * Cardinality(InPlace(tiles))
    BY <1>6, <2>1, InPlaceCounted DEF ShowScore
  <2> QED
    BY <1>0, <1>1, <1>6, <2>2 DEF ShowScore
<1>7. CASE Stop
  BY <1>0, <1>1, <1>7 DEF Stop
<1> QED
  BY <1>2, <1>3, <1>4, <1>5, <1>6, <1>7 DEF Timer

LEMMA MovesKeepScore ==
  ASSUME TypeInv, ScoreInv,
         Create \/ Mix \/ Move \/ SetNumber PROVE ScoreInv'
<1>1. CASE Create
  BY <1>1 DEF Create, ScoreInv, Started
<1>2. CASE Mix
  BY <1>2 DEF Mix, ScoreInv, Started
<1>3. CASE Move
  BY Zenon, <1>3 DEF Move, ScoreInv, Started, Scoring
<1>4. CASE SetNumber
  BY Zenon, <1>4 DEF SetNumber, ScoreInv, Started, Scoring
<1> QED
  BY <1>1, <1>2, <1>3, <1>4

LEMMA OthersKeepScore ==
  ASSUME TypeInv, ScoreInv, UNCHANGED tiles,
         Click \/ Key \/ (Listener /\ ~Mix /\ ~Move /\ ~SetNumber)
  PROVE  ScoreInv'
<1> USE DEF ScoreInv, Started
<1>0. /\ InPlace(tiles)' = InPlace(tiles) /\ Solved(tiles)' = Solved(tiles)
      /\ counted' = counted => Counted(counted)' = Counted(counted)
  BY Zenon DEF InPlace, Solved, Counted
<1>1. CASE Click
  BY <1>0, <1>1 DEF Click
<1>2. CASE Key
  BY <1>2 DEF Key
<1>3. CASE StartThread \/ SetBounds \/ Play
  <2>1. CASE StartThread
    <3>1. /\ timer = "new" /\ score = 0 /\ counted = 0
          /\ keyed = "no" => time_left > 0
      BY <2>1 DEF StartThread
    <3> QED
      BY <2>1, <3>1 DEF StartThread
  <2>2. CASE SetBounds
    BY <1>0, <2>2 DEF SetBounds
  <2>3. CASE Play
    BY <1>0, <2>3 DEF Play
  <2> QED
    BY <1>3, <2>1, <2>2, <2>3
<1>4. CASE Stay \/ Check
  BY <1>0, <1>4 DEF Stay, Check
<1>5. CASE End \/ EndTime
  BY <1>0, <1>5 DEF End, EndTime
<1>6. CASE FullScore
  <2>1. keyed = "no" => fnd' = 10 * Cardinality(InPlace(tiles))
    <3>1. keyed = "no" => Cardinality(InPlace(tiles)) = Gap
      BY <1>6, SolvedCounts DEF FullScore
    <3> QED
      BY <1>6, <3>1, GapTyped DEF FullScore
  <2> QED
    BY <1>0, <1>6, <2>1 DEF FullScore
<1>7. CASE KeyScore \/ KeyDot \/ KeyFnd
  <2>1. after \in {"menu", "idle", "left"}
    BY DEF TypeInv, PlaceTyped
  <2>2. keyed # "no" /\ keyed' = keyed
    BY <1>7 DEF KeyScore, KeyDot, KeyFnd
  <2> QED
    BY <1>7, <2>1, <2>2 DEF KeyScore, KeyDot, KeyFnd
<1> QED
  BY <1>1, <1>2, <1>3, <1>4, <1>5, <1>6, <1>7 DEF Listener

(* The score that stays on the display is ten points for each button in its  *)
(* place, whether the thread or check_finish has written it last.            *)
THEOREM ScoreRight == Spec => []ScoreIsOfTheBoard
<1>1. Init => ScoreInv
  BY PuzzleAssumption DEF Init, ScoreInv, Started
<1>2. TypeInv /\ ScoreInv /\ [Next]_vars => ScoreInv'
  <2> SUFFICES ASSUME TypeInv, ScoreInv, [Next]_vars PROVE ScoreInv'
    OBVIOUS
  <2>1. CASE Timer
    BY <2>1, TimerKeepsScore
  <2>2. CASE Create \/ Mix \/ Move \/ SetNumber
    BY <2>2, MovesKeepScore
  <2>3. CASE Click \/ Key \/ (Listener /\ ~Mix /\ ~Move /\ ~SetNumber)
    <3>1. UNCHANGED tiles
      BY <2>3 DEF Click, Key, Listener, StartThread, SetBounds, Play, Stay, Check,
                  End, EndTime, FullScore, KeyScore, KeyDot, KeyFnd
    <3> QED
      BY <2>3, <3>1, OthersKeepScore
  <2>4. CASE UNCHANGED vars
    BY <2>4 DEF ScoreInv, Started, Solved, InPlace, Counted
  <2> QED
    BY <2>1, <2>2, <2>3, <2>4 DEF Next, Listener
<1>3. ScoreInv => ScoreIsOfTheBoard
  BY DEF ScoreInv, ScoreIsOfTheBoard
<1> QED
  BY <1>1, <1>2, <1>3, InitTyped, TypeStep, PTL DEF Spec
=============================================================================
