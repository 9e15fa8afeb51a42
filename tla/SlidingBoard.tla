---------------------------- MODULE SlidingBoard ----------------------------
(***************************************************************************)
(* The board of the puzzles of HW4 and HW5 (PuzzleActivity.java, which has *)
(* the same methods in both): buttons in rows, with numbers as their text. *)
(* The button with the highest number is black and stands for the gap.     *)
(***************************************************************************)
EXTENDS Integers, FiniteSets

CONSTANTS Rows, Cols  \* what the user typed, 1 to 5 each

ASSUME BoardAssumption ==
  /\ Rows \in Nat \ {0} /\ Cols \in Nat \ {0} /\ Rows * Cols > 1

(* dynamic_array, counted from 1. *)
Gap == Rows * Cols
Cells == 1..Gap
Row(c) == (c - 1) \div Cols
Col(c) == (c - 1) % Cols

(* The cells that a button may be exchanged with: above, below, left, right. *)
NextInArray(c) ==  \* mutant: the ends of the rows are not seen
  {n \in Cells : n - c \in {-Cols, Cols, -1, 1}}

Neighbours(c) ==
  {n \in Cells : \/ Col(n) = Col(c) /\ Row(n) - Row(c) \in {-1, 1}
                 \/ Row(n) = Row(c) /\ Col(n) - Col(c) \in {-1, 1}}

(* create_buttons. *)
InOrder == [c \in Cells |-> c]

(* check_finish, and what a button in its place is worth. *)
Solved(t) == \A c \in Cells : t[c] = c
InPlace(t) == {c \in Cells : t[c] = c}

-----------------------------------------------------------------------------
(* A board that moves can bring in order: each number is there once, and the *)
(* pairs in the wrong order and the way of the gap to its corner are even or *)
(* odd together.                                                             *)
Inversions(t) == {p \in Cells \X Cells : p[1] < p[2] /\ t[p[1]] > t[p[2]]}

Solvable(t) ==
  /\ {t[c] : c \in Cells} = Cells
  /\ LET g == CHOOSE c \in Cells : t[c] = Gap
     IN  Cardinality(Inversions(t)) % 2
           = (Rows - 1 - Row(g) + Cols - 1 - Col(g)) % 2
=============================================================================
