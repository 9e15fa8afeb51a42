----------------------------- MODULE TextBuffer -----------------------------
(***************************************************************************)
(* The typing functions of HW1's text editor (HW1/main.c), which edit the  *)
(* display cells of the output segment in place: typing_alphabet,          *)
(* typing_numeric, typing_mode, typing_count, and init_shared as the clear *)
(* function.  They run one after another in the main process, once per     *)
(* input it was notified of.                                               *)
(***************************************************************************)
EXTENDS Integers, FiniteSetsExt

CONSTANTS
  Buttons,    \* the push switches, 1..9 in the code
  Size,       \* display cells, 32 in the code (5..36)
  CountLimit  \* the greatest number four digits show, 9999 in the code

ASSUME BufferAssumption ==
  /\ Buttons \subseteq Nat \ {0}
  /\ Size \in Nat \ {0}
  /\ CountLimit \in Nat

VARIABLES
  typing,  \* output_shm[0], 'A' or 'N'
  count,   \* output_shm[1..4], the digits of the typing counter
  cell,    \* output_shm[5..37], the text and the blank that ends it
  prev,    \* output_shm[39], the button pressed just before, 0 for none
  cycle    \* output_shm[40], how often it was pressed again; -1 for a blank

vars == <<typing, count, cell, prev, cycle>>

First == 5
Full == First + Size   \* the cell that stays blank, 37 in the code
Blank == <<>>
Cells == First..Full

(* The characters of a button: char_set[b - 1][n - 1], and its digit. *)
Letter(b, n) == <<b, n>>
Digit(b) == <<b, 0>>
Chars == {Blank} \cup (Buttons \X (0..3))

(* The first blank cell: the loops that open typing_alphabet and             *)
(* typing_numeric.                                                           *)
FirstBlank == Min({i \in Cells : cell[i] = Blank})

(* The text moved one cell to the left, which blanks the last one. *)
ShiftFromSixth ==  \* mutant: k starts at 6
  [i \in Cells |-> IF First < i /\ i < Full THEN cell[i + 1] ELSE cell[i]]

Shifted == [i \in Cells |-> IF i < Full THEN cell[i + 1] ELSE cell[i]]

(* typing_count: the counter is cleared when it no longer fits. *)
Counted(n) == IF count + n > CountLimit THEN 0 ELSE count + n

Init ==
  /\ typing = "A" /\ count = 0
  /\ cell = [i \in Cells |-> Blank]
  /\ prev = 0 /\ cycle = -1

(* typing_alphabet, another button than before: a new character, after the   *)
(* text has moved to the left if it fills the display.                       *)
NewLetter(b) ==
  /\ typing = "A"
  /\ prev # b
  /\ cell' = IF FirstBlank = Full
             THEN [Shifted EXCEPT ![Full - 1] = Letter(b, 1)]
             ELSE [cell EXCEPT ![FirstBlank] = Letter(b, 1)]
  /\ prev' = b
  /\ cycle' = 0
  /\ count' = Counted(1)
  /\ UNCHANGED typing

(* typing_alphabet, the same button: the last character is replaced. *)
SameLetter(b) ==
  /\ typing = "A"
  /\ prev = b
  /\ cycle' = CASE cycle = 0 -> 1
                [] cycle = 1 -> 2
                [] OTHER -> 0
  /\ cell' = [cell EXCEPT ![FirstBlank - 1] = Letter(b, cycle' + 1)]
  /\ count' = Counted(1)
  /\ UNCHANGED <<typing, prev>>

(* typing_numeric. *)
DigitPast(b) ==  \* mutant: lines 416-420 left out
  /\ typing = "N"
  /\ cell' = [cell EXCEPT ![FirstBlank] = Digit(b)]
  /\ count' = Counted(1)
  /\ UNCHANGED <<typing, prev, cycle>>

NewDigit(b) ==
  /\ typing = "N"
  /\ cell' = IF FirstBlank = Full
             THEN [Shifted EXCEPT ![Full - 1] = Digit(b)]
             ELSE [cell EXCEPT ![FirstBlank] = Digit(b)]
  /\ count' = Counted(1)
  /\ UNCHANGED <<typing, prev, cycle>>

(* typing_mode (buttons 5 and 6) forgets the button pressed before, and is   *)
(* counted as two presses.                                                   *)
ModeKeepsPrevious ==  \* mutant: cells 39 and 40 left alone
  /\ typing' = IF typing = "A" THEN "N" ELSE "A"
  /\ count' = Counted(2)
  /\ UNCHANGED <<cell, prev, cycle>>

ChangeMode ==
  /\ typing' = IF typing = "A" THEN "N" ELSE "A"
  /\ prev' = 0
  /\ cycle' = 0
  /\ count' = Counted(2)
  /\ UNCHANGED cell

(* init_shared in mode 2 (buttons 4 and 5), which blanks cells 39 and 40 too. *)
Clear ==
  /\ typing' = "A"
  /\ count' = 0
  /\ cell' = [i \in Cells |-> Blank]
  /\ prev' = 0
  /\ cycle' = -1

Next ==
  \/ \E b \in Buttons : NewLetter(b)
  \/ \E b \in Buttons : SameLetter(b)
  \/ \E b \in Buttons : NewDigit(b)
  \/ ChangeMode
  \/ Clear

Spec == Init /\ [][Next]_vars

-----------------------------------------------------------------------------
TypeOK ==
  /\ typing \in {"A", "N"}
  /\ count \in 0..CountLimit
  /\ cell \in [Cells -> Chars]
  /\ prev \in Buttons \cup {0}
  /\ cycle \in -1..2

(* The scan for the first blank never leaves the text (lines 327 and 408     *)
(* have no bound of their own): the cell behind the text is blank, and the   *)
(* blanks are the cells from some point on, whatever was typed or shifted.   *)
TextThenBlanks ==
  /\ cell[Full] = Blank
  /\ \A i \in Cells, j \in Cells : i < j /\ cell[i] = Blank => cell[j] = Blank

(* Pressing the same button again rewrites the character that button typed,  *)
(* never a cell before the text (line 384 writes at i - 1) and never a digit *)
(* or another button's letter.                                               *)
RepeatRewritesOwnLetter ==
  typing = "A" /\ prev # 0 =>
    /\ FirstBlank > First
    /\ cell[FirstBlank - 1] = Letter(prev, cycle + 1)

(* The text typed so far, oldest first. *)
Text == [n \in 1..FirstBlank - First |-> cell[First + n - 1]]

Implements == INSTANCE MultiTap WITH
  alphabet <- typing = "A",
  text <- Text,
  last <- prev

(* Editing the cells in place shows what a user of a multi-tap editor types. *)
ImplementsMultiTap == Implements!Spec
=============================================================================
