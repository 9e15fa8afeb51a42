------------------------------ MODULE MultiTap ------------------------------
(***************************************************************************)
(* What typing in the HW1 text editor promises: the display shows the last *)
(* Size characters typed; in alphabet mode, pressing the same button again *)
(* replaces the character just typed by the next of that button's three.   *)
(* TextBuffer is shown to implement it.                                    *)
(***************************************************************************)
EXTENDS Integers, Sequences, SequencesExt

CONSTANTS
  Buttons,  \* the push switches
  Size      \* characters on the display

VARIABLES
  alphabet, \* alphabet mode, as opposed to numeric mode
  text,     \* what the display shows
  last      \* the button whose characters the next press goes through, or 0

vars == <<alphabet, text, last>>

(* The three characters of a button, and its digit. *)
Letter(b, n) == <<b, n>>
Digit(b) == <<b, 0>>

LastChars(s) == IF Len(s) > Size THEN Tail(s) ELSE s

Init == alphabet = TRUE /\ text = <<>> /\ last = 0

TypeLetter(b) ==
  /\ alphabet
  /\ last # b
  /\ text' = LastChars(Append(text, Letter(b, 1)))
  /\ last' = b
  /\ UNCHANGED alphabet

NextLetter(b) ==
  /\ alphabet
  /\ last = b
  /\ LET n == text[Len(text)][2]
     IN  text' = Append(Front(text), Letter(b, (n % 3) + 1))
  /\ UNCHANGED <<alphabet, last>>

TypeDigit(b) ==
  /\ ~alphabet
  /\ text' = LastChars(Append(text, Digit(b)))
  /\ UNCHANGED <<alphabet, last>>

ChangeMode == alphabet' = ~alphabet /\ last' = 0 /\ UNCHANGED text

Clear == alphabet' = TRUE /\ text' = <<>> /\ last' = 0

Next ==
  \/ \E b \in Buttons : TypeLetter(b) \/ NextLetter(b) \/ TypeDigit(b)
  \/ ChangeMode
  \/ Clear

Spec == Init /\ [][Next]_vars
=============================================================================
