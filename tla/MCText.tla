------------------------------- MODULE MCText -------------------------------
(* Values of the constants of TextActivity for TLC.                          *)
EXTENDS TextActivity

(* Two switches that type, the three chords, and one that is none.           *)
MCPresses == {{}, {1}, {2}, {1, 2}, {3, 4}, {4, 5}, {1, 4}}

(* A short text, one that fills the board, and one that is too long.         *)
MCTouched == {<<<<2, 2>>>>, [i \in 1..Limit |-> <<2, 0>>], [i \in 1..(Limit + 1) |-> <<2, 0>>]}
=============================================================================
