------------------------------ MODULE MCBlink ------------------------------
(* Values for checking BlinkDriver: the option is the last value at the last *)
(* position, from which the first change wraps both.                         *)
EXTENDS BlinkDriver

CONSTANTS a1, a2

TwoApps == {a1, a2}
SomeOptions == {<<48, 48, 48, 56>>}
ShortLines == [id |-> 2, name |-> 3]
=============================================================================
