------------------------------ MODULE MCFigure ------------------------------
(***************************************************************************)
(* Values for model checking FigureActivity: an option that a run steps    *)
(* over both wraps, one that it does not, one without a figure, and none.  *)
(***************************************************************************)
EXTENDS FigureActivity

Typed == {[num |-> 3, option |-> <<0, 2>>], [num |-> 1, option |-> <<1, 0>>],
          [num |-> 2, option |-> <<0, 0>>], [num |-> 0, option |-> <<>>]}
=============================================================================
