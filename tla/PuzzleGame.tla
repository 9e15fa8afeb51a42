----------------------------- MODULE PuzzleGame -----------------------------
(***************************************************************************)
(* The puzzle of HW5 (PuzzleActivity.java): the user's clicks and keys,    *)
(* handled one after the other by the UI thread, and the thread            *)
(* puzzleScore, which counts down and scores the board. They share         *)
(* time_left, score, playing and the buttons without a lock.               *)
(***************************************************************************)
EXTENDS SlidingBoard

CONSTANTS
  Mixes,      \* moves that mix_puzzle tries, 1000 in the code
  TimeLimit,  \* seconds to solve the puzzle, 30 in the code
  ShowFrom    \* seconds from which on they are shown, 9 in the code

ASSUME PuzzleAssumption ==
  /\ Mixes \in Nat /\ TimeLimit \in Nat \ {0} /\ ShowFrom \in 0..TimeLimit

(* What a listener or the thread keeps for itself is reset when it is done   *)
(* with it, which the code need not do.                                      *)
VARIABLES
  tiles,     \* the texts of dynamic_array
  hole,      \* row and col of mix_puzzle
  mixes,     \* its count
  ui, after, \* progress of the UI thread, and where a key takes it
  from, to, text,    \* a click's button, the gap next to it, current_button
  playing, bounds,   \* playing; rrow and ccol are set
  timer,     \* progress of puzzleScore
  time_left, reg,    \* thread.time_left, and the value loaded for time_left--
  score, counted,    \* thread.score, and the buttons it has looked at
  dot, fnd,  \* the dot matrix (-1: dark) and the score display
  keyed,     \* was a key pressed before the game, since, or not (history)
  moved,     \* the board changed while it was scored (history)
  won        \* check_finish has found the puzzle solved (history)

board == <<tiles, hole, mixes, from, to, text, bounds>>
clock == <<reg, counted>>
history == <<keyed, moved, won>>
shared == <<playing, time_left, score, dot, fnd>>
vars == <<board, ui, after, timer, clock, shared, history>>

Init ==
  /\ tiles = InOrder /\ hole = Gap /\ mixes = 0 /\ from = Gap
  /\ to = Gap /\ text = Gap
  /\ ui = "menu" /\ after = "menu" /\ playing = FALSE /\ bounds = FALSE
  /\ timer = "new" /\ time_left = TimeLimit /\ reg = 0
  /\ score = 0 /\ counted = 0
  /\ dot = -1 /\ fnd = 0
  /\ keyed = "no" /\ moved = FALSE /\ won = FALSE

UiGoto(a, b) == ui = a /\ ui' = b
TimerGoto(a, b) == timer = a /\ timer' = b

-----------------------------------------------------------------------------
(* The start button: create_buttons, mix_puzzle, and then the game.          *)
Create ==
  /\ UiGoto("menu", "mix")
  /\ tiles' = InOrder /\ hole' = Gap /\ mixes' = 0
  /\ UNCHANGED <<after, from, to, text, bounds, timer, clock, shared, history>>

Mix ==
  /\ mixes < Mixes /\ mixes' = mixes + 1
  /\ UiGoto("mix", "mix")
  /\ \/ \E n \in Neighbours(hole) :
          /\ tiles' = [tiles EXCEPT ![n] = Gap, ![hole] = tiles[n]]
          /\ hole' = n
     \/ Cardinality(Neighbours(hole)) < 4 /\ UNCHANGED <<tiles, hole>>
  /\ UNCHANGED <<after, from, to, text, bounds, timer, clock, shared, history>>

StartThread ==
  /\ mixes = Mixes
  /\ UiGoto("mix", "bounds")
  /\ timer' = "loop"
  /\ hole' = Gap /\ mixes' = 0
  /\ UNCHANGED <<after, tiles, from, to, text, bounds, clock, shared, history>>

SetBounds ==
  /\ UiGoto("bounds", "play")
  /\ bounds' = TRUE
  /\ UNCHANGED <<after, tiles, hole, mixes, from, to, text, timer, clock,
                 shared, history>>

Play ==
  /\ UiGoto("play", "idle")
  /\ playing' = TRUE
  /\ UNCHANGED <<after, board, timer, clock, time_left, score, dot, fnd,
                 history>>

(* A click on a button changes places with the gap if that is next to it:    *)
(* first one text is set, then the other.                                    *)
Click ==
  /\ playing
  /\ UiGoto("idle", "move")
  /\ \E c \in Cells : from' = c
  /\ UNCHANGED <<after, tiles, hole, mixes, to, text, bounds, timer, clock,
                 shared,
                 history>>

(* The thread has begun to look at the buttons. *)
Scoring == timer \in {"final", "count", "stop", "done"}

Move ==
  /\ UiGoto("move", "number")
  /\ \E n \in Neighbours(from) :
       /\ tiles[n] = Gap
       /\ to' = n
       /\ text' = tiles[from]
       /\ tiles' = [tiles EXCEPT ![from] = Gap]
  /\ moved' = (moved \/ Scoring)
  /\ UNCHANGED <<after, hole, mixes, from, bounds, timer, clock, shared, keyed,
                 won>>

Stay ==
  /\ UiGoto("move", "check")
  /\ \A n \in Neighbours(from) : tiles[n] # Gap
  /\ UNCHANGED <<after, board, timer, clock, shared, history>>

SetNumber ==
  /\ UiGoto("number", "check")
  /\ tiles' = [tiles EXCEPT ![to] = text]
  /\ moved' = (moved \/ Scoring)
  /\ UNCHANGED <<after, hole, mixes, from, to, text, bounds, timer, clock,
                 shared,
                 keyed, won>>

(* When the gap is in its corner, check_finish compares all buttons. Then    *)
(* nothing can be moved any more, the thread is told to end, and the score   *)
(* is shown.                                                                 *)
Check ==
  /\ UiGoto("check", IF Solved(tiles) THEN "end" ELSE "idle")
  /\ from' = Gap /\ to' = Gap /\ text' = Gap
  /\ UNCHANGED <<after, tiles, hole, mixes, bounds, timer, clock, shared,
                 history>>

GoOn ==  \* mutant: playing = false left out
  /\ UiGoto("end", "time")
  /\ won' = TRUE
  /\ UNCHANGED <<after, board, timer, clock, shared, keyed, moved>>

End ==
  /\ UiGoto("end", "time")
  /\ playing' = FALSE
  /\ won' = TRUE
  /\ UNCHANGED <<after, board, timer, clock, time_left, score, dot, fnd, keyed,
                 moved>>

EndTime ==
  /\ UiGoto("time", "full")
  /\ time_left' = 0
  /\ UNCHANGED <<after, board, timer, clock, playing, score, dot, fnd, history>>

FullScore ==
  /\ UiGoto("full", "idle")
  /\ fnd' = Gap * 10
  /\ UNCHANGED <<after, board, timer, clock, playing, time_left, score, dot,
                 history>>

(* onKeyDown: any key ends the time and clears the devices; the back key     *)
(* leaves the puzzle, too, but not its thread.                               *)
Key ==
  /\ \E at \in {"menu", "idle"} : UiGoto(at, "key") /\ after' \in {at, "left"}
  /\ time_left' = 0
  /\ keyed' = IF timer = "new" \/ keyed = "before" THEN "before" ELSE "since"
  /\ UNCHANGED <<board, timer, clock, playing, score, dot, fnd, moved, won>>

KeyScore ==
  /\ UiGoto("key", "dark")
  /\ score' = 0
  /\ UNCHANGED <<after, board, timer, clock, playing, time_left, dot, fnd,
                 history>>

KeyDot ==
  /\ UiGoto("dark", "zero")
  /\ dot' = -1
  /\ UNCHANGED <<after, board, timer, clock, playing, time_left, score, fnd,
                 history>>

KeyFnd ==
  /\ UiGoto("zero", after)
  /\ fnd' = 0 /\ after' = "menu"
  /\ UNCHANGED <<board, timer, clock, playing, time_left, score, dot, history>>

Listener ==
  \/ Mix \/ StartThread \/ SetBounds \/ Play
  \/ Move \/ Stay \/ SetNumber \/ Check
  \/ End \/ EndTime \/ FullScore
  \/ KeyScore \/ KeyDot \/ KeyFnd

-----------------------------------------------------------------------------
(* puzzleScore. The countdown: the last seconds are shown.                   *)
Loop ==
  /\ TimerGoto("loop", IF time_left > 0 THEN "test" ELSE "final")
  /\ UNCHANGED <<board, ui, after, clock, shared, history>>

Test ==
  /\ TimerGoto("test", IF time_left <= ShowFrom THEN "show" ELSE "sleep")
  /\ UNCHANGED <<board, ui, after, clock, shared, history>>

(* PuzzleCount shows a digit, and nothing for "-1".                          *)
Digit(v) == IF v < 0 THEN -1 ELSE v

Show ==
  /\ TimerGoto("show", "sleep")
  /\ dot' = Digit(time_left)
  /\ UNCHANGED <<board, ui, after, clock, playing, time_left, score, fnd,
                 history>>

(* A second passes - a listener that has started the thread ends before -    *)
(* and time_left-- is a load and a store.                                    *)
Sleep ==
  /\ ui \notin {"bounds", "play"}
  /\ TimerGoto("sleep", "store")
  /\ reg' = time_left
  /\ UNCHANGED <<board, ui, after, counted, shared, history>>

Store ==
  /\ TimerGoto("store", "loop")
  /\ time_left' = reg - 1 /\ reg' = 0
  /\ UNCHANGED <<board, ui, after, counted, playing, score, dot, fnd, history>>

(* Then one button after another is scored.                                  *)
Final ==
  /\ TimerGoto("final", "count")
  /\ dot' = Digit(time_left)
  /\ UNCHANGED <<board, ui, after, clock, playing, time_left, score, fnd,
                 history>>

Buttons == IF bounds THEN Gap ELSE 0

CountButFirst ==  \* mutant: from the second button on
  /\ counted < Buttons /\ counted' = counted + 1
  /\ TimerGoto("count", "count")
  /\ score' = score + (IF counted > 0 /\ tiles[counted'] = counted' THEN 10 ELSE 0)
  /\ UNCHANGED <<board, ui, after, reg, playing, time_left, dot, fnd, history>>

Count ==
  /\ counted < Buttons /\ counted' = counted + 1
  /\ TimerGoto("count", "count")
  /\ score' = score + (IF tiles[counted'] = counted' THEN 10 ELSE 0)
  /\ UNCHANGED <<board, ui, after, reg, playing, time_left, dot, fnd, history>>

ShowScore ==
  /\ counted >= Buttons
  /\ TimerGoto("count", "stop")
  /\ fnd' = score
  /\ UNCHANGED <<board, ui, after, clock, playing, time_left, score, dot,
                 history>>

PlayOn ==  \* mutant: playing = false left out
  /\ TimerGoto("stop", "done")
  /\ UNCHANGED <<board, ui, after, clock, shared, history>>

Stop ==
  /\ TimerGoto("stop", "done")
  /\ playing' = FALSE
  /\ UNCHANGED <<board, ui, after, clock, time_left, score, dot, fnd, history>>

Timer ==
  \/ Loop \/ Test \/ Show \/ Sleep \/ Store
  \/ Final \/ Count \/ ShowScore \/ Stop

-----------------------------------------------------------------------------
Next == Create \/ Click \/ Key \/ Listener \/ Timer

Spec == Init /\ [][Next]_vars

(* Both threads run; the user need do nothing.                               *)
FairSpec == Spec /\ WF_vars(Listener) /\ WF_vars(Timer)

-----------------------------------------------------------------------------
TypeOK ==
  /\ tiles \in [Cells -> Cells] /\ {hole, from, to, text} \subseteq Cells
  /\ mixes \in 0..Mixes
  /\ ui \in {"menu", "mix", "bounds", "play", "idle", "move", "number", "check",
             "end", "time", "full", "key", "dark", "zero", "left"}
  /\ after \in {"menu", "idle", "left"}
  /\ {playing, bounds, moved, won} \subseteq BOOLEAN
  /\ timer \in {"new", "loop", "test", "show", "sleep", "store", "final",
                "count", "stop", "done"}
  /\ {time_left, reg} \subseteq -1..TimeLimit
  /\ score \in 0..10 * Gap /\ fnd \in 0..10 * Gap /\ counted \in 0..Gap
  /\ dot \in -1..ShowFrom
  /\ keyed \in {"no", "before", "since"}

(* "Making solvable puzzle": after the mixing and after every move the board *)
(* can still be brought in order.                                            *)
StaysSolvable == ui # "number" => Solvable(tiles)

(* Once the puzzle is solved, no click takes it apart again, and the thread  *)
(* that may be scoring it at the same time does not make it playable.        *)
SolvedStaysSolved == [][won => UNCHANGED tiles]_vars

(* Ten points for each button in its place: what the user reads in the end   *)
(* is what the board shows, whichever thread has written it last, if nobody  *)
(* moved a button while the thread scored them, and no key ended the game.   *)
ScoreIsOfTheBoard ==
  timer = "done" /\ ui = "idle" /\ keyed = "no" /\ ~moved
    => fnd = 10 * Cardinality(InPlace(tiles))

(* A game ends, although time_left may be set to 0 and be overwritten by the *)
(* thread that decrements it, or pass 0 altogether. (A key pressed before    *)
(* the game makes the thread race with the listener that starts it.)         *)
GameEnds ==
  timer = "loop" /\ keyed # "before" ~> timer = "done" /\ ~playing
=============================================================================
