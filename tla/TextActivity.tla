---------------------------- MODULE TextActivity ----------------------------
(***************************************************************************)
(* HW5's text editor (TextActivity.java and jni/TextEditor.c). A thread    *)
(* polls the push switches, types into insert_text what they mean, posts   *)
(* that text to the main thread, and copies the text of the screen to the  *)
(* board when a post has set modified. The main thread runs the posts, the *)
(* listeners and the key handler, and the text can be edited by touch.     *)
(* They share the text, insert_text and modified without a lock. A thread  *)
(* is taken to see what the other one has written.                         *)
(***************************************************************************)
EXTENDS Integers, Sequences, FiniteSets

CONSTANTS
  Limit,    \* letters the board can show, 32 in the code
  Presses,  \* the sets of push switches, 0..8, that a poll may find down
  Touched,  \* the texts that may be typed on the screen
  Queue,    \* bounds the posts that wait for the main thread
  Events    \* bounds touches, keys and polls that find a switch down

(* A character is a switch with a number: 0 to 2 for its letters, 3 for its  *)
(* digit. Others are on no switch.                                           *)
Char == (0..8) \X (0..3) \cup {9} \X (0..1)

(* "Error. Too large" fits on the board; its last letter is the second of    *)
(* switch 2, 'e' of "def".                                                   *)
Error == <<<<9, 0>>, <<2, 1>>>>

ASSUME TextAssumption ==
  /\ Limit \in Nat /\ Len(Error) < Limit
  /\ Presses \subseteq SUBSET (0..8)
  /\ Touched \subseteq Seq(Char)
  /\ Queue \in Nat /\ Events \in Nat

VARIABLES
  screen,    \* onCreate has come to "start" the thread, "open", or "left"
  text,      \* the text on the screen
  posts,     \* posted runnables: "type", "clear", "error"
  pc,        \* progress of the switch thread
  flag, modified, insert_text, num_flag, input,  \* its fields
  copy,      \* the text it has read for TextEditor
  board,     \* what text LCD, FND and LED show
  events,    \* events still to come
  wanted,    \* what has been typed, by a plain multi-tap editor (history)
  astray,    \* the text may differ from that (history)
  missed     \* the board may have missed a change (history)

fields == <<flag, modified, insert_text, num_flag, input, copy>>
history == <<wanted, astray, missed>>
vars == <<screen, text, posts, pc, fields, board, events, history>>

-----------------------------------------------------------------------------
(* TextEditor shows a text and its length. Beyond the limit it appends the   *)
(* error text to a buffer nobody has cleared, and leaves the LED alone; what *)
(* the buffer holds is the first or the second of these.                     *)
Garbage == <<<<9, 1>>>>

TextEditor(string) ==
  IF Len(string) > Limit
  THEN \E lcd \in {Error, Garbage} :
         board' = [board EXCEPT !.lcd = lcd, !.fnd = Len(Error)]
  ELSE board' = [lcd |-> string, fnd |-> Len(string), led |-> Len(string)]

PushSwitch == Presses

Init ==
  /\ screen = "start" /\ text = <<>> /\ posts = <<>>
  /\ pc = "head" /\ flag = TRUE /\ modified = FALSE
  /\ insert_text = <<>> /\ num_flag = 1 /\ input = {} /\ copy = <<>>
  /\ board = [lcd |-> <<>>, fnd |-> 0, led |-> 0]
  /\ events = Events
  /\ wanted = <<>> /\ astray = FALSE /\ missed = FALSE

(* onCreate starts the thread before it has found the text on the screen.    *)
Create ==
  /\ screen = "start" /\ screen' = "open"
  /\ UNCHANGED <<text, posts, pc, fields, board, events, history>>

-----------------------------------------------------------------------------
(* The switch thread. It tests the flag, ...                                 *)
TestNothing ==  \* mutant: while(true)
  /\ pc = "head" /\ pc' = "poll"
  /\ UNCHANGED <<screen, text, posts, fields, board, events, history>>

TestFlag ==
  /\ pc = "head"
  /\ pc' = IF flag THEN "poll" ELSE "done"
  /\ UNCHANGED <<screen, text, posts, fields, board, events, history>>

(* ... polls the switches, has a text replaced that was typed too long, and  *)
(* collects the switches until all are up. Before onCreate has found the     *)
(* text it throws, which ends the application.                               *)
Post(what) == Len(posts) < Queue /\ posts' = Append(posts, what)

ReplaceTyped == UNCHANGED posts  \* mutant: only what is typed is limited

Replace == IF Len(text) > Limit THEN Post("error") ELSE UNCHANGED posts

Poll ==
  /\ pc = "poll" /\ screen # "start"
  /\ \E down \in PushSwitch :
       /\ events' = events - (IF down \subseteq input THEN 0 ELSE 1)
       /\ events' >= 0
       /\ input' = input \cup down
       /\ pc' = IF down = {} /\ input # {} THEN "released"
                ELSE IF down = {} THEN "test" ELSE "head"
  /\ Replace
  /\ UNCHANGED <<screen, text, flag, modified, insert_text, num_flag, copy,
                 board, history>>

PollTooEarly ==
  /\ pc = "poll" /\ screen = "start"
  /\ pc' = "crashed"
  /\ UNCHANGED <<screen, text, posts, fields, board, events, history>>

-----------------------------------------------------------------------------
(* When all switches are up again, two neighbouring ones quit, clear, or     *)
(* choose between letters and digits, and other chords do nothing.           *)
Quit ==
  /\ pc = "released" /\ input = {1, 2}
  /\ pc' = "test"
  /\ TextEditor(<<>>)
  /\ flag' = FALSE /\ screen' = "left"
  /\ UNCHANGED <<text, posts, modified, insert_text, num_flag, input, copy,
                 events, history>>

ClearAll ==
  /\ pc = "released" /\ input = {3, 4}
  /\ pc' = "test"
  /\ insert_text' = <<>>
  /\ TextEditor(<<>>)
  /\ Post("clear")
  /\ wanted' = <<>> /\ astray' = FALSE
  /\ UNCHANGED <<screen, text, flag, modified, num_flag, input, copy, events,
                 missed>>

CountMode ==  \* mutant: a third mode, which nothing handles
  /\ pc = "released" /\ input = {4, 5}
  /\ pc' = "test"
  /\ num_flag' = num_flag + 1
  /\ UNCHANGED <<screen, text, posts, flag, modified, insert_text, input, copy,
                 board, events, history>>

ChangeMode ==
  /\ pc = "released" /\ input = {4, 5}
  /\ pc' = "test"
  /\ num_flag' = 3 - num_flag
  /\ UNCHANGED <<screen, text, posts, flag, modified, insert_text, input, copy,
                 board, events, history>>

OtherChord ==
  /\ pc = "released" /\ Cardinality(input) # 1
  /\ input \notin {{1, 2}, {3, 4}, {4, 5}}
  /\ pc' = "test"
  /\ UNCHANGED <<screen, text, posts, fields, board, events, history>>

(* One switch types. What it should give, but for the limit, is what this    *)
(* editor makes of what was wanted before: a letter of the same switch is    *)
(* stepped on, a digit is put behind.                                        *)
Last(string) == string[Len(string)]

LetterOf(string, b) ==
  IF string # <<>> /\ Last(string) \in {b} \X (0..2)
  THEN [string EXCEPT ![Len(string)][2] = (@ + 1) % 3]
  ELSE Append(string, <<b, 0>>)

DigitOf(string, b) ==
  IF Len(string) >= Limit THEN Error ELSE Append(string, <<b, 3>>)

Want(string, lost) == wanted' = string /\ astray' = (astray \/ lost)

(* No room: both places get the error text.                                  *)
Single(mode) == pc = "released" /\ Cardinality(input) = 1 /\ num_flag = mode

TypeError ==
  /\ pc' = "test"
  /\ TextEditor(Error)
  /\ insert_text' = Error
  /\ Post("type")
  /\ Want(Error, posts # <<>>)
  /\ UNCHANGED <<screen, text, flag, modified, num_flag, input, copy, events,
                 missed>>

LetterTooMany == Single(1) /\ Len(text) > Limit /\ TypeError

DigitTooMany == Single(2) /\ Len(text) = Limit /\ TypeError

(* A letter starts from the text on the screen, which is copied first, ...   *)
CopyText ==
  /\ Single(1) /\ Len(text) <= Limit
  /\ pc' = "append"
  /\ insert_text' = text
  /\ \E b \in input : Want(LetterOf(wanted, b), posts # <<>>)
  /\ UNCHANGED <<screen, text, posts, flag, modified, num_flag, input, copy,
                 board, events, missed>>

SameSwitch(b) == \E j \in 0..2 : Last(insert_text) = <<b, j>>

NextOfSwitch(c) == <<c[1], c[2] + 1>>  \* mutant: the wrap left out

NextLetter(c) == IF c[2] = 2 THEN <<c[1], 0>> ELSE <<c[1], c[2] + 1>>

Letter(b) ==
  IF insert_text # <<>> /\ SameSwitch(b)
  THEN [insert_text EXCEPT ![Len(insert_text)] = NextLetter(@)]
  ELSE Append(insert_text, <<b, 0>>)

AppendLetter ==
  /\ pc = "append" /\ pc' = "test"
  /\ \E b \in input : insert_text' = Letter(b)
  /\ Post("type")
  /\ UNCHANGED <<screen, text, flag, modified, num_flag, input, copy, board,
                 events, history>>

(* ... but a digit from what was inserted before: what has been typed or     *)
(* cleared on the screen since then is lost, or comes back.                  *)
Digit ==
  /\ Single(2) /\ Len(text) # Limit
  /\ pc' = "test"
  /\ \E b \in input :
       /\ insert_text' = Append(insert_text, <<b, 3>>)
       /\ Want(DigitOf(wanted, b), posts # <<>> \/ insert_text # text)
  /\ Post("type")
  /\ UNCHANGED <<screen, text, flag, modified, num_flag, input, copy, board,
                 events, missed>>

Type == LetterTooMany \/ DigitTooMany \/ CopyText \/ AppendLetter \/ Digit

(* Then, and with every poll that finds no switch down, a text that a post   *)
(* has put on the screen goes to the board.                                  *)
TestModified ==
  /\ pc = "test"
  /\ \/ /\ modified /\ pc' = "show"
        /\ copy' = text /\ missed' = FALSE
        /\ UNCHANGED input
     \/ /\ ~modified /\ pc' = "head"
        /\ input' = {}
        /\ UNCHANGED <<copy, missed>>
  /\ UNCHANGED <<screen, text, posts, flag, modified, insert_text, num_flag,
                 board, events, wanted, astray>>

Show ==
  /\ pc = "show" /\ pc' = "reset"
  /\ TextEditor(copy)
  /\ copy' = <<>>
  /\ UNCHANGED <<screen, text, posts, flag, modified, insert_text, num_flag,
                 input, events, history>>

Reset ==
  /\ pc = "reset" /\ pc' = "head"
  /\ modified' = FALSE
  /\ input' = {}
  /\ UNCHANGED <<screen, text, posts, flag, insert_text, num_flag, copy, board,
                 events, history>>

Thread ==
  \/ TestFlag \/ Poll \/ PollTooEarly
  \/ Quit \/ ClearAll \/ ChangeMode \/ OtherChord \/ Type
  \/ TestModified \/ Show \/ Reset

-----------------------------------------------------------------------------
(* The main thread runs what was posted, also when the activity was left.    *)
RunPost(what) ==
  /\ posts # <<>> /\ Head(posts) = what /\ posts' = Tail(posts)

(* What the thread has still to put on the screen replaces what the user     *)
(* changes there.                                                            *)
Pending == pc = "append" \/ \E i \in DOMAIN posts : posts[i] # "error"

RunType ==
  /\ RunPost("type")
  /\ text' = insert_text /\ modified' = TRUE
  /\ missed' = (missed \/ pc \in {"show", "reset"})
  /\ UNCHANGED <<screen, pc, flag, insert_text, num_flag, input, copy, board,
                 events, wanted, astray>>

RunClear ==
  /\ RunPost("clear")
  /\ text' = <<>> /\ modified' = TRUE
  /\ missed' = (missed \/ pc \in {"show", "reset"})
  /\ UNCHANGED <<screen, pc, flag, insert_text, num_flag, input, copy, board,
                 events, wanted, astray>>

(* The main thread writes a text to screen and board. The switch thread may  *)
(* have read the text before, and write it to the board after.               *)
Both(string) ==
  /\ text' = string
  /\ TextEditor(string)
  /\ missed' = (pc = "show")

RunErrorOnScreen ==  \* mutant: TextEditor left out
  /\ RunPost("error")
  /\ text' = Error
  /\ Want(Error, TRUE)
  /\ UNCHANGED <<screen, pc, fields, board, events, missed>>

RunError ==
  /\ RunPost("error")
  /\ Both(Error)
  /\ Want(IF Len(wanted) > Limit THEN Error ELSE wanted,
          Pending \/ (Len(wanted) <= Limit /\ wanted # Error))
  /\ UNCHANGED <<screen, pc, fields, events>>

(* The listeners and the key handler.                                        *)
Modify ==
  /\ Both(IF Len(text) > Limit THEN Error ELSE text)
  /\ Want(IF Len(text) > Limit THEN Error ELSE wanted,
          Pending /\ Len(text) > Limit)
  /\ UNCHANGED <<screen, flag>>

Clear ==
  /\ Both(<<>>)
  /\ Want(<<>>, Pending)
  /\ UNCHANGED <<screen, flag>>

Main ==
  /\ TextEditor(<<>>)
  /\ flag' = FALSE /\ screen' = "left"
  /\ UNCHANGED <<text, wanted, astray, missed>>

KeyDown ==  \* any key; the back key leaves the activity as well
  /\ TextEditor(<<>>)
  /\ flag' = FALSE /\ screen' \in {"open", "left"}
  /\ UNCHANGED <<text, wanted, astray, missed>>

Touch ==
  /\ text' \in Touched /\ text' # text
  /\ Want(text', Pending) /\ missed' = TRUE
  /\ UNCHANGED <<screen, flag, board>>

User ==
  /\ screen = "open" /\ events > 0 /\ events' = events - 1
  /\ Modify \/ Clear \/ Main \/ KeyDown \/ Touch
  /\ UNCHANGED <<posts, pc, modified, insert_text, num_flag, input, copy>>

MainThread == Create \/ RunType \/ RunClear \/ RunError

-----------------------------------------------------------------------------
Next == pc # "crashed" /\ (Thread \/ MainThread \/ User)

Spec == Init /\ [][Next]_vars

(* Both threads are scheduled; the user need do nothing.                     *)
FairSpec ==
  /\ Spec
  /\ WF_vars(pc # "crashed" /\ Thread)
  /\ WF_vars(pc # "crashed" /\ MainThread)

-----------------------------------------------------------------------------
TypeOK ==
  /\ screen \in {"start", "open", "left"}
  /\ {text, insert_text, copy, wanted, board.lcd} \subseteq Seq(Char)
  /\ posts \in Seq({"type", "clear", "error"}) /\ Len(posts) <= Queue
  /\ pc \in {"head", "poll", "released", "append", "test", "show", "reset",
             "done", "crashed"}
  /\ flag \in BOOLEAN /\ modified \in BOOLEAN /\ num_flag \in {1, 2}
  /\ input \in SUBSET (0..8)
  /\ board.fnd \in 0..Limit /\ board.led \in 0..Limit
  /\ events \in 0..Events
  /\ astray \in BOOLEAN /\ missed \in BOOLEAN

(* With no post and no change under way, text LCD, FND and LED show the text *)
(* of the screen, whichever of the six places in two threads wrote to them   *)
(* last, unless the main thread has changed it just while the switch thread  *)
(* was copying an older one (lines 343-345), or it was typed by touch and    *)
(* not handed on yet.                                                        *)
AtRest == posts = <<>> /\ pc \in {"head", "poll", "released"}

BoardShowsText ==
  screen = "open" /\ flag /\ AtRest /\ ~modified /\ ~missed
  /\ Len(text) <= Limit
    => board = [lcd |-> text, fnd |-> Len(text), led |-> Len(text)]

(* The text on the screen is what a plain multi-tap editor makes of all      *)
(* releases, chords and touches, over the limit as well, as long as the main *)
(* thread comes to the posts before the next release, and no digit follows a *)
(* change that insert_text has not seen.                                     *)
TextIsAsTyped == AtRest /\ ~astray /\ Len(text) <= Limit => text = wanted

(* A text that is too long does not stay, wherever it came from.             *)
TooLongIsReplaced ==
  Len(text) > Limit ~> Len(text) <= Limit \/ ~flag \/ pc = "crashed"

(* Leaving the activity, or any key, ends the switch thread wherever it is.  *)
LeavingEndsThread == ~flag ~> pc \in {"done", "crashed"}
=============================================================================
