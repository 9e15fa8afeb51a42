------------------------ MODULE TextActivity_proofs ------------------------
(***************************************************************************)
(* Theorems about HW5's text editor: the types of its variables, that the  *)
(* text on the screen is the one that was typed (TextIsAsTyped), and that  *)
(* the board shows it (BoardShowsText).                                    *)
(***************************************************************************)
EXTENDS TextActivity, FiniteSetTheorems, TLAPS

Posts == {"type", "clear", "error"}
Strings == Seq(Char)

(* TypeOK, and that the board has its three displays. *)
TextsTyped ==
  /\ text \in Strings /\ insert_text \in Strings /\ copy \in Strings
  /\ wanted \in Strings

BoardTyped == board \in [lcd : Strings, fnd : 0..Limit, led : 0..Limit]

Screens == {"start", "open", "left"}
Steps == {"head", "poll", "released", "append", "test", "show", "reset", "done",
          "crashed"}

FieldsTyped ==
  /\ screen \in Screens
  /\ posts \in Seq(Posts) /\ Len(posts) <= Queue
  /\ pc \in Steps
  /\ flag \in BOOLEAN /\ modified \in BOOLEAN /\ num_flag \in {1, 2}
  /\ input \in SUBSET (0..8)
  /\ events \in 0..Events
  /\ astray \in BOOLEAN /\ missed \in BOOLEAN

TypeInv == TextsTyped /\ BoardTyped /\ FieldsTyped

-----------------------------------------------------------------------------
(* A post that will put what the thread has typed, or nothing, on the screen. *)
Due(q) == \E i \in DOMAIN q : q[i] # "error"
ClearDue(q) == \E i \in DOMAIN q : q[i] = "clear"

(* What is on the board, or on its way there from the copy. *)
Shown(string) == [lcd |-> string, fnd |-> Len(string), led |-> Len(string)]

BoardInv ==
  flag /\ ~missed =>
    /\ pc = "show" => copy = text
    /\ /\ pc # "show" /\ Len(text) <= Limit
       /\ pc = "reset" \/ (~modified /\ ~Due(posts))
       => board = Shown(text)

(* A letter under way is of the one switch that is collected, and meets the  *)
(* text that was wanted before; with a post under way it is insert_text that *)
(* is wanted, and nothing is when it clears; and else it is the text.        *)
LetterWanted ==
  pc = "append" =>
    \E b \in 0..8 : /\ input = {b}
                    /\ ~astray => posts = <<>> /\ wanted = LetterOf(insert_text, b)

PostWanted ==
  ~astray /\ pc # "append" /\ Due(posts) =>
    /\ Len(insert_text) <= Limit => insert_text = wanted
    /\ ClearDue(posts) => insert_text = <<>> /\ wanted = <<>>

TextWanted ==
  ~astray /\ pc # "append" /\ ~Due(posts) /\ Len(text) <= Limit => text = wanted

WantInv == LetterWanted /\ PostWanted /\ TextWanted

-----------------------------------------------------------------------------
(* Sequences of posts and of characters.                                     *)
LEMMA Appended ==
  ASSUME NEW q \in Seq(Posts), NEW w \in Posts, NEW r, r = Append(q, w)
  PROVE  /\ r \in Seq(Posts) /\ Len(r) = Len(q) + 1
         /\ Due(r) <=> Due(q) \/ w # "error"
         /\ ClearDue(r) <=> ClearDue(q) \/ w = "clear"
<1>1. /\ r \in Seq(Posts) /\ Len(r) = Len(q) + 1 /\ Len(q) \in Nat
      /\ \A i \in 1..Len(q) : r[i] = q[i]
      /\ r[Len(q) + 1] = w
  OBVIOUS
<1>2. /\ DOMAIN q = 1..Len(q) /\ DOMAIN r = 1..(Len(q) + 1)
      /\ DOMAIN r = DOMAIN q \cup {Len(q) + 1}
  BY <1>1
<1>3. Due(r) <=> Due(q) \/ w # "error"
  BY <1>1, <1>2 DEF Due
<1>4. ClearDue(r) <=> ClearDue(q) \/ w = "clear"
  BY <1>1, <1>2 DEF ClearDue
<1> QED
  BY <1>1, <1>3, <1>4

LEMMA Taken ==
  ASSUME NEW q \in Seq(Posts), q # <<>>
  PROVE  /\ Tail(q) \in Seq(Posts) /\ Len(Tail(q)) = Len(q) - 1
         /\ Due(q) <=> Head(q) # "error" \/ Due(Tail(q))
         /\ ClearDue(q) <=> Head(q) = "clear" \/ ClearDue(Tail(q))
<1>1. /\ Tail(q) \in Seq(Posts) /\ Len(Tail(q)) = Len(q) - 1
      /\ Len(q) \in Nat \ {0} /\ Head(q) = q[1]
  OBVIOUS
<1>2. \A i \in 1..(Len(q) - 1) : Tail(q)[i] = q[i + 1]
  OBVIOUS
<1>3. /\ DOMAIN q = 1..Len(q) /\ DOMAIN Tail(q) = 1..(Len(q) - 1)
  BY <1>1
<1>4. \A i \in DOMAIN q : i = 1 \/ (i - 1 \in DOMAIN Tail(q) /\ q[i] = Tail(q)[i - 1])
  BY <1>1, <1>2, <1>3
<1>5. \A i \in DOMAIN Tail(q) : i + 1 \in DOMAIN q /\ Tail(q)[i] = q[i + 1]
  BY <1>1, <1>2, <1>3
<1>6. 1 \in DOMAIN q
  BY <1>1, <1>3
<1>7. Due(q) <=> Head(q) # "error" \/ Due(Tail(q))
  BY Zenon, <1>1, <1>4, <1>5, <1>6 DEF Due
<1>8. ClearDue(q) <=> Head(q) = "clear" \/ ClearDue(Tail(q))
  BY Zenon, <1>1, <1>4, <1>5, <1>6 DEF ClearDue
<1> QED
  BY <1>1, <1>7, <1>8

LEMMA NothingDue == ~Due(<<>>) /\ ~ClearDue(<<>>)
BY DEF Due, ClearDue

LEMMA StringsTyped ==
  /\ Error \in Strings /\ Garbage \in Strings /\ <<>> \in Strings
  /\ Len(Error) = 2 /\ Limit \in Nat /\ 2 < Limit
<1>1. <<9, 0>> \in Char /\ <<9, 1>> \in Char /\ <<2, 1>> \in Char
  BY DEF Char
<1>2. Error \in Seq(Char) /\ Garbage \in Seq(Char) /\ Len(Error) = 2
  BY <1>1 DEF Error, Garbage
<1> QED
  BY <1>2, TextAssumption DEF Strings

LEMMA CharTyped ==
  ASSUME NEW b \in 0..8
  PROVE  /\ <<b, 0>> \in Char /\ <<b, 3>> \in Char
         /\ \A j \in 0..2 : <<b, (j + 1) % 3>> \in Char
<1>1. \A j \in 0..2 : (j + 1) % 3 \in 0..3
  OBVIOUS
<1>2. \A j \in 0..3 : <<b, j>> \in Char
  BY DEF Char
<1> QED
  BY <1>1, <1>2

LEMMA LongerTyped ==
  ASSUME NEW s \in Strings, NEW c \in Char
  PROVE  Append(s, c) \in Strings /\ Len(Append(s, c)) = Len(s) + 1 /\ Len(s) \in Nat
BY DEF Strings

(* A string whose last character is a letter of the switch b: its number is  *)
(* stepped on.                                                               *)
LEMMA SteppedLetter ==
  ASSUME NEW b \in 0..8, NEW j \in 0..2, NEW s \in Strings, s # <<>>, Last(s) = <<b, j>>
  PROVE  /\ LetterOf(s, b) = [s EXCEPT ![Len(s)] = <<b, (j + 1) % 3>>]
         /\ LetterOf(s, b) \in Strings
<1>1. Len(s) \in DOMAIN s /\ s[Len(s)] = <<b, j>>
  BY DEF Last, Strings
<1>2. [<<b, j>> EXCEPT ![2] = (<<b, j>>[2] + 1) % 3] = <<b, (j + 1) % 3>>
  OBVIOUS
<1>3. Last(s) \in {b} \X (0..2)
  OBVIOUS
<1>4. LetterOf(s, b) = [s EXCEPT ![Len(s)][2] = (@ + 1) % 3]
  BY Zenon, <1>3 DEF LetterOf
<1>5. [s EXCEPT ![Len(s)][2] = (@ + 1) % 3]
        = [s EXCEPT ![Len(s)] = [s[Len(s)] EXCEPT ![2] = (s[Len(s)][2] + 1) % 3]]
  OBVIOUS
<1>6. LetterOf(s, b) = [s EXCEPT ![Len(s)] = <<b, (j + 1) % 3>>]
  BY Zenon, <1>1, <1>2, <1>4, <1>5
<1>7. <<b, (j + 1) % 3>> \in Char
  BY Zenon, CharTyped
<1> QED
  BY <1>1, <1>6, <1>7 DEF Strings

LEMMA NewLetter ==
  ASSUME NEW b \in 0..8, NEW s \in Strings, ~(s # <<>> /\ Last(s) \in {b} \X (0..2))
  PROVE  LetterOf(s, b) = Append(s, <<b, 0>>) /\ LetterOf(s, b) \in Strings
<1>1. LetterOf(s, b) = Append(s, <<b, 0>>)
  BY Zenon DEF LetterOf
<1> QED
  BY Zenon, <1>1, CharTyped, LongerTyped

LEMMA LetterOfTyped ==
  ASSUME NEW b \in 0..8, NEW s \in Strings
  PROVE  LetterOf(s, b) \in Strings
<1>1. CASE s # <<>> /\ Last(s) \in {b} \X (0..2)
  <2>1. PICK j \in 0..2 : Last(s) = <<b, j>>
    BY <1>1
  <2> QED
    BY <1>1, <2>1, SteppedLetter
<1>2. CASE ~(s # <<>> /\ Last(s) \in {b} \X (0..2))
  BY <1>2, NewLetter
<1> QED
  BY <1>1, <1>2

(* The letter that the code appends is the one that a multi-tap editor does. *)
LEMMA LetterIs ==
  ASSUME NEW b \in 0..8, insert_text \in Strings
  PROVE  Letter(b) = LetterOf(insert_text, b)
<1>1. CASE insert_text # <<>> /\ SameSwitch(b)
  <2>1. PICK j \in 0..2 : Last(insert_text) = <<b, j>>
    BY <1>1 DEF SameSwitch
  <2> DEFINE n == Len(insert_text)
  <2>2. n \in DOMAIN insert_text /\ insert_text[n] = <<b, j>>
    BY <1>1, <2>1 DEF Last, Strings
  <2>3. NextLetter(<<b, j>>) = <<b, (j + 1) % 3>>
    <3>1. j = 0 \/ j = 1 \/ j = 2
      OBVIOUS
    <3> QED
      BY <3>1 DEF NextLetter
  <2>4. Letter(b) = [insert_text EXCEPT ![n] = NextLetter(insert_text[n])]
    BY Zenon, <1>1 DEF Letter
  <2>5. LetterOf(insert_text, b) = [insert_text EXCEPT ![n] = <<b, (j + 1) % 3>>]
    BY Zenon, <1>1, <2>1, SteppedLetter
  <2> QED
    BY Zenon, <2>2, <2>3, <2>4, <2>5
<1>2. CASE ~(insert_text # <<>> /\ SameSwitch(b))
  <2>1. ~(insert_text # <<>> /\ Last(insert_text) \in {b} \X (0..2))
    BY <1>2 DEF SameSwitch
  <2>2. Letter(b) = Append(insert_text, <<b, 0>>)
    BY Zenon, <1>2 DEF Letter
  <2>3. LetterOf(insert_text, b) = Append(insert_text, <<b, 0>>)
    BY Zenon, <2>1, NewLetter
  <2> QED
    BY Zenon, <2>2, <2>3
<1> QED
  BY <1>1, <1>2

LEMMA EditorShows ==
  ASSUME TypeInv, NEW string \in Strings, TextEditor(string)
  PROVE  /\ BoardTyped'
         /\ Len(string) <= Limit => board' = Shown(string)
<1>1. CASE Len(string) > Limit
  <2>1. PICK lcd \in {Error, Garbage} :
           board' = [board EXCEPT !.lcd = lcd, !.fnd = Len(Error)]
    BY <1>1 DEF TextEditor
  <2>2. lcd \in Strings /\ Len(Error) \in 0..Limit
    BY StringsTyped
  <2>3. BoardTyped'
    BY Zenon, <2>1, <2>2 DEF TypeInv, BoardTyped
  <2> QED
    BY <1>1, <2>3, StringsTyped DEF Strings
<1>2. CASE ~(Len(string) > Limit)
  <2>1. board' = Shown(string)
    BY <1>2 DEF TextEditor, Shown
  <2>2. Len(string) \in 0..Limit
    BY <1>2, StringsTyped DEF Strings
  <2> QED
    BY <2>1, <2>2 DEF BoardTyped, Shown
<1> QED
  BY <1>1, <1>2

-----------------------------------------------------------------------------
(* Types, action by action.                                                  *)
LEMMA InitTyped == Init => TypeInv
<1> SUFFICES ASSUME Init PROVE TypeInv
  OBVIOUS
<1>1. TextsTyped
  BY StringsTyped DEF Init, TextsTyped
<1>2. BoardTyped
  BY StringsTyped DEF Init, BoardTyped
<1>3. FieldsTyped
  <2>1. <<>> \in Seq(Posts) /\ Len(<<>>) = 0
    OBVIOUS
  <2>2. 0 <= Queue /\ Events \in 0..Events
    BY TextAssumption
  <2> QED
    BY Zenon, <2>1, <2>2 DEF Init, FieldsTyped, Steps, Screens
<1> QED
  BY <1>1, <1>2, <1>3 DEF TypeInv

LEMMA PostTyped ==
  ASSUME FieldsTyped, NEW w \in Posts, Post(w)
  PROVE  /\ posts' \in Seq(Posts) /\ Len(posts') <= Queue
         /\ Due(posts') <=> Due(posts) \/ w # "error"
         /\ ClearDue(posts') <=> ClearDue(posts) \/ w = "clear"
<1>1. posts \in Seq(Posts) /\ Len(posts) \in Nat /\ Queue \in Nat
  BY TextAssumption DEF FieldsTyped
<1>2. posts' = Append(posts, w) /\ Len(posts) < Queue
  BY DEF Post
<1> QED
  <2>1. Len(Append(posts, w)) = Len(posts) + 1
    BY <1>1
  <2>2. Len(posts') <= Queue
    BY <1>1, <1>2, <2>1
  <2> QED
    BY Zenon, <1>1, <1>2, <2>2, Appended

LEMMA RunTyped ==
  ASSUME FieldsTyped, NEW w, RunPost(w)
  PROVE  /\ posts' \in Seq(Posts) /\ Len(posts') <= Queue
         /\ Due(posts) <=> w # "error" \/ Due(posts')
         /\ ClearDue(posts) <=> w = "clear" \/ ClearDue(posts')
<1>1. posts \in Seq(Posts) /\ Len(posts) \in Nat /\ Queue \in Nat /\ Len(posts) <= Queue
  BY TextAssumption DEF FieldsTyped
<1>2. posts # <<>> /\ Head(posts) = w /\ posts' = Tail(posts)
  BY DEF RunPost
<1> QED
  BY <1>1, <1>2, Taken

LEMMA ThreadTyped ==
  ASSUME TypeInv, Thread PROVE TypeInv'
<1> USE DEF fields, history
<1>0. TextsTyped /\ BoardTyped /\ FieldsTyped
  BY DEF TypeInv
<1>1. CASE TestFlag \/ PollTooEarly \/ ChangeMode \/ OtherChord \/ TestModified \/ Reset
  <2>1. TextsTyped'
    BY <1>0, <1>1 DEF TextsTyped, TestFlag, PollTooEarly, ChangeMode, OtherChord,
                      TestModified, Reset
  <2>2. BoardTyped'
    BY <1>0, <1>1 DEF BoardTyped, TestFlag, PollTooEarly, ChangeMode, OtherChord,
                      TestModified, Reset
  <2>3. CASE TestFlag \/ PollTooEarly \/ ChangeMode \/ OtherChord
    <3>1. num_flag' \in {1, 2}
      BY <1>0, <2>3 DEF FieldsTyped, TestFlag, PollTooEarly, ChangeMode, OtherChord
    <3>2. pc' \in Steps
      BY <2>3 DEF Steps, TestFlag, PollTooEarly, ChangeMode, OtherChord
    <3>3. UNCHANGED <<screen, posts, flag, modified, input, events, astray, missed>>
      BY <2>3 DEF TestFlag, PollTooEarly, ChangeMode, OtherChord
    <3> QED
      BY <1>0, <2>1, <2>2, <3>1, <3>2, <3>3 DEF FieldsTyped, TypeInv
  <2>4. CASE TestModified \/ Reset
    <3>1. missed' \in BOOLEAN /\ modified' \in BOOLEAN
      BY <1>0, <2>4, Zenon DEF FieldsTyped, TestModified, Reset
    <3>2. pc' \in Steps /\ input' \in SUBSET (0..8)
      BY Zenon, <1>0, <2>4 DEF Steps, FieldsTyped, TestModified, Reset
    <3>3. UNCHANGED <<screen, posts, flag, num_flag, events, astray>>
      BY <2>4 DEF TestModified, Reset
    <3> QED
      BY <1>0, <2>1, <2>2, <3>1, <3>2, <3>3 DEF FieldsTyped, TypeInv
  <2> QED
    BY <1>1, <2>3, <2>4
<1>2. CASE Poll
  <2>1. TextsTyped' /\ BoardTyped'
    BY <1>0, <1>2 DEF Poll, TextsTyped, BoardTyped
  <2>2. posts' \in Seq(Posts) /\ Len(posts') <= Queue
    BY <1>0, <1>2, PostTyped DEF Poll, Replace, Posts, FieldsTyped
  <2>3. PICK down \in Presses :
          /\ events' = events - (IF down \subseteq input THEN 0 ELSE 1)
          /\ events' >= 0
          /\ input' = input \cup down
    BY <1>2 DEF Poll, PushSwitch
  <2>4. events' \in 0..Events
    BY <1>0, <2>3, TextAssumption DEF FieldsTyped
  <2>5. input' \in SUBSET (0..8)
    BY <1>0, <2>3, TextAssumption DEF FieldsTyped
  <2>6. pc' \in {"released", "test", "head"}
    BY <1>2 DEF Poll
  <2>7. FieldsTyped'
    BY <1>0, <1>2, <2>2, <2>4, <2>5, <2>6 DEF Poll, FieldsTyped, Steps, Screens
  <2> QED
    BY <2>1, <2>7 DEF TypeInv
<1>3. CASE Quit
  <2>1. BoardTyped'
    BY <1>3, EditorShows, StringsTyped DEF Quit
  <2>2. TextsTyped' /\ FieldsTyped'
    BY Zenon, <1>0, <1>3 DEF Quit, TextsTyped, FieldsTyped, Steps, Screens
  <2> QED
    BY <2>1, <2>2 DEF TypeInv
<1>4. CASE ClearAll
  <2>1. BoardTyped'
    BY <1>4, EditorShows, StringsTyped DEF ClearAll
  <2>2. posts' \in Seq(Posts) /\ Len(posts') <= Queue
    BY <1>0, <1>4, PostTyped DEF ClearAll, Posts
  <2>3. TextsTyped' /\ FieldsTyped'
    BY Zenon, <1>0, <1>4, <2>2, StringsTyped
       DEF ClearAll, TextsTyped, FieldsTyped, Steps, Screens
  <2> QED
    BY <2>1, <2>3 DEF TypeInv
<1>5. CASE LetterTooMany \/ DigitTooMany
  <2>1. TypeError
    BY <1>5 DEF LetterTooMany, DigitTooMany
  <2>2. BoardTyped'
    BY <2>1, EditorShows, StringsTyped DEF TypeError
  <2>3. posts' \in Seq(Posts) /\ Len(posts') <= Queue
    BY <1>0, <2>1, PostTyped DEF TypeError, Posts
  <2>4. astray' \in BOOLEAN
    BY <1>0, <2>1, Zenon DEF TypeError, Want, FieldsTyped
  <2>5. TextsTyped' /\ FieldsTyped'
    BY <1>0, <2>1, <2>3, <2>4, StringsTyped
       DEF TypeError, Want, TextsTyped, FieldsTyped, Steps, Screens
  <2> QED
    BY <2>2, <2>5 DEF TypeInv
<1>6. CASE CopyText
  <2>1. PICK b \in input : Want(LetterOf(wanted, b), posts # <<>>)
    BY <1>6 DEF CopyText
  <2>2. wanted' \in Strings
    BY <1>0, <2>1, LetterOfTyped DEF Want, TextsTyped, FieldsTyped
  <2>3. astray' \in BOOLEAN
    BY <1>0, <2>1, Zenon DEF Want, FieldsTyped
  <2>4. TextsTyped' /\ BoardTyped' /\ FieldsTyped'
    BY <1>0, <1>6, <2>2, <2>3
       DEF CopyText, TextsTyped, BoardTyped, FieldsTyped, Steps, Screens
  <2> QED
    BY <2>4 DEF TypeInv
<1>7. CASE AppendLetter
  <2>1. PICK b \in input : insert_text' = Letter(b)
    BY <1>7 DEF AppendLetter
  <2>2. insert_text' \in Strings
    BY <1>0, <2>1, LetterIs, LetterOfTyped DEF TextsTyped, FieldsTyped
  <2>3. posts' \in Seq(Posts) /\ Len(posts') <= Queue
    BY <1>0, <1>7, PostTyped DEF AppendLetter, Posts
  <2>4. TextsTyped' /\ BoardTyped' /\ FieldsTyped'
    BY <1>0, <1>7, <2>2, <2>3
       DEF AppendLetter, TextsTyped, BoardTyped, FieldsTyped, Steps, Screens
  <2> QED
    BY <2>4 DEF TypeInv
<1>8. CASE Digit
  <2>1. PICK b \in input :
          /\ insert_text' = Append(insert_text, <<b, 3>>)
          /\ Want(DigitOf(wanted, b), posts # <<>> \/ insert_text # text)
    BY <1>8 DEF Digit
  <2>2. b \in 0..8
    BY <1>0 DEF FieldsTyped
  <2>3. insert_text' \in Strings
    BY Zenon, <1>0, <2>1, <2>2, CharTyped, LongerTyped DEF TextsTyped
  <2>4. wanted' \in Strings
    BY Zenon, <1>0, <2>1, <2>2, CharTyped, LongerTyped, StringsTyped
       DEF Want, DigitOf, TextsTyped
  <2>5. astray' \in BOOLEAN
    BY <1>0, <2>1, Zenon DEF Want, FieldsTyped
  <2>6. posts' \in Seq(Posts) /\ Len(posts') <= Queue
    BY <1>0, <1>8, PostTyped DEF Digit, Posts
  <2>7. TextsTyped' /\ BoardTyped' /\ FieldsTyped'
    BY <1>0, <1>8, <2>3, <2>4, <2>5, <2>6
       DEF Digit, TextsTyped, BoardTyped, FieldsTyped, Steps, Screens
  <2> QED
    BY <2>7 DEF TypeInv
<1>9. CASE Show
  <2>1. BoardTyped'
    BY <1>0, <1>9, EditorShows DEF Show, TextsTyped
  <2>2. TextsTyped' /\ FieldsTyped'
    BY <1>0, <1>9, StringsTyped DEF Show, TextsTyped, FieldsTyped, Steps, Screens
  <2> QED
    BY <2>1, <2>2 DEF TypeInv
<1> QED
  BY <1>1, <1>2, <1>3, <1>4, <1>5, <1>6, <1>7, <1>8, <1>9 DEF Thread, Type

LEMMA MainTyped ==
  ASSUME TypeInv, MainThread \/ User PROVE TypeInv'
<1> USE DEF fields, history
<1>0. TextsTyped /\ BoardTyped /\ FieldsTyped
  BY DEF TypeInv
<1>1. ASSUME NEW s \in Strings, Both(s)
      PROVE  text' \in Strings /\ BoardTyped' /\ missed' \in BOOLEAN
  BY <1>1, EditorShows, Zenon DEF Both
<1>2. ASSUME NEW s \in Strings, NEW l \in BOOLEAN, Want(s, l)
      PROVE  wanted' \in Strings /\ astray' \in BOOLEAN
  BY <1>0, <1>2, Zenon DEF Want, FieldsTyped
<1>3. CASE Create
  <2>1. TextsTyped' /\ BoardTyped' /\ FieldsTyped'
    BY <1>0, <1>3 DEF Create, TextsTyped, BoardTyped, FieldsTyped, Steps, Screens
  <2> QED
    BY <2>1 DEF TypeInv
<1>4. CASE RunType \/ RunClear
  <2>1. posts' \in Seq(Posts) /\ Len(posts') <= Queue
    BY <1>0, <1>4, RunTyped DEF RunType, RunClear
  <2>2. missed' \in BOOLEAN
    BY <1>0, <1>4, Zenon DEF RunType, RunClear, FieldsTyped
  <2>3. TextsTyped' /\ BoardTyped'
    BY <1>0, <1>4, StringsTyped DEF RunType, RunClear, TextsTyped, BoardTyped
  <2>4. FieldsTyped'
    BY Zenon, <1>0, <1>4, <2>1, <2>2 DEF RunType, RunClear, FieldsTyped
  <2> QED
    BY <2>3, <2>4 DEF TypeInv
<1>5. CASE RunError
  <2>1. posts' \in Seq(Posts) /\ Len(posts') <= Queue
    BY <1>0, <1>5, RunTyped DEF RunError
  <2>2. text' \in Strings /\ BoardTyped' /\ missed' \in BOOLEAN
    BY <1>1, <1>5, StringsTyped DEF RunError
  <2>3. wanted' \in Strings
    BY <1>0, <1>5, StringsTyped DEF RunError, Want, TextsTyped
  <2>4. astray' \in BOOLEAN
    BY <1>0, <1>5, Zenon DEF RunError, Want, FieldsTyped
  <2>5. TextsTyped' /\ FieldsTyped'
    BY <1>0, <1>5, <2>1, <2>2, <2>3, <2>4
       DEF RunError, TextsTyped, FieldsTyped, Steps, Screens
  <2> QED
    BY <2>2, <2>5 DEF TypeInv
<1>6. CASE User
  <2>1. events' \in 0..Events
    BY <1>0, <1>6, TextAssumption DEF User, FieldsTyped
  <2>2. /\ text' \in Strings /\ wanted' \in Strings /\ BoardTyped'
        /\ missed' \in BOOLEAN /\ astray' \in BOOLEAN
        /\ screen' \in {"start", "open", "left"} /\ flag' \in BOOLEAN
    <3>1. CASE Modify
      <4>1. text' \in Strings /\ BoardTyped' /\ missed' \in BOOLEAN
        BY <1>0, <1>1, <3>1, StringsTyped DEF Modify, TextsTyped
      <4>2. wanted' \in Strings
        BY <1>0, <3>1, StringsTyped DEF Modify, Want, TextsTyped
      <4>3. astray' \in BOOLEAN
        BY <1>0, <3>1, Zenon DEF Modify, Want, FieldsTyped
      <4> QED
        BY <1>0, <3>1, <4>1, <4>2, <4>3 DEF Modify, FieldsTyped, Steps, Screens
    <3>2. CASE Clear
      <4>1. text' \in Strings /\ BoardTyped' /\ missed' \in BOOLEAN
        BY <1>1, <3>2, StringsTyped DEF Clear
      <4>2. wanted' \in Strings
        BY <3>2, StringsTyped DEF Clear, Want
      <4>3. astray' \in BOOLEAN
        BY <1>0, <3>2, Zenon DEF Clear, Want, FieldsTyped
      <4> QED
        BY <1>0, <3>2, <4>1, <4>2, <4>3 DEF Clear, FieldsTyped, Steps, Screens
    <3>3. CASE Main \/ KeyDown
      <4>1. BoardTyped'
        BY <3>3, EditorShows, StringsTyped DEF Main, KeyDown
      <4> QED
        BY Zenon, <1>0, <3>3, <4>1
           DEF Main, KeyDown, TextsTyped, FieldsTyped, Steps, Screens
    <3>4. CASE Touch
      <4>1. text' \in Strings /\ wanted' \in Strings
        BY <3>4, TextAssumption DEF Touch, Want, Strings
      <4>2. astray' \in BOOLEAN
        BY <1>0, <3>4, Zenon DEF Touch, Want, FieldsTyped
      <4> QED
        BY <1>0, <3>4, <4>1, <4>2 DEF Touch, FieldsTyped, BoardTyped, Steps, Screens
    <3> QED
      BY <1>6, <3>1, <3>2, <3>3, <3>4 DEF User
  <2>3. TextsTyped' /\ FieldsTyped'
    BY <1>0, <1>6, <2>1, <2>2 DEF User, TextsTyped, FieldsTyped, Steps, Screens
  <2> QED
    BY <2>2, <2>3 DEF TypeInv
<1> QED
  BY <1>3, <1>4, <1>5, <1>6 DEF MainThread

LEMMA StepTyped == TypeInv /\ [Next]_vars => TypeInv'
<1>1. CASE UNCHANGED vars
  BY <1>1 DEF vars, fields, history, TypeInv, TextsTyped, BoardTyped, FieldsTyped
<1> QED
  BY <1>1, ThreadTyped, MainTyped DEF Next

(* Every variable keeps its type, for any limit, switches, touches and       *)
(* number of posts: what is shown is a text and a number that the displays   *)
(* of the board have room for (TextEditor.c).                                *)
THEOREM TypeCorrect == Spec => []TypeOK
<1>1. TypeInv => TypeOK
  BY DEF TypeInv, TextsTyped, BoardTyped, FieldsTyped, TypeOK, Strings, Posts,
         Screens, Steps
<1> QED
  BY <1>1, InitTyped, StepTyped, PTL DEF Spec

-----------------------------------------------------------------------------
(* The thread's own posts, and the main thread's changes of the text.        *)
LEMMA ReplaceKeepsDue ==
  ASSUME FieldsTyped, Replace
  PROVE  (Due(posts') <=> Due(posts)) /\ (ClearDue(posts') <=> ClearDue(posts))
<1>1. CASE Post("error")
  BY <1>1, PostTyped DEF Posts
<1>2. CASE UNCHANGED posts
  BY <1>2
<1> QED
  BY <1>1, <1>2 DEF Replace

LEMMA BothShow ==
  ASSUME TypeInv, NEW s \in Strings, Len(s) <= Limit, Both(s)
  PROVE  text' = s /\ board' = Shown(text') /\ missed' = (pc = "show")
BY EditorShows DEF Both

LEMMA ShortTyped ==
  ASSUME TypeInv, NEW s, s = IF Len(text) > Limit THEN Error ELSE text
  PROVE  s \in Strings /\ Len(s) <= Limit
<1>1. text \in Strings /\ Len(text) \in Nat
  BY DEF TypeInv, TextsTyped, Strings
<1>2. Error \in Strings /\ Len(Error) = 2 /\ Limit \in Nat /\ 2 < Limit
  BY StringsTyped
<1>3. CASE Len(text) > Limit
  <2>1. s = Error
    BY Zenon, <1>3
  <2>2. Len(Error) <= Limit
    BY <1>2
  <2> QED
    BY Zenon, <1>2, <2>1, <2>2
<1>4. CASE ~(Len(text) > Limit)
  BY <1>1, <1>2, <1>4
<1> QED
  BY <1>3, <1>4

LEMMA ThreadShows ==
  ASSUME TypeInv, BoardInv, Thread PROVE BoardInv'
<1> USE DEF fields, history
<1>0. FieldsTyped /\ TextsTyped
  BY DEF TypeInv
<1>1. CASE TestFlag \/ PollTooEarly \/ ChangeMode \/ OtherChord \/ CopyText
  <2>1. /\ UNCHANGED <<text, posts, flag, modified, board, missed>>
        /\ pc \notin {"show", "reset"} /\ pc' \notin {"show", "reset"}
    BY <1>1 DEF TestFlag, PollTooEarly, ChangeMode, OtherChord, CopyText, Single
  <2> QED
    BY <2>1 DEF BoardInv
<1>2. CASE Poll
  <2>1. /\ UNCHANGED <<text, flag, modified, board, missed>>
        /\ pc \notin {"show", "reset"} /\ pc' \notin {"show", "reset"}
    BY <1>2 DEF Poll
  <2>2. Due(posts') <=> Due(posts)
    BY <1>0, <1>2, ReplaceKeepsDue DEF Poll
  <2> QED
    BY <2>1, <2>2 DEF BoardInv
<1>3. CASE Quit
  BY <1>3 DEF Quit, BoardInv
<1>4. ASSUME NEW w \in {"type", "clear"}, Post(w), pc' = "test" PROVE BoardInv'
  <2>1. Due(posts')
    BY <1>0, <1>4, PostTyped DEF Posts
  <2> QED
    BY <1>4, <2>1 DEF BoardInv
<1>5. CASE ClearAll \/ LetterTooMany \/ DigitTooMany \/ AppendLetter \/ Digit
  BY <1>4, <1>5
     DEF ClearAll, LetterTooMany, DigitTooMany, TypeError, AppendLetter, Digit
<1>6. CASE TestModified
  <2>1. UNCHANGED <<text, posts, flag, modified, board>> /\ pc = "test"
    BY <1>6 DEF TestModified
  <2>2. \/ pc' = "show" /\ copy' = text
        \/ pc' = "head" /\ missed' = missed
    BY <1>6 DEF TestModified
  <2> QED
    BY <2>1, <2>2 DEF BoardInv
<1>7. CASE Show
  <2>1. UNCHANGED <<text, posts, flag, modified, missed>> /\ pc = "show" /\ pc' = "reset"
    BY <1>7 DEF Show
  <2>2. Len(copy) <= Limit => board' = Shown(copy)
    BY <1>0, <1>7, EditorShows DEF Show, TextsTyped
  <2> QED
    BY <2>1, <2>2 DEF BoardInv
<1>8. CASE Reset
  <2>1. UNCHANGED <<text, posts, flag, board, missed>> /\ pc = "reset" /\ pc' = "head"
    BY <1>8 DEF Reset
  <2> QED
    BY <2>1 DEF BoardInv
<1> QED
  BY <1>1, <1>2, <1>3, <1>5, <1>6, <1>7, <1>8 DEF Thread, Type

LEMMA MainShows ==
  ASSUME TypeInv, BoardInv, MainThread \/ User PROVE BoardInv'
<1> USE DEF fields, history
<1>0. FieldsTyped /\ TextsTyped
  BY DEF TypeInv
<1>1. ASSUME NEW s \in Strings, Len(s) <= Limit, Both(s), pc' = pc PROVE BoardInv'
  <2>1. board' = Shown(text') /\ missed' = (pc = "show")
    BY <1>1, BothShow
  <2> QED
    BY Zenon, <1>1, <2>1 DEF BoardInv
<1>2. CASE Create
  BY <1>2 DEF Create, BoardInv
<1>3. CASE RunType \/ RunClear
  <2>1. /\ pc' = pc /\ modified'
        /\ missed' = (missed \/ pc \in {"show", "reset"})
    BY <1>3 DEF RunType, RunClear
  <2> QED
    BY Zenon, <2>1 DEF BoardInv
<1>4. CASE RunError
  <2>1. Error \in Strings /\ Len(Error) <= Limit
    BY StringsTyped
  <2>2. Both(Error) /\ pc' = pc
    BY <1>4 DEF RunError
  <2> QED
    BY <1>1, <2>1, <2>2
<1>5. CASE User
  <2>1. pc' = pc
    BY <1>5 DEF User
  <2>2. CASE Modify
    BY <1>1, <2>1, <2>2, ShortTyped DEF Modify
  <2>3. CASE Clear
    BY <1>1, <2>1, <2>3, StringsTyped DEF Clear
  <2>4. CASE Main \/ KeyDown
    BY <2>4 DEF Main, KeyDown, BoardInv
  <2>5. CASE Touch
    BY <2>5 DEF Touch, BoardInv
  <2> QED
    BY <1>5, <2>2, <2>3, <2>4, <2>5 DEF User
<1> QED
  BY <1>2, <1>3, <1>4, <1>5 DEF MainThread

LEMMA StepShows == TypeInv /\ BoardInv /\ [Next]_vars => BoardInv'
<1>1. CASE UNCHANGED vars
  BY <1>1 DEF vars, fields, history, BoardInv
<1> QED
  BY <1>1, ThreadShows, MainShows DEF Next

(* With nothing under way, LCD, FND and LED show the text of the screen,     *)
(* whichever of the two threads has written to them last, for any limit,     *)
(* texts and interleaving; but for a change that the thread has missed.      *)
THEOREM BoardRight == Spec => []BoardShowsText
<1>1. Init => BoardInv
  <2>1. Len(<<>>) = 0
    OBVIOUS
  <2> QED
    BY <2>1 DEF Init, BoardInv, Shown
<1>2. TypeInv /\ BoardInv => BoardShowsText
  <2> SUFFICES ASSUME TypeInv, BoardInv, posts = <<>>,
                      pc \in {"head", "poll", "released"}, flag, ~modified, ~missed, Len(text) <= Limit
               PROVE  board = Shown(text)
    BY DEF BoardShowsText, AtRest, Shown
  <2> QED
    BY NothingDue DEF BoardInv
<1> QED
  BY <1>1, <1>2, InitTyped, StepTyped, StepShows, PTL DEF Spec

-----------------------------------------------------------------------------
(* What is wanted.                                                           *)
LEMMA ThreadTypes ==
  ASSUME TypeInv, WantInv, Thread PROVE WantInv'
<1> USE DEF fields, history
<1>0. FieldsTyped /\ TextsTyped /\ LetterWanted /\ PostWanted /\ TextWanted
  BY DEF TypeInv, WantInv
<1>1. CASE \/ TestFlag \/ PollTooEarly \/ Quit \/ ChangeMode \/ OtherChord
           \/ TestModified \/ Show \/ Reset
  <2>1. /\ UNCHANGED <<text, posts, insert_text, wanted, astray>>
        /\ pc # "append" /\ pc' # "append"
    BY <1>1 DEF TestFlag, PollTooEarly, Quit, ChangeMode, OtherChord, TestModified,
                Show, Reset
  <2> QED
    BY <1>0, <2>1 DEF WantInv, LetterWanted, PostWanted, TextWanted
<1>2. CASE Poll
  <2>1. /\ UNCHANGED <<text, insert_text, wanted, astray>>
        /\ pc # "append" /\ pc' # "append"
    BY <1>2 DEF Poll
  <2>2. (Due(posts') <=> Due(posts)) /\ (ClearDue(posts') <=> ClearDue(posts))
    BY <1>0, <1>2, ReplaceKeepsDue DEF Poll
  <2> QED
    BY <1>0, <2>1, <2>2 DEF WantInv, LetterWanted, PostWanted, TextWanted
<1>3. CASE ClearAll
  <2>1. pc' = "test" /\ insert_text' = <<>> /\ wanted' = <<>>
    BY <1>3 DEF ClearAll
  <2>2. Due(posts')
    BY <1>0, <1>3, PostTyped DEF ClearAll, Posts
  <2> QED
    BY <2>1, <2>2 DEF WantInv, LetterWanted, PostWanted, TextWanted
<1>4. ASSUME Post("type"), pc' = "test", ~astray' => posts = <<>>,
             ~astray' => (Len(insert_text') <= Limit => insert_text' = wanted')
      PROVE  WantInv'
  <2>1. Due(posts') /\ (posts = <<>> => ~ClearDue(posts'))
    BY <1>0, <1>4, PostTyped, NothingDue DEF Posts
  <2> QED
    BY <1>4, <2>1 DEF WantInv, LetterWanted, PostWanted, TextWanted
<1>5. CASE LetterTooMany \/ DigitTooMany
  <2>1. TypeError
    BY <1>5 DEF LetterTooMany, DigitTooMany
  <2>2. /\ Post("type") /\ pc' = "test"
        /\ insert_text' = Error /\ wanted' = Error
        /\ astray' = (astray \/ posts # <<>>)
    BY <2>1 DEF TypeError, Want
  <2> QED
    BY Zenon, <1>4, <2>2
<1>6. CASE CopyText
  <2>1. PICK b \in input : Want(LetterOf(wanted, b), posts # <<>>)
    BY <1>6 DEF CopyText
  <2>2. /\ pc = "released" /\ pc' = "append" /\ Cardinality(input) = 1
        /\ Len(text) <= Limit /\ insert_text' = text
        /\ UNCHANGED <<posts, input>>
    BY <1>6 DEF CopyText, Single
  <2>3. input = {b} /\ b \in 0..8
    <3>1. input \in SUBSET (0..8) /\ IsFiniteSet(0..8)
      <4>1. IsFiniteSet(0..8)
        <5>1. 0 \in Int /\ 8 \in Int
          OBVIOUS
        <5> QED
          BY Zenon, <5>1, FS_Interval
      <4> QED
        BY <1>0, <4>1 DEF FieldsTyped
    <3>2. IsFiniteSet(input)
      BY Zenon, <3>1, FS_Subset
    <3>3. PICK c : input = {c}
      BY <2>2, <3>2, FS_Singleton
    <3> QED
      BY <3>1, <3>3
  <2>4. ~astray' => posts = <<>> /\ ~astray /\ wanted' = LetterOf(wanted, b)
    BY Zenon, <2>1 DEF Want
  <2>5. ~astray' => text = wanted
    BY <1>0, <2>2, <2>4, NothingDue DEF TextWanted
  <2> QED
    BY <2>2, <2>3, <2>4, <2>5 DEF WantInv, LetterWanted, PostWanted, TextWanted
<1>7. CASE AppendLetter
  <2>1. PICK c \in input : insert_text' = Letter(c)
    BY <1>7 DEF AppendLetter
  <2>2. PICK b \in 0..8 : /\ input = {b}
                          /\ ~astray => posts = <<>> /\ wanted = LetterOf(insert_text, b)
    BY <1>0, <1>7 DEF AppendLetter, LetterWanted
  <2>3. insert_text' = LetterOf(insert_text, b)
    BY <1>0, <2>1, <2>2, LetterIs DEF TextsTyped
  <2>4. Post("type") /\ pc' = "test" /\ astray' = astray /\ wanted' = wanted
    BY <1>7 DEF AppendLetter
  <2> QED
    BY <1>4, <2>2, <2>3, <2>4
<1>8. CASE Digit
  <2>1. PICK b \in input :
          /\ insert_text' = Append(insert_text, <<b, 3>>)
          /\ Want(DigitOf(wanted, b), posts # <<>> \/ insert_text # text)
    BY <1>8 DEF Digit
  <2>2. Post("type") /\ pc = "released" /\ pc' = "test" /\ Len(text) # Limit
    BY <1>8 DEF Digit, Single
  <2>3. ~astray' => posts = <<>> /\ insert_text = text /\ ~astray
                    /\ wanted' = DigitOf(wanted, b)
    BY Zenon, <2>1 DEF Want
  <2>4. ASSUME ~astray', Len(insert_text') <= Limit PROVE insert_text' = wanted'
    <3>1. b \in 0..8 /\ text \in Strings
      BY <1>0 DEF FieldsTyped, TextsTyped
    <3>2. Len(insert_text') = Len(text) + 1 /\ Len(text) \in Nat
      BY <2>1, <2>3, <2>4, <3>1, CharTyped, LongerTyped
    <3>3. Len(text) < Limit
      BY <2>4, <3>2, StringsTyped
    <3>4. text = wanted
      BY <1>0, <2>2, <2>3, <2>4, <3>2, <3>3, NothingDue, StringsTyped DEF TextWanted
    <3>5. DigitOf(wanted, b) = Append(wanted, <<b, 3>>)
      BY <3>2, <3>3, <3>4, StringsTyped DEF DigitOf
    <3> QED
      BY <2>1, <2>3, <2>4, <3>4, <3>5
  <2> QED
    BY <1>4, <2>2, <2>3, <2>4
<1> QED
  BY <1>1, <1>2, <1>3, <1>5, <1>6, <1>7, <1>8 DEF Thread, Type

LEMMA MainTypes ==
  ASSUME TypeInv, WantInv, MainThread \/ User PROVE WantInv'
<1> USE DEF fields, history
<1>0. FieldsTyped /\ TextsTyped /\ LetterWanted /\ PostWanted /\ TextWanted
  BY DEF TypeInv, WantInv
<1>1. pc' = pc /\ UNCHANGED <<insert_text, input>>
  BY DEF MainThread, User, Create, RunType, RunClear, RunError
<1>2. posts = <<>> /\ pc # "append" => ~Pending
  BY DEF Pending
<1>3. Pending <=> pc = "append" \/ Due(posts)
  BY DEF Pending, Due
<1>4. CASE Create
  BY <1>0, <1>4 DEF Create, WantInv, LetterWanted, PostWanted, TextWanted
<1>5. CASE RunType \/ RunClear
  <2>1. PICK w \in {"type", "clear"} :
          RunPost(w) /\ text' = (IF w = "type" THEN insert_text ELSE <<>>)
    BY <1>5 DEF RunType, RunClear
  <2>2. UNCHANGED <<wanted, astray>>
    BY <1>5 DEF RunType, RunClear
  <2>3. posts # <<>>
    BY <2>1 DEF RunPost
  <2>4. /\ Due(posts)
        /\ w = "clear" => ClearDue(posts)
        /\ ClearDue(posts') => ClearDue(posts)
    BY <1>0, <2>1, RunTyped
  <2>5. LetterWanted'
    BY <1>0, <1>1, <2>2, <2>3 DEF LetterWanted
  <2>6. PostWanted'
    BY <1>0, <1>1, <2>2, <2>4 DEF PostWanted
  <2>7. TextWanted'
    BY <1>0, <1>1, <2>1, <2>2, <2>4 DEF PostWanted, TextWanted
  <2> QED
    BY <2>5, <2>6, <2>7 DEF WantInv
<1>6. CASE RunError
  <2>1. RunPost("error") /\ text' = Error
    BY <1>6 DEF RunError, Both
  <2>2. /\ wanted' = (IF Len(wanted) > Limit THEN Error ELSE wanted)
        /\ astray' = (astray \/ Pending \/ (Len(wanted) <= Limit /\ wanted # Error))
    BY <1>6 DEF RunError, Want
  <2>3. Due(posts) <=> Due(posts')
    BY <1>0, <2>1, RunTyped
  <2>4. Len(wanted) \in Nat /\ Limit \in Nat
    BY <1>0, StringsTyped DEF TextsTyped, Strings
  <2>5. ASSUME ~astray' PROVE pc # "append" /\ ~Due(posts') /\ wanted' = Error
    <3>1. ~Pending /\ ~(Len(wanted) <= Limit /\ wanted # Error)
      BY Zenon, <2>2, <2>5
    <3>2. wanted' = Error
      BY <2>2, <2>4, <3>1
    <3> QED
      BY <1>3, <2>3, <3>1, <3>2
  <2>6. LetterWanted'
    BY <1>0, <1>1, <2>5 DEF LetterWanted
  <2> QED
    BY <2>1, <2>5, <2>6 DEF WantInv, PostWanted, TextWanted
<1>7. CASE User
  <2>0. posts' = posts
    BY <1>7 DEF User
  <2>1. ASSUME text' = text, wanted' = wanted, astray' = astray PROVE WantInv'
    BY <1>0, <1>1, <2>0, <2>1 DEF WantInv, LetterWanted, PostWanted, TextWanted
  <2>2. ASSUME text' = wanted', astray' = (astray \/ Pending) PROVE WantInv'
    <3>1. ~astray' => pc' # "append" /\ ~Due(posts')
      BY Zenon, <1>1, <1>3, <2>0, <2>2
    <3>2. LetterWanted'
      BY <1>0, <1>1, <3>1 DEF LetterWanted
    <3> QED
      BY <2>2, <3>1, <3>2 DEF WantInv, PostWanted, TextWanted
  <2>3. CASE Modify
    <3>1. CASE Len(text) > Limit
      BY <2>2, <2>3, <3>1, Zenon DEF Modify, Both, Want
    <3>2. CASE ~(Len(text) > Limit)
      BY <1>0, <2>1, <2>3, <3>2, Zenon DEF Modify, Both, Want, FieldsTyped
    <3> QED
      BY <3>1, <3>2
  <2>4. CASE Clear
    BY <2>2, <2>4 DEF Clear, Both, Want
  <2>5. CASE Main \/ KeyDown
    BY <2>1, <2>5 DEF Main, KeyDown
  <2>6. CASE Touch
    BY <2>2, <2>6 DEF Touch, Want
  <2> QED
    BY <1>7, <2>3, <2>4, <2>5, <2>6 DEF User
<1> QED
  BY <1>4, <1>5, <1>6, <1>7 DEF MainThread

LEMMA StepTypes == TypeInv /\ WantInv /\ [Next]_vars => WantInv'
<1>1. CASE UNCHANGED vars
  BY <1>1 DEF vars, fields, history, WantInv, LetterWanted, PostWanted, TextWanted
<1> QED
  BY <1>1, ThreadTypes, MainTypes DEF Next

(* With nothing under way, the text on the screen is what a plain multi-tap  *)
(* editor makes of everything that was typed, cleared and touched, for any   *)
(* limit, switches and interleaving of the two threads, unless astray.       *)
THEOREM TextRight == Spec => []TextIsAsTyped
<1>1. Init => WantInv
  BY NothingDue DEF Init, WantInv, LetterWanted, PostWanted, TextWanted
<1>2. WantInv => TextIsAsTyped
  BY NothingDue DEF WantInv, TextWanted, TextIsAsTyped, AtRest
<1> QED
  BY <1>1, <1>2, InitTyped, StepTyped, StepTypes, PTL DEF Spec
=============================================================================
