-------------------------- MODULE TextMode_proofs --------------------------
(***************************************************************************)
(* The two components of HW1's mode 2, for every set of buttons, size of   *)
(* the display and limit of the counter: the edits of the text buffer are  *)
(* safe and show what a user of a multi-tap editor types; the input        *)
(* process and main hand every burst of buttons over once and as a whole,  *)
(* so that main only ever types one of the buttons.                        *)
(***************************************************************************)
EXTENDS TextBuffer, TypingHandshake, SequenceTheorems, TLAPS

-----------------------------------------------------------------------------
(*                             The text buffer                             *)

(* The text is the cells before k, for some k that is no further than the    *)
(* cell behind the display.                                                  *)
EndsAt(k) == \A i \in Cells : (cell[i] = Blank) <=> k <= i

(* Cell 40 counts from the first press of a button on.                       *)
Counting == prev # 0 => cycle # -1

IInv ==
  /\ TypeOK
  /\ \E k \in Cells : EndsAt(k)
  /\ RepeatRewritesOwnLetter
  /\ Counting

-----------------------------------------------------------------------------
(* A character of a button differs from a blank. *)
LEMMA CharIsNoBlank ==
  \A b \in Buttons :
    /\ Digit(b) \in Chars /\ Digit(b) # Blank
    /\ \A n \in 1..3 : Letter(b, n) \in Chars /\ Letter(b, n) # Blank
  BY DEF Chars, Blank, Digit, Letter

(* The scan of typing_alphabet and typing_numeric stops where the text ends. *)
LEMMA ScanStopsAtEnd ==
  ASSUME NEW f, NEW k \in Cells, \A i \in Cells : (f[i] = Blank) <=> k <= i
  PROVE  Min({i \in Cells : f[i] = Blank}) = k
<1> DEFINE S == {i \in Cells : f[i] = Blank}
<1>1. k \in S /\ \A y \in S : k <= y
  BY DEF Cells, First, Full
<1>2. \A x \in S : (\A y \in S : x <= y) => x = k
  BY <1>1, BufferAssumption DEF Cells, First, Full
<1> QED
  BY <1>1, <1>2 DEF Min

LEMMA FirstBlankIsEnd ==
  /\ \A k \in Cells : EndsAt(k) => FirstBlank = k
  /\ \A k \in Cells : EndsAt(k)' => FirstBlank' = k
BY ScanStopsAtEnd DEF FirstBlank, EndsAt, Cells, First, Full, Blank

(* Writing a character behind the text makes it one longer. *)
LEMMA AppendExtends ==
  ASSUME IInv, NEW k \in Cells, EndsAt(k), k < Full,
         NEW c \in Chars, c # Blank, cell' = [cell EXCEPT ![k] = c]
  PROVE  /\ cell' \in [Cells -> Chars]
         /\ k + 1 \in Cells /\ EndsAt(k + 1)'
         /\ cell'[k] = c
<1>1. cell \in [Cells -> Chars]
  BY DEF IInv, TypeOK
<1>2. k \in First..Full /\ First \in Int /\ Full \in Int
  BY BufferAssumption DEF Cells, First, Full
<1> QED
  BY <1>1, <1>2 DEF EndsAt, Cells

(* On a full display, shifting and writing the last cell leaves it full. *)
LEMMA ShiftKeepsFull ==
  ASSUME IInv, EndsAt(Full),
         NEW c \in Chars, c # Blank,
         cell' = [Shifted EXCEPT ![Full - 1] = c]
  PROVE  /\ cell' \in [Cells -> Chars]
         /\ EndsAt(Full)'
         /\ cell'[Full - 1] = c
<1>1. cell \in [Cells -> Chars] /\ Blank \in Chars
  BY DEF IInv, TypeOK, Chars
<1>2. First \in Int /\ Full \in Int /\ First < Full
  BY BufferAssumption DEF First, Full
<1>3. Shifted \in [Cells -> Chars]
  BY <1>1, <1>2 DEF Shifted, Cells
<1>4. \A i \in Cells : i < Full - 1 => Shifted[i] # Blank
  BY <1>2 DEF Shifted, EndsAt, Cells
<1>5. Shifted[Full] = Blank
  BY <1>2 DEF Shifted, EndsAt, Cells
<1>6. Full - 1 \in Cells
  BY <1>2 DEF Cells
<1>7. \A i \in Cells : cell'[i] = IF i = Full - 1 THEN c ELSE Shifted[i]
  BY <1>3, <1>6
<1>8. Full' = Full /\ Cells' = Cells /\ Blank' = Blank
  BY DEF Full, Cells, First, Blank
<1>9. cell' \in [Cells -> Chars]
  BY Zenon, <1>3
<1>10. EndsAt(Full)'
  BY <1>2, <1>4, <1>5, <1>7 DEF EndsAt, Cells
<1> QED
  BY <1>6, <1>7, <1>9, <1>10

(* What NewLetter and NewDigit do with a character. *)
LEMMA WriteIsSafe ==
  ASSUME IInv, NEW c \in Chars, c # Blank,
         cell' = IF FirstBlank = Full
                 THEN [Shifted EXCEPT ![Full - 1] = c]
                 ELSE [cell EXCEPT ![FirstBlank] = c]
  PROVE  /\ cell' \in [Cells -> Chars]
         /\ \E k \in Cells : EndsAt(k)'
         /\ FirstBlank \in Cells
         /\ FirstBlank' = IF FirstBlank = Full THEN Full ELSE FirstBlank + 1
         /\ First < FirstBlank'
         /\ cell'[FirstBlank' - 1] = c
<1> PICK k \in Cells : EndsAt(k)
  BY DEF IInv
<1>1. FirstBlank = k
  BY FirstBlankIsEnd
<1>2. First \in Int /\ Full \in Int /\ First < Full /\ Full \in Cells
  BY BufferAssumption DEF First, Full, Cells
<1>3. \A j \in Cells : EndsAt(j)' => FirstBlank' = j
  BY FirstBlankIsEnd
<1>4. CASE k = Full
  <2>1. /\ cell' \in [Cells -> Chars]
        /\ EndsAt(Full)' /\ cell'[Full - 1] = c
    BY Zenon, <1>1, <1>4, ShiftKeepsFull
  <2>2. FirstBlank' = Full
    BY <2>1, <1>2, <1>3
  <2> QED
    BY <1>1, <1>4, <2>1, <2>2, <1>2
<1>5. CASE k # Full
  <2>1. k < Full /\ First <= k
    BY <1>5, <1>2 DEF Cells
  <2>2. /\ cell' \in [Cells -> Chars]
        /\ k + 1 \in Cells /\ EndsAt(k + 1)' /\ cell'[k] = c
    BY Zenon, <2>1, <1>1, <1>5, AppendExtends
  <2>3. FirstBlank' = k + 1
    BY <2>2, <1>3
  <2>4. k \in Int
    BY <1>2 DEF Cells
  <2> QED
    BY <1>1, <1>5, <2>1, <2>2, <2>3, <2>4, <1>2
<1> QED
  BY <1>4, <1>5

-----------------------------------------------------------------------------
(* The invariant of the buffer is inductive. *)
LEMMA InitIsSafe == Init => IInv
<1> SUFFICES ASSUME Init PROVE IInv
  OBVIOUS
<1>1. First \in Cells /\ First \in Int /\ Full \in Int
  BY BufferAssumption DEF First, Full, Cells
<1>2. TypeOK
  BY BufferAssumption DEF Init, TypeOK, Chars
<1>3. EndsAt(First)
  BY <1>1 DEF Init, EndsAt, Cells
<1> QED
  BY <1>1, <1>2, <1>3 DEF IInv, Init, RepeatRewritesOwnLetter, Counting

LEMMA CountIsSafe ==
  ASSUME TypeOK, NEW n \in {1, 2}
  PROVE  Counted(n) \in 0..CountLimit
  BY BufferAssumption DEF TypeOK, Counted

LEMMA StepIsSafe == IInv /\ [Next]_vars => IInv'
<1> SUFFICES ASSUME IInv, [Next]_vars PROVE IInv'
  OBVIOUS
<1> USE BufferAssumption
<1>1. TypeOK
  BY DEF IInv
<1>2. First \in Int /\ Full \in Int /\ First < Full
  BY DEF First, Full
<1>3. ASSUME NEW b \in Buttons, NewLetter(b) PROVE IInv'
  <2>1. Letter(b, 1) \in Chars /\ Letter(b, 1) # Blank
    BY CharIsNoBlank
  <2>2. /\ cell' \in [Cells -> Chars]
        /\ \E k \in Cells : EndsAt(k)'
        /\ First < FirstBlank'
        /\ cell'[FirstBlank' - 1] = Letter(b, 1)
    BY <1>3, <2>1, WriteIsSafe DEF NewLetter
  <2>3. TypeOK'
    BY <1>1, <1>3, <2>2, CountIsSafe DEF NewLetter, TypeOK, Cells, First, Full, Chars, Blank
  <2>4. RepeatRewritesOwnLetter'
    BY <1>3, <2>2 DEF NewLetter, RepeatRewritesOwnLetter, First, Letter
  <2> QED
    BY <1>3, <2>2, <2>3, <2>4 DEF NewLetter, IInv, Counting, Cells, First, Full
<1>4. ASSUME NEW b \in Buttons, SameLetter(b) PROVE IInv'
  <2> PICK k \in Cells : EndsAt(k)
    BY DEF IInv
  <2>1. FirstBlank = k
    BY FirstBlankIsEnd
  <2>2. First < k /\ k <= Full /\ k \in Int
    BY <1>2, <1>4, <2>1 DEF SameLetter, IInv, RepeatRewritesOwnLetter, Cells
  <2>3. cycle' \in 0..2
    BY <1>4 DEF SameLetter
  <2> DEFINE c == Letter(b, cycle' + 1)
  <2>4. c \in Chars /\ c # Blank
    BY <2>3, CharIsNoBlank
  <2>5. cell' = [cell EXCEPT ![k - 1] = c] /\ k - 1 \in Cells
    BY <1>2, <1>4, <2>1, <2>2 DEF SameLetter, Cells
  <2> HIDE DEF c
  <2>6. cell' \in [Cells -> Chars] /\ cell'[k - 1] = c
    BY <1>1, <2>4, <2>5 DEF TypeOK
  <2>7. EndsAt(k)'
    BY <1>1, <1>2, <2>2, <2>4, <2>5 DEF TypeOK, EndsAt, Cells, First, Full, Blank
  <2>8. FirstBlank' = k
    BY <2>7, FirstBlankIsEnd
  <2>9. TypeOK'
    BY <1>1, <1>4, <2>3, <2>6, CountIsSafe DEF SameLetter, TypeOK, Cells, First, Full, Chars, Blank
  <2>10. RepeatRewritesOwnLetter'
    BY <1>4, <2>2, <2>6, <2>8 DEF SameLetter, RepeatRewritesOwnLetter, First, c, Letter
  <2> QED
    BY <2>3, <2>7, <2>9, <2>10 DEF IInv, Counting, Cells, First, Full
<1>5. ASSUME NEW b \in Buttons, NewDigit(b) PROVE IInv'
  <2>1. Digit(b) \in Chars /\ Digit(b) # Blank
    BY CharIsNoBlank
  <2>2. /\ cell' \in [Cells -> Chars]
        /\ \E k \in Cells : EndsAt(k)'
    BY <1>5, <2>1, WriteIsSafe DEF NewDigit
  <2>3. TypeOK'
    BY <1>1, <1>5, <2>2, CountIsSafe DEF NewDigit, TypeOK, Cells, First, Full, Chars, Blank
  <2>4. RepeatRewritesOwnLetter'
    BY <1>5 DEF NewDigit, RepeatRewritesOwnLetter
  <2> QED
    BY <1>5, <2>2, <2>3, <2>4 DEF NewDigit, IInv, Counting, Cells, First, Full
<1>6. ASSUME ChangeMode PROVE IInv'
  <2>1. TypeOK'
    BY <1>1, <1>6, CountIsSafe DEF ChangeMode, TypeOK, Cells, First, Full, Chars, Blank
  <2>2. \E k \in Cells : EndsAt(k)'
    BY Zenon, <1>6 DEF ChangeMode, IInv, EndsAt, Cells, First, Full, Blank
  <2> QED
    BY <1>6, <2>1, <2>2 DEF ChangeMode, IInv, RepeatRewritesOwnLetter, Counting, Cells, First, Full
<1>7. ASSUME Clear PROVE IInv'
  <2>1. TypeOK'
    BY <1>7 DEF Clear, TypeOK, Cells, First, Full, Chars, Blank
  <2>2. First \in Cells /\ EndsAt(First)'
    BY <1>2, <1>7 DEF Clear, EndsAt, Cells, First, Full, Blank
  <2> QED
    BY <1>7, <2>1, <2>2 DEF Clear, IInv, RepeatRewritesOwnLetter, Counting, Cells, First, Full
<1>8. CASE UNCHANGED vars
  BY Zenon, <1>8 DEF vars, IInv, TypeOK, EndsAt, RepeatRewritesOwnLetter, Counting, FirstBlank,
              Cells, First, Full, Chars, Blank, Letter
<1> QED
  BY <1>3, <1>4, <1>5, <1>6, <1>7, <1>8 DEF Next

-----------------------------------------------------------------------------
(* For every size, the variables of the editor keep their types: the counter *)
(* never shows more than it has digits for.                                  *)
THEOREM TypeCorrect == Spec => []TypeOK
<1>1. IInv => TypeOK
  BY DEF IInv
<1> QED
  BY <1>1, InitIsSafe, StepIsSafe, PTL DEF Spec

(* For every size, the scan for the first blank ends inside the segment, and *)
(* no edit leaves a hole in the text (lines 325-332 and 343-347).            *)
THEOREM TextIsSafe == Spec => []TextThenBlanks
<1>1. IInv => TextThenBlanks
  <2> SUFFICES ASSUME IInv PROVE TextThenBlanks
    OBVIOUS
  <2> PICK k \in Cells : EndsAt(k)
    BY DEF IInv
  <2>1. First \in Int /\ Full \in Int /\ First < Full
    BY BufferAssumption DEF First, Full
  <2> QED
    BY <2>1 DEF TextThenBlanks, EndsAt, Cells
<1> QED
  BY <1>1, InitIsSafe, StepIsSafe, PTL DEF Spec

(* For every size, a repeated press rewrites the letter that the same button *)
(* has typed and no other cell (lines 353-368 and 381-395).                  *)
THEOREM RepeatIsSafe == Spec => []RepeatRewritesOwnLetter
<1>1. IInv => RepeatRewritesOwnLetter
  BY DEF IInv
<1> QED
  BY <1>1, InitIsSafe, StepIsSafe, PTL DEF Spec

-----------------------------------------------------------------------------
(* The text in cells f that ends before cell k, as a sequence.               *)
TextIn(f, k) == [n \in 1..k - First |-> f[First + n - 1]]

LEMMA TextIsSequence ==
  ASSUME NEW f \in [Cells -> Chars], NEW k \in Cells
  PROVE  /\ TextIn(f, k) \in Seq(Chars) /\ Len(TextIn(f, k)) = k - First
         /\ \A n \in 1..k - First : TextIn(f, k)[n] = f[First + n - 1]
<1>1. k \in First..Full /\ First \in Int /\ Full \in Int
  BY BufferAssumption DEF Cells, First, Full
<1>2. \A n \in 1..k - First : First + n - 1 \in Cells
  BY <1>1 DEF Cells
<1>3. k - First \in Nat
  BY <1>1
<1>4. TextIn(f, k) \in [1..k - First -> Chars]
  BY <1>2 DEF TextIn
<1> QED
  BY <1>3, <1>4 DEF TextIn

(* Writing behind the text appends to it, ...                                *)
LEMMA WriteAppends ==
  ASSUME NEW f \in [Cells -> Chars], NEW k \in Cells, k < Full, NEW c \in Chars
  PROVE  TextIn([f EXCEPT ![k] = c], k + 1) = Append(TextIn(f, k), c)
<1> DEFINE g == [f EXCEPT ![k] = c]
           s == TextIn(f, k)
           m == k + 1
           t == TextIn(g, m)
<1>1. k \in First..Full /\ First \in Int /\ Full \in Int /\ m \in Cells
      /\ m = k + 1
  BY BufferAssumption DEF Cells, First, Full
<1>2. g \in [Cells -> Chars] /\ g[k] = c /\ \A i \in Cells \ {k} : g[i] = f[i]
  OBVIOUS
<1> HIDE DEF g, m
<1>3. /\ s \in Seq(Chars) /\ Len(s) = k - First
      /\ \A n \in 1..k - First : s[n] = f[First + n - 1]
  BY TextIsSequence
<1>4. /\ t \in Seq(Chars) /\ Len(t) = m - First
      /\ \A n \in 1..m - First : t[n] = g[First + n - 1]
  BY Zenon, <1>1, <1>2, TextIsSequence
<1> HIDE DEF s, t
<1>5. /\ Append(s, c) \in Seq(Chars) /\ Len(Append(s, c)) = m - First
      /\ \A n \in 1..k - First : Append(s, c)[n] = s[n]
      /\ Append(s, c)[k - First + 1] = c
  BY <1>1, <1>3, AppendProperties
<1>6. \A n \in 1..m - First : t[n] = Append(s, c)[n]
  <2>1. ASSUME NEW n \in 1..k - First PROVE t[n] = Append(s, c)[n]
    <3>1. First + n - 1 \in Cells \ {k} /\ n \in 1..m - First
      BY <1>1 DEF Cells
    <3> QED
      BY <1>2, <1>3, <1>4, <1>5, <3>1
  <2>2. t[k - First + 1] = c
    <3>1. First + (k - First + 1) - 1 = k /\ k - First + 1 \in 1..m - First
      BY <1>1
    <3> QED
      BY <1>2, <1>4, <3>1
  <2> QED
    BY <1>1, <1>5, <2>1, <2>2
<1> QED
  BY Zenon, <1>4, <1>5, <1>6, SeqEqual DEF g, s, t, m

(* ... rewriting its last character replaces that, ...                       *)
LEMMA RewriteReplaces ==
  ASSUME NEW f \in [Cells -> Chars], NEW k \in Cells, First < k, NEW c \in Chars
  PROVE  TextIn([f EXCEPT ![k - 1] = c], k)
           = Append(SubSeq(TextIn(f, k), 1, Len(TextIn(f, k)) - 1), c)
<1> DEFINE g == [f EXCEPT ![k - 1] = c]
           s == TextIn(f, k)
           u == SubSeq(s, 1, Len(s) - 1)
           t == TextIn(g, k)
<1>1. k \in First..Full /\ First \in Int /\ Full \in Int /\ k - 1 \in Cells
  BY BufferAssumption DEF Cells, First, Full
<1>2. g \in [Cells -> Chars] /\ g[k - 1] = c /\ \A i \in Cells \ {k - 1} : g[i] = f[i]
  BY <1>1
<1> HIDE DEF g
<1>3. /\ s \in Seq(Chars) /\ Len(s) = k - First
      /\ \A n \in 1..k - First : s[n] = f[First + n - 1]
  BY TextIsSequence
<1>4. /\ t \in Seq(Chars) /\ Len(t) = k - First
      /\ \A n \in 1..k - First : t[n] = g[First + n - 1]
  BY <1>2, TextIsSequence
<1> HIDE DEF s, t
<1>5. /\ u \in Seq(Chars) /\ Len(u) = k - First - 1
      /\ \A n \in 1..k - First - 1 : u[n] = s[n]
  <2>1. \A n \in 1..Len(s) - 1 : s[n] \in Chars
    BY <1>1, <1>3, ElementOfSeq
  <2> QED
    BY <1>1, <1>3, <2>1, SubSeqProperties
<1> HIDE DEF u
<1>6. /\ Append(u, c) \in Seq(Chars) /\ Len(Append(u, c)) = k - First
      /\ \A n \in 1..k - First - 1 : Append(u, c)[n] = u[n]
      /\ Append(u, c)[k - First] = c
  <2>1. Len(u) + 1 = k - First
    BY <1>1, <1>5
  <2> QED
    BY <1>5, <2>1, AppendProperties
<1>7. \A n \in 1..k - First : t[n] = Append(u, c)[n]
  <2>1. ASSUME NEW n \in 1..k - First - 1 PROVE t[n] = Append(u, c)[n]
    <3>1. First + n - 1 \in Cells \ {k - 1} /\ n \in 1..k - First
      BY <1>1 DEF Cells
    <3> QED
      BY <1>2, <1>3, <1>4, <1>5, <1>6, <3>1
  <2>2. t[k - First] = c
    <3>1. First + (k - First) - 1 = k - 1 /\ k - First \in 1..k - First
      BY <1>1
    <3> QED
      BY <1>2, <1>4, <3>1
  <2> QED
    BY <1>1, <1>6, <2>1, <2>2
<1> QED
  BY Zenon, <1>4, <1>6, <1>7, SeqEqual DEF g, s, t, u

(* ... and on a full display shifting and writing the last cell drops its    *)
(* first character.                                                          *)
LEMMA ShiftDropsFirst ==
  ASSUME cell \in [Cells -> Chars], NEW c \in Chars
  PROVE  TextIn([Shifted EXCEPT ![Full - 1] = c], Full)
           = Tail(Append(TextIn(cell, Full), c))
<1> DEFINE g == [Shifted EXCEPT ![Full - 1] = c]
           s == TextIn(cell, Full)
           a == Append(s, c)
           t == TextIn(g, Full)
<1>1. /\ First \in Int /\ Full \in Int /\ Full - First = Size /\ First < Full
      /\ Size \in Nat \ {0} /\ Full \in Cells /\ Full - 1 \in Cells
  BY BufferAssumption DEF Cells, First, Full
<1>2. Shifted \in [Cells -> Chars] /\ \A i \in Cells : i < Full => Shifted[i] = cell[i + 1]
  BY <1>1 DEF Shifted, Cells
<1>3. g \in [Cells -> Chars] /\ g[Full - 1] = c
      /\ \A i \in Cells : i < Full - 1 => g[i] = cell[i + 1]
  BY <1>1, <1>2
<1> HIDE DEF g
<1>4. /\ s \in Seq(Chars) /\ Len(s) = Size
      /\ \A n \in 1..Size : s[n] = cell[First + n - 1]
  BY <1>1, TextIsSequence
<1>5. /\ t \in Seq(Chars) /\ Len(t) = Size
      /\ \A n \in 1..Size : t[n] = g[First + n - 1]
  BY <1>1, <1>3, TextIsSequence
<1> HIDE DEF s, t
<1>6. /\ a \in Seq(Chars) /\ a # << >> /\ Len(a) = Size + 1
      /\ \A n \in 1..Size : a[n] = s[n]
      /\ a[Size + 1] = c
  BY <1>4, AppendProperties
<1> HIDE DEF a
<1>7. /\ Tail(a) \in Seq(Chars) /\ Len(Tail(a)) = Size
      /\ \A n \in 1..Size : Tail(a)[n] = a[n + 1]
  BY <1>1, <1>6, HeadTailProperties
<1>8. \A n \in 1..Size : t[n] = Tail(a)[n]
  <2>1. ASSUME NEW n \in 1..Size, n < Size PROVE t[n] = Tail(a)[n]
    <3>1. /\ First + n - 1 \in Cells /\ First + n - 1 < Full - 1
          /\ n + 1 \in 1..Size /\ First + (n + 1) - 1 = First + n - 1 + 1
      BY <1>1, <2>1 DEF Cells
    <3>2. t[n] = cell[First + n - 1 + 1]
      BY <1>3, <1>5, <2>1, <3>1
    <3>3. s[n + 1] = cell[First + n - 1 + 1]
      BY <1>4, <3>1
    <3>4. Tail(a)[n] = s[n + 1]
      BY Zenon, <1>6, <1>7, <2>1, <3>1
    <3> QED
      BY <3>2, <3>3, <3>4
  <2>2. t[Size] = c /\ Tail(a)[Size] = c
    <3>1. First + Size - 1 = Full - 1 /\ Size \in 1..Size
      BY <1>1
    <3> QED
      BY <1>3, <1>5, <1>6, <1>7, <3>1
  <2>3. \A n \in 1..Size : n < Size \/ n = Size
    BY <1>1
  <2> QED
    BY Zenon, <2>1, <2>2, <2>3
<1> QED
  BY Zenon, <1>5, <1>7, <1>8, SeqEqual DEF g, s, t, a

(* What a new character does to the text.                                    *)
LEMMA WriteTypes ==
  ASSUME IInv, NEW c \in Chars, c # Blank,
         cell' = IF FirstBlank = Full
                 THEN [Shifted EXCEPT ![Full - 1] = c]
                 ELSE [cell EXCEPT ![FirstBlank] = c]
  PROVE  Text' = Implements!LastChars(Append(Text, c))
<1>1. /\ FirstBlank \in Cells
      /\ FirstBlank' = IF FirstBlank = Full THEN Full ELSE FirstBlank + 1
  BY WriteIsSafe
<1>2. cell \in [Cells -> Chars]
  BY DEF IInv, TypeOK
<1>3. Text = TextIn(cell, FirstBlank) /\ Text' = TextIn(cell', FirstBlank')
  BY DEF Text, TextIn, First
<1>4. First \in Int /\ Full \in Int /\ Full - First = Size /\ Full \in Cells
      /\ FirstBlank \in First..Full
  BY <1>1, BufferAssumption DEF Cells, First, Full
<1>5. Text \in Seq(Chars) /\ Len(Text) = FirstBlank - First
  BY <1>1, <1>2, <1>3, TextIsSequence
<1>6. Len(Append(Text, c)) = FirstBlank - First + 1
  BY <1>5, AppendProperties
<1>7. CASE FirstBlank = Full
  <2>1. Text' = Tail(Append(Text, c))
    BY Zenon, <1>1, <1>2, <1>3, <1>7, ShiftDropsFirst
  <2>2. Len(Append(Text, c)) > Size
    BY <1>4, <1>6, <1>7
  <2> QED
    BY <2>1, <2>2 DEF Implements!LastChars
<1>8. CASE FirstBlank # Full
  <2>1. FirstBlank < Full
    BY <1>4, <1>8
  <2>2. Text' = Append(Text, c)
    BY Zenon, <1>1, <1>2, <1>3, <1>8, <2>1, WriteAppends
  <2>3. ~(Len(Append(Text, c)) > Size)
    BY <1>4, <1>6, <2>1
  <2> QED
    BY <2>2, <2>3 DEF Implements!LastChars
<1> QED
  BY <1>7, <1>8

LEMMA RepeatTypes ==
  ASSUME IInv, NEW b \in Buttons, SameLetter(b)
  PROVE  LET n == Text[Len(Text)][2]
         IN  Text' = Append(Implements!Front(Text), Letter(b, (n % 3) + 1))
<1> PICK k \in Cells : EndsAt(k)
  BY DEF IInv
<1>1. FirstBlank = k /\ cell \in [Cells -> Chars] /\ cycle \in -1..2 /\ b # 0
  BY FirstBlankIsEnd, BufferAssumption DEF IInv, TypeOK
<1>2. First < k /\ cell[k - 1] = Letter(b, cycle + 1)
  BY <1>1 DEF SameLetter, IInv, RepeatRewritesOwnLetter
<1>3. First \in Int /\ k \in Int /\ k - 1 \in Cells /\ k - 1 # k /\ k \in First..Full
  BY <1>2, BufferAssumption DEF Cells, First, Full
<1>4. cycle # -1
  BY <1>1 DEF SameLetter, IInv, Counting
<1> DEFINE c == Letter(b, cycle' + 1)
<1>5. cycle' \in 0..2 /\ cycle' + 1 = ((cycle + 1) % 3) + 1
  BY <1>1, <1>4 DEF SameLetter
<1>6. c \in Chars /\ c # Blank /\ cell' = [cell EXCEPT ![k - 1] = c]
  BY <1>1, <1>5, CharIsNoBlank DEF SameLetter
<1>7. FirstBlank' = k
  <2> HIDE DEF c
  <2>1. EndsAt(k)'
    BY <1>1, <1>2, <1>3, <1>6, BufferAssumption DEF EndsAt, Cells, First, Full, Blank
  <2> QED
    BY <2>1, FirstBlankIsEnd
<1>8. Text = TextIn(cell, k) /\ Text' = TextIn(cell', k)
  BY <1>1, <1>7 DEF Text, TextIn, First
<1>9. Text[Len(Text)] = Letter(b, cycle + 1)
  <2>1. /\ Len(Text) = k - First
        /\ \A n \in 1..k - First : Text[n] = cell[First + n - 1]
    BY <1>1, <1>8, TextIsSequence
  <2>2. k - First \in 1..k - First /\ First + (k - First) - 1 = k - 1
    BY <1>2, <1>3
  <2>3. Text[k - First] = cell[First + (k - First) - 1]
    BY <2>1, <2>2
  <2> QED
    BY <1>2, <2>1, <2>2, <2>3
<1>10. Text[Len(Text)][2] = cycle + 1
  BY <1>9 DEF Letter
<1>11. Text' = Append(SubSeq(Text, 1, Len(Text) - 1), c)
  BY Zenon, <1>1, <1>2, <1>6, <1>8, RewriteReplaces
<1> QED
  BY <1>5, <1>10, <1>11 DEF Implements!Front

(* Editing the cells in place shows what a user of a multi-tap editor types, *)
(* for every set of buttons and every size of the display.                   *)
THEOREM Refinement == Spec => ImplementsMultiTap
<1>1. Init => Implements!Init
  <2> SUFFICES ASSUME Init PROVE Implements!Init
    OBVIOUS
  <2>1. First \in Cells /\ EndsAt(First)
    BY BufferAssumption DEF Init, EndsAt, Cells, First, Full
  <2>2. Text = << >>
    BY <2>1, FirstBlankIsEnd DEF Text, First
  <2> QED
    BY <2>2 DEF Init, Implements!Init
<1>2. IInv /\ [Next]_vars => [Implements!Next]_(Implements!vars)
  <2> SUFFICES ASSUME IInv, [Next]_vars
               PROVE  Implements!Next \/ UNCHANGED Implements!vars
    BY DEF Implements!vars
  <2>1. ASSUME NEW b \in Buttons, NewLetter(b) PROVE Implements!TypeLetter(b)
    <3>1. Letter(b, 1) \in Chars /\ Letter(b, 1) # Blank
      BY CharIsNoBlank
    <3>2. Text' = Implements!LastChars(Append(Text, Letter(b, 1)))
      BY <2>1, <3>1, WriteTypes DEF NewLetter
    <3> QED
      BY <2>1, <3>2 DEF NewLetter, Implements!TypeLetter, Letter, Implements!Letter
  <2>2. ASSUME NEW b \in Buttons, SameLetter(b) PROVE Implements!NextLetter(b)
    BY Zenon, <2>2, RepeatTypes
       DEF SameLetter, Implements!NextLetter, Letter, Implements!Letter
  <2>3. ASSUME NEW b \in Buttons, NewDigit(b) PROVE Implements!TypeDigit(b)
    <3>1. Digit(b) \in Chars /\ Digit(b) # Blank
      BY CharIsNoBlank
    <3>2. Text' = Implements!LastChars(Append(Text, Digit(b)))
      BY <2>3, <3>1, WriteTypes DEF NewDigit
    <3> QED
      BY <2>3, <3>2 DEF NewDigit, Implements!TypeDigit, Digit, Implements!Digit
  <2>4. ASSUME ChangeMode PROVE Implements!ChangeMode
    <3>1. Text' = Text
      BY <2>4 DEF ChangeMode, Text, FirstBlank, First, Cells, Full, Blank
    <3>2. typing \in {"A", "N"}
      BY DEF IInv, TypeOK
    <3> QED
      BY <2>4, <3>1, <3>2 DEF ChangeMode, Implements!ChangeMode
  <2>5. ASSUME Clear PROVE Implements!Clear
    <3>1. First \in Cells /\ EndsAt(First)'
      BY <2>5, BufferAssumption DEF Clear, EndsAt, Cells, First, Full, Blank
    <3>2. Text' = << >>
      BY <3>1, FirstBlankIsEnd DEF Text, First
    <3> QED
      BY <2>5, <3>2 DEF Clear, Implements!Clear
  <2>6. CASE UNCHANGED vars
    BY <2>6 DEF vars, Implements!vars, Text, FirstBlank, First, Cells, Full, Blank
  <2> QED
    BY <2>1, <2>2, <2>3, <2>4, <2>5, <2>6 DEF Next, Implements!Next
<1> QED
  BY <1>1, <1>2, InitIsSafe, StepIsSafe, PTL
     DEF Spec, ImplementsMultiTap, Implements!Spec

-----------------------------------------------------------------------------
(*                              The handshake                              *)

(* shmget's zeroes stay only until the first mode key has been handled, or   *)
(* the program ends, and nobody looks at them before.                        *)
JunkIsOld ==
  in9 = "junk" \/ in10 = "junk" =>
    /\ in9 = "junk" /\ in10 = "junk"
    /\ btn = {} /\ inputPc # "store" /\ mainPc \in {"out", "ended"}
    /\ \/ mode = "1" /\ keyPc = "read"
       \/ mode \in {"2", "3"} /\ keyPc = "reset"
       \/ mode = "0" /\ keyPc = "ended"

(* While a burst waits for main no other one is begun.                       *)
Handed == in10 = "0" => in9 = "0" /\ inputPc # "store"

(* What a poll found is stored while main has nothing to calculate.          *)
PollsBetween ==
  inputPc = "store" => in10 = "*" /\ mainPc \in {"wait", "out", "ended"}

(* The buttons that are set when main acts ask for what they asked for when  *)
(* it tested them, although a key may have cleared the mailbox since.        *)
Acting ==
  mainPc \in Busy =>
    in9 = "0" /\ mainPc = Asked(btn) /\ inputPc # "store"

HandshakeInv ==
  /\ HandshakeTypeOK
  /\ JunkIsOld /\ Handed /\ PollsBetween /\ Acting

-----------------------------------------------------------------------------
(* A set of buttons has a lowest one, which typing looks up.                 *)
LEMMA LowestOfNine ==
  ASSUME NEW S \in SUBSET (1..9), S # {}
  PROVE  Min(S) \in S
<1> DEFINE Lowest == \E x \in S : \A y \in S : x <= y
           AnyUpTo(n) == \E x \in S : x <= n
<1>1. \A n \in 0..8 : ~AnyUpTo(n) /\ n + 1 \in S => Lowest
  OBVIOUS
<1>2. ~AnyUpTo(0)
  OBVIOUS
<1>3. \A n \in 0..8 : ~Lowest /\ ~AnyUpTo(n) => ~AnyUpTo(n + 1)
  BY <1>1
<1>4. PICK x \in S : x \in 1..9
  OBVIOUS
<1>5. Lowest
  BY <1>2, <1>3, <1>4
<1> QED
  BY <1>5 DEF Min

(* Whatever is pressed asks for something main does. *)
LEMMA AskedIsBusy == \A s : Asked(s) \in Busy
<1> SUFFICES ASSUME NEW s
             PROVE  Asked(s) \in Busy
  OBVIOUS
<1> DEFINE in == {i \in DOMAIN Chords : Chords[i].of \subseteq s}
<1>1. DOMAIN Chords = 1..4
  BY DEF Chords
<1>2. \A i \in 1..4 : Chords[i].asks \in Busy
  BY DEF Chords, Busy
<1>3. in # {} => Min(in) \in 1..4
  BY <1>1, LowestOfNine
<1> QED
  BY <1>2, <1>3 DEF Asked, Busy

(* No chord needs the button whose cell is the mailbox. *)
LEMMA MailboxAsksNothing == \A s : Asked(s \ Mailbox) = Asked(s)
<1> SUFFICES ASSUME NEW s
             PROVE  Asked(s \ Mailbox) = Asked(s)
  OBVIOUS
<1>1. \A i \in DOMAIN Chords : 1 \notin Chords[i].of
  BY DEF Chords
<1>2. {i \in DOMAIN Chords : Chords[i].of \subseteq s \ Mailbox}
        = {i \in DOMAIN Chords : Chords[i].of \subseteq s}
  BY <1>1 DEF Mailbox
<1> QED
  BY <1>2 DEF Asked

(* Typing looks up a button that is set, or none. *)
LEMMA TypedIsButton ==
  ASSUME HandshakeTypeOK
  PROVE  Typed(btn) \in Switches \cup {0}
<1>1. btn \subseteq Switches /\ btn \subseteq 1..9
  BY HandshakeAssumption DEF HandshakeTypeOK
<1>2. btn # {} => Min(btn) \in btn
  BY <1>1, LowestOfNine
<1> QED
  BY <1>1, <1>2 DEF Typed

(* What main does at each place is what the buttons mean that led there. *)
LEMMA ActsAsMeant ==
  /\ Asked(btn) = "type" => Meaning(btn) = <<"type", Typed(btn)>>
  /\ Asked(btn) # "type" => Meaning(btn) = <<Asked(btn)>>
BY DEF Meaning

(* The handshake's variables keep their types, whatever keys come between    *)
(* and however late main is: junk cells, a flag that a key has reset or a    *)
(* burst that lost its button never lead main to a place it does not know    *)
(* nor make it type what is no button, for every set of switches and of      *)
(* presses.                                                                  *)
THEOREM HandshakeTypes == HandshakeSpec => []HandshakeTypeOK
<1> USE DEF HandshakeTypeOK, Busy
<1>1. HandshakeInit => HandshakeTypeOK
  BY DEF HandshakeInit
<1>2. HandshakeTypeOK /\ [HandshakeNext]_handshakeVars => HandshakeTypeOK'
  <2> SUFFICES ASSUME HandshakeTypeOK, [HandshakeNext]_handshakeVars
               PROVE  HandshakeTypeOK'
    OBVIOUS
  <2> USE DEF keyVars, inputVars, shared, mainVars
  <2>1. CASE ModeKey \/ ModeReset \/ QuitKey \/ Command
    BY <2>1 DEF ModeKey, Up, Down, ModeReset, InitShared, QuitKey, Command
  <2>2. CASE Poll \/ InputEnds
    BY <2>2, HandshakeAssumption DEF Poll, InputEnds
  <2>3. CASE Notify \/ Collect \/ Begin \/ Initialize
    BY <2>3 DEF Notify, Collect, Begin, Initialize, Stored
  <2>4. CASE Enter \/ Leave \/ MainEnds \/ FlagDown
    BY <2>4 DEF Enter, Leave, MainEnds, FlagDown, MainGoto
  <2>5. CASE Calculate
    BY <2>5, AskedIsBusy DEF Calculate, MainGoto
  <2>6. CASE Type
    BY <2>6, TypedIsButton DEF Type, MainGoto
  <2>7. CASE ChangeTyping \/ ClearText \/ ToCustom \/ Quit
    BY <2>7 DEF ChangeTyping, ClearText, ToCustom, Quit, MainGoto, InitShared
  <2>8. CASE UNCHANGED handshakeVars
    BY <2>8 DEF handshakeVars
  <2> QED
    BY <2>1, <2>2, <2>3, <2>4, <2>5, <2>6, <2>7, <2>8
    DEF HandshakeNext, Input, Main
<1> QED
  BY <1>1, <1>2, PTL DEF HandshakeSpec

-----------------------------------------------------------------------------
(* The handshake starts safe, and each step keeps it so. *)
LEMMA HandshakeStarts == HandshakeInit => HandshakeInv
BY DEF HandshakeInit, HandshakeInv, HandshakeTypeOK, JunkIsOld, Handed,
       PollsBetween, Acting, Busy

LEMMA HandshakeSteps ==
  ASSUME Prompt, HandshakeInv, [HandshakeNext]_handshakeVars
  PROVE  HandshakeInv'
<1> USE DEF HandshakeInv, HandshakeTypeOK, JunkIsOld, Handed, PollsBetween,
            Acting, keyVars, inputVars, shared, mainVars
<1>1. CASE ModeKey
  BY <1>1 DEF ModeKey, Up, Down, Busy
<1>2. CASE ModeReset
  BY <1>2, MailboxAsksNothing DEF ModeReset, InitShared, Busy
<1>3. CASE Command
  BY <1>3, MailboxAsksNothing DEF Command, Busy
<1>4. CASE Poll
  BY <1>4, HandshakeAssumption DEF Poll, Busy
<1>5. CASE Notify
  BY <1>5 DEF Notify, Stored, Busy
<1>6. CASE Collect
  BY <1>6 DEF Collect, Stored, Busy
<1>7. CASE Begin
  BY <1>7 DEF Begin, Stored, Busy
<1>8. CASE Initialize
  BY <1>8 DEF Initialize, Stored, Busy
<1>9. CASE InputEnds
  BY <1>9 DEF InputEnds, Busy
<1>10. CASE Enter
  BY <1>10 DEF Enter, MainGoto, Busy
<1>11. CASE Leave
  BY <1>11 DEF Leave, MainGoto, Busy
<1>12. CASE MainEnds
  BY <1>12 DEF MainEnds, MainGoto, Busy
<1>13. CASE Calculate
  BY <1>13, AskedIsBusy DEF Calculate, MainGoto, Busy
<1>14. CASE Type
  BY <1>14, TypedIsButton DEF Type, MainGoto, Busy
<1>15. CASE ChangeTyping
  BY <1>15 DEF ChangeTyping, MainGoto, Busy
<1>16. CASE ClearText
  BY <1>16 DEF ClearText, MainGoto, InitShared, Busy
<1>17. CASE ToCustom
  BY <1>17 DEF ToCustom, MainGoto, InitShared, Busy
<1>18. CASE Quit
  BY <1>18 DEF Quit, MainGoto, Busy
<1>19. CASE FlagDown
  BY <1>19 DEF FlagDown, MainGoto, Busy
<1>20. CASE QuitKey
  BY <1>20 DEF QuitKey, Busy
<1>21. CASE UNCHANGED handshakeVars
  BY <1>21 DEF handshakeVars
<1> QED
  BY <1>1, <1>2, <1>3, <1>4, <1>5, <1>6, <1>7, <1>8, <1>9, <1>10,
     <1>11, <1>12, <1>13, <1>14, <1>15, <1>16, <1>17, <1>18, <1>19, <1>20, <1>21
  DEF HandshakeNext, Input, Main

(* So the flags and the places of the processes always fit together. *)
LEMMA HandshakeIsSafe ==
  ASSUME Prompt
  PROVE  HandshakeSpec => []HandshakeInv
<1> USE Prompt
<1> QED
  BY HandshakeStarts, HandshakeSteps, PTL DEF HandshakeSpec

-----------------------------------------------------------------------------
(* The abstract bursts start as the handshake does. *)
LEMMA StartMaps == HandshakeInit => Bursts!Init
BY DEF HandshakeInit, Bursts!Init, Busy

(* Each step of the three processes is one of the bursts, or none. *)
LEMMA StepMaps ==
  ASSUME Prompt, HandshakeInv, HandshakeInv', [HandshakeNext]_handshakeVars
  PROVE  [Bursts!Next]_(Bursts!vars)
<1> USE DEF HandshakeInv, HandshakeTypeOK, JunkIsOld, Handed, PollsBetween,
            Acting, keyVars, inputVars, shared, mainVars
<1>1. CASE ModeKey
  <2>1. CASE mode = "2"
    <3>1. Bursts!Leave
      BY <1>1, <2>1 DEF ModeKey, Up, Down, Busy, Bursts!Leave
    <3> QED
      BY <3>1 DEF Bursts!Next
  <2>2. CASE mode # "2"
    BY <1>1, <2>2 DEF ModeKey, Busy, Bursts!vars
  <2> QED
    BY <2>1, <2>2
<1>2. CASE ModeReset
  <2>1. CASE mode = "2"
    <3>1. Bursts!Return
      BY <1>2, <2>1 DEF ModeReset, InitShared, Busy, Bursts!Return, Bursts!LeftOf
    <3> QED
      BY <3>1 DEF Bursts!Next
  <2>2. CASE mode # "2"
    <3>1. Bursts!Forget
      BY <1>2, <2>2 DEF ModeReset, InitShared, Busy, Bursts!Forget, Bursts!LeftOf
    <3> QED
      BY <3>1 DEF Bursts!Next
  <2> QED
    BY <2>1, <2>2
<1>3. CASE Command
  <2>1. Bursts!Forget
    BY <1>3 DEF Command, Busy, Bursts!Forget, Bursts!LeftOf
  <2> QED
    BY <2>1 DEF Bursts!Next
<1>4. CASE Poll
  BY <1>4 DEF Poll, Busy, Bursts!vars
<1>5. CASE Notify
  <2>1. Bursts!HandOver
    BY <1>5 DEF Notify, Stored, Busy, Bursts!HandOver
  <2> QED
    BY <2>1 DEF Bursts!Next
<1>6. CASE Collect
  <2>1. Bursts!Collect
    BY <1>6 DEF Collect, Stored, Busy, Bursts!Collect
  <2> QED
    BY <2>1 DEF Bursts!Next
<1>7. CASE Begin
  <2>1. Bursts!Collect
    BY <1>7 DEF Begin, Stored, Busy, Bursts!Collect
  <2> QED
    BY <2>1 DEF Bursts!Next
<1>8. CASE Initialize
  BY <1>8 DEF Initialize, Stored, Busy, Bursts!vars
<1>9. CASE InputEnds
  BY <1>9 DEF InputEnds, Busy, Bursts!vars
<1>10. CASE Enter
  BY <1>10 DEF Enter, MainGoto, Busy, Bursts!vars
<1>11. CASE Leave
  BY <1>11 DEF Leave, MainGoto, Busy, Bursts!vars
<1>12. CASE MainEnds
  BY <1>12 DEF MainEnds, MainGoto, Busy, Bursts!vars
<1>13. CASE Calculate
  BY <1>13, AskedIsBusy DEF Calculate, MainGoto, Busy, Bursts!vars
<1>14. CASE Type
  <2>1. Bursts!Act
    BY <1>14, ActsAsMeant DEF Type, MainGoto, Busy, Bursts!Act
  <2> QED
    BY <2>1 DEF Bursts!Next
<1>15. CASE ChangeTyping
  <2>1. Bursts!Act
    BY <1>15, ActsAsMeant DEF ChangeTyping, MainGoto, Busy, Bursts!Act
  <2> QED
    BY <2>1 DEF Bursts!Next
<1>16. CASE ClearText
  <2>1. Bursts!Act
    BY <1>16, ActsAsMeant DEF ClearText, MainGoto, InitShared, Busy, Bursts!Act
  <2> QED
    BY <2>1 DEF Bursts!Next
<1>17. CASE ToCustom
  <2>1. Bursts!Act
    BY <1>17, ActsAsMeant DEF ToCustom, MainGoto, InitShared, Busy, Bursts!Act
  <2> QED
    BY <2>1 DEF Bursts!Next
<1>18. CASE Quit
  <2>1. Bursts!Act
    BY <1>18, ActsAsMeant DEF Quit, MainGoto, Busy, Bursts!Act
  <2> QED
    BY <2>1 DEF Bursts!Next
<1>19. CASE FlagDown
  BY <1>19 DEF FlagDown, MainGoto, Busy, Bursts!vars
<1>20. CASE QuitKey
  <2>1. CASE mode = "2"
    <3>1. Bursts!Leave
      BY <1>20, <2>1 DEF QuitKey, Busy, Bursts!Leave
    <3> QED
      BY <3>1 DEF Bursts!Next
  <2>2. CASE mode # "2"
    BY <1>20, <2>2 DEF QuitKey, Busy, Bursts!vars
  <2> QED
    BY <2>1, <2>2
<1>21. CASE UNCHANGED handshakeVars
  BY <1>21 DEF handshakeVars, Bursts!vars
<1> QED
  BY <1>1, <1>2, <1>3, <1>4, <1>5, <1>6, <1>7, <1>8, <1>9, <1>10,
     <1>11, <1>12, <1>13, <1>14, <1>15, <1>16, <1>17, <1>18, <1>19, <1>20, <1>21
  DEF HandshakeNext, Input, Main

(* Through the eleven shared cells (lines 217-262, 610-648), every burst of  *)
(* buttons is acted upon once, as a whole and after its end, for every set   *)
(* of switches and of presses; only a mode key makes the editor forget one.  *)
THEOREM HandshakeRefines ==
  ASSUME Prompt
  PROVE  HandshakeSpec => ImplementsBursts
<1> USE Prompt
<1> QED
  BY StartMaps, StepMaps, HandshakeIsSafe, PTL
  DEF HandshakeSpec, ImplementsBursts, Bursts!Spec
=============================================================================
