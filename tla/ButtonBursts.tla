---------------------------- MODULE ButtonBursts ----------------------------
(***************************************************************************)
(* What the input process of HW1 promises the main process in mode 2:      *)
(* everything pressed between two moments at which no switch is down is    *)
(* one burst, handed over when it ends, and acted upon once and as a       *)
(* whole.  Only while the editor is left may a burst be forgotten, or lose *)
(* a button whose cell the other modes use; a burst that was being         *)
(* collected is forgotten when the user comes back.                        *)
(* TypingHandshake is shown to implement it.                               *)
(***************************************************************************)
CONSTANTS
  Buttons,     \* the push switches
  Mailbox,     \* those whose cells the other modes use
  Meaning(_)   \* what a burst asks for

VARIABLES
  held,   \* the burst being collected, as a set of none or one
  given,  \* the burst handed over and not acted upon, as a set of none or one
  did,    \* what was done last
  away    \* the board is in another mode, or the mode is being changed

vars == <<held, given, did, away>>

Init == held = {} /\ given = {} /\ did = <<>> /\ away = TRUE

Collect ==
  /\ \E s \in SUBSET Buttons : s # {} /\ held' = {s \cup UNION held}
  /\ UNCHANGED <<given, did, away>>

HandOver ==
  /\ held # {} /\ given = {}
  /\ given' = held /\ held' = {}
  /\ UNCHANGED <<did, away>>

(* Two of the chords leave the editor. *)
Act ==
  /\ \E b \in given : did' = Meaning(b)
  /\ given' = {}
  /\ away' \in {away, TRUE}
  /\ UNCHANGED held

Leave == ~away /\ away' = TRUE /\ UNCHANGED <<held, given, did>>

(* What may be left of a burst when another mode has used the cells. *)
LeftOf(bursts) == {bursts, {b \ Mailbox : b \in bursts}, {}}

Forget ==
  /\ away
  /\ held' \in LeftOf(held) /\ given' \in LeftOf(given)
  /\ UNCHANGED <<did, away>>

Return ==
  /\ away /\ away' = FALSE
  /\ held' = {} /\ given' \in LeftOf(given)
  /\ UNCHANGED did

Next == Collect \/ HandOver \/ Act \/ Leave \/ Forget \/ Return

Spec == Init /\ [][Next]_vars
=============================================================================
