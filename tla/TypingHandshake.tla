-------------------------- MODULE TypingHandshake --------------------------
(***************************************************************************)
(* The handshake of HW1's input process and main process in mode 2: the    *)
(* input process polls the nine push switches and collects them in         *)
(* input_shm[0..8]; input_shm[9] says that it is collecting, input_shm[10] *)
(* that main has something to calculate (HW1/main.c:217-267, 582-656).     *)
(* The event key process changes the mode under both and then resets the   *)
(* handshake (lines 545-567, 61-81).  What main does to the text is        *)
(* TextBuffer; what the processes do in the other modes is BoardProcesses. *)
(***************************************************************************)
EXTENDS Integers, FiniteSetsExt

CONSTANTS
  Switches,  \* the push switches, 1..9 in the code
  Presses,   \* the sets of switches that a poll may find down
  Prompt     \* main is done with an input before the next poll, and the key
             \* process with a key before main looks again

ASSUME HandshakeAssumption ==
  /\ Switches \subseteq 1..9 /\ Presses \subseteq SUBSET Switches
  /\ Prompt \in BOOLEAN

VARIABLES
  mode,     \* mode_shm
  keyPc,    \* "read"ing a key, "reset" between the new mode and init_shared
  buff,     \* push_sw_buff, the switches that the last poll found down
  inputPc,  \* "poll", "store" or "ended"
  btn,      \* input_shm[0..8], the buttons that are set
  in9,      \* input_shm[9]
  in10,     \* input_shm[10]
  mainPc,   \* where main is: "out" of cal_texteditor, in its "wait" loop, ...
  did       \* what main did last with a burst

handshakeVars == <<mode, keyPc, buff, inputPc, btn, in9, in10, mainPc, did>>
keyVars == <<mode, keyPc>>
inputVars == <<buff, inputPc>>
shared == <<btn, in9, in10>>
mainVars == <<mainPc, did>>

(* input_shm[0], the cell of switch 1, is the mailbox of the other modes. *)
Mailbox == {1}

(* The chords, in the order in which main tests for them. *)
Chords == <<[asks |-> "mode", of |-> {2, 3}], [asks |-> "clear", of |-> {4, 5}],
            [asks |-> "typing", of |-> {5, 6}], [asks |-> "quit", of |-> {8, 9}]>>

(* What main makes of the buttons that are set: a chord or "type". *)
Asked(s) ==
  LET in == {i \in DOMAIN Chords : Chords[i].of \subseteq s}
  IN  IF in = {} THEN "type" ELSE Chords[Min(in)].asks

(* The button that typing_alphabet and typing_numeric look up, 0 for none:   *)
(* their loop over the nine cells then ends without one.                     *)
Typed(s) == IF s = {} THEN 0 ELSE Min(s)

Meaning(s) == IF Asked(s) = "type" THEN <<"type", Typed(s)>> ELSE <<Asked(s)>>

Busy == {"type", "mode", "clear", "typing", "quit"}

(* shmget's zeroes: init_shared leaves cells 9 and 10 alone in mode 1. *)
HandshakeInit ==
  /\ mode = "1" /\ keyPc = "read"
  /\ buff = {} /\ inputPc = "poll"
  /\ btn = {} /\ in9 = "junk" /\ in10 = "junk"
  /\ mainPc = "out" /\ did = <<>>

-----------------------------------------------------------------------------
(* eventkey_process, which tests the mode only before it waits for a key. *)
UpPast(m) ==  \* mutant: the mode after 3 is 4
  CASE m = "1" -> "2" [] m = "2" -> "3" [] m = "3" -> "4" [] OTHER -> "1"

Up(m) == CASE m = "1" -> "2" [] m = "2" -> "3" [] OTHER -> "1"

Down(m) == CASE m = "1" -> "3" [] m = "2" -> "1" [] OTHER -> "2"

ModeKey ==
  /\ keyPc = "read"
  /\ mode' \in {Up(mode), Down(mode)}
  /\ keyPc' = "reset"
  /\ UNCHANGED <<inputVars, shared, mainVars>>

(* init_shared: the mailbox is emptied, cells 9 and 10 are reset unless the  *)
(* mode is 1.                                                                *)
InitShared(m) ==
  /\ btn' = btn \ Mailbox
  /\ IF m = "1" THEN UNCHANGED <<in9, in10>> ELSE in9' = "0" /\ in10' = "*"

ModeReset ==
  /\ keyPc = "reset"
  /\ keyPc' = IF mode = "0" THEN "ended" ELSE "read"
  /\ InitShared(mode)
  /\ UNCHANGED <<inputVars, mainVars, mode>>

QuitKey ==
  /\ keyPc = "read" /\ keyPc' = "ended"
  /\ mode' = "0"
  /\ UNCHANGED <<inputVars, shared, mainVars>>

(* In the other modes this process and main leave and clear commands there. *)
Command ==
  /\ mode \in {"1", "3"}
  /\ btn' = btn \ Mailbox
  /\ UNCHANGED <<keyVars, inputVars, mainVars, in9, in10>>

-----------------------------------------------------------------------------
(* input_process, every 50 ms; the user may have moved any switches since. *)
Poll ==
  /\ inputPc = "poll" /\ mode = "2"
  /\ Prompt => mainPc \in {"wait", "out"} /\ in10 = "*"
  /\ buff' \in Presses
  /\ inputPc' = "store"
  /\ UNCHANGED <<keyVars, shared, mainVars>>

Stored ==
  /\ inputPc = "store" /\ inputPc' = "poll"
  /\ UNCHANGED <<keyVars, mainVars, buff>>

(* All switches are up again: main is notified. *)
NotifyAgain ==  \* mutant: line 620 left out
  /\ buff = {} /\ in9 = "1" /\ in10 = "*"
  /\ in10' = "0"
  /\ UNCHANGED <<btn, in9>>
  /\ Stored

Notify ==
  /\ buff = {} /\ in9 = "1" /\ in10 = "*"
  /\ in9' = "0" /\ in10' = "0"
  /\ UNCHANGED btn
  /\ Stored

(* Some switch is still down: it is added to those before. *)
CollectLast ==  \* mutant: *s = push_sw_buff[i] for every switch
  /\ buff # {} /\ in9 = "1" /\ in10 = "*"
  /\ btn' = buff
  /\ UNCHANGED <<in9, in10>>
  /\ Stored

Collect ==
  /\ buff # {} /\ in9 = "1" /\ in10 = "*"
  /\ btn' = btn \cup buff
  /\ UNCHANGED <<in9, in10>>
  /\ Stored

Begin ==
  /\ buff # {} /\ in9 = "0" /\ in10 = "*"
  /\ btn' = buff /\ in9' = "1"
  /\ UNCHANGED in10
  /\ Stored

Initialize ==
  /\ ~(in10 = "*" /\ (in9 = "1" \/ (buff # {} /\ in9 = "0")))
  /\ btn' = buff
  /\ UNCHANGED <<in9, in10>>
  /\ Stored

InputEnds ==
  /\ inputPc = "poll" /\ inputPc' = "ended"
  /\ mode = "0"
  /\ UNCHANGED <<keyVars, shared, mainVars, buff>>

Input == Poll \/ Notify \/ Collect \/ Begin \/ Initialize \/ InputEnds

-----------------------------------------------------------------------------
(* cal_texteditor. *)
MainGoto(from, to) ==
  /\ Prompt => keyPc # "reset"
  /\ mainPc = from /\ mainPc' = to
  /\ UNCHANGED inputVars

Enter ==
  /\ mode = "2"
  /\ MainGoto("out", "wait")
  /\ UNCHANGED <<keyVars, shared, did>>

Leave ==
  /\ mode # "2"
  /\ MainGoto("wait", "out")
  /\ UNCHANGED <<keyVars, shared, did>>

MainEnds ==
  /\ mode = "0"
  /\ MainGoto("out", "ended")
  /\ UNCHANGED <<keyVars, shared, did>>

(* The chords are tested for on the shared cells, as the lookup of Type is. *)
Calculate ==
  /\ mode = "2"
  /\ in10 # "*"
  /\ MainGoto("wait", Asked(btn))
  /\ UNCHANGED <<keyVars, shared, did>>

Type ==
  /\ MainGoto("type", "flag")
  /\ did' = <<"type", Typed(btn)>>
  /\ UNCHANGED <<keyVars, shared>>

ChangeTyping ==
  /\ MainGoto("typing", "flag")
  /\ did' = <<"typing">>
  /\ UNCHANGED <<keyVars, shared>>

(* init_shared by main. *)
ClearText ==
  /\ MainGoto("clear", "flag")
  /\ did' = <<"clear">>
  /\ UNCHANGED keyVars
  /\ InitShared(mode)

ToCustom ==
  /\ MainGoto("mode", "flag")
  /\ did' = <<"mode">>
  /\ mode' = "3"
  /\ InitShared("3")
  /\ UNCHANGED keyPc

Quit ==
  /\ MainGoto("quit", "flag")
  /\ did' = <<"quit">>
  /\ mode' = "0"
  /\ UNCHANGED <<keyPc, shared>>

(* The flag goes down to wait for new input. *)
FlagDown ==
  /\ MainGoto("flag", "wait")
  /\ in10' = "*"
  /\ UNCHANGED <<keyVars, did, btn, in9>>

Main ==
  \/ Enter \/ Leave \/ MainEnds \/ Calculate
  \/ Type \/ ChangeTyping \/ ClearText \/ ToCustom \/ Quit
  \/ FlagDown

HandshakeNext ==
  \/ ModeKey \/ ModeReset \/ QuitKey \/ Command
  \/ Input
  \/ Main

HandshakeSpec == HandshakeInit /\ [][HandshakeNext]_handshakeVars

(* The three processes are scheduled. *)
FairHandshake ==
  /\ HandshakeSpec
  /\ WF_handshakeVars(ModeReset)
  /\ WF_handshakeVars(Input)
  /\ WF_handshakeVars(Main)

-----------------------------------------------------------------------------
HandshakeTypeOK ==
  /\ mode \in {"0", "1", "2", "3"} /\ keyPc \in {"read", "reset", "ended"}
  /\ buff \subseteq Switches
  /\ inputPc \in {"poll", "store", "ended"}
  /\ btn \subseteq Switches
  /\ in9 \in {"junk", "0", "1"} /\ in10 \in {"junk", "*", "0"}
  /\ mainPc \in Busy \cup {"out", "wait", "flag", "ended"}
  /\ did \in {<<>>} \cup {<<a>> : a \in Busy} \cup ({"type"} \X (Switches \cup {0}))

(* The input process and main agree, whatever keys interrupt them: what was  *)
(* pressed in one go is acted upon once, as a whole, and after its end, as   *)
(* long as the editor is not left; and main looks for a button in vain only  *)
(* if a key changed the mode between its tests and its lookup.               *)
Bursts == INSTANCE ButtonBursts WITH
  Buttons <- Switches,
  held <- IF in9 = "1" THEN {btn} ELSE {},
  given <- IF mainPc \in Busy \/ (mainPc # "flag" /\ in10 = "0")
           THEN {btn} ELSE {},
  away <- mode # "2" \/ keyPc = "reset"

ImplementsBursts == Bursts!Spec

(* The handshake never gets stuck: once all switches stay up in mode 2, main *)
(* has nothing left to calculate and the input process nothing to notify.    *)
BurstsAreServed ==
  <>[](buff = {} /\ mode = "2" /\ keyPc = "read" /\ mainPc # "ended"
        /\ inputPc # "ended")
    => <>[](in9 = "0" /\ in10 = "*" /\ mainPc = "wait")
=============================================================================
