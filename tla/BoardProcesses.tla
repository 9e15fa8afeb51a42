--------------------------- MODULE BoardProcesses ---------------------------
(***************************************************************************)
(* The four processes of HW1 (HW1/main.c) around their shared memory: the  *)
(* event key process changes the mode and leaves commands in input_shm[0], *)
(* main serves them in the mode's own loop and passes those of mode 3 on   *)
(* in output_shm[32], the output process drives the devices.  No lock      *)
(* protects the segments.  What main and the input process exchange in     *)
(* mode 2 is TypingHandshake.                                              *)
(***************************************************************************)
EXTENDS Integers, Sequences

CONSTANTS
  Keys,      \* the keys pressed: "SW1".."SW4", "UP", "DOWN", "QUIT", and
             \* "release" for any event that is no press
  KeyBound,  \* bounds the number of key events
  QueueSize, \* bounds the events that wait to be read
  Chords,    \* whether the user presses chords of push switches in mode 2
  Fails,     \* whether opening or reading a device may fail
  Prompt     \* the key process is done with a key before main looks again

ASSUME BoardAssumption ==
  /\ Keys \subseteq {"SW1", "SW2", "SW3", "SW4", "UP", "DOWN", "QUIT", "release"}
  /\ KeyBound \in Nat /\ QueueSize \in Nat
  /\ Chords \in BOOLEAN /\ Fails \in BOOLEAN /\ Prompt \in BOOLEAN

VARIABLES
  mode,     \* mode_shm
  in0,      \* input_shm[0]: "*", the last command, or a push switch
  out32,    \* output_shm[32]: a command for the output process, or not
  pc,       \* where each process is; the key process: also the event that
            \* it handles, or the mode that it is about to store
  queue,    \* key events not read yet
  keysLeft, \* key events still to come
  timed,    \* cal_stopwatch has set its ttime
  owed,     \* commands given in mode 3 and not carried out (history)
  latest,   \* how far the last of them has come (history)
  hasty     \* a stopwatch command was stored before that (history)

watch == <<timed, hasty>>
orders == <<owed, latest>>
keyVars == <<queue, keysLeft>>
vars == <<mode, in0, out32, pc, keyVars, watch, orders>>

Commands == {"1", "2", "3", "4"}
CommandOf == [SW1 |-> "1", SW2 |-> "2", SW3 |-> "3", SW4 |-> "4"]

Goto(p, from, to) == pc[p] = from /\ pc' = [pc EXCEPT ![p] = to]

(* shared_memory, and the fork of the four processes. *)
Init ==
  /\ mode = "1" /\ in0 = "*" /\ out32 = "blank"
  /\ pc = [key |-> "test", main |-> "dispatch", input |-> "test",
           output |-> "dispatch"]
  /\ queue = <<>>
  /\ keysLeft = KeyBound
  /\ timed = FALSE
  /\ owed = [c \in Commands |-> 0] /\ latest = "none"
  /\ hasty = FALSE

(* The last command moves on from one place to the next: the mailbox ("in"), *)
(* the cell of the output process ("out"), a device ("done").                *)
Moves(from, to) == latest' = IF latest = from THEN to ELSE latest

(* die, after a device of p could not be opened or read. *)
Die(p) ==
  /\ mode' = "0"
  /\ pc' = [pc EXCEPT ![p] = "ended"]

-----------------------------------------------------------------------------
(* The user presses or releases a key. *)
KeyEvent(k) ==
  /\ keysLeft > 0 /\ keysLeft' = keysLeft - 1
  /\ Len(queue) < QueueSize
  /\ queue' = Append(queue, k)
  /\ UNCHANGED <<mode, in0, out32, pc, orders, watch>>

(* eventkey_process. *)
KeyTest ==
  /\ Goto("key", "test", IF mode = "0" THEN "ended" ELSE "read")
  /\ UNCHANGED <<mode, in0, out32, keyVars, orders, watch>>

(* read returns all events that wait; only the first is looked at. *)
KeyRead ==
  /\ queue # <<>>
  /\ Goto("key", "read", Head(queue))
  /\ queue' = <<>>
  /\ UNCHANGED <<mode, in0, out32, keysLeft, orders, watch>>

KeyFails ==
  /\ Fails
  /\ pc.key = "read"
  /\ Die("key")
  /\ UNCHANGED <<in0, out32, keyVars, orders, watch>>

StoreWatch ==
  /\ pc.key \in {"SW2", "SW3", "SW4"} /\ mode = "1"
  /\ Goto("key", pc.key, "test")
  /\ in0' = CommandOf[pc.key]
  /\ hasty' = (hasty \/ (~timed /\ in0' \in {"3", "4"}))
  /\ UNCHANGED <<mode, out32, keyVars, orders, timed>>

StoreCommand ==
  /\ pc.key \in DOMAIN CommandOf /\ mode = "3"
  /\ Goto("key", pc.key, "test")
  /\ in0' = CommandOf[pc.key]
  /\ owed' = [owed EXCEPT ![in0'] = @ + 1]
  /\ latest' = IF pc.main \in {"passed", "mail"} \/ pc.input = "store" THEN "raced"
               ELSE "in"
  /\ UNCHANGED <<mode, out32, keyVars, watch>>

IgnoreKey ==
  /\ \/ pc.key = "release"
     \/ pc.key \in DOMAIN CommandOf /\ mode \notin {"1", "3"}
     \/ pc.key = "SW1" /\ mode = "1"
  /\ Goto("key", pc.key, "test")
  /\ UNCHANGED <<mode, in0, out32, keyVars, orders, watch>>

(* The mode is tested, and then stored. *)
Up(m) == CASE m = "1" -> "2" [] m = "2" -> "3" [] OTHER -> "1"

Down(m) == CASE m = "1" -> "3" [] m = "2" -> "1" [] OTHER -> "2"

PickMode ==
  /\ \/ Goto("key", "UP", Up(mode))
     \/ Goto("key", "DOWN", Down(mode))
  /\ UNCHANGED <<mode, in0, out32, keyVars, orders, watch>>

StoreMode ==
  /\ mode' \in {"1", "2", "3"}
  /\ Goto("key", mode', "mail")
  /\ UNCHANGED <<in0, out32, keyVars, orders, watch>>

KeyQuits ==
  /\ Goto("key", "QUIT", "test")
  /\ mode' = "0"
  /\ UNCHANGED <<in0, out32, keyVars, orders, watch>>

(* init_shared by process p: the command, and then the cells.  Commands that *)
(* it clears need not be carried out.                                        *)
ResetCellsOnly(p) ==  \* mutant: the command is left in the mailbox
  /\ Goto(p, "mail", "cells")
  /\ hasty' = (hasty /\ pc.main = "second")
  /\ UNCHANGED <<mode, in0, out32, keyVars, orders, timed>>

ResetMail(p) ==
  /\ Goto(p, "mail", "cells")
  /\ in0' = "*"
  /\ Moves("in", "none")
  /\ hasty' = (hasty /\ pc.main = "second")
  /\ UNCHANGED <<mode, out32, keyVars, owed, timed>>

ResetCells(p, next) ==
  /\ Goto(p, "cells", next)
  /\ out32' = "blank"
  /\ Moves("out", "none")
  /\ UNCHANGED <<mode, in0, keyVars, owed, watch>>

Key ==
  \/ KeyTest \/ KeyRead
  \/ StoreWatch \/ StoreCommand \/ IgnoreKey
  \/ PickMode \/ StoreMode \/ KeyQuits
  \/ ResetMail("key") \/ ResetCells("key", "test")

-----------------------------------------------------------------------------
(* main_process and the loops of the modes. *)
MainGoto(from, to) ==
  /\ Prompt => pc.key \notin {"1", "2", "3", "mail", "cells"}
  /\ Goto("main", from, to)

Loop == [m \in {"0", "1", "2", "3"} |->
           CASE m = "1" -> "watch" [] m = "2" -> "editor"
             [] m = "3" -> "custom" [] OTHER -> "ended"]

Dispatch ==
  /\ MainGoto("dispatch", Loop[mode])
  /\ UNCHANGED <<mode, in0, out32, keyVars, orders, watch>>

LeaveWatch ==
  /\ mode # "1"
  /\ MainGoto("watch", "dispatch")
  /\ timed' = FALSE
  /\ UNCHANGED <<mode, in0, out32, keyVars, orders, hasty>>

Leave(m, from) ==
  /\ mode # m
  /\ MainGoto(from, "dispatch")
  /\ UNCHANGED <<mode, in0, out32, keyVars, orders, watch>>

(* cal_stopwatch: its time is a variable of its own, which a reset sets to   *)
(* zero; and one second after the other while started or paused. Any other   *)
(* value of in0 keeps it going round.                                        *)
WatchReset ==
  /\ mode = "1" /\ in0 \in {"*", "2"}
  /\ MainGoto("watch", "watch")
  /\ timed' = TRUE /\ hasty' = FALSE
  /\ UNCHANGED <<mode, in0, out32, keyVars, orders>>

WatchRuns ==
  /\ mode = "1" /\ in0 \in {"3", "4"}
  /\ MainGoto("watch", "second")
  /\ UNCHANGED <<mode, in0, out32, keyVars, orders, watch>>

SecondsGoOn ==  \* mutant: the inner loop tests the command only
  /\ MainGoto("second", IF in0 \in {"3", "4"} THEN "second" ELSE "watch")
  /\ UNCHANGED <<mode, in0, out32, keyVars, orders, watch>>

WatchSecond ==
  /\ MainGoto("second", IF mode = "1" /\ in0 \in {"3", "4"} THEN "second" ELSE "watch")
  /\ UNCHANGED <<mode, in0, out32, keyVars, orders, watch>>

(* cal_texteditor, of which only the chords matter here. *)
PressChord(chord) ==
  /\ Chords /\ mode = "2"
  /\ MainGoto("editor", chord)
  /\ UNCHANGED <<mode, in0, out32, keyVars, orders, watch>>

ChordMode ==
  /\ MainGoto("chord3", "mail")
  /\ mode' = "3"
  /\ UNCHANGED <<in0, out32, keyVars, orders, watch>>

ChordQuit ==
  /\ MainGoto("chord0", "editor")
  /\ mode' = "0"
  /\ UNCHANGED <<in0, out32, keyVars, orders, watch>>

(* cal_custom, once a second: the command is passed on, and then cleared. *)
PassCommand ==
  /\ mode = "3" /\ in0 \in Commands
  /\ MainGoto("custom", "passed")
  /\ out32' = in0
  /\ Moves("in", IF pc.output = "clear" THEN "raced" ELSE "out")
  /\ UNCHANGED <<mode, in0, keyVars, owed, watch>>

KeepMail ==  \* mutant: *input_shm = '*' left out
  /\ MainGoto("passed", "custom")
  /\ UNCHANGED <<mode, in0, out32, keyVars, orders, watch>>

ClearMail ==
  /\ MainGoto("passed", "custom")
  /\ in0' = "*"
  /\ UNCHANGED <<mode, out32, keyVars, orders, watch>>

Main ==
  \/ Dispatch
  \/ LeaveWatch \/ Leave("2", "editor") \/ Leave("3", "custom")
  \/ WatchReset \/ WatchRuns \/ WatchSecond
  \/ \E c \in {"chord3", "chord0", "mail"} : PressChord(c)
  \/ ChordMode \/ ChordQuit
  \/ ResetMail("main") \/ ResetCells("main", "editor")
  \/ PassCommand \/ ClearMail

-----------------------------------------------------------------------------
(* input_process: in mode 2 it stores switch 1 where the commands are.       *)
InputTest ==
  /\ \/ mode = "2" /\ Goto("input", "test", "store")
     \/ mode = "0" /\ Goto("input", "test", "ended")
  /\ UNCHANGED <<mode, in0, out32, keyVars, orders, watch>>

InputStore ==
  /\ Goto("input", "store", "test")
  /\ in0' \in {in0, "up", "down"}
  /\ UNCHANGED <<mode, out32, keyVars, orders, watch>>

Input == InputTest \/ InputStore

(* output_process: opening the devices of the mode, and its loop. *)
DispatchClears ==  \* mutant: print_custom starts by clearing the command
  /\ Goto("output", "dispatch", Loop[mode])
  /\ out32' = "*"
  /\ UNCHANGED <<mode, in0, keyVars, orders, watch>>

OutputDispatch ==
  /\ Goto("output", "dispatch", Loop[mode])
  /\ UNCHANGED <<mode, in0, out32, keyVars, orders, watch>>

OutputFails ==
  /\ Fails /\ mode # "0"
  /\ pc.output = "dispatch"
  /\ Die("output")
  /\ UNCHANGED <<in0, out32, keyVars, orders, watch>>

OutputLeave(m) ==
  /\ mode # m
  /\ Goto("output", Loop[m], "dispatch")
  /\ UNCHANGED <<mode, in0, out32, keyVars, orders, watch>>

(* print_custom: the command is carried out, and then cleared. *)
CarryOut ==
  /\ mode = "3" /\ out32 \in Commands
  /\ Goto("output", "custom", "clear")
  /\ owed' = [owed EXCEPT ![out32] = @ - 1]
  /\ Moves("out", "done")
  /\ UNCHANGED <<mode, in0, out32, keyVars, watch>>

ClearCommand ==
  /\ Goto("output", "clear", "custom")
  /\ out32' = "*"
  /\ UNCHANGED <<mode, in0, keyVars, orders, watch>>

Output ==
  \/ OutputDispatch
  \/ \E m \in {"1", "2", "3"} : OutputLeave(m)
  \/ CarryOut \/ ClearCommand

Next ==
  \/ \E k \in Keys : KeyEvent(k)
  \/ Key \/ KeyFails
  \/ Main
  \/ Input
  \/ Output \/ OutputFails

Spec == Init /\ [][Next]_vars

(* The processes are scheduled; the user and the devices need do nothing. *)
FairSpec ==
  /\ Spec
  /\ WF_vars(Key) /\ WF_vars(Input) /\ WF_vars(Output)
  /\ WF_vars(Main)

-----------------------------------------------------------------------------
TypeOK ==
  /\ mode \in {"0", "1", "2", "3"}
  /\ in0 \in Commands \cup {"*", "up", "down"}
  /\ out32 \in Commands \cup {"*", "blank"}
  /\ pc.key \in Keys \cup {"1", "2", "3", "test", "read", "mail", "cells", "ended"}
  /\ pc.main \in {"dispatch", "watch", "second", "editor", "chord3",
                  "chord0", "mail", "cells", "custom", "passed", "ended"}
  /\ pc.input \in {"test", "store", "ended"}
  /\ pc.output \in {"dispatch", "watch", "editor", "custom", "clear", "ended"}
  /\ queue \in Seq(Keys) /\ Len(queue) <= QueueSize
  /\ keysLeft \in 0..KeyBound
  /\ owed \in [Commands -> Int]
  /\ latest \in {"none", "in", "out", "done", "raced"}
  /\ timed \in BOOLEAN /\ hasty \in BOOLEAN

(* The time that a stopwatch counts on has been set: neither a command of    *)
(* custom mode nor one of an earlier visit starts it, whoever changes the    *)
(* mode how often; only SW3 or SW4 itself can, when it is pressed before     *)
(* main has come round to cal_stopwatch (line 161 is skipped then).          *)
CountsFromZero == pc.main = "second" => timed \/ hasty

(* A motor or the buzzer obeys each press at most once, although the press   *)
(* travels through two cells that are read, overwritten and cleared without  *)
(* a lock, by processes that sleep a second between looks.                   *)
NeverObeyedTwice == \A c \in Commands : owed[c] >= 0

(* When the keys rest in custom mode, the last command given in this visit   *)
(* has been carried out, unless it was stored or passed on just between a    *)
(* test and the store that follows it and wipes it out: those of its cells   *)
(* (lines 483-497, 844-880), a chord's (227-229) or a poll's (604-646).      *)
CommandsArrive ==
  <>[](mode = "3" /\ pc.main # "ended" /\ pc.output # "ended" /\ pc.key = "read")
    => <>[](latest \notin {"in", "out"})

(* Once the mode stays 0, every process that does not wait for a key ends,   *)
(* also out of a stopwatch that is running.                                  *)
QuitEndsAll ==
  <>[](mode = "0")
    => <>(pc.main = "ended" /\ pc.input = "ended" /\ pc.output = "ended")

(* What lines 242 and 569 say, "terminate program": the mode 0 is never left *)
(* again.                                                                    *)
QuitIsFinal == [][mode = "0" => mode' = "0"]_vars
=============================================================================
