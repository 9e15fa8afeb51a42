------------------------ MODULE BlinkDriver_proofs ------------------------
(* Proofs about the driver of HW2, whatever the options, the lengths of the  *)
(* texts and the number of writes and applications: its timer is never armed *)
(* twice as long as no two applications have had the device open; unloading  *)
(* the module leaves no timer behind; every variable keeps its type; and an  *)
(* undisturbed run shows what was asked for, in its characters and its texts. *)
EXTENDS BlinkDriver, TLAPS

(* The applications whose dev_open has returned. *)
Opened == Inside \ {"use"}

OneInside ==
  \A a, b \in Apps : pc[a] \in Opened /\ pc[b] \in Opened => a = b

(* The callback runs with the timer out of the list. *)
CallbackHoldsTimer == blink # "idle" => ~pending

(* After del_timer_sync neither the timer nor the callback is left. *)
SyncedIsQuiet ==
  \A a \in Apps : pc[a] = "arm" => ~pending /\ blink = "idle"

IInv ==
  /\ pc \in [Apps -> Inside \cup {"idle", "open"}]
  /\ alone => OneInside /\ CallbackHoldsTimer /\ SyncedIsQuiet

USE DEF vars, kernel, timer, blinkVars, apps, history

(* What the callback leaves alone, and that it arms the timer as it returns. *)
LEMMA BlinkChanges ==
  Callback =>
    /\ UNCHANGED <<pc, alone, module, entered>>
    /\ BlinkFires \/ (blink # "idle" /\ (pending' = pending \/ blink' = "idle"))
BY DEF Callback, Blink, BlinkFires, BlinkCounts, BlinkShows, BlinkCopies, BlinkMoves,
       BlinkSteps, BlinkCloses, BlinkGoesOn, BlinkStores, BlinkArms, BlinkGoto

(* The callback of the timer keeps the invariant. *)
LEMMA BlinkKeeps == IInv /\ Callback => IInv'
<1> SUFFICES ASSUME IInv, Callback PROVE IInv'
  OBVIOUS
<1>1. CASE BlinkFires
  BY <1>1, BlinkChanges DEF IInv, OneInside, CallbackHoldsTimer, SyncedIsQuiet,
                            BlinkFires, BlinkGoto
<1>2. CASE blink # "idle" /\ (pending' = pending \/ blink' = "idle")
  BY <1>2, BlinkChanges DEF IInv, OneInside, CallbackHoldsTimer, SyncedIsQuiet
<1> QED
  BY <1>1, <1>2, BlinkChanges

(* Loading and unloading take the timer away at most. *)
LEMMA ModuleChanges ==
  Register \/ Load \/ Unmap \/ Unload =>
    UNCHANGED <<pc, alone, blink>> /\ (pending' => pending)
BY DEF Register, Load, Map, MapFails, InitTimer, Unmap, Unload, UnloadSync, Unregister

LEMMA ModuleKeeps == IInv /\ (Register \/ Load \/ Unmap \/ Unload) => IInv'
BY ModuleChanges DEF IInv, OneInside, CallbackHoldsTimer, SyncedIsQuiet

(* So does each step of an application. *)
LEMMA WriteKeeps ==
  ASSUME NEW a \in Apps, IInv, Call(a) \/ App(a) PROVE IInv'
<1>1. CASE Call(a) \/ OpenTest(a)
  <2>1. /\ \E to \in {"idle", "open", "use"} : pc' = [pc EXCEPT ![a] = to]
        /\ UNCHANGED <<pending, blink, alone>>
    BY <1>1 DEF Call, OpenTest, AppGoto
  <2> QED
    BY <2>1 DEF IInv, OneInside, CallbackHoldsTimer, SyncedIsQuiet, Opened, Inside
<1>2. CASE OpenSet(a)
  BY ZenonT(60), <1>2 DEF IInv, OneInside, CallbackHoldsTimer, SyncedIsQuiet, Opened, Inside,
              OpenSet, AppGoto
<1>3. CASE WriteCounts(a) \/ WriteTexts(a) \/ WriteFlags(a) \/ Release(a)
  BY <1>3 DEF IInv, OneInside, CallbackHoldsTimer, SyncedIsQuiet, Opened, Inside,
              WriteCounts, WriteTexts, WriteFlags, Release, AppGoto
<1>4. CASE WriteSync(a)
  BY <1>4 DEF IInv, OneInside, CallbackHoldsTimer, SyncedIsQuiet, Opened, Inside,
              WriteSync, AppGoto
<1>5. CASE WriteArm(a)
  BY <1>5 DEF IInv, OneInside, CallbackHoldsTimer, SyncedIsQuiet, Opened, Inside,
              WriteArm, AppGoto
<1> QED
  BY <1>1, <1>2, <1>3, <1>4, <1>5 DEF Write, App

LEMMA InitArmed == Init => IInv
<1> SUFFICES ASSUME Init PROVE IInv
  OBVIOUS
<1>1. pc = [a \in Apps |-> "idle"] /\ blink = "idle"
  BY DEF Init
<1> QED
  BY <1>1 DEF IInv, OneInside, CallbackHoldsTimer, SyncedIsQuiet, Opened, Inside

LEMMA StepArmed == IInv /\ [Next]_vars => IInv'
<1> SUFFICES ASSUME IInv, [Next]_vars PROVE IInv'
  OBVIOUS
<1>1. CASE UNCHANGED vars
  BY <1>1 DEF IInv, OneInside, CallbackHoldsTimer, SyncedIsQuiet
<1>2. CASE Next
  BY <1>2, BlinkKeeps, ModuleKeeps, WriteKeeps DEF Next
<1> QED
  BY <1>1, <1>2

(* add_timer never comes to a timer that is pending: the callback of a run   *)
(* and a write that starts the next one do not both arm it (dev_write,       *)
(* kernel_timer_blink).                                                      *)
THEOREM ArmedOnce == Spec => []TimerArmedOnce
<1>1. IInv => TimerArmedOnce
  BY DEF IInv, CallbackHoldsTimer, SyncedIsQuiet, TimerArmedOnce
<1> QED
  BY <1>1, InitArmed, StepArmed, PTL DEF Spec

-----------------------------------------------------------------------------
(* While the module is not in, no application has got into the device, and   *)
(* once it has waited for the callback nothing can arm the timer any more.   *)
NobodyIn ==
  ~entered /\ module # "in" => \A a \in Apps : pc[a] \notin Opened

GoneIsQuiet ==
  ~entered /\ module \notin {"in", "unmapped"} => ~pending /\ blink = "idle"

QInv ==
  /\ pc \in [Apps -> Inside \cup {"idle", "open"}]
  /\ NobodyIn /\ GoneIsQuiet

(* A write arms the timer only of a module that is in.                       *)
LEMMA AppKeepsQuiet ==
  ASSUME NEW a \in Apps, QInv, Call(a) \/ App(a) PROVE QInv'
<1>1. CASE Call(a) \/ (App(a) /\ OpenTest(a))
  <2>1. /\ \E to \in {"idle", "open", "use"} : pc' = [pc EXCEPT ![a] = to]
        /\ UNCHANGED <<pending, blink>>
    BY <1>1 DEF Call, OpenTest, AppGoto
  <2>2. CASE Call(a)
    BY <2>1, <2>2 DEF Call, QInv, NobodyIn, GoneIsQuiet, Opened, Inside
  <2>3. CASE App(a)
    <3>1. module' = module
      BY <2>3 DEF App
    <3>2. ~entered' => ~entered
      BY <2>3, Zenon DEF App
    <3> QED
      BY <2>1, <3>1, <3>2 DEF QInv, NobodyIn, GoneIsQuiet, Opened, Inside
  <2> QED
    BY <1>1, <2>2, <2>3
<1>2. CASE App(a) /\ OpenSet(a)
  <2>1. /\ pc[a] = "use" /\ pc' = [pc EXCEPT ![a] = "write"]
        /\ UNCHANGED <<pending, blink, module>>
        /\ ~entered' => ~entered /\ module = "in"
    BY Zenon, <1>2 DEF App, OpenSet, AppGoto
  <2> QED
    BY <2>1 DEF QInv, NobodyIn, GoneIsQuiet, Opened, Inside
<1>3. CASE /\ App(a)
           /\ \/ WriteCounts(a) \/ WriteTexts(a) \/ WriteFlags(a)
              \/ WriteSync(a) \/ WriteArm(a) \/ Release(a)
  <2>1. /\ pc[a] \in Opened
        /\ \E to \in Opened \cup {"idle"} : pc' = [pc EXCEPT ![a] = to]
        /\ UNCHANGED module /\ (~entered' => ~entered)
    BY Zenon, <1>3 DEF App, WriteCounts, WriteTexts, WriteFlags, WriteSync, WriteArm,
                Release, AppGoto, Opened, Inside
  <2>2. ~entered' => module' = "in"
    BY <2>1 DEF QInv, NobodyIn
  <2> QED
    BY <2>1, <2>2 DEF QInv, NobodyIn, GoneIsQuiet, Opened
<1> QED
  BY <1>1, <1>2, <1>3 DEF App, Write

(* rmmod leaves neither the timer nor its callback behind, whatever point of *)
(* a run it comes at, unless an application had the device open (dev_exit).  *)
THEOREM UnloadedQuiet == Spec => []UnloadedIsQuiet
<1>1. Init => QInv
  <2> SUFFICES ASSUME Init PROVE QInv
    OBVIOUS
  <2>1. pc = [a \in Apps |-> "idle"] /\ ~pending /\ blink = "idle"
    BY DEF Init
  <2> QED
    BY <2>1 DEF QInv, NobodyIn, GoneIsQuiet, Opened, Inside
<1>2. QInv /\ [Next]_vars => QInv'
  <2> SUFFICES ASSUME QInv, [Next]_vars PROVE QInv'
    OBVIOUS
  <2>1. CASE UNCHANGED vars
    BY <2>1 DEF QInv, NobodyIn, GoneIsQuiet
  <2>2. CASE Callback
    <3>1. ~entered /\ module \notin {"in", "unmapped"} => ~BlinkFires /\ blink = "idle"
      BY DEF QInv, GoneIsQuiet, BlinkFires
    <3> QED
      BY <2>2, <3>1, BlinkChanges DEF QInv, NobodyIn, GoneIsQuiet
  <2>3. CASE Unmap
    BY Zenon, <2>3 DEF Unmap, ModuleGoto, QInv, NobodyIn, GoneIsQuiet, Opened
  <2>4. CASE UnloadSync
    BY <2>4 DEF UnloadSync, ModuleGoto, QInv, NobodyIn, GoneIsQuiet
  <2>5. CASE Register \/ Load \/ Unregister
    BY <2>5 DEF Register, Load, Map, MapFails, InitTimer, Unregister, ModuleGoto,
                QInv, NobodyIn, GoneIsQuiet
  <2>6. CASE \E a \in Apps : Call(a) \/ App(a)
    BY <2>6, AppKeepsQuiet
  <2> QED
    BY <2>1, <2>2, <2>3, <2>4, <2>5, <2>6 DEF Next, Unload
<1>3. QInv => UnloadedIsQuiet
  BY DEF QInv, GoneIsQuiet, UnloadedIsQuiet
<1> QED
  BY <1>1, <1>2, <1>3, PTL DEF Spec

-----------------------------------------------------------------------------
(* The types. What the driver is written is a stream of dev_write's options: *)
(* the four bytes come apart as sys_returncall has put them together.        *)
Decoded ==
  [number : 0..100, value : 48..57, position : 49..52]
    \cup {[number |-> 0, value |-> 0, position |-> 0]}

Blinks == {"idle", "count", "show", "copy", "move", "step", "check", "store", "arm"}

ModuleTyped ==
  /\ module \in {"out", "registered", "mapped", "in", "unmapped", "synced",
                 "failed"}
  /\ loadsLeft \in 0..Loads

FlagsTyped ==
  /\ pending \in BOOLEAN /\ halted \in BOOLEAN /\ clean \in BOOLEAN
  /\ alone \in BOOLEAN /\ entered \in BOOLEAN /\ cut \in BOOLEAN

RunTyped ==
  /\ count \in Nat /\ reg \in Nat /\ end_count \in 0..100
  /\ data \in Nat \X Nat /\ cur \in Nat \X Nat
  /\ blink \in Blinks

Text == [Columns -> 0..Width]

TextsTyped ==
  /\ text \in [Lines -> Text] /\ tmp \in [Lines -> Text]
  /\ right \in [Lines -> BOOLEAN]

ShownTyped ==
  shown \in [number : Int, dot : 0..8, leds : 0..8, led : 0..4,
             fnd : (0..4) \X (0..8), texts : [Lines -> Text]]

AppsTyped ==
  /\ dev_usage \in {0, 1}
  /\ pc \in [Apps -> Inside \cup {"idle", "open"}]
  /\ stream \in [Apps -> Nat] /\ writesLeft \in 0..Writes
  /\ start \in Decoded
  /\ \A a \in Apps : Decode(stream[a]) \in Decoded

TypeInv ==
  ModuleTyped /\ FlagsTyped /\ RunTyped /\ TextsTyped /\ ShownTyped /\ AppsTyped

LEMMA EncodeTyped ==
  ASSUME NEW o \in Options, NEW n \in Numbers
  PROVE  Encode(o, n) \in Nat /\ Decode(Encode(o, n)) \in Decoded
<1> DEFINE First(q) == (o[q] # 48 \/ q = 4) /\ \A r \in 1..(q - 1) : o[r] = 48
           p == CHOOSE q \in 1..4 : First(q)
           s == (48 + p) * 16777216 + o[p] * 65536 + n
<1>1. o \in [1..4 -> 48..57] /\ n \in 0..100
  BY BlinkAssumption
<1>2. \E q \in 1..4 : First(q)
  <2>1. CASE o[1] # 48
    BY <2>1
  <2>2. CASE o[1] = 48 /\ o[2] # 48
    BY <2>2
  <2>3. CASE o[1] = 48 /\ o[2] = 48 /\ o[3] # 48
    BY <2>3
  <2>4. CASE o[1] = 48 /\ o[2] = 48 /\ o[3] = 48
    BY <2>4
  <2> QED
    BY <2>1, <2>2, <2>3, <2>4
<1>3. p \in 1..4
  BY <1>2
<1>4. Encode(o, n) = s
  BY DEF Encode
<1> HIDE DEF p
<1>5. o[p] \in 48..57
  BY <1>1, <1>3
<1>6. /\ s \in Nat
      /\ Byte(s, 0) = n /\ Byte(s, 2) = o[p] /\ Byte(s, 3) = 48 + p
  BY SMTT(30), <1>1, <1>3, <1>5 DEF Byte
<1>7. Decode(s) = [number |-> n, value |-> o[p], position |-> 48 + p]
  BY <1>6 DEF Decode
<1>8. Decode(s) \in Decoded
  BY <1>1, <1>3, <1>5, <1>7 DEF Decoded
<1> QED
  BY <1>4, <1>6, <1>8

LEMMA NothingTyped == Decode(0) = [number |-> 0, value |-> 0, position |-> 0]
BY DEF Decode, Byte

LEMMA TextsFit ==
  /\ Blank \in [Lines -> Text]
  /\ \A l \in Lines : Message(l) \in Text
  /\ \A t \in Text : MoveRight(t) \in Text /\ MoveLeft(t) \in Text
<1>1. Width \in Nat /\ \A l \in Lines : Lengths[l] \in 1..(Width - 1)
  BY BlinkAssumption DEF Lines
<1>2. Blank \in [Lines -> Text]
  BY <1>1 DEF Blank, Text, Space
<1>3. ASSUME NEW l \in Lines PROVE Message(l) \in Text
  BY <1>1 DEF Message, Text, Columns, Space
<1>4. ASSUME NEW t \in Text PROVE MoveRight(t) \in Text /\ MoveLeft(t) \in Text
  BY <1>1 DEF MoveRight, MoveLeft, Text, Columns, Space
<1> QED
  BY <1>2, <1>3, <1>4

LEMMA OffTyped ==
  Off \in [number : Int, dot : 0..8, leds : 0..8, led : 0..4,
           fnd : (0..4) \X (0..8), texts : [Lines -> Text]]
<1>1. fpga_text_write(Blank) \in [Lines -> Text]
  BY TextsFit DEF fpga_text_write
<1>2. /\ fpga_fnd_write(0) \in Int /\ fpga_dot_write(0) \in 0..8
      /\ fpga_led_write(0) \in 0..8 /\ led_write(0) \in 0..4
      /\ fnd_write(<<0, 0>>) \in (0..4) \X (0..8)
  BY DEF fpga_fnd_write, fpga_dot_write, fpga_led_write, led_write, fnd_write
<1> HIDE DEF fpga_text_write
<1> QED
  BY <1>1, <1>2 DEF Off

LEMMA InitTyped == Init => TypeInv
<1> SUFFICES ASSUME Init PROVE TypeInv
  OBVIOUS
<1>1. ModuleTyped /\ AppsTyped
  BY NothingTyped, BlinkAssumption DEF Init, ModuleTyped, AppsTyped, Decoded
<1>2. FlagsTyped
  BY Zenon DEF Init, FlagsTyped
<1>3. RunTyped
  BY DEF Init, RunTyped, Blinks
<1>4. TextsTyped
  BY TextsFit DEF Init, TextsTyped
<1>5. ShownTyped
  BY OffTyped DEF Init, ShownTyped
<1> QED
  BY <1>1, <1>2, <1>3, <1>4, <1>5 DEF TypeInv

LEMMA BlinkTyped == TypeInv /\ Callback => TypeInv'
<1> SUFFICES ASSUME TypeInv, Callback PROVE TypeInv'
  OBVIOUS
<1>0. ModuleTyped /\ FlagsTyped /\ RunTyped /\ TextsTyped /\ ShownTyped /\ AppsTyped
  BY DEF TypeInv
<1>1. Blink /\ halted' \in BOOLEAN /\ UNCHANGED <<module, loadsLeft, entered, cut>>
  BY DEF Callback
<1>2. ModuleTyped'
  BY <1>0, <1>1 DEF ModuleTyped
<1>3. UNCHANGED <<apps, dev_usage, start, alone>>
  BY <1>1 DEF Blink, BlinkFires, BlinkCounts, BlinkShows, BlinkCopies, BlinkMoves,
              BlinkSteps, BlinkCloses, BlinkGoesOn, BlinkStores, BlinkArms
<1>4. AppsTyped'
  BY <1>0, <1>3 DEF AppsTyped
<1>5. pending' \in BOOLEAN /\ clean' \in BOOLEAN
  BY <1>0, <1>1, Zenon
     DEF FlagsTyped, Blink, BlinkFires, BlinkCounts, BlinkShows, BlinkCopies,
         BlinkMoves, BlinkSteps, BlinkCloses, BlinkGoesOn, BlinkStores, BlinkArms
<1>6. FlagsTyped'
  BY <1>0, <1>1, <1>3, <1>5, Zenon DEF FlagsTyped
<1>7. RunTyped'
  <2> USE <1>0 DEF RunTyped, BlinkGoto, Blinks
  <2>1. CASE BlinkFires \/ BlinkCounts \/ BlinkArms
    BY <2>1 DEF BlinkFires, BlinkCounts, BlinkArms
  <2>2. CASE BlinkShows \/ BlinkCopies \/ BlinkMoves
    BY <2>2 DEF BlinkShows, BlinkCopies, BlinkMoves
  <2>3. CASE BlinkSteps \/ BlinkCloses \/ BlinkStores
    BY <2>3 DEF BlinkSteps, BlinkCloses, BlinkStores
  <2>4. CASE BlinkGoesOn
    BY <2>4 DEF BlinkGoesOn, Wrapped
  <2> QED
    BY <1>1, <2>1, <2>2, <2>3, <2>4 DEF Blink
<1>8. TextsTyped'
  <2>1. CASE BlinkCopies
    <3>1. tmp' = text /\ UNCHANGED <<text, right>>
      BY <2>1 DEF BlinkCopies
    <3> QED
      BY <1>0, <3>1 DEF TextsTyped
  <2>2. CASE BlinkMoves
    <3>1. \A l \in Lines : text'[l] \in Text /\ right'[l] \in BOOLEAN
      BY Zenon, <1>0, <2>2, TextsFit DEF BlinkMoves, TextsTyped
    <3>2. /\ text' = [l \in Lines |-> text'[l]] /\ right' = [l \in Lines |-> right'[l]]
          /\ tmp' = Blank
      BY <2>2 DEF BlinkMoves
    <3> QED
      BY <3>1, <3>2, TextsFit DEF TextsTyped
  <2>3. CASE UNCHANGED <<text, tmp, right>>
    BY <1>0, <2>3 DEF TextsTyped
  <2> QED
    BY <1>1, <2>1, <2>2, <2>3
       DEF Blink, BlinkFires, BlinkCounts, BlinkShows, BlinkSteps, BlinkCloses,
           BlinkGoesOn, BlinkStores, BlinkArms
<1>9. ShownTyped'
  <2>1. CASE BlinkShows
    <3>1. /\ fpga_fnd_write(end_count - count + 1) \in Int
          /\ fpga_dot_write(data[2]) \in 0..8 /\ fpga_led_write(data[2]) \in 0..8
      BY <1>0 DEF RunTyped, fpga_fnd_write, fpga_dot_write, fpga_led_write
    <3> QED
      BY Zenon, <1>0, <2>1, <3>1 DEF BlinkShows, ShownTyped
  <2>2. CASE BlinkCopies
    <3>1. fpga_text_write(text) \in [Lines -> Text]
      BY <1>0 DEF TextsTyped, fpga_text_write
    <3> QED
      BY <1>0, <2>2, <3>1 DEF BlinkCopies, ShownTyped
  <2>3. CASE BlinkSteps
    <3>1. led_write(cur[1]) \in 0..4 /\ fnd_write(data) \in (0..4) \X (0..8)
      BY <1>0 DEF RunTyped, led_write, fnd_write
    <3> QED
      BY Zenon, <1>0, <2>3, <3>1 DEF BlinkSteps, ShownTyped
  <2>4. CASE BlinkCloses
    BY <2>4, OffTyped DEF BlinkCloses, ShownTyped
  <2>5. CASE UNCHANGED shown
    BY <1>0, <2>5 DEF ShownTyped
  <2> QED
    BY <1>1, <2>1, <2>2, <2>3, <2>4, <2>5
       DEF Blink, BlinkFires, BlinkCounts, BlinkMoves, BlinkGoesOn, BlinkStores,
           BlinkArms
<1> QED
  BY <1>2, <1>4, <1>6, <1>7, <1>8, <1>9 DEF TypeInv

LEMMA ModuleStepTyped ==
  TypeInv /\ (Register \/ Load \/ Unmap \/ Unload) => TypeInv'
<1> SUFFICES ASSUME TypeInv, Register \/ Load \/ Unmap \/ Unload PROVE TypeInv'
  OBVIOUS
<1>0. ModuleTyped /\ FlagsTyped /\ RunTyped /\ TextsTyped /\ ShownTyped /\ AppsTyped
  BY DEF TypeInv
<1>1. ASSUME OwnOff PROVE ShownTyped'
  <2>1. fnd_write(<<0, 0>>) \in (0..4) \X (0..8) /\ led_write(0) \in 0..4
    BY DEF fnd_write, led_write
  <2> QED
    BY Zenon, <1>0, <1>1, <2>1 DEF OwnOff, ShownTyped
<1>2. ModuleTyped'
  BY <1>0, BlinkAssumption
     DEF Register, Load, Map, MapFails, InitTimer, Unmap, Unload, UnloadSync,
         Unregister, ModuleGoto, ModuleTyped
<1>3. FlagsTyped'
  BY <1>0, Zenon
     DEF Register, Load, Map, MapFails, InitTimer, Unmap, Unload, UnloadSync,
         Unregister, FlagsTyped
<1>4. RunTyped'
  BY <1>0
     DEF Register, Load, Map, MapFails, InitTimer, Unmap, Unload, UnloadSync,
         Unregister, RunTyped
<1>5. TextsTyped'
  <2>1. CASE Register
    BY <1>0, <2>1, TextsFit DEF Register, TextsTyped
  <2> QED
    BY <1>0, <2>1 DEF Load, Map, MapFails, InitTimer, Unmap, Unload, UnloadSync,
                      Unregister, TextsTyped
<1>6. ShownTyped'
  <2>1. CASE UNCHANGED shown
    BY <1>0, <2>1 DEF ShownTyped
  <2> QED
    BY <1>1, <2>1 DEF Register, Load, Map, MapFails, InitTimer, Unmap, Unload,
                      UnloadSync, Unregister
<1>7. AppsTyped'
  BY <1>0
     DEF Register, Load, Map, MapFails, InitTimer, Unmap, Unload, UnloadSync,
         Unregister, AppsTyped
<1> QED
  BY <1>2, <1>3, <1>4, <1>5, <1>6, <1>7 DEF TypeInv

LEMMA AppTyped ==
  ASSUME NEW a \in Apps, TypeInv, Call(a) \/ App(a) PROVE TypeInv'
<1>0. ModuleTyped /\ FlagsTyped /\ RunTyped /\ TextsTyped /\ ShownTyped /\ AppsTyped
  BY DEF TypeInv
<1>1. /\ Call(a) \/ (Write(a) /\ UNCHANGED <<module, loadsLeft, shown, blinkVars>>)
      /\ halted' \in BOOLEAN /\ entered' \in BOOLEAN /\ cut' \in BOOLEAN
  <2>1. CASE Call(a)
    BY <1>0, <2>1, Zenon DEF FlagsTyped, Call
  <2>2. CASE App(a)
    <3>1. halted' \in BOOLEAN /\ entered' \in BOOLEAN /\ cut' \in BOOLEAN
      BY <1>0, <2>2, Zenon DEF FlagsTyped, App, Astray
    <3> QED
      BY <2>2, <3>1 DEF App, Write, OpenTest, OpenSet, WriteCounts, WriteTexts,
                        WriteFlags, WriteSync, WriteArm, Release
  <2> QED
    BY <2>1, <2>2
<1>2. ModuleTyped' /\ ShownTyped'
  BY <1>0, <1>1 DEF Call, ModuleTyped, ShownTyped
<1>3. pending' \in BOOLEAN /\ clean' \in BOOLEAN /\ alone' \in BOOLEAN
  BY <1>0, <1>1, Zenon
     DEF FlagsTyped, Call, Write, OpenTest, OpenSet, WriteCounts, WriteTexts,
         WriteFlags, WriteSync, WriteArm, Release
<1>4. FlagsTyped'
  BY <1>1, <1>3 DEF FlagsTyped
<1>5. RunTyped' /\ TextsTyped' /\ AppsTyped'
  <2>1. CASE Call(a)
    <3>1. PICK o \in Options, n \in Numbers :
            stream' = [stream EXCEPT ![a] = Encode(o, n)]
      BY Zenon, <2>1 DEF Call
    <3>2. \A b \in Apps : Decode(stream'[b]) \in Decoded /\ stream'[b] \in Nat
      BY <1>0, <3>1, EncodeTyped DEF AppsTyped
    <3> QED
      BY <1>0, <2>1, <3>1, <3>2, BlinkAssumption
         DEF Call, AppGoto, RunTyped, TextsTyped, AppsTyped
  <2>2. CASE OpenTest(a) \/ OpenSet(a) \/ Release(a) \/ WriteSync(a) \/ WriteArm(a)
    BY <1>0, <2>2 DEF OpenTest, OpenSet, Release, WriteSync, WriteArm, AppGoto,
                      RunTyped, TextsTyped, AppsTyped, Inside
  <2>3. CASE WriteCounts(a)
    <3>1. start' = Decode(stream[a]) /\ start' \in Decoded
      BY <1>0, <2>3 DEF WriteCounts, AppsTyped
    <3>2. /\ start'.number \in 0..100 /\ start'.value \in Nat
          /\ start'.position \in Nat
      BY <3>1 DEF Decoded
    <3>3. \A b \in Apps : Decode(stream'[b]) \in Decoded /\ stream'[b] \in Nat
      BY <1>0, <2>3, NothingTyped DEF WriteCounts, AppsTyped, Decoded
    <3>4. RunTyped'
      BY <1>0, <1>1, <2>3, <3>1, <3>2 DEF WriteCounts, RunTyped, Call
    <3>5. TextsTyped'
      BY <1>0, <2>3 DEF WriteCounts, TextsTyped
    <3>6. AppsTyped'
      BY <1>0, <2>3, <3>1, <3>3 DEF WriteCounts, AppGoto, AppsTyped, Inside
    <3> QED
      BY <3>4, <3>5, <3>6
  <2>4. CASE WriteTexts(a)
    <3>1. text' \in [Lines -> Text]
      BY <2>4, TextsFit DEF WriteTexts
    <3> QED
      BY <1>0, <2>4, <3>1 DEF WriteTexts, AppGoto, RunTyped, TextsTyped, AppsTyped,
                              Inside
  <2>5. CASE WriteFlags(a)
    BY <1>0, <2>5 DEF WriteFlags, AppGoto, RunTyped, TextsTyped, AppsTyped, Inside
  <2> QED
    BY <1>1, <2>1, <2>2, <2>3, <2>4, <2>5 DEF Write
<1> QED
  BY <1>2, <1>4, <1>5 DEF TypeInv

LEMMA StepTyped == TypeInv /\ [Next]_vars => TypeInv'
<1> SUFFICES ASSUME TypeInv, [Next]_vars PROVE TypeInv'
  OBVIOUS
<1>1. CASE UNCHANGED vars
  BY <1>1 DEF TypeInv, ModuleTyped, FlagsTyped, RunTyped, TextsTyped, ShownTyped,
              AppsTyped
<1> QED
  BY <1>1, BlinkTyped, ModuleStepTyped, AppTyped DEF Next

(* Every variable keeps its type; above all, what the callback writes to the *)
(* devices is a digit, a pattern and a line that they have.                  *)
THEOREM TypeCorrect == Spec => []TypeOK
<1>1. TypeInv => TypeOK
  <2> SUFFICES ASSUME TypeInv PROVE TypeOK
    OBVIOUS
  <2>1. start \in [number : Nat, value : Nat, position : Nat]
    BY DEF TypeInv, AppsTyped, Decoded
  <2> QED
    BY <2>1 DEF TypeInv, ModuleTyped, FlagsTyped, RunTyped, TextsTyped, ShownTyped,
                AppsTyped, TypeOK, Blinks, Text, Inside
<1> QED
  BY <1>1, InitTyped, StepTyped, PTL DEF Spec

-----------------------------------------------------------------------------
(* Loading the module starts from a quiet driver: otherwise the kernel halts. *)
LoadingIsQuiet ==
  ~halted /\ module \in {"registered", "mapped"} =>
    /\ ~pending /\ blink = "idle"
    /\ \A a \in Apps : pc[a] \notin {"arm", "release"}

HaltedIsOut == halted => module # "in"

LoadInv == LoadingIsQuiet /\ HaltedIsOut

LEMMA StepLoads ==
  ASSUME TypeInv, LoadInv, [Next]_vars PROVE LoadInv'
<1> USE DEF LoadInv, LoadingIsQuiet, HaltedIsOut
<1>1. CASE UNCHANGED vars
  BY <1>1
<1>2. CASE ~halted /\ Callback
  <2>1. module' = module /\ (halted' => module # "in") /\ pc' = pc
    BY Zenon, <1>2, BlinkChanges DEF Callback
  <2>2. BlinkFires => pending /\ blink = "idle"
    BY DEF BlinkFires, BlinkGoto
  <2> QED
    BY <1>2, <2>1, <2>2, BlinkChanges
<1>3. CASE ~halted /\ Register
  BY Zenon, <1>3 DEF Register, ModuleGoto, Inside
<1>4. CASE ~halted /\ (Load \/ Unmap \/ Unload)
  BY <1>4 DEF Load, Map, MapFails, InitTimer, Unmap, Unload, UnloadSync,
              Unregister, ModuleGoto
<1>5. CASE ~halted /\ \E a \in Apps : Call(a) \/ App(a)
  <2>1. PICK a \in Apps : Call(a) \/ App(a)
    BY <1>5
  <2>2. pc \in [Apps -> Inside \cup {"idle", "open"}]
    BY DEF TypeInv, AppsTyped
  <2>3. CASE Call(a)
    BY <1>5, <2>2, <2>3 DEF Call, AppGoto
  <2>4. CASE App(a)
    <3>1. module' = module /\ halted' = Astray(a) /\ UNCHANGED blinkVars
      BY <2>4 DEF App, Write, OpenTest, OpenSet, WriteCounts, WriteTexts,
                  WriteFlags, WriteSync, WriteArm, Release
    <3>2. halted' => module' # "in"
      BY Zenon, <3>1 DEF Astray
    <3>3. CASE OpenTest(a) \/ OpenSet(a)
      BY <1>5, <2>2, <3>1, <3>2, <3>3 DEF OpenTest, OpenSet, AppGoto
    <3>4. CASE WriteCounts(a) \/ WriteTexts(a) \/ WriteFlags(a)
      BY <1>5, <2>2, <3>1, <3>2, <3>4
         DEF WriteCounts, WriteTexts, WriteFlags, AppGoto
    <3>5. CASE WriteSync(a)
      BY <1>5, <2>2, <3>1, <3>2, <3>5 DEF WriteSync, AppGoto, Astray
    <3>6. CASE WriteArm(a) \/ Release(a)
      BY <1>5, <2>2, <3>1, <3>2, <3>6 DEF WriteArm, Release, AppGoto
    <3> QED
      BY <2>4, <3>3, <3>4, <3>5, <3>6 DEF App, Write
  <2> QED
    BY <2>1, <2>3, <2>4
<1> QED
  BY <1>1, <1>2, <1>3, <1>4, <1>5 DEF Next

-----------------------------------------------------------------------------
(* What a run shows. The value and the position k steps after the option: *)
Value(s, k) == 49 + ((s.value - 49 + k) % 8)
Position(s, k) == 49 + ((s.position - 49 + ((s.value - 49 + k) \div 8)) % 4)
After(s, k) == <<Position(s, k), Value(s, k)>>

Options18 == {s \in Decoded : s.value \in 49..56}

(* Each step of kernel_timer_blink goes one further. *)
LEMMA OneStep ==
  ASSUME NEW s \in Options18, NEW k \in Nat
  PROVE  /\ Value(s, k) \in 49..56 /\ Position(s, k) \in 49..52
         /\ Wrapped(<<Position(s, k), Value(s, k) + 1>>) = After(s, k + 1)
         /\ After(s, 0) = <<s.position, s.value>>
         /\ s.number \in 0..100 /\ s.position \in 49..52
<1>1. s.value \in 49..56 /\ s.position \in 49..52 /\ s.number \in 0..100
  BY DEF Options18, Decoded
<1>2. PICK x \in Nat : x = s.value - 49 + k
  BY <1>1
<1>3. PICK p \in 0..3 : p = s.position - 49
  BY <1>1
<1>4. Value(s, k) \in 49..56 /\ Position(s, k) \in 49..52
  BY <1>2, <1>3, <1>1 DEF Value, Position
<1>5. After(s, 0) = <<s.position, s.value>>
  <2>1. (s.value - 49) % 8 = s.value - 49 /\ (s.value - 49) \div 8 = 0
        /\ (s.position - 49) % 4 = s.position - 49
    BY <1>1
  <2> QED
    BY <1>1, <2>1 DEF After, Value, Position
<1>6. /\ Value(s, k + 1) = 49 + ((x + 1) % 8)
      /\ Position(s, k + 1) = 49 + ((p + ((x + 1) \div 8)) % 4)
      /\ Value(s, k) = 49 + (x % 8)
      /\ Position(s, k) = 49 + ((p + (x \div 8)) % 4)
  <2>1. s.value - 49 + (k + 1) = x + 1
    BY <1>1, <1>2
  <2> QED
    BY <1>2, <1>3, <2>1 DEF Value, Position
<1>7. CASE x % 8 = 7
  <2>1. (x + 1) % 8 = 0 /\ (x + 1) \div 8 = (x \div 8) + 1
    BY <1>7
  <2>2. PICK y \in Nat : y = p + (x \div 8)
    OBVIOUS
  <2>3. p + ((x \div 8) + 1) = y + 1
    BY <2>2
  <2>4. (y + 1) % 4 = IF y % 4 = 3 THEN 0 ELSE (y % 4) + 1
    OBVIOUS
  <2>5. Value(s, k + 1) = 49 /\ Value(s, k) + 1 = 57
        /\ Position(s, k) = 49 + (y % 4) /\ Position(s, k + 1) = 49 + ((y + 1) % 4)
    BY <1>6, <1>7, <2>1, <2>2, <2>3
  <2>6. y % 4 \in 0..3
    OBVIOUS
  <2> QED
    BY <1>1, <1>4, <1>5, <2>4, <2>5, <2>6 DEF After, Wrapped
<1>8. CASE x % 8 # 7
  <2>1. (x + 1) % 8 = (x % 8) + 1 /\ (x + 1) \div 8 = x \div 8 /\ x % 8 \in 0..6
    BY <1>8
  <2>2. Value(s, k + 1) = Value(s, k) + 1 /\ Position(s, k + 1) = Position(s, k)
        /\ Value(s, k) + 1 <= 56
    BY <1>6, <2>1
  <2> QED
    BY <1>1, <1>4, <1>5, <2>2 DEF After, Wrapped
<1> QED
  BY <1>7, <1>8

InWrite(a) == pc[a] \in {"texts", "flags", "sync", "arm"}
Quiet == \A a \in Apps : ~InWrite(a)

(* Between a write and the callback the fields are those of the write; each  *)
(* stage of the callback brings them one change further.                     *)
IdleRight ==
  blink = "idle" =>
    /\ ~Quiet => count = 0
    /\ pending \/ ~Quiet =>
         count <= start.number /\ end_count = start.number /\ data = After(start, count)
    /\ ~pending /\ Quiet => count = 0 \/ count = start.number + 1

CallbackRight ==
  blink # "idle" =>
    /\ Quiet /\ end_count = start.number /\ count <= end_count + 1
    /\ blink = "count" => count = reg /\ count <= end_count /\ data = After(start, count)
    /\ blink # "count" => count >= 1
    /\ blink \in {"show", "copy", "move", "step"} => data = After(start, count - 1)
    /\ blink \in {"copy", "move", "step"} => cur = data
    /\ blink = "check" =>
         data = <<Position(start, count - 1), Value(start, count - 1) + 1>>
    /\ blink = "store" => cur = After(start, count) /\ count <= end_count
    /\ blink = "arm" => data = After(start, count) /\ count <= end_count

Seen(k) == Value(start, k) - 48

ShownRight ==
  /\ blink \in {"copy", "move", "step", "check", "store", "arm"} =>
       /\ shown.number = start.number - count + 1
       /\ shown.dot = Seen(count - 1) /\ shown.leds = Seen(count - 1)
  /\ blink \in {"check", "store", "arm"} =>
       /\ shown.led = Position(start, count - 1) - 48
       /\ shown.fnd = <<Position(start, count - 1) - 48, Seen(count - 1)>>

RunRight == IdleRight /\ CallbackRight /\ (module = "in" => ShownRight)

Live == module \in {"registered", "mapped", "in"}

RunInv ==
  ~halted /\ Undisturbed /\ Live /\ start.value \in 49..56 => RunRight

LEMMA StartAsked ==
  TypeInv /\ start.value \in 49..56 =>
    start \in Options18 /\ start.number \in 0..100
BY Zenon, OneStep DEF TypeInv, AppsTyped, Options18

(* The callback: the fields are as they were when it fired. *)
LEMMA BlinkRuns ==
  ASSUME TypeInv, IInv, LoadInv, RunInv, ~halted, Callback
  PROVE  RunInv'
<1>1. SUFFICES ASSUME ~halted', Undisturbed', Live', start.value' \in 49..56
               PROVE  RunRight'
  BY DEF RunInv
<1>2. UNCHANGED <<pc, alone, module, start>> /\ (clean' => clean) /\ Blink
  <2>1. start' = start /\ (clean' = clean \/ BlinkFires) /\ Blink
    BY DEF Callback, Blink, BlinkFires, BlinkCounts, BlinkShows, BlinkCopies,
           BlinkMoves, BlinkSteps, BlinkCloses, BlinkGoesOn, BlinkStores, BlinkArms
  <2>2. BlinkFires => (clean' => clean)
    BY Zenon DEF BlinkFires
  <2> QED
    BY <2>1, <2>2, BlinkChanges
<1>3. IdleRight /\ CallbackRight /\ (module = "in" => ShownRight)
  BY <1>1, <1>2 DEF RunInv, RunRight, Undisturbed, Live
<1>4. start \in Options18 /\ start.number \in 0..100
  BY <1>1, <1>2, StartAsked
<1>5. module' = "in" /\ module = "in"
  BY <1>1, <1>2, BlinkChanges DEF LoadInv, LoadingIsQuiet, Live, BlinkFires, BlinkGoto
<1>6. Quiet' = Quiet
  BY <1>2 DEF Quiet, InWrite
<1>7. count \in Nat /\ reg \in Nat /\ end_count \in 0..100
  BY DEF TypeInv, RunTyped
<1>8. \A k \in Nat : /\ Value(start, k) \in 49..56 /\ Position(start, k) \in 49..52
                     /\ Wrapped(<<Position(start, k), Value(start, k) + 1>>)
                          = After(start, k + 1)
  BY <1>4, OneStep
<1>9. ShownRight
  BY <1>3, <1>5
<1> USE DEF BlinkGoto
<1>10. CASE BlinkFires
  <2>1. Quiet
    BY Zenon, <1>1, <1>10 DEF BlinkFires, IInv, SyncedIsQuiet, Undisturbed, Quiet, InWrite
  <2>2. count <= start.number /\ end_count = start.number /\ data = After(start, count)
    BY <1>3, <1>10 DEF BlinkFires, IdleRight
  <2> QED
    BY <1>2, <1>6, <1>7, <1>10, <2>1, <2>2
       DEF BlinkFires, RunRight, IdleRight, CallbackRight, ShownRight
<1>11. CASE BlinkCounts
  <2>1. count' = count + 1 /\ count <= end_count /\ end_count = start.number /\ Quiet
        /\ data = After(start, count)
    BY <1>3, <1>11 DEF BlinkCounts, CallbackRight
  <2>2. count' - 1 = count
    BY <1>7, <2>1
  <2>3. data' = After(start, count' - 1)
    BY <1>11, <2>1, <2>2 DEF BlinkCounts
  <2> QED
    BY <1>2, <1>6, <1>7, <1>11, <2>1, <2>3
       DEF BlinkCounts, RunRight, IdleRight, CallbackRight, ShownRight
<1>12. CASE BlinkShows
  <2>1. /\ count >= 1 /\ count <= end_count + 1 /\ end_count = start.number /\ Quiet
        /\ data = After(start, count - 1)
    BY <1>3, <1>12 DEF BlinkShows, CallbackRight
  <2>2. data[2] = Value(start, count - 1) /\ data[2] \in 49..56
    <3>1. count - 1 \in Nat
      BY <1>7, <2>1
    <3> QED
      BY Zenon, <1>8, <2>1, <3>1 DEF After
  <2>3. /\ shown'.number = start.number - count + 1
        /\ shown'.dot = Seen(count - 1) /\ shown'.leds = Seen(count - 1)
    <3>1. /\ fpga_fnd_write(end_count - count + 1) = start.number - count + 1
          /\ fpga_dot_write(data[2]) = Seen(count - 1)
          /\ fpga_led_write(data[2]) = Seen(count - 1)
      BY <2>1, <2>2 DEF fpga_fnd_write, fpga_dot_write, fpga_led_write, Seen
    <3>2. shown \in [number : Int, dot : 0..8, leds : 0..8, led : 0..4,
                     fnd : (0..4) \X (0..8), texts : [Lines -> Text]]
      BY DEF TypeInv, ShownTyped
    <3> QED
      BY <1>12, <3>1, <3>2 DEF BlinkShows
  <2>4. Seen(count - 1)' = Seen(count - 1)
    BY <1>2, <1>12 DEF BlinkShows, Seen, Value
  <2> QED
    BY <1>2, <1>6, <1>7, <1>12, <2>1, <2>3, <2>4
       DEF BlinkShows, RunRight, IdleRight, CallbackRight, ShownRight
<1>13. CASE BlinkCopies \/ BlinkMoves
  <2>1. /\ blink \in {"copy", "move"} /\ blink' \in {"move", "step"}
        /\ UNCHANGED <<pending, count, end_count, data, reg, cur>>
        /\ shown'.number = shown.number /\ shown'.dot = shown.dot
        /\ shown'.leds = shown.leds
    <3>1. shown \in [number : Int, dot : 0..8, leds : 0..8, led : 0..4,
                     fnd : (0..4) \X (0..8), texts : [Lines -> Text]]
      BY DEF TypeInv, ShownTyped
    <3> QED
      BY <1>13, <3>1 DEF BlinkCopies, BlinkMoves
  <2>2. Seen(count - 1)' = Seen(count - 1)
    BY <1>2, <2>1 DEF Seen, Value
  <2> QED
    BY <1>2, <1>3, <1>6, <1>9, <2>1, <2>2
       DEF RunRight, IdleRight, CallbackRight, ShownRight
<1>14. CASE BlinkSteps
  <2>1. /\ count >= 1 /\ count <= end_count + 1 /\ end_count = start.number /\ Quiet
        /\ data = After(start, count - 1) /\ cur = data
    BY <1>3, <1>14 DEF BlinkSteps, CallbackRight
  <2>2. /\ data[1] = Position(start, count - 1) /\ data[2] = Value(start, count - 1)
        /\ data[1] \in 49..52 /\ data[2] \in 49..56
    <3>1. count - 1 \in Nat
      BY <1>7, <2>1
    <3> QED
      BY Zenon, <1>8, <2>1, <3>1 DEF After
  <2>3. /\ led_write(cur[1]) = Position(start, count - 1) - 48
        /\ fnd_write(data) = <<Position(start, count - 1) - 48, Seen(count - 1)>>
    BY <2>1, <2>2 DEF led_write, fnd_write, Seen
  <2>4. /\ shown'.number = shown.number /\ shown'.dot = shown.dot
        /\ shown'.leds = shown.leds
        /\ shown'.led = Position(start, count - 1) - 48
        /\ shown'.fnd = <<Position(start, count - 1) - 48, Seen(count - 1)>>
    <3>1. shown \in [number : Int, dot : 0..8, leds : 0..8, led : 0..4,
                     fnd : (0..4) \X (0..8), texts : [Lines -> Text]]
      BY DEF TypeInv, ShownTyped
    <3> QED
      BY <1>14, <2>3, <3>1 DEF BlinkSteps
  <2>5. data' = <<Position(start, count - 1), Value(start, count - 1) + 1>>
    BY <1>14, <2>2 DEF BlinkSteps
  <2>6. Seen(count - 1)' = Seen(count - 1)
    BY <1>2, <1>14 DEF BlinkSteps, Seen, Value
  <2> QED
    BY <1>2, <1>6, <1>7, <1>9, <1>14, <2>1, <2>4, <2>5, <2>6
       DEF BlinkSteps, RunRight, IdleRight, CallbackRight, ShownRight
<1>15. CASE BlinkCloses
  <2>1. count = start.number + 1 /\ Quiet
    BY <1>3, <1>4, <1>7, <1>15 DEF BlinkCloses, Over, CallbackRight
  <2>2. ~pending
    BY <1>15, <1>1, <1>2 DEF BlinkCloses, IInv, CallbackHoldsTimer, Undisturbed
  <2> QED
    BY <1>2, <1>6, <1>15, <2>1, <2>2
       DEF BlinkCloses, RunRight, IdleRight, CallbackRight, ShownRight
<1>16. CASE BlinkGoesOn
  <2>1. /\ count >= 1 /\ count <= end_count /\ end_count = start.number /\ Quiet
        /\ data = <<Position(start, count - 1), Value(start, count - 1) + 1>>
    BY <1>3, <1>7, <1>16 DEF BlinkGoesOn, Over, CallbackRight
  <2>2. Wrapped(data) = After(start, (count - 1) + 1)
    BY <1>7, <1>8, <2>1
  <2>3. cur' = After(start, count)
    BY <1>7, <1>16, <2>2 DEF BlinkGoesOn
  <2>4. Seen(count - 1)' = Seen(count - 1)
    BY <1>2, <1>16 DEF BlinkGoesOn, Seen, Value
  <2> QED
    BY <1>2, <1>6, <1>9, <1>7, <1>16, <2>1, <2>3, <2>4
       DEF BlinkGoesOn, RunRight, IdleRight, CallbackRight, ShownRight
<1>17. CASE BlinkStores
  <2>1. Seen(count - 1)' = Seen(count - 1)
    BY <1>2, <1>17 DEF BlinkStores, Seen, Value
  <2> QED
    BY <1>2, <1>3, <1>6, <1>7, <1>9, <1>17, <2>1
       DEF BlinkStores, RunRight, IdleRight, CallbackRight, ShownRight
<1>18. CASE BlinkArms
  BY <1>2, <1>3, <1>6, <1>7, <1>18
     DEF BlinkArms, RunRight, IdleRight, CallbackRight, ShownRight
<1> QED
  BY <1>2, <1>10, <1>11, <1>12, <1>13, <1>14, <1>15, <1>16, <1>17, <1>18 DEF Blink

(* An application: dev_write starts afresh, and then disturbs nothing that   *)
(* the callback has not been seen to be done with.                           *)
LEMMA AppRuns ==
  ASSUME NEW a \in Apps, TypeInv, IInv, LoadInv, RunInv, ~halted,
         Call(a) \/ App(a)
  PROVE  RunInv'
<1>1. SUFFICES ASSUME ~halted', Undisturbed', Live', start.value' \in 49..56
               PROVE  RunRight'
  BY DEF RunInv
<1>2. pc \in [Apps -> Inside \cup {"idle", "open"}]
  BY DEF TypeInv, AppsTyped
<1>3. UNCHANGED <<module, blink, reg, cur, tmp, shown>>
  BY DEF Call, App, Write, OpenTest, OpenSet, WriteCounts, WriteTexts, WriteFlags,
         WriteSync, WriteArm, Release
<1>4. alone
  <2>1. alone' = alone \/ OpenSet(a)
    BY DEF Call, App, Write, OpenTest, OpenSet, WriteCounts, WriteTexts, WriteFlags,
           WriteSync, WriteArm, Release
  <2>2. OpenSet(a) => (alone' => alone)
    BY Zenon DEF OpenSet
  <2> QED
    BY Zenon, <1>1, <2>1, <2>2 DEF Undisturbed
<1>5. OneInside /\ SyncedIsQuiet /\ CallbackHoldsTimer
  BY <1>4 DEF IInv
<1>6. count \in Nat /\ end_count \in 0..100
  BY DEF TypeInv, RunTyped
<1>7. CASE WriteCounts(a)
  <2>1. /\ count' = 0 /\ end_count' = start'.number /\ clean' = (blink = "idle")
        /\ data' = <<start'.position, start'.value>> /\ pc'[a] = "texts"
        /\ pc[a] = "write"
    BY <1>2, <1>7 DEF WriteCounts, AppGoto
  <2>2. start' \in Options18
    <3>1. start' \in Decoded
      BY <1>7 DEF WriteCounts, TypeInv, AppsTyped
    <3> QED
      BY <1>1, <3>1 DEF Options18
  <2>3. data' = After(start', 0) /\ start'.number \in 0..100
    BY Zenon, <2>1, <2>2, OneStep
  <2>4. blink = "idle"
    BY Zenon, <1>1, <2>1 DEF Undisturbed
  <2>5. ~Quiet'
    BY <2>1 DEF Quiet, InWrite
  <2> QED
    BY <1>3, <2>1, <2>3, <2>4, <2>5
       DEF RunRight, IdleRight, CallbackRight, ShownRight
<1>8. CASE ~WriteCounts(a)
  <2>1. UNCHANGED <<count, end_count, data, start, clean>>
    BY <1>8 DEF Call, App, Write, OpenTest, OpenSet, WriteTexts, WriteFlags,
                WriteSync, WriteArm, Release
  <2>2. IdleRight /\ CallbackRight /\ (module = "in" => ShownRight)
    BY <1>1, <1>3, <1>4, <2>1 DEF RunInv, RunRight, Undisturbed, Live
  <2>3. ShownRight' <=> ShownRight
    BY <1>3, <2>1 DEF ShownRight, Seen, Value
  <2>4. IdleRight' /\ (blink # "idle" => Quiet')
    <3>1. CASE Call(a) \/ OpenTest(a) \/ OpenSet(a) \/ Release(a)
      <4>1. pending' = pending /\ \A b \in Apps : InWrite(b)' <=> InWrite(b)
        BY <1>2, <3>1 DEF Call, OpenTest, OpenSet, Release, AppGoto, InWrite
      <4> QED
        BY <1>3, <2>1, <2>2, <4>1 DEF IdleRight, CallbackRight, Quiet
    <3>2. CASE WriteTexts(a) \/ WriteFlags(a)
      <4>1. pending' = pending /\ \A b \in Apps : InWrite(b)' <=> InWrite(b)
        BY <1>2, <3>2 DEF WriteTexts, WriteFlags, AppGoto, InWrite
      <4> QED
        BY <1>3, <2>1, <2>2, <4>1 DEF IdleRight, CallbackRight, Quiet
    <3>3. CASE WriteSync(a)
      <4>1. blink = "idle" /\ InWrite(a) /\ InWrite(a)'
        BY <1>2, <3>3 DEF WriteSync, AppGoto, InWrite
      <4>2. /\ ~Quiet /\ ~Quiet' /\ count = 0 /\ count <= start.number
            /\ end_count = start.number /\ data = After(start, count)
        BY <2>2, <4>1 DEF IdleRight, Quiet
      <4> QED
        BY <1>3, <2>1, <4>1, <4>2 DEF IdleRight
    <3>4. CASE WriteArm(a)
      <4>1. blink = "idle" /\ InWrite(a) /\ pending' /\ pc[a] = "arm"
        BY <1>2, <1>5, <3>4 DEF WriteArm, AppGoto, InWrite, SyncedIsQuiet
      <4>2. /\ count = 0 /\ count <= start.number
            /\ end_count = start.number /\ data = After(start, count)
        BY <2>2, <4>1 DEF IdleRight, Quiet
      <4> QED
        BY <1>3, <2>1, <4>1, <4>2 DEF IdleRight
    <3> QED
      BY <1>8, <3>1, <3>2, <3>3, <3>4 DEF App, Write
  <2>5. CallbackRight'
    BY <1>3, <2>1, <2>2, <2>4 DEF CallbackRight, After, Value, Position
  <2> QED
    BY <1>3, <2>2, <2>3, <2>4, <2>5 DEF RunRight
<1> QED
  BY <1>7, <1>8

LEMMA ModuleRuns ==
  ASSUME TypeInv, LoadInv, RunInv, ~halted, Register \/ Load \/ Unmap \/ Unload
  PROVE  RunInv'
<1>1. SUFFICES ASSUME ~halted', Undisturbed', Live', start.value' \in 49..56
               PROVE  RunRight'
  BY DEF RunInv
<1>2. CASE Register
  <2>1. ~pending' /\ blink' = "idle" /\ Quiet' /\ count' = 0
    BY Zenon, <1>1, <1>2 DEF Register, Quiet, InWrite, Inside
  <2> QED
    BY <2>1 DEF RunRight, IdleRight, CallbackRight, ShownRight
<1>3. CASE Map \/ InitTimer
  <2>1. /\ module \in {"registered", "mapped"}
        /\ UNCHANGED <<pc, pending, blink, count, end_count, data, start, clean,
                       alone, halted>>
    BY <1>3 DEF Map, InitTimer, ModuleGoto
  <2>2. blink = "idle" /\ IdleRight
    BY <1>1, <2>1 DEF LoadInv, LoadingIsQuiet, RunInv, RunRight, Live, Undisturbed
  <2>3. IdleRight'
    BY <2>1, <2>2 DEF IdleRight, Quiet, InWrite, After, Value, Position
  <2> QED
    BY <2>1, <2>2, <2>3 DEF RunRight, CallbackRight, ShownRight
<1>4. CASE MapFails \/ Unmap \/ Unload
  BY <1>1, <1>4 DEF MapFails, Unmap, Unload, UnloadSync, Unregister, ModuleGoto, Live
<1> QED
  BY <1>2, <1>3, <1>4 DEF Load

(* The kth change of an undisturbed run shows the value k - 1 steps after    *)
(* the option at its position, and the changes that are left; a run that has *)
(* ended has made them all. For every option, number and write.              *)
THEOREM RunsAsAsked == Spec => []RunShowsWhatWasAsked
<1>1. Init => LoadInv /\ RunInv
  BY DEF Init, LoadInv, LoadingIsQuiet, HaltedIsOut, RunInv
<1>2. TypeInv /\ IInv /\ LoadInv /\ RunInv /\ [Next]_vars => LoadInv' /\ RunInv'
  <2> SUFFICES ASSUME TypeInv, IInv, LoadInv, RunInv, [Next]_vars
               PROVE  LoadInv' /\ RunInv'
    OBVIOUS
  <2>1. CASE UNCHANGED vars
    BY <2>1, StepLoads
       DEF RunInv, RunRight, IdleRight, CallbackRight, ShownRight, Undisturbed,
           Live, Quiet, InWrite, After, Value, Position, Seen
  <2>2. CASE Next
    BY <2>2, StepLoads, BlinkRuns, AppRuns, ModuleRuns DEF Next
  <2> QED
    BY <2>1, <2>2
<1>3. TypeInv /\ IInv /\ LoadInv /\ RunInv => RunShowsWhatWasAsked
  <2> SUFFICES ASSUME TypeInv, IInv, LoadInv, RunInv, Undisturbed,
                      start.value \in 49..56, module = "in"
               PROVE  LET steps == start.value - 49 + count - 1
                          value == 1 + (steps % 8)
                          position == 1 + ((start.position - 49 + (steps \div 8)) % 4)
                      IN  /\ blink \in {"check", "store", "arm"} =>
                               shown = [number |-> start.number - count + 1,
                                        dot |-> value, leds |-> value,
                                        led |-> position,
                                        fnd |-> <<position, value>>,
                                        texts |-> shown.texts]
                          /\ blink = "idle" /\ ~pending /\ count > 0 =>
                               count = start.number + 1
    BY DEF RunShowsWhatWasAsked
  <2>1. RunRight /\ ShownRight
    BY DEF LoadInv, HaltedIsOut, RunInv, RunRight, Live
  <2>2. count \in Nat /\ start \in Options18 /\ start.number \in 0..100
    BY StartAsked DEF TypeInv, RunTyped
  <2>3. ASSUME blink \in {"check", "store", "arm"}
        PROVE  LET steps == start.value - 49 + count - 1
                   value == 1 + (steps % 8)
                   position == 1 + ((start.position - 49 + (steps \div 8)) % 4)
               IN  shown = [number |-> start.number - count + 1,
                            dot |-> value, leds |-> value,
                            led |-> position,
                            fnd |-> <<position, value>>,
                            texts |-> shown.texts]
    <3> DEFINE steps == start.value - 49 + count - 1
               value == 1 + (steps % 8)
               position == 1 + ((start.position - 49 + (steps \div 8)) % 4)
    <3>1. start.value \in Int /\ start.position \in Int
      BY <2>2 DEF Options18, Decoded
    <3>2. steps = start.value - 49 + (count - 1) /\ steps \in Int
      BY <2>2, <3>1
    <3>3. steps % 8 \in Int /\ steps \div 8 \in Int
      BY <3>2
    <3>4. Seen(count - 1) = value
      BY <3>2, <3>3 DEF Seen, Value
    <3>5. (start.position - 49 + (steps \div 8)) % 4 \in Int
      BY <3>1, <3>3
    <3>6. Position(start, count - 1) - 48 = position
      BY <3>2, <3>5 DEF Position
    <3>7. /\ shown.number = start.number - count + 1
          /\ shown.dot = value /\ shown.leds = value
          /\ shown.led = position /\ shown.fnd = <<position, value>>
      BY <2>1, <2>3, <3>4, <3>6 DEF ShownRight
    <3>8. shown = [number |-> shown.number, dot |-> shown.dot, leds |-> shown.leds,
                   led |-> shown.led, fnd |-> shown.fnd, texts |-> shown.texts]
      BY DEF TypeInv, ShownTyped
    <3> HIDE DEF value, position
    <3>9. shown = [number |-> start.number - count + 1, dot |-> value,
                   leds |-> value, led |-> position, fnd |-> <<position, value>>,
                   texts |-> shown.texts]
      BY <3>7, <3>8
    <3> QED
      BY <3>9 DEF value, position
  <2>4. blink = "idle" /\ ~pending /\ count > 0 => count = start.number + 1
    BY <2>1, <2>2 DEF RunRight, IdleRight
  <2> QED
    BY <2>3, <2>4
<1> QED
  BY <1>1, <1>2, <1>3, InitTyped, InitArmed, StepTyped, StepArmed, PTL DEF Spec

-----------------------------------------------------------------------------
(* The texts. A line with its first character in column o + 1 fits on the    *)
(* display; it roams while it may still move on in its direction.            *)
LineAt(l, o) ==
  [c \in Columns |-> IF c - o \in 1..Lengths[l] THEN c - o ELSE Space]
Offsets(l) == 0..(Width - Lengths[l])

Whole(line, l) == \E o \in Offsets(l) : line = LineAt(l, o)

Roams(l) ==
  \E o \in Offsets(l) :
    /\ text[l] = LineAt(l, o)
    /\ IF right[l] THEN o < Width - Lengths[l] ELSE o > 0

Roaming == \A l \in Lines : Roams(l)

(* dev_write places both lines and then sends them to the right; from then   *)
(* on they roam.                                                             *)
WrittenLines ==
  /\ \A a \in Apps : pc[a] = "flags" => \A l \in Lines : text[l] = LineAt(l, 0)
  /\ (\E a \in Apps : pc[a] \in {"sync", "arm"}) => Roaming
  /\ pending /\ (\A a \in Apps : pc[a] \notin {"texts", "flags"}) => Roaming

MovedLines ==
  /\ blink # "idle" => Quiet /\ Roaming
  /\ blink = "move" => tmp = text

ShownLines ==
  blink \in {"move", "step", "check", "store", "arm"} =>
    \A l \in Lines : Whole(shown.texts[l], l)

LinesRight == WrittenLines /\ MovedLines /\ (module = "in" => ShownLines)

TextInv == ~halted /\ Undisturbed /\ Live => LinesRight

LEMMA LengthsFit ==
  Width \in Nat /\ \A l \in Lines : Lengths[l] \in 1..(Width - 1)
BY BlinkAssumption DEF Lines

(* One move of a line that roams: it is whole, and turns before it cannot    *)
(* move on.                                                                  *)
LEMMA MovesWhole ==
  ASSUME NEW l \in Lines, NEW o \in Offsets(l), NEW t, t = LineAt(l, o),
         NEW r \in BOOLEAN, r => o < Width - Lengths[l], ~r => o > 0,
         NEW m, m = (IF r THEN MoveRight(t) ELSE MoveLeft(t)),
         NEW q \in BOOLEAN, r => (q <=> m[Width] = Space), ~r => (q <=> m[1] # Space)
  PROVE  \E p \in Offsets(l) :
           m = LineAt(l, p) /\ (IF q THEN p < Width - Lengths[l] ELSE p > 0)
<1>1. Width \in Nat /\ Lengths[l] \in 1..(Width - 1) /\ o \in 0..(Width - Lengths[l])
  BY LengthsFit DEF Offsets
<1>2. CASE r
  <2>1. o + 1 \in Offsets(l)
    BY <1>1, <1>2 DEF Offsets
  <2>2. m = LineAt(l, o + 1)
    BY <1>1, <1>2 DEF MoveRight, LineAt, Columns, Space
  <2>3. m[Width] = Space <=> o + 1 < Width - Lengths[l]
    BY <1>1, <1>2, <2>2 DEF LineAt, Columns, Space
  <2>4. IF q THEN o + 1 < Width - Lengths[l] ELSE o + 1 > 0
    BY <1>1, <1>2, <2>3
  <2> QED
    BY <2>1, <2>2, <2>4
<1>3. CASE ~r
  <2>1. o - 1 \in Offsets(l)
    BY <1>1, <1>3 DEF Offsets
  <2>2. m = LineAt(l, o - 1)
    BY <1>1, <1>3 DEF MoveLeft, LineAt, Columns, Space
  <2>3. m[1] # Space <=> o - 1 = 0
    BY <1>1, <1>3, <2>2 DEF LineAt, Columns, Space
  <2>4. IF q THEN o - 1 < Width - Lengths[l] ELSE o - 1 > 0
    BY <1>1, <1>3, <2>3
  <2> QED
    BY <2>1, <2>2, <2>4
<1> QED
  BY <1>2, <1>3

LEMMA MessageAt == \A l \in Lines : Message(l) = LineAt(l, 0) /\ 0 \in Offsets(l)
BY LengthsFit DEF Message, LineAt, Columns, Offsets

(* The callback shows whole lines and moves them.                            *)
LEMMA BlinkTexts ==
  ASSUME TypeInv, IInv, LoadInv, TextInv, ~halted, Callback PROVE TextInv'
<1>1. SUFFICES ASSUME ~halted', Undisturbed', Live' PROVE LinesRight'
  BY DEF TextInv
<1>2. /\ Blink /\ UNCHANGED <<module, start, pc, alone>>
      /\ clean /\ (BlinkFires => \A a \in Apps : pc[a] \notin {"texts", "flags", "sync"})
  <2>1. Blink /\ UNCHANGED <<module, start, pc, alone>>
    BY DEF Callback, Blink, BlinkFires, BlinkCounts, BlinkShows, BlinkCopies,
           BlinkMoves, BlinkSteps, BlinkCloses, BlinkGoesOn, BlinkStores, BlinkArms
  <2>2. CASE BlinkFires
    BY <1>1, <2>1, <2>2, Zenon DEF BlinkFires, Undisturbed
  <2>3. CASE ~BlinkFires
    BY <1>1, <2>1, <2>3, Zenon
       DEF Undisturbed, Blink, BlinkCounts, BlinkShows, BlinkCopies, BlinkMoves,
           BlinkSteps, BlinkCloses, BlinkGoesOn, BlinkStores, BlinkArms
  <2> QED
    BY <2>1, <2>2, <2>3
<1>3. WrittenLines /\ MovedLines /\ (module = "in" => ShownLines)
  BY <1>1, <1>2 DEF TextInv, LinesRight, Undisturbed, Live
<1>4. Quiet' <=> Quiet
  BY <1>2 DEF Quiet, InWrite
<1>5. ASSUME UNCHANGED <<text, right>> PROVE Roaming' <=> Roaming
  BY <1>5 DEF Roaming, Roams
<1> USE DEF BlinkGoto
<1>7. CASE BlinkFires
  <2>1. Quiet /\ Roaming
    <3>1. pending /\ SyncedIsQuiet
      BY <1>1, <1>2, <1>7 DEF BlinkFires, IInv, Undisturbed
    <3>2. \A a \in Apps : pc[a] \notin {"texts", "flags", "sync"}
      BY <1>2, <1>7
    <3>3. Quiet
      BY Zenon, <3>1, <3>2 DEF SyncedIsQuiet, Quiet, InWrite
    <3> QED
      BY <1>3, <3>1, <3>2, <3>3 DEF WrittenLines
  <2> QED
    BY <1>2, <1>4, <1>5, <1>7, <2>1
       DEF BlinkFires, LinesRight, WrittenLines, MovedLines, ShownLines, Quiet, InWrite
<1>8. CASE BlinkCounts \/ BlinkShows \/ BlinkCopies \/ BlinkSteps \/ BlinkGoesOn
             \/ BlinkStores \/ BlinkArms \/ BlinkCloses
  <2>1. /\ UNCHANGED <<text, right>> /\ blink # "idle"
        /\ blink' = "move" => tmp' = text'
    BY <1>8 DEF BlinkCounts, BlinkShows, BlinkCopies, BlinkSteps, BlinkGoesOn,
                BlinkStores, BlinkArms, BlinkCloses
  <2>2. Quiet' /\ Roaming'
    BY <1>3, <1>4, <1>5, <2>1 DEF MovedLines
  <2>3. WrittenLines' /\ MovedLines'
    BY <2>1, <2>2 DEF WrittenLines, MovedLines, Quiet, InWrite
  <2>4. module = "in" => ShownLines'
    <3> SUFFICES ASSUME module = "in",
                        blink' \in {"move", "step", "check", "store", "arm"},
                        NEW l \in Lines
                 PROVE  Whole(shown'.texts[l], l)
      BY DEF ShownLines, Whole, LineAt, Offsets
    <3>1. shown \in [number : Int, dot : 0..8, leds : 0..8, led : 0..4,
                     fnd : (0..4) \X (0..8), texts : [Lines -> Text]]
      BY DEF TypeInv, ShownTyped
    <3>2. CASE BlinkCopies
      <4>1. shown'.texts = text /\ Roams(l)
        BY <1>3, <3>1, <3>2 DEF BlinkCopies, fpga_text_write, MovedLines, Roaming
      <4> QED
        BY <4>1 DEF Roams, Whole
    <3>3. CASE ~BlinkCopies
      <4>1. shown'.texts = shown.texts /\ blink \in {"move", "step", "check", "store", "arm"}
        BY Zenon, <1>8, <3>1, <3>3
           DEF BlinkCounts, BlinkShows, BlinkSteps, BlinkGoesOn,
               BlinkStores, BlinkArms, BlinkCloses
      <4> QED
        BY <1>3, <4>1 DEF ShownLines
    <3> QED
      BY <3>2, <3>3
  <2> QED
    BY <1>2, <2>3, <2>4 DEF LinesRight
<1>9. CASE BlinkMoves
  <2>1. Quiet /\ Roaming /\ tmp = text /\ (module = "in" => ShownLines)
    BY <1>3, <1>9 DEF BlinkMoves, MovedLines
  <2>2. ASSUME NEW l \in Lines PROVE Roams(l)'
    <3>1. PICK o \in Offsets(l) :
            text[l] = LineAt(l, o) /\ IF right[l] THEN o < Width - Lengths[l] ELSE o > 0
      BY <2>1 DEF Roaming, Roams
    <3>2. right[l] \in BOOLEAN
      BY DEF TypeInv, TextsTyped
    <3>3. /\ text'[l] = IF right[l] THEN MoveRight(text[l]) ELSE MoveLeft(text[l])
          /\ right[l] => (right'[l] <=> text'[l][Width] = Space)
          /\ ~right[l] => (right'[l] <=> text'[l][1] # Space)
          /\ right'[l] \in BOOLEAN
      BY Zenon, <1>9, <2>1 DEF BlinkMoves
    <3>4. \E p \in Offsets(l) :
            /\ text'[l] = LineAt(l, p)
            /\ IF right'[l] THEN p < Width - Lengths[l] ELSE p > 0
      BY <3>1, <3>2, <3>3, MovesWhole
    <3> QED
      BY <3>4 DEF Roams, LineAt, Offsets
  <2>3. Quiet' /\ Roaming'
    BY <1>4, <2>1, <2>2 DEF Roaming
  <2>4. WrittenLines' /\ MovedLines'
    BY <1>9, <2>3 DEF BlinkMoves, WrittenLines, MovedLines, Quiet, InWrite
  <2>5. module = "in" => ShownLines'
    BY <1>9, <2>1 DEF BlinkMoves, ShownLines, Whole, LineAt, Offsets
  <2> QED
    BY <1>2, <2>4, <2>5 DEF LinesRight
<1> QED
  BY <1>2, <1>7, <1>8, <1>9 DEF Blink

(* dev_write places the lines anew while the callback is idle.               *)
LEMMA AppTexts ==
  ASSUME NEW a \in Apps, TypeInv, IInv, LoadInv, TextInv, ~halted,
         Call(a) \/ App(a)
  PROVE  TextInv'
<1>1. SUFFICES ASSUME ~halted', Undisturbed', Live' PROVE LinesRight'
  BY DEF TextInv
<1>2. pc \in [Apps -> Inside \cup {"idle", "open"}]
  BY DEF TypeInv, AppsTyped
<1>3. UNCHANGED <<module, blink, tmp, shown>>
  BY DEF Call, App, Write, OpenTest, OpenSet, WriteCounts, WriteTexts, WriteFlags,
         WriteSync, WriteArm, Release
<1>4. alone
  <2>1. alone' = alone \/ OpenSet(a)
    BY DEF Call, App, Write, OpenTest, OpenSet, WriteCounts, WriteTexts, WriteFlags,
           WriteSync, WriteArm, Release
  <2>2. OpenSet(a) => (alone' => alone)
    BY Zenon DEF OpenSet
  <2> QED
    BY Zenon, <1>1, <2>1, <2>2 DEF Undisturbed
<1>5. OneInside /\ SyncedIsQuiet
  BY <1>4 DEF IInv
<1>6. (ShownLines' <=> ShownLines)
  BY <1>3 DEF ShownLines, Whole, LineAt, Offsets
<1>7. CASE WriteCounts(a)
  <2>1. blink = "idle" /\ pc[a] = "write" /\ pc' = [pc EXCEPT ![a] = "texts"]
    BY Zenon, <1>1, <1>7 DEF WriteCounts, AppGoto, Undisturbed
  <2>2. \A b \in Apps : pc'[b] \notin {"flags", "sync", "arm"}
    BY <1>2, <1>5, <2>1 DEF OneInside, Opened, Inside
  <2> QED
    BY <1>2, <1>3, <2>1, <2>2 DEF LinesRight, WrittenLines, MovedLines, ShownLines
<1>8. CASE ~WriteCounts(a)
  <2>1. clean' = clean
    BY <1>8 DEF Call, App, Write, OpenTest, OpenSet, WriteTexts, WriteFlags,
                WriteSync, WriteArm, Release
  <2>2. LinesRight
    BY <1>1, <1>3, <1>4, <2>1 DEF TextInv, Undisturbed, Live
  <2>3. ASSUME UNCHANGED <<text, right>> PROVE Roaming' <=> Roaming
    BY <2>3 DEF Roaming, Roams
  <2>4. CASE Call(a) \/ OpenTest(a) \/ OpenSet(a) \/ Release(a)
    <3>1. /\ UNCHANGED <<text, right, pending>>
          /\ \A b \in Apps : pc'[b] \in {"texts", "flags", "sync", "arm"}
                               => pc'[b] = pc[b]
          /\ \A b \in Apps : pc[b] \in {"texts", "flags", "sync", "arm"}
                               => pc'[b] = pc[b]
      BY <1>2, <2>4 DEF Call, OpenTest, OpenSet, Release, AppGoto
    <3> QED
      BY <1>2, <1>3, <1>6, <2>2, <2>3, <3>1
         DEF LinesRight, WrittenLines, MovedLines, Quiet, InWrite
  <2>5. CASE WriteTexts(a) \/ WriteFlags(a) \/ WriteSync(a) \/ WriteArm(a)
    <3>1. blink = "idle" /\ pc[a] \in {"texts", "flags", "sync", "arm"}
      <4>1. pc[a] \in {"texts", "flags", "sync", "arm"}
        BY <2>5 DEF WriteTexts, WriteFlags, WriteSync, WriteArm, AppGoto
      <4> QED
        BY <2>2, <4>1 DEF LinesRight, MovedLines, Quiet, InWrite
    <3>2. MovedLines' /\ (module' = "in" => ShownLines')
      BY <1>3, <3>1 DEF MovedLines, ShownLines
    <3>3. \A b \in Apps \ {a} : pc'[b] \notin {"texts", "flags", "sync", "arm"}
      BY <1>2, <1>5, <2>5, <3>1
         DEF OneInside, Opened, Inside, WriteTexts, WriteFlags, WriteSync,
             WriteArm, AppGoto
    <3>4. CASE WriteTexts(a)
      <4>1. pc'[a] = "flags" /\ \A l \in Lines : text'[l] = LineAt(l, 0)
        BY <1>2, <3>4, MessageAt DEF WriteTexts, AppGoto
      <4> QED
        BY <3>2, <3>3, <4>1 DEF LinesRight, WrittenLines, LineAt
    <3>5. CASE WriteFlags(a)
      <4>1. /\ pc[a] = "flags" /\ pc'[a] = "sync"
            /\ \A l \in Lines : text'[l] = text[l] /\ right'[l] = TRUE
        BY <1>2, <3>5 DEF WriteFlags, AppGoto
      <4>2. ASSUME NEW l \in Lines PROVE Roams(l)'
        <5>1. text'[l] = LineAt(l, 0) /\ 0 \in Offsets(l) /\ 0 < Width - Lengths[l]
          BY <2>2, <4>1, MessageAt, LengthsFit DEF LinesRight, WrittenLines
        <5> QED
          BY <4>1, <5>1 DEF Roams, LineAt, Offsets
      <4>3. Roaming'
        BY <4>2 DEF Roaming
      <4> QED
        BY <3>2, <3>3, <4>1, <4>3 DEF LinesRight, WrittenLines
    <3>6. CASE WriteSync(a) \/ WriteArm(a)
      <4>1. /\ pc[a] \in {"sync", "arm"} /\ pc'[a] \in {"arm", "release"}
            /\ UNCHANGED <<text, right>>
        BY <1>2, <3>6 DEF WriteSync, WriteArm, AppGoto
      <4>2. Roaming'
        BY <2>2, <2>3, <4>1 DEF LinesRight, WrittenLines
      <4> QED
        BY <3>2, <3>3, <4>1, <4>2 DEF LinesRight, WrittenLines
    <3> QED
      BY <2>5, <3>4, <3>5, <3>6
  <2> QED
    BY <1>8, <2>4, <2>5 DEF App, Write
<1> QED
  BY <1>7, <1>8

LEMMA ModuleTexts ==
  ASSUME TypeInv, LoadInv, TextInv, ~halted, Register \/ Load \/ Unmap \/ Unload
  PROVE  TextInv'
<1>1. SUFFICES ASSUME ~halted', Undisturbed', Live' PROVE LinesRight'
  BY DEF TextInv
<1>2. CASE Register
  <2>1. ~pending' /\ blink' = "idle" /\ \A a \in Apps : pc'[a] \notin Inside
    BY Zenon, <1>1, <1>2 DEF Register
  <2> QED
    BY <2>1 DEF LinesRight, WrittenLines, MovedLines, ShownLines, Inside
<1>3. CASE Map \/ InitTimer
  <2>1. /\ module \in {"registered", "mapped"}
        /\ UNCHANGED <<pc, pending, blink, text, right, tmp, clean, alone, halted>>
    BY <1>3 DEF Map, InitTimer, ModuleGoto
  <2>2. blink = "idle" /\ WrittenLines
    BY <1>1, <2>1
       DEF LoadInv, LoadingIsQuiet, TextInv, LinesRight, Live, Undisturbed
  <2>3. WrittenLines'
    BY <2>1, <2>2 DEF WrittenLines, Roaming, Roams, LineAt
  <2> QED
    BY <2>1, <2>2, <2>3 DEF LinesRight, MovedLines, ShownLines
<1>4. CASE MapFails \/ Unmap \/ Unload
  BY <1>1, <1>4 DEF MapFails, Unmap, Unload, UnloadSync, Unregister, ModuleGoto, Live
<1> QED
  BY <1>2, <1>3, <1>4 DEF Load

(* In an undisturbed run no move shifts a character of either line out of    *)
(* the display, whatever the width and the lengths of the lines.             *)
THEOREM TextsWhole == Spec => []TextsStayWhole
<1>1. Init => LoadInv /\ TextInv
  BY DEF Init, LoadInv, LoadingIsQuiet, HaltedIsOut, TextInv, Live
<1>2. TypeInv /\ IInv /\ LoadInv /\ TextInv /\ [Next]_vars => LoadInv' /\ TextInv'
  <2> SUFFICES ASSUME TypeInv, IInv, LoadInv, TextInv, [Next]_vars
               PROVE  LoadInv' /\ TextInv'
    OBVIOUS
  <2>1. CASE UNCHANGED vars
    BY <2>1, StepLoads
       DEF TextInv, LinesRight, WrittenLines, MovedLines, ShownLines, Undisturbed,
           Live, Quiet, InWrite, Roaming, Roams, Whole, LineAt, Offsets
  <2>2. CASE Next
    BY <2>2, StepLoads, BlinkTexts, AppTexts, ModuleTexts DEF Next
  <2> QED
    BY <2>1, <2>2
<1>3. LoadInv /\ TextInv => TextsStayWhole
  <2> SUFFICES ASSUME LoadInv, TextInv, Undisturbed, module = "in",
                      blink \in {"check", "store", "arm"}, NEW l \in Lines
               PROVE  \E o \in 0..(Width - Lengths[l]) : \A c \in Columns :
                        shown.texts[l][c] =
                          IF c - o \in 1..Lengths[l] THEN c - o ELSE Space
    BY DEF TextsStayWhole
  <2>1. Whole(shown.texts[l], l)
    BY DEF LoadInv, HaltedIsOut, TextInv, LinesRight, ShownLines, Live
  <2> QED
    BY <2>1 DEF Whole, Offsets, LineAt
<1> QED
  BY <1>1, <1>2, <1>3, InitTyped, InitArmed, StepTyped, StepArmed, PTL DEF Spec
=============================================================================
