---------------------------- MODULE BlinkDriver ----------------------------
(***************************************************************************)
(* The device driver of HW2 (HW2/module/dev_driver.c) and what drives it:  *)
(* an application packs its options with a system call into four bytes and *)
(* writes them to the driver, whose timer callback then shows one          *)
(* character after another on all devices of the board, with a number that *)
(* counts down and two texts that move to and fro. The module may be       *)
(* unloaded at any time, since dev_fops names no owner, and loaded again.  *)
(***************************************************************************)
EXTENDS Integers, Sequences

CONSTANTS
  Apps,     \* application processes
  Options,  \* their option strings, four digits as character codes
  Numbers,  \* their numbers of changes
  Width,    \* cells of a line of the text display, 16 in the code
  Lengths,  \* lengths of the lines "id" and "name", 8 and 10 in the code
  Writes,   \* bounds the writes
  Loads     \* bounds how often the module is loaded

ASSUME BlinkAssumption ==
  /\ Options \subseteq [1..4 -> 48..57]
  /\ Numbers \subseteq 0..100
  /\ Width \in Nat /\ Lengths \in [{"id", "name"} -> 1..(Width - 1)]
  /\ Writes \in Nat /\ Loads \in Nat

VARIABLES
  module,      \* "out", "registered", "mapped", "in", "unmapped", "synced", or
               \* "failed" after an ioremap has failed
  loadsLeft,   \* loads still to come
  halted,      \* the kernel has run code that is gone, or used an address that
               \* is not mapped or a timer that is not initialised
  dev_usage,   \* the device is open
  pending,     \* mytimer.timer is in the kernel's list
  count,       \* mytimer.count
  end_count,   \* mytimer.end_count
  data,        \* mytimer.data, position and value
  text,        \* mytimer.id and name
  right,       \* mytimer.id_flag and name_flag
  blink,       \* progress of kernel_timer_blink
  reg,         \* the count that it has loaded
  cur,         \* its position and value
  tmp,         \* the texts that fpga_text_calculate has copied
  shown,       \* what the devices show
  pc,          \* progress of each application
  stream,      \* the four bytes that it writes
  writesLeft,  \* writes still to come
  clean,       \* no write overlapped with the callback (history)
  alone,       \* no two applications have had the device open (history)
  start,       \* the data that the last write brought (history)
  entered,     \* the device was open while the module was not in (history)
  cut          \* the module was unloaded during a run (history)

kernel == <<module, loadsLeft, halted, entered, cut>>
timer == <<count, end_count, data, text, right>>
blinkVars == <<blink, reg, cur, tmp>>
apps == <<pc, stream, writesLeft>>
history == <<clean, alone, start>>
vars == <<kernel, dev_usage, pending, timer, blinkVars, shown, apps, history>>

Lines == {"id", "name"}
Columns == 1..Width
Space == 0
Blank == [l \in Lines |-> [c \in Columns |-> Space]]
Inside == {"use", "write", "texts", "flags", "sync", "arm", "release"}

(* The characters of a line are told apart by their place in it. *)
Message(l) == [c \in Columns |-> IF c <= Lengths[l] THEN c ELSE Space]

-----------------------------------------------------------------------------
(* sys_returncall: the first digit that is not '0' gives position and value; *)
(* they, the time (left out, a zero byte here) and the number make a stream. *)
Encode(o, n) ==
  LET p == CHOOSE q \in 1..4 :
             (o[q] # 48 \/ q = 4) /\ \A r \in 1..(q - 1) : o[r] = 48
  IN  (48 + p) * 2^24 + o[p] * 2^16 + n

(* dev_write takes the stream apart again. *)
Byte(s, i) == (s \div 2^(8 * i)) % 256
DecodeUnmasked(s) ==  \* mutant: the number is not cut out of the stream
  [number |-> s % 2^24, value |-> Byte(s, 2), position |-> Byte(s, 3)]

Decode(s) ==
  [number |-> Byte(s, 0), value |-> Byte(s, 2), position |-> Byte(s, 3)]

-----------------------------------------------------------------------------
(* The devices: what they show of a value '1' to '8' and a position '1' to   *)
(* '4', and 0 if they are off; the number; and the texts.                    *)
fpga_fnd_write(n) == n
fpga_dot_write(v) == IF v \in 49..56 THEN v - 48 ELSE 0
fpga_led_write(v) == IF v \in 49..56 THEN v - 48 ELSE 0
led_write(p) == IF p \in 49..52 THEN p - 48 ELSE 0
fnd_write(d) == <<IF d[1] \in 49..52 THEN d[1] - 48 ELSE 0,
                  IF d[2] \in 49..56 THEN d[2] - 48 ELSE 0>>
fpga_text_write(t) == t

(* close_devices writes zeros to all of them. *)
Off == [number |-> fpga_fnd_write(0), dot |-> fpga_dot_write(0),
        leds |-> fpga_led_write(0), led |-> led_write(0),
        fnd |-> fnd_write(<<0, 0>>), texts |-> fpga_text_write(Blank)]

-----------------------------------------------------------------------------
Init ==
  /\ module = "out" /\ loadsLeft = Loads /\ halted = FALSE
  /\ entered = FALSE /\ cut = FALSE
  /\ dev_usage = 0 /\ pending = FALSE
  /\ count = 0 /\ end_count = 0 /\ data = <<0, 0>>
  /\ text = Blank
  /\ right = [l \in Lines |-> FALSE]
  /\ blink = "idle" /\ reg = 0 /\ cur = <<0, 0>> /\ tmp = text
  /\ shown = Off
  /\ pc = [a \in Apps |-> "idle"] /\ stream = [a \in Apps |-> 0]
  /\ writesLeft = Writes
  /\ clean = TRUE /\ alone = TRUE /\ start = [number |-> 0, value |-> 0, position |-> 0]

BlinkGoto(from, to) == blink = from /\ blink' = to

(* kernel_timer_blink: the timer leaves the list and count is loaded ... *)
BlinkFires ==
  /\ pending /\ pending' = FALSE
  /\ BlinkGoto("idle", "count")
  /\ reg' = count
  /\ clean' = (clean /\ \A a \in Apps : pc[a] \notin {"texts", "flags", "sync"})
  /\ UNCHANGED <<dev_usage, timer, cur, tmp, shown, apps, alone, start>>

(* ... and stored incremented. *)
BlinkCounts ==
  /\ BlinkGoto("count", "show")
  /\ count' = reg + 1 /\ reg' = 0
  /\ UNCHANGED <<dev_usage, pending, end_count, data, text, right, cur, tmp, shown,
                 apps, history>>

(* The number, the dot matrix and the LEDs of the value. *)
BlinkShows ==
  /\ BlinkGoto("show", "copy")
  /\ cur' = data
  /\ shown' = [shown EXCEPT !.number = fpga_fnd_write(end_count - count + 1),
                            !.dot = fpga_dot_write(data[2]),
                            !.leds = fpga_led_write(data[2])]
  /\ UNCHANGED <<dev_usage, pending, timer, reg, tmp, apps, history>>

(* fpga_text_calculate(1): the texts are copied for the display ... *)
BlinkCopies ==
  /\ BlinkGoto("copy", "move")
  /\ tmp' = text
  /\ shown' = [shown EXCEPT !.texts = fpga_text_write(text)]
  /\ UNCHANGED <<dev_usage, pending, timer, reg, cur, apps, history>>

(* ... and moved by one column, from the copy; a line that has come to an    *)
(* end of the display turns round.                                           *)
MoveRight(t) == [c \in Columns |-> IF c = 1 THEN Space ELSE t[c - 1]]
MoveLeft(t) == [c \in Columns |-> IF c = Width THEN Space ELSE t[c + 1]]

TurnLate ==  \* mutant: the ends are tested before the move
  /\ BlinkGoto("move", "step")
  /\ text' = [l \in Lines |->
                IF right[l] THEN MoveRight(tmp[l]) ELSE MoveLeft(tmp[l])]
  /\ right' = [l \in Lines |->
                 IF right[l] THEN text[l][Width] = Space ELSE text[l][1] # Space]
  /\ tmp' = Blank
  /\ UNCHANGED <<dev_usage, pending, count, end_count, data, reg, cur, shown, apps,
                 history>>

BlinkMoves ==
  /\ BlinkGoto("move", "step")
  /\ text' = [l \in Lines |->
                IF right[l] THEN MoveRight(tmp[l]) ELSE MoveLeft(tmp[l])]
  /\ right' = [l \in Lines |->
                 IF right[l] THEN text'[l][Width] = Space ELSE text'[l][1] # Space]
  /\ tmp' = Blank
  /\ UNCHANGED <<dev_usage, pending, count, end_count, data, reg, cur, shown, apps,
                 history>>

(* The LED of the position; fnd_write shows both, and returns the data with  *)
(* the next value.                                                           *)
BlinkSteps ==
  /\ BlinkGoto("step", "check")
  /\ shown' = [shown EXCEPT !.led = led_write(cur[1]), !.fnd = fnd_write(data)]
  /\ data' = <<data[1], data[2] + 1>>
  /\ UNCHANGED <<dev_usage, pending, count, end_count, text, right, reg, cur,
                 tmp, apps, history>>

(* The run is over: close_devices, and the timer is not armed again. *)
Over == count > end_count

BlinkStops ==  \* mutant: without close_devices
  /\ Over
  /\ BlinkGoto("check", "idle")
  /\ cur' = <<0, 0>>
  /\ UNCHANGED <<dev_usage, pending, timer, reg, tmp, shown, apps, history>>

BlinkCloses ==
  /\ Over
  /\ BlinkGoto("check", "idle")
  /\ shown' = Off /\ cur' = <<0, 0>>
  /\ UNCHANGED <<dev_usage, pending, timer, reg, tmp, apps, history>>

(* After '8' comes '1' at the next position, and after the fourth the first. *)
WrappedHere(d) == <<d[1], IF d[2] > 56 THEN 49 ELSE d[2]>>  \* mutant: same place

Wrapped(d) ==
  IF d[2] > 56 THEN <<IF d[1] + 1 > 52 THEN 49 ELSE d[1] + 1, 49>> ELSE d

BlinkGoesOn ==
  /\ ~Over
  /\ BlinkGoto("check", "store")
  /\ cur' = Wrapped(data)
  /\ UNCHANGED <<dev_usage, pending, timer, reg, tmp, shown, apps, history>>

BlinkStores ==
  /\ BlinkGoto("store", "arm")
  /\ data' = cur /\ cur' = <<0, 0>>
  /\ UNCHANGED <<dev_usage, pending, count, end_count, text, right, reg, tmp, shown,
                 apps, history>>

(* add_timer is a BUG on a timer that is pending, and does not come back. *)
BlinkArms ==
  /\ ~pending /\ pending' = TRUE
  /\ BlinkGoto("arm", "idle")
  /\ UNCHANGED <<dev_usage, timer, reg, cur, tmp, shown, apps, history>>

(* The callback writes to the devices, whether they are mapped or not. *)
Writing == blink \in {"show", "copy", "step"} \/ (blink = "check" /\ Over)

Blink ==
  \/ BlinkFires \/ BlinkCounts \/ BlinkShows \/ BlinkCopies \/ BlinkMoves \/ BlinkSteps
  \/ BlinkCloses \/ BlinkGoesOn \/ BlinkStores \/ BlinkArms

Callback ==
  /\ Blink
  /\ halted' = (module = "out" \/ (Writing /\ module # "in"))
  /\ UNCHANGED <<module, loadsLeft, entered, cut>>

-----------------------------------------------------------------------------
(* An application: the system call, dev_open, one dev_write, dev_release. *)
AppGoto(a, from, to) == pc[a] = from /\ pc' = [pc EXCEPT ![a] = to]

Call(a) ==
  /\ writesLeft > 0 /\ writesLeft' = writesLeft - 1
  /\ AppGoto(a, "idle", "open")
  /\ \E o \in Options, n \in Numbers :
       stream' = [stream EXCEPT ![a] = Encode(o, n)]
  /\ UNCHANGED <<kernel, dev_usage, pending, timer, blinkVars, shown, history>>

(* dev_open: usage is tested, and then set. *)
OpenTest(a) ==
  /\ AppGoto(a, "open", IF module = "out" \/ dev_usage # 0 THEN "idle" ELSE "use")
  /\ UNCHANGED <<dev_usage, pending, timer, blinkVars, shown, stream, writesLeft,
                 history>>

OpenSet(a) ==
  /\ AppGoto(a, "use", "write")
  /\ dev_usage' = 1
  /\ alone' = (alone /\ \A b \in Apps \ {a} : pc[b] \in {"idle", "open"})
  /\ UNCHANGED <<pending, timer, blinkVars, shown, stream, writesLeft, clean,
                 start>>

(* dev_write sets the fields while the callback of the last run may still be *)
(* at work on them: the counters and the data, the texts, the directions ... *)
WriteCounts(a) ==
  LET d == Decode(stream[a])
  IN  /\ AppGoto(a, "write", "texts")
      /\ count' = 0
      /\ end_count' = d.number
      /\ data' = <<d.position, d.value>>
      /\ start' = d /\ stream' = [stream EXCEPT ![a] = 0]
      /\ clean' = (blink = "idle")
      /\ UNCHANGED <<dev_usage, pending, text, right, blinkVars, shown,
                     writesLeft, alone>>

WriteTexts(a) ==
  /\ AppGoto(a, "texts", "flags")
  /\ text' = [l \in Lines |-> Message(l)]
  /\ UNCHANGED <<dev_usage, pending, count, end_count, data, right, blinkVars,
                 shown, stream, writesLeft, history>>

WriteFlags(a) ==
  /\ AppGoto(a, "flags", "sync")
  /\ right' = [l \in Lines |-> TRUE]
  /\ UNCHANGED <<dev_usage, pending, count, end_count, data, text, blinkVars,
                 shown, stream, writesLeft, history>>

(* ... and only then waits for the callback (del_timer_sync) and arms. *)
WriteDel(a) ==  \* mutant: del_timer, which does not wait
  /\ AppGoto(a, "sync", "arm")
  /\ pending' = FALSE
  /\ UNCHANGED <<dev_usage, timer, blinkVars, shown, stream, writesLeft, history>>

WriteSync(a) ==
  /\ blink = "idle"
  /\ AppGoto(a, "sync", "arm")
  /\ pending' = FALSE
  /\ UNCHANGED <<dev_usage, timer, blinkVars, shown, stream, writesLeft, history>>

WriteArm(a) ==
  /\ ~pending /\ pending' = TRUE
  /\ AppGoto(a, "arm", "release")
  /\ UNCHANGED <<dev_usage, timer, blinkVars, shown, stream, writesLeft, history>>

Release(a) ==
  /\ AppGoto(a, "release", "idle")
  /\ dev_usage' = 0
  /\ UNCHANGED <<pending, timer, blinkVars, shown, stream, writesLeft, history>>

Write(a) ==
  \/ OpenTest(a) \/ OpenSet(a)
  \/ WriteCounts(a) \/ WriteTexts(a) \/ WriteFlags(a)
  \/ WriteSync(a) \/ WriteArm(a) \/ Release(a)

(* The device can be opened as soon as it is registered, and still when the  *)
(* load has failed, which leaves it registered but frees the code.           *)
Astray(a) ==
  \/ module = "failed"
  \/ module = "out" /\ pc[a] \in Inside
  \/ module \in {"registered", "mapped"} /\ pc[a] = "sync"

App(a) ==
  /\ Write(a)
  /\ halted' = Astray(a)
  /\ entered' = (entered \/ (module # "in" /\ pc[a] = "use"))
  /\ UNCHANGED <<module, loadsLeft, cut>>

-----------------------------------------------------------------------------
(* dev_init registers the device, maps the devices (which may fail) and      *)
(* initialises the timer. The module's variables are new; what the last one  *)
(* has left behind in the kernel now strikes code that is gone.              *)
ModuleGoto(from, to) == module = from /\ module' = to

Register ==
  /\ loadsLeft > 0 /\ loadsLeft' = loadsLeft - 1
  /\ ModuleGoto("out", "registered")
  /\ halted' = (pending \/ blink # "idle" \/ \E a \in Apps : pc[a] \in Inside)
  /\ dev_usage' = 0
  /\ count' = 0 /\ end_count' = 0 /\ data' = <<0, 0>>
  /\ text' = Blank /\ right' = [l \in Lines |-> FALSE]
  /\ UNCHANGED <<entered, cut, pending, blinkVars, shown, apps, history>>

(* Only the FND and the LEDs of the processor are cleared.                   *)
OwnOff == shown' = [shown EXCEPT !.fnd = fnd_write(<<0, 0>>), !.led = led_write(0)]

Map ==
  /\ ModuleGoto("registered", "mapped")
  /\ OwnOff
  /\ UNCHANGED <<loadsLeft, halted, entered, cut, dev_usage, pending, timer,
                 blinkVars, apps, history>>

MapFails ==
  /\ ModuleGoto("registered", "failed")
  /\ UNCHANGED <<loadsLeft, halted, entered, cut, dev_usage, pending, timer,
                 blinkVars, shown, apps, history>>

InitTimer ==
  /\ ModuleGoto("mapped", "in")
  /\ UNCHANGED <<loadsLeft, halted, entered, cut, dev_usage, pending, timer,
                 blinkVars, shown, apps, history>>

(* dev_exit unmaps the devices, and only then waits for the callback.        *)
Unmap ==
  /\ ModuleGoto("in", "unmapped")
  /\ OwnOff
  /\ entered' = (entered \/ \E a \in Apps : pc[a] \in Inside)
  /\ UNCHANGED <<loadsLeft, halted, cut, dev_usage, pending, timer, blinkVars,
                 apps, history>>

UnloadDel ==  \* mutant: del_timer, which does not wait
  /\ ModuleGoto("unmapped", "synced")
  /\ pending' = FALSE /\ cut' = (cut \/ pending)
  /\ UNCHANGED <<loadsLeft, halted, entered, dev_usage, timer, blinkVars,
                 shown, apps, history>>

UnloadSync ==
  /\ blink = "idle"
  /\ ModuleGoto("unmapped", "synced")
  /\ pending' = FALSE /\ cut' = (cut \/ pending)
  /\ UNCHANGED <<loadsLeft, halted, entered, dev_usage, timer, blinkVars,
                 shown, apps, history>>

Unregister ==
  /\ ModuleGoto("synced", "out")
  /\ UNCHANGED <<loadsLeft, halted, entered, cut, dev_usage, pending, timer,
                 blinkVars, shown, apps, history>>

Load == Map \/ MapFails \/ InitTimer
Unload == UnloadSync \/ Unregister

-----------------------------------------------------------------------------
Next ==
  /\ ~halted
  /\ \/ Callback
     \/ Register \/ Load \/ Unmap \/ Unload
     \/ \E a \in Apps : Call(a) \/ App(a)

Spec == Init /\ [][Next]_vars

(* The kernel fires the timer and runs the callback to its end; an           *)
(* application that has made its call is scheduled, insmod and rmmod come to *)
(* their end, and del_timer_sync does not miss every moment between two      *)
(* callbacks.                                                                *)
FairSpec ==
  /\ Spec
  /\ WF_vars(~halted /\ Callback)
  /\ WF_vars(~halted /\ Load) /\ SF_vars(~halted /\ Unload)
  /\ \A a \in Apps : SF_vars(~halted /\ App(a))

-----------------------------------------------------------------------------
TypeOK ==
  /\ module \in {"out", "registered", "mapped", "in", "unmapped", "synced",
                 "failed"}
  /\ loadsLeft \in 0..Loads
  /\ dev_usage \in {0, 1} /\ pending \in BOOLEAN
  /\ count \in Nat /\ reg \in Nat /\ end_count \in 0..100
  /\ {data, cur} \subseteq Nat \X Nat
  /\ {text, tmp} \subseteq [Lines -> [Columns -> 0..Width]]
  /\ right \in [Lines -> BOOLEAN]
  /\ blink \in {"idle", "count", "show", "copy", "move", "step", "check",
                "store", "arm"}
  /\ shown \in [number : Int, dot : 0..8, leds : 0..8, led : 0..4,
                fnd : (0..4) \X (0..8), texts : [Lines -> [Columns -> 0..Width]]]
  /\ start \in [number : Nat, value : Nat, position : Nat]
  /\ pc \in [Apps -> {"idle", "open", "use", "write", "texts", "flags", "sync",
                      "arm", "release"}]
  /\ stream \in [Apps -> Nat]
  /\ writesLeft \in 0..Writes
  /\ {halted, clean, alone, entered, cut} \subseteq BOOLEAN

(* A second write while the first run still blinks re-arms the timer that    *)
(* its callback arms, too: add_timer halts the kernel on a timer that is     *)
(* pending, so neither may come to it while it is. (Two applications may     *)
(* both find dev_usage zero and then arm it both.)                           *)
TimerArmedOnce ==
  alone /\ pending => blink # "arm" /\ \A a \in Apps : pc[a] # "arm"

(* rmmod may come at any point of a run: when it has not met an application  *)
(* that had the device open, and the callback was not caught writing to a    *)
(* device that is no longer mapped, it leaves neither the timer nor its      *)
(* callback behind, whose code is gone.                                      *)
UnloadedIsQuiet ==
  module = "out" /\ ~entered /\ ~halted => ~pending /\ blink = "idle"

(* What all devices show when a run was started by a write that the callback *)
(* of the last run did not disturb: the kth change shows the value k - 1     *)
(* steps on from the option, eight values to a position, and the changes     *)
(* that are left, although each step is made from the last one in place; and *)
(* the run ends when they have come down to zero. The digit of the option is *)
(* '1' to '8', as readme.txt asks; nothing in the code sees to it.           *)
Undisturbed == clean /\ alone

RunShowsWhatWasAsked ==
  LET steps == start.value - 49 + count - 1
  IN  Undisturbed /\ start.value \in 49..56 =>
        /\ blink \in {"check", "store", "arm"} /\ module = "in" =>
             LET value == 1 + (steps % 8)
                 position == 1 + ((start.position - 49 + (steps \div 8)) % 4)
             IN  shown = [number |-> start.number - count + 1,
                          dot |-> value, leds |-> value, led |-> position,
                          fnd |-> <<position, value>>, texts |-> shown.texts]
        /\ blink = "idle" /\ ~pending /\ count > 0 /\ module = "in" =>
             count = start.number + 1

(* In such a run all characters of both lines are always on the display: no  *)
(* move shifts one out.                                                      *)
TextsStayWhole ==
  Undisturbed /\ count > 0 /\ blink \in {"check", "store", "arm"} /\ module = "in" =>
    \A l \in Lines : \E o \in 0..(Width - Lengths[l]) : \A c \in Columns :
      shown.texts[l][c] = IF c - o \in 1..Lengths[l] THEN c - o ELSE Space

(* Every run ends, also one whose counters a second write has changed under  *)
(* it: when no more is written, the devices go dark and stay dark, unless    *)
(* the module was unloaded in the middle of the run.                         *)
RunsEnd ==
  []alone => <>[](halted \/ (~pending /\ blink = "idle" /\ (cut \/ shown = Off)))
=============================================================================
