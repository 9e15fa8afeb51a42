# TLA+ for the Sogang embedded system software

The repository holds the five assignments of a course on embedded Linux: a
program of four processes (HW1), two kernel modules (HW2, HW3) and two Android
applications (HW4, HW5), all for one board with push switches, displays, LEDs
and motors. What is hard in them is the same everywhere: contexts that share
plain variables without a lock, and state edited in place over long sequences
of button presses. This directory models that part of each assignment, checks
it with TLC, and proves the central invariants with TLAPS.

To check: `tlc -config X.cfg M` for the runs of `PROJECT.json`, `tlapm M.tla`
for each `*_proofs.tla`. No module needs anything besides the standard and
community modules.

## 1. The system

### HW1: stopwatch, text editor and custom mode (`HW1/main.c`)

Four processes are forked from one program and share three memory segments.

| Process | What it does | State it keeps or writes |
|---|---|---|
| event key process (512-580) | blocks in `read` on the keys of the board; changes the mode; leaves commands | `mode_shm`, `input_shm[0]`, and both segments through `init_shared` |
| main process (119-509) | runs the loop of the current mode: stopwatch, text editor, custom mode | `output_shm[*]`, its local time, `mode_shm` through chords |
| input process (582-656) | polls the nine push switches every 50 ms | `input_shm[0..8]`, and two flags in `[9]` and `[10]` |
| output process (658-900) | shows `output_shm` on the displays and drives the motors | clears commands in `output_shm[32]` |

`output_shm` is also the text itself: mode and counter, 32 cells of text and
the blank after them, the last button and how often it was repeated. Hard: the
in-place editing, the handshake through two flags, one cell that carries all
commands, a mode that four processes read and three write, endings. Correct
means: the display shows what a multi-tap editor shows; every burst of
switches is acted upon once; a command is carried out at most once, and the last one
is, unless it was stored just before a cell was cleared; the mode 0 ends all processes.

### HW2: blink driver (`HW2/module`, `HW2/app`, `HW2/kernel`)

An application packs three arguments into four bytes with a system call of its
own and writes them to `/dev/dev_driver`. From then on a timer callback shows
one character after another on all devices, counts down and moves two texts to
and fro, until the number of changes is reached. State: `mytimer` (count, end
count, data, texts, directions), the kernel timer, `dev_usage`. Hard: a second
write sets the fields while the callback of the first run works on them, and
both arm the same timer. Correct means: a run shows what was asked, letters
stay on the display, the timer is never armed twice, and the run ends.

### HW3: stopwatch driver (`HW3/module/stopwatch.c`, `HW3/app`)

`write` on `/dev/stopwatch` does not return until SW6 has been held for three
seconds; it displays minutes and seconds meanwhile. Four button interrupts
start, pause and reset a timer that counts seconds, and arm the timer that
ends the session. State: the two timers, `count`, `quit_flag`,
`stopwatch_usage`, the interrupt lines. Hard: interrupts, timer callbacks and
file operations on the same globals, interrupts nested over a callback, the
order of the releases, the level of a pin sampled after its edge. Correct
means: it behaves as a stopwatch; a reset is final; no timer is added twice; none
survives the session but one that was armed while it closed; holding SW6 ends it.

### HW4 and HW5: Android applications

HW4 has a menu, a music player, a CPU usage reader and a sliding puzzle. HW5
brings all earlier assignments to the Android screen, each an activity with
native functions that write to the board's devices.

| Activity | Contexts | What they share |
|---|---|---|
| text editor | main thread; a thread that polls the push switches, types and posts | the text of the screen, `insert_text`, `modified`, `flag`, the board |
| figure switch | main thread; poll thread; figure threads, replaced by Clear, by switches and by a run that ends | `num`, `option`, the current thread, its counter `i`, the board |
| watch | main thread; poll thread that posts clicks; stopwatch threads, replaced by Stop | each thread's `flag`, `pause` and time; the FND |
| puzzle | main thread; the thread that counts down and scores | `time_left`, `score`, `playing`, the buttons, two displays |
| custom mode | main thread; poll thread | nine flags |

Hard: these fields, threads that outlive what they were started for, posted
clicks that run later, boards and options edited in place. Correct means: the
board shows what the screen shows; a run or a stopwatch shows what was asked
for; a thread that was told to end does, and leaves nothing behind; the puzzle
stays solvable, its score is that of the board, and the game ends.

### How the parts interact

The assignments do not call each other. Within HW1 everything goes through
shared memory, within HW2 and HW3 through the driver's globals and the
kernel's timers and interrupts, within HW4 and HW5 through fields of the
activity and posts to the UI thread. The drivers of HW5 are binaries without
source; the displays they drive are variables of the model.

## 2. Modules

| Module | What it models | Interface |
|---|---|---|
| `Stopwatch` | what a stopwatch promises: off, stopped, running, and a time | abstract |
| `StopwatchDriver` | HW3: applications, four interrupt handlers, two timer callbacks, insmod/rmmod | implements `Stopwatch` |
| `MCStopwatch` | values for TLC | |
| `StopwatchDriver_proofs` | theorems | |
| `MultiTap` | what a multi-tap editor promises: a text and a pending letter | abstract |
| `TextBuffer` | HW1's typing functions on the cells of the segment | implements `MultiTap` |
| `ButtonBursts` | what the push switches promise: a burst is collected, handed over and acted upon; what leaving the editor may cost | abstract |
| `TypingHandshake` | HW1's input process, main in mode 2, and the keys of the board | implements `ButtonBursts` |
| `TextMode_proofs` | theorems about mode 2, `TextBuffer` and `TypingHandshake` | |
| `BoardProcesses` | HW1's four processes around the mode and the commands | |
| `BoardProcesses_proofs` | theorems | |
| `BlinkDriver`, `MCBlink` | HW2: system call, driver, timer callback, insmod/rmmod | |
| `BlinkDriver_proofs` | theorems | |
| `SlidingBoard` | the board of the puzzles of HW4 and HW5: moves, order, solvability | operators |
| `PuzzleGame` | HW5's puzzle: UI thread against the thread that counts down and scores | extends `SlidingBoard` |
| `PuzzleGame_proofs` | theorems | |
| `WatchActivity` | HW5's watch: main thread, stopwatch threads, switch thread | implements `Stopwatch` |
| `WatchActivity_proofs` | theorems | |
| `FigureActivity`, `MCFigure` | HW5's figure switch: main thread, figure threads, switch thread | |
| `FigureActivity_proofs` | theorems | |
| `TextActivity`, `MCText` | HW5's text editor: main thread against the switch thread | |
| `TextActivity_proofs` | theorems | |

Variables carry the names of the code where they stand for one variable of it
(`timerPending` for `mydata.timer` being in the kernel's list, and so on: the
declarations say which). There is one action per stretch of code that no other
context can interleave with; `PROJECT.json` maps each to its lines. Definitions
marked *mutant* are plausible mistakes in one function; they take no part in
the specification.

Correspondences that are not one to one:

* **Loads and stores.** `count++` (HW3, HW2), `time_left--` (HW5) and the two
  reads of `count` for minutes and seconds are steps of their own, because an
  interrupt or another thread comes between them.
* **Kernel.** `add_timer` on a pending timer is a `BUG`, so the model's action is
  blocked there; `del_timer_sync` waits while the callback runs;
  `request_irq` fails for a line that is taken. These come from how the
  modules use the kernel and from nothing else.
* **Interrupts of HW3.** The four lines belong to one group of the GPIO
  controller, so one handler runs at a time. The level of SW6 is sampled after
  its edge, and edges that come meanwhile are merged into one.
* **Text.** A letter is the button and its number among the button's letters.
  A line of HW2 is shorter in the model, and its characters are told apart by
  their place.
* **Push switches.** A poll sees a set of switches; a chord is the first of the
  four tests of `cal_texteditor` that matches. `input_shm[0]` is the cell of
  switch 1 in mode 2 and the mailbox of the keys otherwise: `TypingHandshake`
  keeps of it whether switch 1 is set (`Mailbox`), `BoardProcesses` the command.
  The names of `TypingHandshake` say whose they are (`HandshakeInit`, ...), so
  that one module can extend both components of mode 2.
* **Android.** One call of a native function is one step (each opens, writes and
  closes its devices), and so is one access to a field another thread uses. A
  thread is taken to see what another one has written to a field, although the
  fields are not `volatile`. Listeners, keys and posted clicks are handled one
  after the other by the main thread (`ui`), posted ones also when the activity
  has been left. An exception that nobody catches ends the application.
* **HW1's stopwatch** is a state of `main` here (`second`); of its time only
  whether it was set is kept (`timed`).
* **Steps kept together** where no property could tell them apart: a test of
  the mode and the look into a cell right after it (HW1, 474 and 483, 844 and
  856); the stores with which a write of HW2 sets its fields (487-491);
  `isAlive` and what is done with the thread (figure switch, 103-105, 136-137,
  368-369); the board and then the text of one listener, and the test of a
  length and the copy of it (text editor, 59-60, 232-236).
* **History variables** record what has happened, and no guard looks at them,
  except that `clean` and `lag` bound how fast ticks come in HW3: `clean`
  (HW3 and HW2), `lag` and `late` (HW3), `alone`, `start`, `entered`, `cut` (HW2), `moved`, `keyed`, `won` (puzzle),
  `owed`, `latest`, `hasty` (HW1), `late` and the value `again` of `lcd` (watch), `wrong`, `asked` (figure switch),
  `wanted`, `astray`, `missed` (text editor).

## 3. Runs

### HW3

* `stopwatch`: one application that opens the device as often as it likes,
  interrupts nested over callbacks, all four buttons at any moment, also while
  the session closes, and the module unloaded and loaded between sessions.
  `TickTimerArmedOnce`: the timer has one owner who may add it. `ResetIsFinal`:
  nothing that a reset has overtaken comes back. `DisplayedTimeValid`: the `==`
  for the full hour cannot be skipped. `OnlyLateTimersSurvive`: when nobody has
  the device open, a timer that is still there was armed between its removal
  (179-180) and the release of its line (186-189), and none otherwise.
  `HeldButtonEndsSession`: a press of SW6 that finds no quit timer armed before
  ends the session when it is held. `ImplementsStopwatch`: every step of the
  driver is a step of the abstract stopwatch or a stutter.
* `stopwatch_timers`: a finding, see below.
* `stopwatch_freeze`: a finding, see below.

### HW1

* `text_buffer`: three cells, two buttons, a counter up to 4. `TextThenBlanks`
  (no holes, and the unbounded scan for a blank ends), `RepeatRewritesOwnLetter`,
  `ImplementsMultiTap`.
* `typing_handshake`: switch 1, all chords, pairs that are none; mode keys,
  commands of the other modes and the quit key between any two steps.
  `ImplementsBursts`: whatever the order, a burst is acted upon once, as a whole
  and after its end. Only while the editor is left may one be forgotten, or lose
  switch 1, and what was being collected never survives until the user comes
  back. `BurstsAreServed`: the flags never end in a state in which both sides
  wait. `HandshakeTypeOK`.
* `board`: three key events in every order, chords, failing devices.
  `CountsFromZero`: no command that custom mode or an earlier visit has left
  starts the stopwatch with a time nobody has set. `NeverObeyedTwice`.
  `CommandsArrive`: when the keys and the modes have come to rest in custom
  mode, the command given last has reached the devices. `latest` follows it
  through the two cells. It is not claimed for a command that is stored after a
  process has tested a cell (or the switches, 604) and before that process
  stores over it: that store wipes it out (`raced`). `QuitEndsAll`.
* `board_resurrected`: a finding, see below.

### HW2

* `blink`: two writes by two applications, the second at any point of the run
  that the first has started, and the module unloaded and loaded again at any
  point, a run or a callback under way included. `RunShowsWhatWasAsked` relates each
  display to the option and the number by arithmetic, where the code steps on
  in place; `TextsStayWhole`, `TimerArmedOnce`, `RunsEnd`. `UnloadedIsQuiet`:
  after `rmmod` no timer is left that would call code that is gone, unless an
  application had the device open.

### HW5 and HW4

* `puzzle`: two rows and two columns. `StaysSolvable` (the parity of the
  permutation and that of the gap's way agree after every move),
  `ScoreIsOfTheBoard`, `SolvedStaysSolved`, `GameEnds`.
* `watch`: four touches, keys and pressed switches. `OneStopwatchRuns`: a
  replaced stopwatch is on its way to its end. `ObeysWithinARound`: a thread
  told to end or pause writes to the FND at most once more. `BoardShowsTime`:
  but for such a late write the FND shows the current time,
  and the text on the LCD is gone when the activity is left, unless it was set
  again while the back key was held. `ImplementsStopwatch`: the time of the
  current thread is that of the abstract stopwatch that HW3's driver implements,
  too. `LeavingEndsThreads`: whoever is told to end does, and any key tells the
  current thread and the switch thread.
* `figure`: three clicks, keys and chords against up to three figure threads at
  a time. `GoodInputIsSafe`: threads that step one option on at a time never
  leave one that cannot be stepped on, and no ended thread is started.
  `DarkAtRest`, `RunShowsWhatWasAsked` and `RunsEnd`: an undisturbed run shows
  what was asked, and every run ends and leaves the devices dark, although a
  thread may overwrite the order to end.
* `text`: four touches, keys and bursts of switches. `BoardShowsText`: six
  places in two threads write to the displays, which agree with the screen
  whenever nothing is under way. `TextIsAsTyped`: posts, copies and
  `insert_text` together make a plain multi-tap editor. `TooLongIsReplaced`,
  `LeavingEndsThread`.

### Bounds, and why they are enough

| Bound | Value | Why |
|---|---|---|
| `SecondsPerMin`, `MinPerHour` | 1, 2 (60 in the code) | the wrap is reached, and passed if it could be, and the display tells two minutes apart. The theorems cover all values |
| `TickBound` | 1 | ticks between undisturbed rounds of 20 ms; as many as `SecondsPerMin` is the most that is assumed, so this is tight, and 60 s are far more than the code needs |
| `CountBound` | 3 | beyond the full hour, so that a missed wrap would show |
| `Size`, `Buttons`, `CountLimit` (text buffer) | 3, 2, 4 | the text fills up, shifts, and the counter overflows; a second button is all that "another button" needs. The theorems cover all values |
| `Presses`, `Switches` (handshake) | eight sets of up to two of eight switches | none, switch 1, another one, each chord, and a pair that is none; the polls of a burst unite them. The theorems cover all sets |
| `KeyBound`, `QueueSize` | 3, 2 | a second key before and after the first has been served; a further one repeats these |
| `Prompt` | TRUE | see section 4 |
| `Writes`, `Apps`, `Loads` (blink) | 2, 2, 2 | the race is between a run and the next write or `rmmod`; `dev_usage` needs two applications; loaded again once |
| `Options`, `Numbers` (blink) | 1, {2} | the option wraps from the last position to the first; the second write comes in time to shorten or lengthen the run. The theorems cover all options and numbers |
| `Width`, `Lengths` | 4; 2 and 3 | both lines reach both ends, at different times. Assumed is only that a line is shorter than the display, as `id` and `name` in `dev_write` are |
| `Rows`, `Cols` | 2, 2 | every board that can be reached is; with an even number of columns, exchanging a button with the one at the other end of the neighbouring row changes the parity, which an odd number hides. The theorems cover all sizes |
| `TimeLimit`, `ShowFrom`, `Mixes` | 3, 2, 4 (30, 9, 1000) | a second that is not shown and two that are; moves reach every board that mixing does |
| `Threads`, `Minute`, `MaxSeconds` (watch) | 5, 2, 3 | four events can replace four stopwatches, so the bound is never met; the minute wraps; a stopwatch that goes on repeats itself |
| `Threads` (figure) | 4 | three events make at most three further threads, so the bound is never met |
| `Places`, `Last`, `Inputs` (figure) | 2, 2 (4, 8) | one input passes both wraps, one none, one has no figure, one is no number. The theorems cover all values |
| `Queue`, `Events` | 2, 4 (watch); 1, 3 (figure); 2, 4 (text) | a click posted behind another one, and one order after the other at every point of the threads |
| `Presses` (watch, text), `Keys` | four and seven sets | one switch per kind of button, one that is none; two that type, all three chords, one that is none; the back key and another one |
| `Limit`, `Touched` (text) | 3 (32); three texts | a text below the limit, one at it and one beyond it, typed or touched |

`CHECK_DEADLOCK FALSE` stands where the programs end (all processes ended, no
more writes, keys or events, the activity left). The runs of HW3 check
deadlock. A context that reaches the `BUG` of `add_timer` does not go on;
`TickTimerArmedOnce` shows for the tick timer that none does.

## 4. Fairness and assumptions

* HW3: weak fairness of applications, callbacks and timers (the kernel
  schedules them), strong fairness of the interrupt handler: `del_timer_sync`
  polls until the callback has ended, and callbacks end again and again, so one
  poll finds it ended. The user need do nothing. `HeldButtonEndsSession` says
  what the user does: a press whose edge is not yet served, with no quit timer
  armed before and no SW6 handler under way, is held or released. Its other
  hypothesis, `[](nested = "none")`, is that no interrupt suspends a callback,
  since its handler may then wait forever (`stopwatch_freeze`).
* HW2: weak fairness of timer and callback, strong fairness of a write, for the
  same reason (`del_timer_sync` between two callbacks).
* HW1: weak fairness of each process; the user and the devices need do nothing.
* HW5: weak fairness of each thread; the user need do nothing. A second of
  `sleep` in the puzzle is longer than what is left of the listener that
  started the thread (`Sleep`); for the threads of the watch and of the figure
  switch nothing is assumed about time.
* `Prompt` (HW1): the event key process is done with a key, and main with an
  input, before the other side looks again. A key may still come at any moment,
  also while main acts on an input. For the poll of the push switches this is
  some instructions against 50 ms, but for main when it sleeps for up to a
  second in another mode just after the mode was changed. For main itself it is
  an assumption that the code does not secure: in modes 1 and 2 main looks
  again and again without a pause (153, 223), and nothing but luck keeps it
  from looking in the few instructions between the store of a mode (548-563)
  and the store of `*` in `init_shared` (64). With `Prompt = FALSE` a poll
  overwrites the buttons that main was notified of (644-647), main acts on a
  burst nobody pressed, since flag and buttons are reset at different times,
  and a command left by another mode is obeyed. What depends on `Prompt` says
  nothing of these cases.
* HW2's properties on what is shown are stated for runs that no write disturbed
  (`clean`), and the others for a device that two applications have not had
  open at once (`alone`; `dev_open` tests and sets `dev_usage` in two steps).
* HW5's score is stated for games in which nobody moved a button while the
  thread counted and no key was pressed. A key before the game races with the
  start (hazard at line 83), so `GameEnds` leaves these games out.
* HW5's figures are stated for a run that starts when no figure thread is alive
  and that nobody disturbs (`asked`), and the state of the option as long as
  nothing but options of one figure was typed (`wrong`).
* HW5's text leaves out, by name, the cases that section 5 lists (`missed`,
  `astray`).

## 5. Findings

| Run | What the code does |
|---|---|
| `stopwatch_freeze` | `del_timer_sync` in an interrupt handler waits for the callback that the interrupt has suspended on its own CPU |
| `stopwatch_timers` | a handler that is under way or served while the session closes arms its timer after `stopwatch_release` has removed it |
| `board_resurrected` | a mode key after the chord that quits brings the mode back |

Each one is a counterexample of TLC to a property that states a comment or a
note of the repository; `PROJECT.json` quotes it.

What else the models say, and no document contradicts:

* *Stopwatch driver.* A tick timer that was armed while a session closed counts
  on. When its callback is halfway just as the next open clears the counter, it
  brings the old count back, and minutes beyond 59 may be shown. A quit timer
  armed then, or at the end of an earlier press, ends the next session. A second
  edge of SW6 that finds the pin down (a bounce) while the quit timer of the
  first is pending makes line 137 add it again, which halts the kernel; a held
  button then never ends the session. With two applications, a session that
  opens while another one closes gets no interrupt lines and cannot be quit.
* *HW1, mode 2.* `init_shared` stores `*` in `input_shm[0]` (64), which is also
  the cell of switch 1. A key between main's tests of the cells (225-242) and
  the lookup of the button (334) takes switch 1 out of the burst, and typing
  looks up the next button or none. No chord contains switch 1, so chords are
  safe.
* *Watch.* Main and the keys clear the FND before they tell the threads to end
  (185-186, 325-328), so that a time may appear again. The switch thread sets its
  flag itself (242): one that was told to end before goes on. Posted clicks run
  after the activity has been left, and touches while the back key is held:
  either may start a stopwatch that nobody ends, and a touch may put the text
  back on the LCD. Any key ends the
  thread, and Start then throws. Pause before the first Start makes that need
  two clicks (145).
* *Figure switch.* Go during the last step of a run starts from the figure after
  the one typed (201). The option is stored before it is looked at (84), and a
  word that is no number counts as a good one. A run that ends replaces
  whichever thread is current (253), also one that Go has just started.
* *Text editor.* A change on the main thread while the switch thread copies the
  text (343-345) is lost for the board. Digits are put behind `insert_text`,
  which neither the Clear button nor a touch resets, so that what was cleared
  comes back. The thread is started before `text` is found (43-46) and throws
  if it polls first. Any key ends the thread for good. For more than 32 letters
  the native function prints into a buffer that was never cleared.
* *Puzzle.* The back key clears the displays, and the thread may write to them
  afterwards (374).
* *Blink driver.* `rmmod` during a run unmaps the devices (609) before it stops
  the timer (625); after a failed `ioremap` the device stays registered (530).
* *Custom mode.* The switch thread tests no flag (`ModeActivity.java:126`).

## 6. Theorems

| Theorem | Statement | Argument |
|---|---|---|
| `StopwatchDriver_proofs!TypeCorrect` | types, for all applications and sizes | one lemma per kind of variable |
| `...!ArmedOnce` | the tick timer is never added while pending | inductive: a handler that is about to add it has seen the callback idle (`del_timer_sync`) and no other handler runs; a callback that is about to add it took it from the list. Nothing about sessions is needed, so it holds for racing opens as well |
| `...!ResetFinal` | when the reset handler returns, `count` is 0 and nothing is left that advances it | between its two steps neither timer nor callback is there, because of `ArmedOnce`'s invariant |
| `...!OneSessionSafe` | with one application the display is valid, unless a timer armed too late was counting when the session opened | bounds `count` by the last undisturbed round plus the ticks since; uses `TickAssumption` |
| `...!TimersEnd` | with one application, a timer that outlives the session was armed after its removal | SW2, SW4 and SW6 have their lines only while the session holds them, and once a timer is removed whatever arms it is in `late` (`StoppedInv`) |
| `...!Refinement` | with one application the driver implements `Stopwatch`, for minutes and hours of any length, whatever is pressed while a session closes | the counter is the one stored, or the one that the callback is about to store (`Counted`); a round of the write loop that is going to wrap has still a full hour before it, or a counter that was reset meanwhile and is no further than the ticks since (`WrapInv`). Each step is then one of the abstract stopwatch or a stutter |
| `TextMode_proofs!TypeCorrect`, `TextIsSafe`, `RepeatIsSafe` | types; text, then blanks; a repeat rewrites its own letter; for every display size | there is a cell k at which the text ends (`EndsAt`): every function keeps or moves k by one and the shift moves it back from the end. `TextThenBlanks` alone says too little about where the first blank is |
| `...!Refinement` | the editor implements `MultiTap`, for every display size and set of buttons | with the text ending at k, the abstract text is the sequence of the first k cells (`TextIn`): appending, rewriting the last cell, shifting and clearing are then operations on that sequence. A letter is pending exactly when its button and number are known (`Counting`) |
| `...!HandshakeTypes` | the types of the handshake, and that main types a button or none; for any switches and presses, with `Prompt` or without | a set of buttons has a lowest one (`LowestOfNine`), and whatever is set asks for something main does (`AskedIsBusy`) |
| `...!HandshakeRefines` | under `Prompt`, the handshake implements `ButtonBursts`, for any switches and presses | the flags alone say too little: the invariant ties them to where the processes are. What a poll found is stored only while nothing waits for main (`PollsBetween`), nothing is collected while something does (`Handed`), shmget's zeroes are gone before anybody looks (`JunkIsOld`), and where main is says what the buttons ask for (`Acting`), which survives the loss of switch 1 because no chord needs it (`MailboxAsksNothing`). A poll, a test of main and a flag that goes down are then stutters, and a key is a `Leave`, `Forget` or `Return`, according to the mode |
| `BoardProcesses_proofs!TypeCorrect` | the shared cells hold values their readers know | each process by itself; `pc` is a record, which `TypeOK` leaves open |
| `...!ObeyedOnce` | under `Prompt`, no press is obeyed twice | a command that waits in `output_shm[32]` is owed one press, one that waits in `input_shm[0]` and can still be passed on is owed another (`Owed`). Commands left from mode 1 are owed none, but main cannot see one in mode 3 before a reset has cleared it |
| `...!StartsFromZero` | under `Prompt`, the stopwatch counts from a time that was set | a start command in mode 1 is of this visit, or about to be cleared (`Fresh`) |
| `BlinkDriver_proofs!ArmedOnce` | a write and the callback before it never both arm the timer, for any number of applications | a running callback holds the timer out of the list; after `del_timer_sync` neither is left; at most one application has the device open while `alone` |
| `...!UnloadedQuiet` | `rmmod` leaves no timer and no callback | while the module is not in, no application gets as far as the device (`NobodyIn`; the case that one had it open already is `entered`), so nobody writes, and once `del_timer_sync` has waited for the callback nothing is left that arms the timer (`GoneIsQuiet`) |
| `...!TypeCorrect` | types, among them what is written to each device, for every option, width and length of a line | one lemma per group of actions; the encoding of the system call and its decoding keep option and number within their digits |
| `...!RunsAsAsked` | the kth change of an undisturbed run shows the value k - 1 steps on, at its position | the code steps value, position and count on in place: after k steps they are given by quotient and remainder of the start plus k (lemmas on `\div` and `%` by 8 and 4), which `RunInv` says at each of the callback's steps |
| `...!TextsWhole` | no move takes a character of a line out of the display | each line is its message at an offset between 0 and what the width leaves, and is not at the end that it moves to (`Roams`): the one column that the code tests after a move tells that (`MovesWhole`) |
| `PuzzleGame_proofs!TypeCorrect` | types and bounds, for all sizes and limits | the thread loads `time_left` only from above zero and starts once, so -1 is the least; ten points for each button counted |
| `...!SolvableKept` | the board stays solvable, for any size | exchanging two buttons turns the pair of the two round, and of the two pairs that a third one forms with them both or none (`ExchangeFlips`): the inversions that come or go are odd in number. So the parity changes without an induction over the board; and an exchange with a neighbour changes that of the gap's way, too |
| `...!ScoreRight` | the score left on the display is that of the board | what the thread or `check_finish` has counted so far is ten points for each button in its place among those visited (`ScoreInv`), and a step of the loop adds one button to a set it was not in |
| `...!SolvedKept` | a solved puzzle stays solved | once won, `playing` is false, the UI thread is past the exchange and no key leads back to the start button |
| `WatchActivity_proofs!TypeCorrect`, `OneRuns`, `ObeysSoon` | types; one stopwatch runs; one late write at most; for any number of threads, events and posts | a thread below the current one has its flag cleared or never began, from the moment Stop has (`Replaced`); a thread that was late has passed no test since, unless Start resumed it (`LateOnce`) |
| `...!BoardRight` | but for a late write the FND shows the time of the current stopwatch | the invariant says of every step between a second and its output what the FND shows (`Shows`), and that a replaced or reset thread has not run (`Fresh`) |
| `...!Refinement` | across all replaced threads the watch implements `Stopwatch` | the abstract stopwatch is the current thread: running when neither paused nor told to end. No other thread can write its minutes and seconds, and Stop makes a new one that stands at zero |
| `FigureActivity_proofs!TypeCorrect`, `InputSafe`, `GoesDark` | types; options keep one figure, no ended thread is started; the devices go dark; for any number of threads, places and figures | a step on keeps exactly one figure (`SteppedOne`), so it holds of every copy, of the option and of what Go has read while nothing else was typed (`GoodSoFar`); threads not made yet are new (`Numbered`); only the last output of a thread has to leave darkness, whoever else runs |
| `...!RunsAsAsked` | the kth output of an undisturbed run is the figure k - 1 steps on | as for HW2: after k steps place and figure are quotient and remainder of the start plus k, for any number of places and figures; the run's own thread is the only one alive (`RunInv`) |
| `TextActivity_proofs!TypeCorrect` | types, for any limit, switches, texts and number of posts | one step per action; the two ways to say which letter comes next are the same (`LetterIs`) |
| `...!BoardRight` | with nothing under way the board shows the text of the screen | in the rounds of the switch thread, the copy is the text until it is shown, and then the board is, until a post sets `modified` again; whoever changes the text between is in `missed` (`BoardInv`) |
| `...!TextRight` | the text is what a multi-tap editor makes of all that was typed | what is wanted is, in turn, the letter to come on the copied text, `insert_text` while a post that will put it on the screen is under way, and the text itself (`LetterWanted`, `PostWanted`, `TextWanted`) |

Assumptions are those of the modules (`SizeAssumption`, `TickAssumption`,
`BufferAssumption`, `HandshakeAssumption`, `BlinkAssumption`, `BoardAssumption`, `PuzzleAssumption`,
`WatchAssumption`, `FigureAssumption`, `TextAssumption`); TLC evaluates them in the runs. A
theorem on one application (`OneSessionSafe`, `TimersEnd`, `Refinement` of the
driver) has that as a hypothesis, which the runs of HW3 fulfil, and those that
need `Prompt` have that one, which the runs of HW1 fulfil. The inductive
invariants were checked with TLC before they were proved. Of the type
invariants, the runs check those of HW2, of the handshake and of the text
editor, and the theorems alone the others.

Only model-checked: all liveness properties (`HeldButtonEndsSession`,
`BurstsAreServed`, `CommandsArrive`, `QuitEndsAll`, `RunsEnd` of HW2 and of the
figure switch, `GameEnds`, `LeavingEndsThreads`, `TooLongIsReplaced`,
`LeavingEndsThread`), since liveness under fairness is out of the prover's
reach. Every safety property of a run is stated by a theorem, except
those of the three findings, which are false.

## 7. Not modelled

| Part | Why |
|---|---|
| HW1: failing `fork`, LED and segment patterns | no state to speak of |
| HW1: a push switch that cannot be opened (588-589) | stores the mode 0 like the failures of devices that are modelled (`Die`) |
| HW1: what typing makes of no button (`char_set` has nine rows, 319) | up to the compiler's memory layout; that it needs a key between main's tests and its lookup is modelled |
| HW1: `die` before the mode segment is attached (56), `sprintf` of five bytes into `temp[4]` (285) and `atoi` of what is not terminated (291; the counter is plain arithmetic here), `value[4]` of HW2 (345) | what happens is up to the compiler's memory layout |
| HW1: the cells that the text of mode 2 and the commands of mode 3 share (856) | `BoardProcesses` clears the cell of the command when a mode begins (`ResetCells`); what else of the text the command cells hold is left to the composition in section 8 |
| HW2: a failing `copy_from_user` (475-476), the time between two changes | the write returns before it changes anything; no property is about the length of the interval |
| HW3: a failing `insmod` (291-309), an open before `init_timer` (324) | after a failed `ioremap` the device stays registered for a module that is gone, and a timer that was never initialised is used: what happens then is up to the memory |
| HW2 kernel tree, HW3 examples, binary drivers | Linux files with one line added; handed out with the assignment; no source |
| HW4 music player, CPU usage reader, menus | calls to a library whose states are not in the repository; parsing and arithmetic without state; no state |
| HW5 text editor, figure switch: the thread that shows the CPU usage, labels, the fields that are typed into | posts of text that nothing else reads |
| HW5 figure switch: `time` of 0, options of fewer than four characters (87-88, 102) | a time of 0 stores the option (84) and starts nothing, as inputs that are modelled do; a short option throws, which ends the application |
| HW5 figure switch: the two lines as they move | as in `BlinkDriver`, where they are modelled |
| HW5 watch: the fields of date and time and their buttons | numbers stepped through by one listener, without another context |
| HW5 menu, custom mode | no state; flags that two contexts toggle and a poll like that of `TextActivity`. What is particular to it is evident without a model: `run` loops on `true` |

## 8. Plan

Done, in the order of importance: HW3 (interrupts and timers, the densest
concurrency), HW1 (processes), HW2, the puzzles, the watch, the figure switch
and the text editor of HW5. What is left:

1. **Composition**: the activities of HW5 share the displays, and threads of the
   puzzle and the watch outlive theirs by a second. A module of two activities
   and the menu would say which display they may disturb.
2. **HW1**: the text of mode 2 and the commands of mode 3 in one segment, by
   composing `TextBuffer` and `BoardProcesses`.
3. **HW4**: the music player with an external `MediaPlayer`.
