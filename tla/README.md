# A formal model of win-vind

win-vind binds functions of Windows (moving the mouse, the windows, the text
caret) to sequences of keys, in the manner of Vim: there are modes, counts,
mappings, a command line and a `.vindrc`. This directory models the part of it
that decides what a key stroke means: from the low-level keyboard hook to the
list of functions that are executed, and the parts around it where threads, other
processes and nested loops meet. Paths below are relative to `src/src/` of
the sources unless they begin with `docs/` or `tests/`.

1. [The system](#1-the-system)
2. [Modules and code](#2-modules-and-code)
3. [Runs: what is checked, on which instances](#3-runs)
4. [Fairness](#4-fairness)
5. [Proofs](#5-proofs)
6. [What the code does differently from what is said of it](#6-findings)
7. [What is not modelled](#7-what-is-not-modelled)
8. [Plan](#8-plan)

Run `tlc -config X.cfg MCX` for a configuration (`MapRegistryLoop.cfg` goes with
`MCMapRegistry`; `PROJECT.json` lists the pairs), and `tlapm M.tla` for the
eight modules of proofs. `PROJECT.json` also maps every definition to the lines it
stands for.

## 1. The system

### 1.1 Parts, and how they interact

```
 user ──► keyboard hook ──► InputGate ──pressed_list()──► TypingEmulator
          (main thread)      ▲  ▲  │                           │ units
                   hotkeys   │  │  └─► other programs          ▼
                             │  │ absorb, pushup           InputHub ◄── requests of
             MapSolver.deploy()  └──── bound functions ◄───┤  ▲ │        other processes
                                         (system thread)   │  │ ▼
             .vindrc ──► tables of MapSolver ──────────────┘  MapSolver ──► CmdMatcher
                                                          (one per mode)   (one per map)
```

Two threads matter most. The *main thread* runs the message loop of the GUI, and so
the low-level keyboard hook `InputGate::hook_proc`. The *system thread*
(`gui/main.cpp`) calls `VindEntry::update()` for ever; every exception that
reaches it there ends the process. The InputGate is shared by the two without a lock.
EasyClick matches keys on a third thread while the system thread paints, the cache
of UI elements scans a window on a fourth, and other processes write their requests
into a shared memory.

| Part | State | Operations | What makes it correct |
|---|---|---|---|
| **CmdMatcher** (`core/cmdmatcher.cpp`) | the trigger, a stack of states, a stack of positions | `update_state`, `backward_state`, `reset_state` | its verdict is that of the whole input; a step back is an exact undo; it returns |
| **MapSolver, recognizing** (`core/mapsolver.cpp`) | the deployed maps with their matchers | `map_command_from`, `backward_state`, `reset_state`, `is_matching_any` | the matchers see the same inputs; the first trigger spelled fires; a `<shift>` on its own is forgotten |
| **MapSolver, registering** (same file) | default bindings, the user's noremaps and maps, what is deployed; the hotkeys in the InputGate | `add_map`, `add_noremap`, `remove`, `clear`, `deploy` | one meaning per trigger; independence of the order; nothing left behind; it returns |
| **TypingEmulator, KeyStrokeRepeater** (`core/typeemu.cpp`, `util/keystroke_repeater.cpp`) | the keys seen last, a timer | `lowlevel_to_typing` | every press is typed, once, with its modifiers; repeats only after the wait |
| **InputHub** (`core/inputhub.cpp`) | a solver per mode, two queues, the count typed so far, a TypingEmulator | `fetch_input`, `pull_input`, `pull_all_inputs`, `do_typing`, `apply_mapping`, `get_typed_input` | a function runs as often as counted; functions on their way disturb nothing; the queues come to an end |
| **InputGate** (`core/inputgate.cpp`, `.hpp`) | the real and the virtual key states, the ports, the absorption, the hotkeys | `hook_proc`, `pushup`, `map_syncstate`, `absorb`, `close_all_ports*`, the virtual presses | absorbed keys reach no program; no key stays down on either side that is up |
| **Modes** (`core/mode.cpp`, `bind/mode/`) | the global mode; locals of functions that wait | the `To*` functions, `InstantKeyAbsorber`, the command line | the absorption fits the mode; the command mode ends with the command line |
| **Options that follow the window** (`opt/dedicate_to_window.cpp`, `opt/suppress_for_vim.cpp`) | the target, the window seen last | `do_process`, `enable_targeting`, `disable_targeting` | they leave mode and absorption consistent |
| **VindEntry, Background** (`core/entry.cpp`, `core/background.cpp`) | shared memory for requests, a timer | `init`, `update`, `reconstruct`, `handle_system_call` | every queue is emptied, the state is corrected, a request is executed once and whole, the threads end together |
| **Command line** (`bind/mode/command_mode.cpp`) | the history of shared entries, an index into it, the matchers of the command mode | `sprocess`, `decide`, `forward`, `backward` | no line that was entered changes; what is entered is executed as it reads |
| **Run commands** (`bind/syscmd/`, `core/rcparser.cpp`) | variables, nesting of `source`, tables | `source`, `map`, `command`, `set` | the tables say what the last commands said |
| **EasyClick** (`bind/easyclick/`) | labels, counts of matched letters, a cancellation flag, what is on the screen | scan, label, paint, match (on two threads) | labels can be told apart; the screen shows what can still be chosen; what was typed is clicked; a failure ends both threads |
| **UI Automation cache** (`opt/uicache.cpp`) | an element, a future, time stamps that two threads use | `is_valid`, `update`, `latest`, the option's `do_process` and `do_disable` | nobody waits for ever; what is served never gets older; an idle computer is not scanned |
| **Cursor movers** (`bind/mouse/movecursor.cpp`) | an accelerating thread | `sprocess` | it stops when the keys are up |

### 1.2 What is hard

* *Interleaving.* The hook may run between any two statements of a function that
  emulates keys, reads the key state or changes the mode.
* *Protocol.* The solver is fed by typing, by its own maps, by functions on their
  way, and is reset, unwound, or deployed anew in between; a function that waits
  runs a loop of its own inside of the main loop, and may call another one.
* *Other processes.* A request is copied byte by byte, without a lock, into the
  memory that is read, executed and erased at the other end.
* *Failure.* `SendInput()`, painting, a scan and a parse may throw, with the keyboard
  absorbed, a key held or another thread waiting.
* *Partial views.* The keyboard is polled; the virtual state of a key is an
  estimate that is corrected afterwards.
* *Recursion.* Maps are solved against each other, and a matcher of `<num>` calls
  itself.
* *Limits.* A count goes through `std::stoi()` and 16 bits.

The list of hazards, at their lines and with the properties that watch them, is
in `PROJECT.json`.

## 2. Modules and code

A unit (`CmdUnit`) is a set of keys held together, a command a sequence of units.
Keys are model values; what the code distinguishes about them (system key, key
without hardware, representative of two physical ones, showing text) is given by
constants of `CmdUnits`.

```
 CmdUnits ◄─ Matching ◄─ CmdMatcher
    ▲            ▲  ▲─── TriggerLine (abstract) ◄─ refined by MapSolver
    │            │
    │         Solving ◄──── MapSolver
    │            ▲  ▲────── EasyClick ──► Hints
    │            │              └─ refines HintChoice (abstract)
    │        Remapping ◄─── MapRegistry       (Remapping ──► Sublists)
    │            ▲  ▲────── CommandLine ─ refines LineEditor (abstract)
  Typing ◄───────┴───────── InputHub
    ▲── TypingEmulator
  Sublists ◄─ InputGate   CommandParser ◄─ RequestServer   ModeControl   UICache

 XProofs EXTENDS X: CmdMatcher, MapSolver, CommandLine, InputGate, ModeControl.
 MappingProofs EXTENDS MapRegistry and InputHub, ThreadProofs TypingEmulator,
 UICache, RequestServer and EasyClick.  MatchingProofs EXTENDS Solving; these
 proofs EXTEND it, but for those of InputGate and ModeControl.
```

* **CmdUnits, Matching, CmdMatcher.** `Matching` has the transition function of a
  matcher as pure operators (`StepOf` is `update_state()`, `MatchAt` is
  `update_matching()`, `TakeNum` the rest of `update_anynum()`), and next to it a
  definition of what a trigger *means*, without states: `Spelling`, `Begins`,
  `Spells`. The two stacks of the code are pushed, popped and cleared together and
  are one stack of pairs. `CmdMatcher` is one matcher as a state machine, with the
  inputs it has not undone as a history variable. A call that never returns (see
  section 6) is `alive' = FALSE`, after which nothing happens.
* **Solving, MapSolver, TriggerLine.** `MapCommandFrom` is `map_command_from()`
  with its unwinding and its automatic reset, over the stacks of all matchers.
  `TriggerLine` is the abstract specification: a line of inputs that is extended,
  ignored, abandoned or fires. `MapSolver` implements it; the refinement maps `word`
  to itself, so that the matchers are what is hidden.
* **Remapping, MapRegistry.** `SolveRecursively` is
  `solve_mapping_recursive_impl()`, a recursion over the table of maps written as a
  recursive function; `SolvedNoremaps` and `SolvedMaps` are the two halves of
  `deploy()`. A chain of calls longer than the table has expanded a map twice, and
  then goes on for ever: `solve[room]` leaves room for so many calls, and `returns`
  records that there was none left, or that an update of a matcher did not return
  (`Overflow`). `MapRegistry` has the tables and the
  commands of the user that edit them, and the hotkeys that `deploy()` registers in
  the InputGate. `DefineCommand` is `command`, which writes two noremaps; `delcommand`
  is `RemoveMap` and removes one; `comclear` and `mapclear` are `Clear`.
* **Typing, TypingEmulator.** `Typed` is the unit that a poll returns for the keys
  that are down now and were down at the last poll. Time is a clock that stops at
  `WaitTime`; after that the sampling and the random velocity of the repeater are a
  free choice.
* **InputHub** composes one solver per mode (`Solving`), deployed from its tables
  (`Remapping`), with a typing emulator (`Typing`). `FetchInput(passed, mapped,
  parseCount)` is `fetch_input()`, and `pull_input()` when `mapped`; an action is one
  call, since one thread makes them all. `EnqueueMapped` feeds an input to the
  solver, and the target of what fires once more, as the code does. The count is
  kept as its digits, with the two widths of the code as constants.
* **ModeControl** has the mode and the absorption under every function that
  changes them or that waits for keys. `calls` is the stack of functions that have
  not returned, each with the locals its destructors use. The two options are polled
  by the main loop and by those functions that process options while they wait.
  `Decide` is `decide()` of the command line, `ExecuteWithin` what
  `to_instant_gui_normal` executes: any functions of the table, one after the other,
  until `Return`. `exposed` is a history variable: whether the mode was entered with the
  keyboard open, or within a function that found it open and will give it back so.
* **InputGate** has two threads that work through sequences of steps (`todo`). A
  step is as much as happens without the other thread being able to tell; steps that
  look at the state before they know what to do put new steps in front. A message
  generated by `SendInput()` passes the hook, so it needs an idle hook or is sent by
  the hook itself. `absorb`, `mode`, `port`, `state`, `real` and `low` are the fields of
  the code; `held` and `app` are the truth about the keyboard and about the other
  programs, which the code cannot see. The functions are `ToNormal` and `ToInsert`,
  `Stroke` (any function that emulates keys), `SwitchWindow` (a `ScopedKey` that is held while arrows are pushed up) and
  `ResizeWindow` (an `InstantKeyAbsorber` that waits). `SendExternal` is an external unit,
  which calls `pushup()` as a function does, but not within `BindedFunc::process()`. Where
  `fails` is TRUE a `SendInput()` of the system thread may throw anywhere: `Thrown` unwinds
  the destructors on the way and goes on with the recovery of `process()`, or with the end
  of the thread where no function is running; `Caught` is a failure within a destructor or
  within the recovery. Toggle
  keys send no message when they come up, so `RefreshToggleState` polls them.
  `Terminate` and `Uninstall` are the end: the hook goes, and what is pressed is let go.
* **LineEditor, CommandLine.** The entries of the history are shared pointers: `hists`
  is a sequence of names and `points` says what each name stands for, so that an
  aliased entry is an alias in the model. `MapCommandFrom` writes the line, without
  resets in `decide()`. `LineEditor` is what a user expects: a line, lines of the past
  that never change, a position among them.
* **CommandParser, RequestServer.** The shared memory is a sequence of bytes. `Copy` writes
  one byte of a text, any of those not written yet, so that texts of different lengths
  overlap and tear in every way, those of one sender also when they are read while they
  are copied. The server looks (when its timer allows), takes the length up to the first
  NUL, parses what the bytes say, queues the keys for typing, executes, erases the memory
  and pulls, in steps between which a sender may write. `CommandParser` is `parse_command()`
  over characters: a torn text is parsed to whatever it says, which may be units that
  nobody sent. A unit is known by the byte it begins with, and by its kind; the keys of a
  unit are left out. `Fail` and `Throw` are exceptions on the system thread; `AskToExit`,
  `LeaveMainLoop` and `EndProcess` are how the main thread learns of the end.
* **Hints, HintChoice, EasyClick.** `Assign` is `assign_identifier_hints()` over any
  alphabet of labels. `EasyClick` has the matching thread (`mpc`) and the painting
  thread (`ppc`), step by step where one reads what the other one writes: the number
  and the counts are returned as references, so that the lock protects nothing, and a
  read outside of a vector is any value. `HintChoice` is what a user expects: labels
  that are narrowed down, taken back, chosen or left.
* **UICache** keeps the ages of the time stamps instead of the time, up to `MaxAge`.
  The thread stamps, scans and stamps again; `update()`, `latest()` and `do_disable()`
  look at the stamps in between. Of a scan only its age is kept.

Every module has mutants (marked *Mutant*) right before the definition they
alter: plausible bugs that the properties must notice. They are used by no other
definition.

## 3. Runs

| Run | Question | Instance |
|---|---|---|
| CmdMatcher | Is a matcher right for whatever was fed, undone, reset, and when does it return? | 11 triggers with and without `<any>` and `<num>`, 6 inputs with two shifts, up to `MaxHistory` = 4 inputs remembered |
| MapSolver | Do the matchers stay in step, and implement a `TriggerLine`? | 7 tables of maps: shared beginnings, a trigger that begins another one, shifted pairs, keywords; `MaxHistory` = 4 |
| MapRegistry | Is what `deploy()` makes right for any tables of the user? | 2 default tables, 2 triggers, 5 targets, a command with 2 definitions; `MaxMaps` = 2, `MaxEdits` = 1 |
| MapRegistryLoop | Does `deploy()` return? *No.* | 3 triggers, targets of one key, `MaxMaps` = `MaxEdits` = 3 |
| TypingEmulator | Is every press typed once? | five real keys, two of them modifiers, `MaxKeys` = 3 down at a time, `WaitTime` = 2 |
| InputHub | Are functions executed as often as counted, undisturbed, and at last? | two modes; bindings of one and of two units, a map to two units, a map to a function and a key, a noremap; requests; counts |
| ModeControl | Do mode, absorption and command line fit together? | two windows, one of them a vim; the default bindings without options, and with both options and a command line that opens another one; requests of five functions; `MaxDepth` = 3 calls inside of each other |
| InputGate | Do keys come up, are absorbed keys kept back, and is a failure undone? | two keyboards: a toggle key that is a hotkey with a key that is let through, or a control key; a stroke of the control key and of the key that the hotkey is mapped to, by a function or an external unit; two functions that wait; failures anywhere |
| CommandLine | Does the history implement a `LineEditor`, and is a line executed as it reads? | 2 tables of commands, 10 inputs; `MaxLines` = 3, `MaxUnits` = 2 |
| RequestServer | Is a request executed once and whole, and does the program end? | 2 requests, `<f>k` and `{q}`, with every kind of unit between them and `<q>`, `{f}k` and texts that do not parse when they are torn; `Size` = 5 |
| EasyClick | Are the right labels shown and the right position clicked? | 3 letters, 2 or 4 positions (labels of one and of two letters), 7 inputs |
| UICache | Is everybody served, and with nothing older than before? | `Lifetime` = 2, `StayBegin` = 1, `StayEnd` = 2, `MaxAge` = 4 |

A property that is called a conjunction below states the types of the module
together with an invariant.

**CmdMatcher.** `Recognizes`: the verdict read off the stacks is the one that
`Spells` and `Begins` give to the inputs not undone. `Undoable`: the stacks depend
on those inputs alone. `StopsOnlyAtInnerNumber`: an update fails to return only when
the matcher stands at a `<num>` that is not the last unit, and then nothing has
changed. Four inputs suffice for a trigger of three units and one
input too many; all three are proved for every instance.

**MapSolver.** `InStep`: whatever was fed, unwound and reset, all matchers remember
the same inputs. `ImplementsLine`: refinement of `TriggerLine`. Both are proved. With four inputs a
line of three units can be abandoned, restarted, and interrupted by a `<shift>`.

**MapRegistry.** `TablesAgree` (with `OneMeaning`): no trigger is in two tables, and
none is both a hotkey and a trigger. `OrderIrrelevant`: permuting the tables changes
nothing. `NoremapAlone`: the target of a noremap depends on no other map of the user.
`DefaultsSurvive`: `deploy()` drops no default binding that nobody replaced.
`NoTraceOfRemoved`: with no maps left, `deploy()` restores the start.
`CommandsTakeArguments`: a command that is deployed means the same with arguments,
however often it was defined anew, deleted and deployed. Two maps are
enough to lead to each other, to share a trigger and to be solved in two orders.
The tables of what is registered are all reached, in every order, although at
most one edit is made before the next `deploy()`; a `deploy()` more or less changes
only what there is to be forgotten. A third map, without that bound, is in
MapRegistryLoop.

**TypingEmulator.** `PressesAreTyped`, `NoPressTwice`, `ModifiersAreKept`: the
three ways to get a difference of two sets of keys wrong. A press takes one tick
fewer than the wait, exactly it, or more. All three are proved.

**InputHub.** `CountsAreExact` accounts for every function in the queue: what is
pending after a call is what was pending, less what was returned, plus
what the fired maps promise, for either way of repeating a target.
`FunctionsLeaveNoTrace`: a function on its way through the solver, which sees a unit
without keys, leaves the matchers as they were, where no trigger has an `<any>`, a
`<num>` or an empty unit that takes it for an input. `MapsFireInTurn` (with
`FiresWhatIsSpelled`): a map is expanded when what its solver was given since it began
anew spells its trigger and no earlier one; the history variable `line` has these
units, among them the targets by which maps move the solver on. All three are proved.
`QueuesAreEmptied` and `KeyboardIsRead` are the liveness properties. Bounds: the digits
go down together, so that the count is 1 after the first time (a zero does not begin a
count), 101 after the second and too long after the third; `IntRange` = 102 stands for
2^31 and `CountRange` = 99 for 2^16 (101 becomes 2); `MaxWaiting` = 8 is the longest that
the queue of this instance gets: a larger bound leads to the same states.

**ModeControl.** `BlocksKeyMessages`: when nothing waits, the keyboard is absorbed
in exactly the modes for which the documentation says so, but for those that are
`exposed`: entered with the keyboard open (`to_gui_visual` in insert mode), or within a
function that found it open (the default `<F8>` of the insert mode, section 6). This is
the destructors' work: whatever was executed inside of a function that waits, at any
depth, the absorption fits the mode again when the last one has returned, or the mode
was exposed when it was entered. `ModesUnwind` (with
`CommandModeEnds`): the command mode does not outlive the command lines, however deep
they are nested and whatever the options made of the mode. The instance has two
settings: the default bindings as they are, and with both options and `to_command` bound
in the command mode. Depth 3 has a command line within a command line and a function
in it.

**InputGate.** `KeyboardAgrees` (with `KeysComeUp` and `NoGhostKeys`): when both threads
are idle, no program takes a key for pressed that the user let go, nor does win-vind;
after the end of the program, neither, but for the target of a hotkey that is held.
`BlocksKeyMessages` (a property of steps): with the keyboard absorbed, also by a
function that waits, no key of the user gets through unless its hotkey says so,
whichever ports were opened and closed before. `AbsorptionUnwinds`: whichever function
failed wherever, the absorption is again what the mode wants. The instance has every
kind of key: with a hotkey, let through, toggling, with a representative, only emulated.
The stroke and the hotkey use the same port, so that hook and system thread close it
under each other. What the properties leave out they name: `LeftOpen` are the ports of
section 6, and where `fails` is TRUE keys may stay down and ports open
(`AbsorptionUnwinds` holds there, too). What the instance leaves out: `Overlap` = FALSE
keeps the user from striking a key while the mode changes, all ports are closed or the
state is corrected, some microseconds; of the functions that are not followed by the
correction only `to_gui_normal` is requested; the hotkey is a toggle key, whose release
comes from the system thread. Without each of these restrictions `KeyboardAgrees` is
violated (section 6): what the run shows of it is the stroke that lifts the keys of the
user, the correction after it, and the end of functions that wait or hold a key. The
theorems about the absorption and the ports need none of them.

**CommandLine.** `ImplementsEditor`: refinement of `LineEditor`; the refinement maps the
past to what the names before the last one stand for, so that any aliasing shows.
`EntersTheLine` (with `ExecutesTheLine`): what `decide()` executes is the target of the
first deployed trigger among those that the longest beginning of the line spells.
Three entries are two lines of the past and one to edit; two inputs per line spell
every trigger, and a map that writes two units makes lines of four.

**RequestServer.** `UnitsExecutedOnce` (with `ExecutedOnce`, `NoKeysLeftOver`): however the
texts overlap and are torn, a byte that was sent begins at most one unit that is executed,
and this one is executed once, an external key twice; the functions of one request find no
keys of another one. It does *not* say that such a unit is one of those that were sent:
`std::memmove` without a lock does not promise that, and the run reaches texts that say
something else (section 6). `ServedAlone`: a request that nothing is written over, once
it is in the memory as a whole, is executed whole as it was sent, or the program ends.
`ExitEnds`: after an exit, a failure or the user's wish, the process ends. Two texts of
different lengths and the four brackets in them are enough for a torn text that is a
function, an exit, a key, an external key or an error. `ParserReads` in
`MCRequestServer` evaluates the parser on texts like those of its unit tests.

**EasyClick.** `LabelsFit` (with `LabelsChoose`): there are as many labels as positions,
and no label begins another one. `ImplementsChoice`: refinement of `HintChoice`. `ShowsCandidates`:
when nobody types any more, exactly what can still be chosen comes to be on the screen
and stays there. `CancelEnds`: when painting fails, the matching ends although nobody
types. Two and four positions are less and more than the alphabet of three, so that
labels of one letter, of two, and both at once occur. What painting reads is stale
or arbitrary in every way that the order of steps allows.

**UICache.** `ServedInTurn` (with `AtMostOneScanBehind`): whoever asks gets the last scan or
the one before it, or an element nobody scanned (section 6). `NeverOlder`: what is served
is not older than what was served before. `CallersReturn`: `latest()` and `do_disable()`
return. `LeavesAlone`: if the cursor rests for good, threads are launched no more. The
ages suffice to be before, in and after each of the intervals.

`CHECK_DEADLOCK FALSE` is in the runs of programs that may stop: after an endless
recursion, an exception or its end, or at the bound of the history.

## 4. Fairness

**InputHub.** `VindEntry::update()` is called for ever, and
pulls: *what is queued is pulled* is weak fairness of `Pull`, which stays enabled
until it happens. A request of another process is looked for at most once in a
`listen_interval`, and only when both queues are empty; in between `update()` begins
with a pull from the keyboard: so keys that stay other than they were seen, while the
queues are empty again and again, are looked at (`Poll`). This is less than strong
fairness of `Poll`, which would also promise to see a key that goes down and up between
two polls. Nothing is assumed of the user, of other processes, of the options, nor of
the edits of the maps. Both are written with what enables them instead of `ENABLED`,
which TLC evaluates very slowly here.

`QueuesAreEmptied` and `KeyboardIsRead` hold for maps that come to an end, as those of
the instance do, at no time cut off by `MaxWaiting`. They do not hold for maps that
produce themselves again.

**RequestServer.** Weak fairness of the loop of the system thread (functions return) and
of what the main thread does when it is told to end. Strong fairness of `Look`: the turns
of the loop that look at the memory are those where the timer has passed, again and
again, as a turn takes time (`Background::update()` sleeps) and the interval is finite.
The parse has a fairness of its own, in terms of how it ends (`EndOfParse`), because TLC
would parse the text once more for each way to enable it.
Nothing is assumed of the senders: a request may be copied in part for ever.

**EasyClick.** Weak fairness of either thread, which runs whenever it can. The user need
not type: `Fetch` has no fairness, and neither has a failure.

**UICache.** Weak fairness of the clock, of the thread of a scan (UI Automation answers or
fails), and of waking who waits for it. Nothing is assumed of how often the option is
polled or the elements are asked for.

## 5. Proofs

Eight modules hold proofs that TLAPS checks to the last leaf, for every value of the
constants that satisfies the named assumptions of the modules (all sets of keys, of
triggers, of maps, of requests, of windows; any depth and any bound). Each module
about a component EXTENDS it and proves one invariant `IInv` (`MatcherInv` for
`CmdMatcher`, `HubIInv` for `InputHub`, one for each part of `ThreadProofs`) to be
inductive, an action at a time; the theorems follow from it.

| Module | Theorem | States |
|---|---|---|
| CmdMatcherProofs | TypeCorrect, BackwardIsUndo, MatcherRecognizes | `[]TypeOK`, `[]Undoable`, `[]Recognizes` |
| | StopsAtInnerNumber | `StopsOnlyAtInnerNumber` |
| MapSolverProofs | TypeCorrect, MatchersInStep | `[]TypeOK`, `[]InStep` |
| | SolverIsATriggerLine | `ImplementsLine`: the solver refines `TriggerLine` |
| MappingProofs | OneMeaningAlways, NoremapsAloneAlways | `[]TablesAgree`, `[]NoremapAlone` |
| | DefaultsSurviveAlways, NoTraceOfRemovedAlways | `DefaultsSurvive`, `NoTraceOfRemoved` |
| | MapsFireInTurnAlways | of InputHub: `[]MapsFireInTurn` |
| | FunctionsLeaveNoTraceAlways, CountsAreExactAlways | of InputHub: `FunctionsLeaveNoTrace`, `CountsAreExact` |
| CommandLineProofs | LineEntered | `[]EntersTheLine` |
| | HistoryIsCopied | `ImplementsEditor`: the history refines `LineEditor` |
| ThreadProofs | TypeCorrect, EveryPressIsTyped, PressedOnceTypedOnce, ModifiersGoAlong | of TypingEmulator: `[]TypeOK`, `PressesAreTyped`, `NoPressTwice`, `ModifiersAreKept` |
| | ServedScansInTurn, NeverServedOlder | of UICache: `[]ServedInTurn`, `NeverOlder` |
| | RequestsDoNotMix | of RequestServer: `[]UnitsExecutedOnce` |
| | LabelsAlwaysFit | of EasyClick: `[]LabelsFit` |
| | ClicksWhatIsTyped | of EasyClick: `ImplementsChoice`, it refines `HintChoice` |
| ModeControlProofs | ModesAlwaysUnwind | `[]ModesUnwind` |
| | ModesKeepTheKeyboard | `[]BlocksKeyMessages` |
| InputGateProofs | TypeCorrect, AbsorptionSettles | `[]TypeOK`, `[]AbsorptionUnwinds` |
| | PortsAreClosedInTime | `BlocksKeyMessages` |
| MatchingProofs | (lemmas) | what the operators of `Matching` and `Solving` return; used by five of the others |

The components of `ThreadProofs` share no state; the definitions of UICache, RequestServer and
EasyClick that would clash with those of TypingEmulator are named `CacheSpec`, `ServerSpec`,
`ClickSpec` and so on.

**CmdMatcher.** `Undoable` is inductive with `TypeOK`: an update pushes what `StepOf`
says of the entry below, and a prefix of such a stack is such a stack. `Recognizes` is
not: it talks of the top of the stack alone, and after a step back another entry is the
top. `MatcherInv` says of *every* entry that it fits its position (`EntryFits`), that,
if it is live, the heads up to it are a spelling of the inputs up to it, and that there
is no other spelling (`SpellsOut`). Two lemmas of `MatchingProofs` carry the step:
`StepFollows` (one update moves a spelling on as the state machine does) and
`SpellingExtends` (the spelling of a longer word restricts to one of the shorter word,
hence uniqueness). An update that does not return leaves the invariant alone, which is
why the theorems hold in spite of the endless recursion; `StopsAtInnerNumber` says where
it can begin: at a `<num>` before the last unit, reached by inputs that spell the trigger
up to there.

**MapSolver.** The invariant says that every matcher remembers the common line
(`AllRemember`), in the words of the previous paragraph. What the solver fires is the
first matcher that accepts, so that the verdicts of the matchers are the guards of
`TriggerLine`: each of the four ways through `map_command_from()` (go on, forget a
`<shift>`, give up, fire) is a step of the abstract line, and a step back and a reset
are its `TakeBack`.

**MapRegistry.** `OneMeaning` is inductive once the two tables of the user are told apart
(`Tables`): the edits overwrite and remove in each of them, and `deploy()` treats them
differently. What a table lists is a set (`Listed`); the lemmas `PutAllListed` and
`SolveIntoListed` say what the loops of `deploy()` make of it: what the drafts solve to,
and what was listed before for the other triggers and for those of drafts that solve to
nothing. From these follow `SolvedNoremapsListed` and `SolvedMapsListed`, which do not
mention the order of the loops any more, and from them all four theorems.
`FunctionsSolveToThemselves` is why the defaults survive: the unit of a bound function has
no keys, so that no matcher of a default goes on with it, and a default target is solved to
itself. `IsDefault` assumes of the default tables what `add_default()` makes of
`mapdefault.cpp`: a trigger is listed once, has keys in every unit, and a target consists of
functions. About the recursion the proofs use only that a target is made of units
of the draft and of the tables, by an induction over the room for calls.
That `deploy()` returns is not claimed, because it need not (section 6).

**InputHub.** `HubIInv` says that every matcher of every mode remembers the line of its
solver, in the words of `MatchingProofs`. That alone is not about what is expanded, so
the lemmas follow one call from the first input to the last: within it, what was expanded
so far is spelled by the line it was expanded on, and what was added to the queue is what
these maps promise (`MapCommandKeeps`, `FeedAllKeeps`, `EnqueueMappedKeeps`,
`EnqueueAllKeeps`). Feeding a target to the solver moves the line as typing does, hence
the invariant needs no assumption on targets. The counts are sums over queues that are
joined, cut and repeated; `TotalOfBoth`, `PendingOfRepeated` and `ExpansionIsExact` say
what becomes of them. For a bound function, `SilentInputIsUnwound` shows that a unit which
hits no unit of a trigger is rejected by every matcher, is a unit of nothing but system
keys (it has none), and is therefore taken back. A call that does not return
(`running' = FALSE`) promises nothing about counts, and keeps the invariant.

**CommandLine.** The invariant says that no two entries of the history have the same name
(`Distinct`: through an alias a line of the past would change), that nothing is executed
while the line is open, and that what was executed is what the last line spells.
`decide()` gives the units of the line to all matchers without resetting them in
between; the lemmas behind `LineEntered` follow that loop unit by unit, with what
`MatchingProofs` knows of matchers that remember a line, to the longest beginning that some
trigger spells. A table must have no `<num>` inside a trigger (`LineAssumption`), or a
call may not return. In the refinement each action is a step of `LineEditor`; `NewName`
is where the bound `MaxLines` of the names is used, since an unused one is left.

**TypingEmulator.** The invariant says what the two variables of the code stand for:
`prev_cmdunit_` is what the last poll saw, and the timer of the repeater never runs
ahead of the time the keys have been still. Without the second part, a timer that is
not reset would repeat a key too early.

**UICache.** `InTurn` says which scan is where: with one in the future, `root_` holds the
one before it, without one the last. `Younger` relates both to what was given out; the
lemma behind it is that points of time keep their order while they get older, although
the ages stop at `MaxAge`.

**RequestServer.** What is executed once is a statement about the past, so the invariant
follows the bytes through the program: what was sent is in one place only, in the memory,
or as the beginning of a unit in the batch or in the queue for typing, an external key in
the last two at once, and the sum of what was done with it and what is ahead is bounded;
what the server is about to take out of the memory is new, because a byte is copied at
most once and erased memory holds none. Of the parser the proof needs one fact, by
induction over the text: the units begin at different characters (`ParsedInOrder`). Nothing
is assumed of what a torn text says, and nothing of the names.

**EasyClick.** That the labels are told apart is arithmetic, for an alphabet of any size:
a short word begins with a letter that no long word begins with, since fewer positions
are left for long words than these letters have room for (`QuotientBelow`), and the letters
of a long word are its number, digit by digit (`TwoLetters`, `ThreeLetters`,
`AssignedDistinguished`). For the refinement the invariant says that all matchers remember
one word (`Words`, in terms of `MatchingProofs`), and what the matching thread knows between
two letters (`Phases`): while it publishes, no matcher it has looked at accepts; when it
ends, its result says which one does; and nothing is typed into a label that is complete.
A trigger made of letters has one spelling, its letters (`BeginsLabel`), so that the
candidates are the labels that begin with the word, and the one that accepts is the word.
`ClickAssumption` says of the labels what `easyclickhint.cpp` lists: letters, which are
neither system keys nor keys with a representative. The word `"astray"` of
`HintChoice` is assumed not to be a key.

**ModeControl.** `CommandModeEnds` is not inductive: a function that returns restores
what it remembers. `Nested` says of every call of the stack that one which will go back to
the command mode has a command line below it. `ModesKeepTheKeyboard` has no hypothesis
on the bindings. What happens to the absorption is decided by what all the
waiting functions found: each destructor clears it if its own function found it clear.
The invariant says of each level of the stack what is left when the functions above it
have returned (`Absorbing`): it fits the mode, or `exposed`, there the variable itself and
below it what `to_command` remembers of it, says that it does not.

**InputGate.** The invariant is about the lists of steps both threads have still to do.
`Lists` says that each is well formed: what an exception can skip is followed by a step that
catches it, an opened port by one that closes it, `absorb` by the `mode` it belongs to.
`Settled` computes the absorption and the mode that the list of the system thread leads to:
what matters of a list are its gate steps (`Pending`), and `Settles` has the six forms
they can take, from none (absorption and mode agree already) to a pending
`~InstantKeyAbsorber`. A failure replaces the list by what `Thrown` leaves of it, and
`ThrownListed` shows that the destructors lead to the same end, unless the thread ends.
`PortsWillClose` says that an open port, but for those of `LeftOpen`, is closed by a list
before the thread waits. It holds of both lists at once, so that the hook and the system
thread may open and close the same port in any interleaving. `GateAssumption` is what
`keycode.cpp` says of the tables: the order of the keys names each once, hotkeys are
registered for keys that are their own physical key, and so is `<Tab>`.

**Induction.** A theorem of the library that takes a predicate as its parameter cannot be
instantiated here. What needs an induction over numbers (a list is filtered element by
element, a request is executed unit by unit, a matcher is fed one after the other)
is proved from `WFMin`, which takes a *set*: the least number that is not in the set
would have a predecessor that is (`LeastElement`, `InductionUpTo`).

*Model-checked only.* All liveness properties (`QueuesAreEmptied`, `KeyboardIsRead`,
`ServedAlone`, `ExitEnds`, `ShowsCandidates`, `CancelEnds`, `CallersReturn`,
`LeavesAlone`): temporal reasoning under fairness is out of the prover's reach. Of the
safety properties:

* `OrderIrrelevant` and `CommandsTakeArguments` of `MapRegistry` cannot be theorems, as they
  do not hold for all constants. Of two triggers of one length that answer to the same
  unit (`<any>` and a key, a key and its representative) the first one of the table is
  taken; and a command whose target contains its own name drops it when it is solved, where
  its form with arguments expands it.
* `KeyboardAgrees` of `InputGate` depends on which keys are mapped to which, and is
  violated by instances that section 6 names.

## 6. Findings

One disagreement between the code and its comments has a run that shows it:

* **Maps that lead to each other** (`core/mapsolver.cpp:212`). The guard against
  endless solving knows only the first trigger: `map a a` and `map b a`, or
  `map a b`, `map b c`, `map c b`, recurse for ever. *MapRegistryLoop*.

Others were seen while modelling. Most show when the constants of a run, or a
definition, are changed as told:

* **A `<num>` in the middle of a trigger** (`core/cmdmatcher.cpp:207`).
  `update_anynum()` and `update_matching()` call each other with nothing changed when
  the unit at the `<num>` is no number, until the stack overflows: the trigger `<num>1`
  and the key `f` (run CmdMatcher with `alive` as an invariant). The documentation
  offers the keyword anywhere (`docs/cheat_sheet/keywords/index.md:31`).
* **`<F8>` in insert mode** (`core/inputgate.cpp:529`). If the function that
  `to_instant_gui_normal` waits for enters a normal mode, the destructor of the
  absorber opens the keyboard again: GUI Normal without "Block key messages". Likewise
  GUI Visual from insert mode, which leaves the absorption alone. These are the modes
  that are `exposed`; the run ModeControl with `exposed` left out of `BlocksKeyMessages`
  has the shortest behaviours.
* **Ports of physical keys** (`core/inputgate.hpp:590`). `pushup()` opens the port
  of `to_physical(<ctrl>)`, the left control key, and closes the one of `<ctrl>`: from
  then on the left control key passes an absorbed keyboard (`InputGate.cfg` with
  `LeftOpen` empty: `BlocksKeyMessages`).
* **Deleted commands that take arguments** (`bind/syscmd/command.cpp:66`). `command X Y`
  registers `X` and `X <any>`; `delcommand X` removes the first one only, although
  it is said to "remove the command" (`docs/usage/index.md:160`). What the three
  commands change is not deployed before the next map, option or `source`.
* **Torn requests** (`core/entry.cpp:207`, `:313`). The bytes of a request are copied without
  a lock while the server reads them. Two texts that overlap, and also a single one
  that is read half copied, parse to whatever they say: units that nobody sent, the
  function `<exit>`, or an error, which ends the resident program (run RequestServer with
  `pc # "execute" \/ \A n \in DOMAIN batch : \E r \in Requests : \E i \in DOMAIN Sent[r] : batch[n] = Sent[r][i]`
  as an invariant). The comment at `:313` calls it extremely rare.
* **Names that overrun their scope** (`core/cmdparser.cpp:183`). The scope of `ab{..}`
  ends where the brace does, but a name in `<>` ends at its `>`: of `<ctrl-{>}` the part
  after the brace is read again as an external scope.
* **External keys of a request** (`core/entry.cpp:330`) are executed at once, and
  again when they are pulled from the queue for typing. A text that comes while another one
  is executed is erased with it (`:333`), one that does not parse ends the resident
  program (`:322`), a failing `SendInput()` of an external unit ends it, too
  (`core/cmdunit.cpp:215`), and of the two options `-f` and `-c` in one call the second text is
  written over the first.
* **A cache that serves what it never scanned** (`opt/uicache.cpp:120`). After the first
  build `is_valid()` is TRUE although the result is still in the future, and
  `latest()` returns the element of the window handle, without the properties; a
  rebuild stamps its begin first, and makes an element of any age valid.
* **EasyClick**: `throw e` slices the exception, so that it is not the runtime error that
  `process()` catches, and the system thread ends (`bind/easyclick/easyclickcore.cpp:196`);
  a cancellation that comes before the reset of the matching thread is lost
  (`bind/easyclick/inputhinter.cpp:55`); the counts are read without the lock; hints
  stay on the screen where two different counts are equal in number, until the next
  letter; with more than 26^3 positions no label is painted.
* **A stroke that fails** after it lifted the keys of the user (`core/inputgate.hpp:459`)
  has cleared their virtual state; the next refresh overlooks them, and they stay down
  for a program when the keyboard is absorbed. Ports stay open. A failing
  `SendInput()` in `refresh_toggle_state()`, which the main loop calls, ends the process,
  and `~ScopedKey` lets its key go a second time.
* A toggle key that is pressed again while `refresh_toggle_state()` looks at it
  (`core/inputgate.cpp:250`) is forgotten, and its target stays down. The release of all
  keys at termination (`:121`) does not release the target of a hotkey that is held.
* `pushup()` of four keys and more (`core/inputgate.hpp:564`) starts at the second one and
  sends half of its events; `close_some_ports()` of a temporary list opens them
  (`core/inputgate.cpp:291`).
* A key struck between `close_all_ports_with_refresh()` and `absorb()` stays down in
  the program it reached; a key struck during the correction is cleared from the
  virtual state and overlooked by the next refresh (`InputGate.cfg` with
  `Overlap = TRUE`: `KeysComeUp`).
* A function that another process requests is not followed by the correction, so a
  key released during its `pushup()` stays pressed for win-vind (`Requested = {"stroke"}`:
  `NoGhostKeys`).
* **A hotkey and a stroke of its target** (`core/inputgate.cpp:412`). While `pushup()` sends
  the key that a hotkey is mapped to, the hook sends its release with a port of its
  own; `pushup()` closes that port in between, the release is absorbed, and the target
  stays down for the program (`InputGate.cfg` with `Toggles = {}` and the hotkey of
  `MCHotkeys` in both modes: `KeysComeUp`). The
  hotkey of the documentation, `<capslock>` (`docs/index.md:48`), is a toggle key, of
  which this is not so.
* Emulating a key that the user holds in a mode that lets keys through lifts it for
  the program; hotkeys that differ between modes get stuck when the mode changes while
  they are held (`MCHotkeys`: `KeysComeUp`).
* A count typed before a trigger of several units is spent on its first unit (`3gg` is
  `gg`), 65537 is 1, and ten digits end the process (`core/inputhub.cpp:170`).
* The target of a map moves the solver on when the map is expanded, and again when it
  is pulled from the queue (`core/inputhub.cpp:240`, `:272`): with `map t g`, one `t` and
  nothing else is a `g` twice, and runs the binding of `gg`. For the same reason a trigger
  that begins with `<any>` or `<num>` can take a bound function on its way through the
  queue for its first unit, and the key pressed next completes it or is lost.
* What a noremap produced is mapped again at run time by the maps of the user
  (`core/inputhub.cpp:272`), although the documentation says that its target "is
  always interpreted as the default binding" (`docs/usage/index.md:142`).
* The option `suppress_for_vim` returns before it notes the window when the mode is
  resident, and its lines 56 to 58 cannot be reached.

## 7. What is not modelled

* **Of the InputGate**: the registration of hotkeys while the hook runs (in `MapRegistry`
  it is an atomic step; in `InputGate` hotkeys are constant) and an exception in the hook. A message of
  a key does not come between `SendInput()` and the hook that it passes by.
* **Of the entry**: what `init()` prepares, and the options that `reconstruct()` switches on.
  What `update()` does to the queues is in `InputHub`, to the mode in `ModeControl`, to the
  key states in `InputGate`, to requests in `RequestServer`.
* **Of the run commands**: the parsing of `.vindrc` files, maps of several modes at once, an
  error that clears them and stops its file, files that source each other, and `set`.
* **Names**: the keys that a character or a name like `<ctrl-x>` stands for, and the keyboard
  layout, are functions of strings. The modules take commands as sequences of units;
  `CommandParser` says where units begin and of what kind they are.
* **EasyClick and the cache**: UI Automation and GDI, of which only success or failure
  is modelled; the list of the elements of a window is a number.
* **Text editing, windows, mouse, files, hotkeys, GUI, logging**: calls into the
  Windows API whose effects the code does not see, or pure output.
* **The cursor movers**: a thread each that ends when other keys are down than at its
  start; nobody waits for it, and what it moves is not read by any other part.

## 8. Plan

The order followed what the rest depends upon: the matcher, the solver and its
tables, the emulator, the hub; then the parts where threads and nested loops
meet, the gate and the modes; then the command line, the requests, EasyClick and the
cache. The proofs took the same way. A theorem still worth proving is `NoGhostKeys` of
`InputGate`, the half of `KeyboardAgrees` about win-vind itself.

To be modelled: files that source each other, over the tables of all modes.
