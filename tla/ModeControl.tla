---------------------------- MODULE ModeControl ----------------------------
(***************************************************************************)
(* The mode, and whether the keyboard is absorbed: the functions that      *)
(* change them (src/src/bind/mode/*.cpp), the functions that absorb the    *)
(* keyboard for as long as they wait for keys (InstantKeyAbsorber), and    *)
(* the options that follow the foreground window (src/src/opt/*.cpp).      *)
(*                                                                         *)
(* Everything here happens on the system thread.  A function that waits    *)
(* for keys runs a loop of its own, in which it may execute others; calls  *)
(* holds the functions that have not returned, the innermost one last.     *)
(***************************************************************************)
EXTENDS Sequences, Integers

CONSTANTS
  Windows,     \* the windows that come to the foreground
  NoWindow,    \* NULL
  VimWindows,  \* those of an executable whose name contains "vim"
  Settings,    \* what a .vindrc says: the functions that each mode binds
               \* and the options that are switched on
  Requests,    \* the functions that other processes request
  InitMode,    \* the option initmode
  MaxDepth     \* bound on the functions that wait inside of each other

Modes == {"i", "r", "gn", "gv", "en", "ev", "c"}
Options == {"dedicate_to_window", "suppress_for_vim"}

ModeFunctions ==
  {"to_gui_normal", "to_edi_normal", "to_insert", "to_resident",
   "to_gui_visual", "to_edi_visual", "click_left"}
TargetFunctions == {"enable_targeting", "disable_targeting"}

(* The functions that wait for keys, and those among them that have the    *)
(* options processed meanwhile.  window_resizer and easy_click_left stand  *)
(* for the others of their kind (switch_window, jump_cursor_with_keybrd_   *)
(* layout; the motions), which touch neither the mode nor the keyboard.    *)
WaitingFunctions ==
  {"to_command", "to_instant_gui_normal", "window_resizer", "easy_click_left"}
PollingFunctions == {"to_instant_gui_normal", "window_resizer"}

Functions == ModeFunctions \cup TargetFunctions \cup WaitingFunctions

ASSUME ModeAssumption ==
  /\ NoWindow \notin Windows
  /\ VimWindows \subseteq Windows
  /\ Settings \subseteq
       [bound : [Modes -> SUBSET Functions], enabled : SUBSET Options]
  /\ Requests \subseteq Functions
  /\ InitMode \in {"i", "r", "gn", "en"}
  /\ MaxDepth \in Nat

VARIABLES
  rc,          \* the .vindrc that was read
  gate,        \* get_global_mode() and InputGate::is_absorbed()
  exposed,     \* history variable: that of BlocksKeyMessages
  calls,       \* the functions that wait, with their locals
  foreground,  \* the foreground window
  target,      \* Dedicate2Window::target_hwnd_
  past,        \* Dedicate2Window::past_hwnd_
  pre          \* pre_hwnd of SuppressForVim

windows == <<target, past, pre>>
vars == <<rc, gate, exposed, calls, foreground, windows>>

Gate(m, absorbed) == [mode |-> m, absorbed |-> absorbed]

(* The mode is entered with the keyboard open, or to be opened again by a  *)
(* function that waits and found it open.                                  *)
IsOpen(m) == m \in {"i", "r"}
Exposes(s, stack) ==
  ~IsOpen(s.mode) /\ (~s.absorbed \/ \E i \in 1..Len(stack) : ~stack[i].flag)

Becomes(s, stack) ==
  /\ gate' = s
  /\ exposed' = IF s.mode = gate.mode THEN exposed ELSE Exposes(s, stack)

-----------------------------------------------------------------------------
(* The functions that return at once.                                      *)

(* ToGUINormal and ToEdiNormal                                             *)
ToNormal(s, m) == IF s.mode = m THEN s ELSE Gate(m, TRUE)

(* ToInsert and ToResident                                                 *)
ToOpen(m) == Gate(m, FALSE)

(* ToGUIVisual, ToEdiVisual                                                *)
ToVisual(s, m) == [s EXCEPT !.mode = m]

(* ClickLeft                                                               *)
Clicked(s) == IF s.mode = "gv" THEN ToVisual(s, "gn") ELSE s

Changed(s, f) ==
  CASE f = "to_gui_normal" -> ToNormal(s, "gn")
    [] f = "to_edi_normal" -> ToNormal(s, "en")
    [] f = "to_insert"     -> ToOpen("i")
    [] f = "to_resident"   -> ToOpen("r")
    [] f = "to_gui_visual" -> ToVisual(s, "gv")
    [] f = "to_edi_visual" -> ToVisual(s, "ev")
    [] f = "click_left"    -> Clicked(s)

ChangeMode(f) ==
  /\ f \in ModeFunctions
  /\ Becomes(Changed(gate, f), calls)
  /\ UNCHANGED windows

(* Dedicate2Window::enable_targeting(), disable_targeting()                *)
ChangeTarget(f) ==
  /\ f \in TargetFunctions
  /\ IF "dedicate_to_window" \in rc.enabled
     THEN /\ target' = IF f = "enable_targeting" THEN foreground ELSE NoWindow
          /\ past' = NoWindow
     ELSE UNCHANGED <<target, past>>
  /\ UNCHANGED <<gate, exposed, pre>>

-----------------------------------------------------------------------------
(* The functions that wait.                                                *)

(* A call: whether the InstantKeyAbsorber found the keyboard absorbed, the *)
(* mode that to_command returns to and how this mode was entered, and      *)
(* whether the call executes a function.                                   *)
Call(f) ==
  [does |-> f, flag |-> gate.absorbed, back |-> gate.mode, exposed |-> exposed,
   busy |-> FALSE]

Calls ==
  [does : WaitingFunctions, flag : BOOLEAN, back : Modes, exposed : BOOLEAN,
   busy : BOOLEAN]

Enter(stack, f) ==
  /\ f \in WaitingFunctions
  /\ Len(stack) < MaxDepth
  /\ calls' = Append(stack, Call(f))
  /\ gate' = Gate(IF f = "to_command" THEN "c" ELSE gate.mode, TRUE)
  /\ UNCHANGED <<exposed, windows>>

(* Executes f, called from the innermost of the calls in stack.            *)
Process(stack, f) ==
  \/ Enter(stack, f)
  \/ (ChangeMode(f) \/ ChangeTarget(f)) /\ calls' = stack

Top == calls[Len(calls)]
Busy == [calls EXCEPT ![Len(calls)].busy = TRUE]
Below == SubSeq(calls, 1, Len(calls) - 1)

(* return_mode() of to_command                                             *)
ReturnsMode(s, call) == call.does = "to_command" /\ s.mode = "c"

(* Mutant: the mode is not returned to.                                    *)
ReturnedKeepingMode(s, call) ==
  Gate(s.mode, s.absorbed /\ call.flag)

(* Mutant: the keyboard is never left absorbed.                            *)
ReturnedUnabsorbing(s, call) ==
  Gate(IF ReturnsMode(s, call) THEN call.back ELSE s.mode, FALSE)

(* What is left when the locals of a call are destroyed, the InstantKey-   *)
(* Absorber first.                                                         *)
Returned(s, call) ==
  Gate(IF ReturnsMode(s, call) THEN call.back ELSE s.mode,
       s.absorbed /\ call.flag)

-----------------------------------------------------------------------------

Init ==
  /\ rc \in Settings
  /\ gate = Changed(Gate("i", TRUE),
                    CASE InitMode = "gn" -> "to_gui_normal"
                      [] InitMode = "en" -> "to_edi_normal"
                      [] InitMode = "i"  -> "to_insert"
                      [] InitMode = "r"  -> "to_resident")
  /\ exposed = FALSE
  /\ calls = <<>>
  /\ foreground \in Windows
  /\ target = NoWindow /\ past = NoWindow /\ pre = NoWindow

(* The user, or any program.                                               *)
Focus(w) == foreground' = w /\ UNCHANGED <<rc, gate, exposed, calls, windows>>

(* VindEntry::update() executes a function that the mode binds ...         *)
Execute(f) ==
  /\ calls = <<>>
  /\ f \in rc.bound[gate.mode]
  /\ Process(calls, f)
  /\ UNCHANGED <<rc, foreground>>

(* ... or that another process requests, whatever the mode.                *)
ExecuteRequest(f) ==
  /\ calls = <<>>
  /\ f \in Requests
  /\ Process(calls, f)
  /\ UNCHANGED <<rc, foreground>>

(* <enter>, once: decide() of the command line executes each function of   *)
(* the command that the line is mapped to.                                 *)
Decide(f) ==
  /\ calls # <<>> /\ Top.does = "to_command"
  /\ f \in rc.bound["c"]
  /\ Process(Busy, f)
  /\ UNCHANGED <<rc, foreground>>

(* ToInstantGUINormal executes all that a key is mapped to.                *)
ExecuteWithin(f) ==
  /\ calls # <<>> /\ Top.does = "to_instant_gui_normal"
  /\ f \in rc.bound["gn"]
  /\ Process(Busy, f)
  /\ UNCHANGED <<rc, foreground>>

(* <esc>, or what was executed has returned.                               *)
Return ==
  /\ calls # <<>>
  /\ calls' = Below
  /\ gate' = Returned(gate, Top)
  /\ exposed' = IF ReturnsMode(gate, Top) THEN Top.exposed ELSE exposed
  /\ UNCHANGED <<rc, foreground, windows>>

(* Dedicate2Window::do_process()                                           *)
Dedicated(s) ==
  CASE target = NoWindow \/ past = foreground -> s
    [] target # NoWindow /\ past # foreground /\ target = foreground ->
         ToNormal(s, "en")
    [] target # NoWindow /\ past # foreground /\ target = past ->
         ToOpen("i")
    [] OTHER -> s

(* SuppressForVim::do_process()                                            *)
Ignores(s) == "suppress_for_vim" \notin rc.enabled \/ s.mode = "r"
Suppressed(s) ==
  IF ~Ignores(s) /\ pre # foreground /\ foreground \in VimWindows
  THEN ToOpen("r") ELSE s

(* Background::update(), of the system thread or of a function that waits: *)
(* the options in the order of all_global_options().                       *)
Poll ==
  /\ \/ calls = <<>>
     \/ calls # <<>> /\ Top.does \in PollingFunctions /\ ~Top.busy
  /\ Becomes(Suppressed(Dedicated(gate)), calls)
  /\ past' = IF target = NoWindow THEN past ELSE foreground
  /\ pre' = IF Ignores(Dedicated(gate)) THEN pre ELSE foreground
  /\ UNCHANGED <<rc, calls, foreground, target>>

Next ==
  \/ \E w \in Windows : Focus(w)
  \/ \E f \in Functions :
       Execute(f) \/ ExecuteRequest(f) \/ Decide(f) \/ ExecuteWithin(f)
  \/ Return
  \/ Poll

Spec == Init /\ [][Next]_vars

-----------------------------------------------------------------------------

TypeOK ==
  /\ rc \in Settings
  /\ gate \in [mode : Modes, absorbed : BOOLEAN]
  /\ exposed \in BOOLEAN
  /\ calls \in Seq(Calls)
  /\ Len(calls) <= MaxDepth
  /\ foreground \in Windows
  /\ {target, past, pre} \subseteq Windows \cup {NoWindow}

(* "Block key messages?" in docs/usage/index.md: whenever nothing waits,   *)
(* the keyboard is open in the insert and the resident mode, and absorbed  *)
(* in every other one - unless the mode was entered with the keyboard open *)
(* (to_gui_visual in insert mode), or within a function that found it open *)
(* and gives it back so (to_gui_normal under <F8>).  Whatever waits, at    *)
(* any depth, and whatever the options do meanwhile, a mode keeps what it  *)
(* was entered with (change_mode.cpp, InstantKeyAbsorber).                 *)
BlocksKeyMessages ==
  calls = <<>> => (gate.absorbed <=> ~IsOpen(gate.mode) /\ ~exposed)

(* The command mode ends with the command line, also when command lines    *)
(* open inside of each other or an option changed the mode meanwhile       *)
(* (return_mode() in command_mode.cpp).                                    *)
CommandModeEnds ==
  gate.mode = "c" => \E i \in DOMAIN calls : calls[i].does = "to_command"

(* The functions that wait come back to a mode that has a reason to be, at *)
(* any depth (return_mode() and the loops in command_mode.cpp).            *)
ModesUnwind == TypeOK /\ CommandModeEnds

=============================================================================
