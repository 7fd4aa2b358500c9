---------------------------- MODULE CommandLine ----------------------------
(***************************************************************************)
(* The command line of the command mode (src/src/bind/mode/command_mode.cpp*)
(* ToCommand): a loop that edits the last entry of a history and, when it  *)
(* is entered, feeds it to the solver of the mode to find its command.     *)
(*                                                                         *)
(* The entries of the history are shared pointers; here hists_ is a        *)
(* sequence of names, and points says what each name stands for.  The two  *)
(* logs of a CmdPoint always have the same length, and its text is what    *)
(* the units of the other log show: they are one sequence here.  The mode, *)
(* and the absorption that goes with it, are in ModeControl.               *)
(***************************************************************************)
EXTENDS Remapping

CONSTANTS
  Tables,    \* what the solver of the mode may be deployed with
  Inputs,    \* the units that fetch_input() may return
  ESC, BKSPACE, UP, DOWN, ENTER,
  MaxLines,  \* bound on the entries of the history
  MaxUnits,  \* bound on the inputs of a line
  MaxHistory \* bound on what the matchers remember while a line is typed

HasInnerNum(trigger) == \E i \in 1..(Len(trigger) - 1) : IsNum(trigger[i])

ASSUME LineAssumption ==
  /\ \A maps \in Tables :
       /\ maps \in Seq(Map)
       \* Otherwise an update may never return, see CmdMatcher.
       /\ \A i \in 1..Len(maps) : ~HasInnerNum(maps[i].trigger)
  /\ Inputs \subseteq Units
  /\ {ESC, BKSPACE, UP, DOWN, ENTER} \subseteq SystemKeys
  /\ {MaxLines, MaxUnits, MaxHistory} \subseteq Nat

VARIABLES
  maps,     \* deployed_ of the solver of the command mode
  stacks,   \* its matchers
  hists,    \* hists_
  points,   \* the CmdPoint of each name
  idx,      \* hist_idx_, counted from 1
  open,     \* the loop of sprocess() is running
  executed  \* what decide() is executing, <<>> for "Not a command"

vars == <<maps, stacks, hists, points, idx, open, executed>>

Names == 1..MaxLines

(* decide() is not running.                                                *)
Nothing == <<"nothing">>

Init ==
  /\ maps \in Tables
  /\ stacks = Fresh(maps)
  /\ hists = <<>>
  /\ points = [n \in Names |-> <<>>]
  /\ idx = 1
  /\ open = FALSE
  /\ executed = Nothing

Latest == points[Last(hists)]

-----------------------------------------------------------------------------
(* make_shared<CmdPoint>()                                                 *)
NewName == CHOOSE n \in Names : \A i \in DOMAIN hists : hists[i] # n

(* sprocess(), until its loop                                              *)
Open ==
  /\ ~open
  /\ Len(hists) < MaxLines
  /\ hists' = Append(hists, NewName)
  /\ points' = [points EXCEPT ![NewName] = <<>>]
  /\ idx' = Len(hists')
  /\ open' = TRUE /\ executed' = Nothing
  /\ UNCHANGED <<maps, stacks>>

(* quit_loop(), after which nobody refers to the entry any more            *)
QuitLoop ==
  /\ points' = [points EXCEPT ![Last(hists)] = <<>>]
  /\ hists' = Front(hists)
  /\ open' = FALSE

Edit(line) ==
  /\ points' = [points EXCEPT ![Last(hists)] = line]
  /\ UNCHANGED <<hists, open>>

(* The tests of the loop, in their order                                   *)
Controls == <<ESC, BKSPACE, UP, DOWN, ENTER>>
IsControl(u, key) ==
  \E i \in DOMAIN Controls :
    Controls[i] = key /\ key \in u /\ \A j \in 1..(i - 1) : Controls[j] \notin u

Escape(u) ==
  /\ IsControl(u, ESC)
  /\ QuitLoop
  /\ UNCHANGED <<maps, stacks, idx, executed>>

(* backspace(): the solver is not told                                     *)
Backspace(u) ==
  /\ IsControl(u, BKSPACE)
  /\ IF Latest = <<>> THEN QuitLoop ELSE Edit(Front(Latest))
  /\ UNCHANGED <<maps, stacks, idx, executed>>

(* Mutant: the pointer is assigned instead of what it points to.           *)
BackwardHistoryAliasing(u) ==
  /\ IsControl(u, UP)
  /\ idx > 1
  /\ idx' = idx - 1
  /\ hists' = [hists EXCEPT ![Len(hists)] = hists[idx - 1]]
  /\ UNCHANGED <<maps, stacks, points, open, executed>>

(* backward_history()                                                      *)
BackwardHistory(u) ==
  /\ IsControl(u, UP)
  /\ idx > 1
  /\ idx' = idx - 1
  /\ Edit(points[hists[idx - 1]])
  /\ UNCHANGED <<maps, stacks, executed>>

(* forward_history(): what was typed before <up> is not brought back       *)
ForwardHistory(u) ==
  /\ IsControl(u, DOWN)
  /\ idx < Len(hists)
  /\ idx' = idx + 1
  /\ Edit(IF idx' = Len(hists) THEN <<>> ELSE points[hists[idx']])
  /\ UNCHANGED <<maps, stacks, executed>>

-----------------------------------------------------------------------------
(* One unit of the line goes to the solver; found is the last map whose    *)
(* target it returned.                                                     *)
Look(s, u) ==
  LET r == MapCommandFrom(maps, s.stacks, u, FALSE)
  IN  [stacks |-> r.stacks, found |-> IF r.fired = 0 THEN s.found ELSE r.fired]

(* What the line leaves when the solver is given its units in their order. *)
LookUp(start, word) ==
  LET after[n \in 0..Len(word)] ==
        IF n = 0 THEN start ELSE Look(after[n - 1], word[n])
  IN  after[Len(word)]

FunctionsOf(found) ==
  IF found = 0 THEN <<>>
  ELSE LET calls == Among(maps[found].target, {x \in TargetUnit : x.keys = {}})
       IN  [i \in 1..Len(calls) |-> calls[i].does]

(* Mutant: reset_state() is forgotten.                                     *)
DecideUnreset(u) ==
  /\ IsControl(u, ENTER)
  /\ LET s == LookUp([stacks |-> stacks, found |-> 0], FlattenSeq(Latest))
     IN  stacks' = s.stacks /\ executed' = FunctionsOf(s.found)
  /\ open' = FALSE
  /\ UNCHANGED <<maps, hists, points, idx>>

(* decide(), and the end of sprocess(): the matchers stay as they are      *)
Decide(u) ==
  /\ IsControl(u, ENTER)
  /\ LET s == LookUp([stacks |-> Fresh(maps), found |-> 0], FlattenSeq(Latest))
     IN  stacks' = s.stacks /\ executed' = FunctionsOf(s.found)
  /\ open' = FALSE
  /\ UNCHANGED <<maps, hists, points, idx>>

(* encode_to_unicode() shows something.                                    *)
IsPrintable(units) == \E i \in DOMAIN units : ~IsSystemOnly(units[i])

(* What is written for the input u that the solver answered with a map.    *)
Printables(u, fired) ==
  LET keys == IF fired = 0 THEN <<>>
              ELSE Among(KeysOf(maps[fired].target), Units \ {{}})
  IN  IF keys = <<>> THEN <<u>> ELSE keys

(* write_as_printable(), with the matchers as the last call left them      *)
WriteAsPrintable(u) ==
  /\ \A i \in DOMAIN Controls : Controls[i] \notin u
  /\ \A i \in DOMAIN stacks : Len(stacks[i]) < MaxHistory
  /\ \E r \in {MapCommandFrom(maps, stacks, u, TRUE)} :
       /\ stacks' = r.stacks
       /\ IF IsPrintable(Printables(u, r.fired))
          THEN /\ Len(Latest) < MaxUnits
               /\ Edit(Append(Latest, Printables(u, r.fired)))
          ELSE UNCHANGED <<hists, points, open>>
  /\ UNCHANGED <<maps, idx, executed>>

Input(u) ==
  /\ open
  /\ \/ Escape(u) \/ Backspace(u) \/ BackwardHistory(u) \/ ForwardHistory(u)
     \/ Decide(u) \/ WriteAsPrintable(u)

(* apply_mapping(), when a command that was executed asked for it          *)
Deploy(table) ==
  /\ ~open
  /\ maps' = table
  /\ stacks' = Fresh(table)
  /\ executed' = Nothing
  /\ UNCHANGED <<hists, points, idx, open>>

Next ==
  \/ Open
  \/ \E u \in Inputs : Input(u)
  \/ \E table \in Tables : Deploy(table)

Spec == Init /\ [][Next]_vars

-----------------------------------------------------------------------------

TypeOK ==
  /\ maps \in Tables
  /\ stacks \in [1..Len(maps) -> Seq(Entry)]
  /\ hists \in Seq(Names)
  /\ points \in [Names -> Seq(Seq(Units))]
  /\ idx \in 1..(Len(hists) + 1)
  /\ open => hists # <<>>
  /\ executed \in Seq(Functions) \cup {Nothing}

Lines == [i \in DOMAIN hists |-> points[hists[i]]]

(* The history, with its shared entries and its index, behaves like lines  *)
(* that are copied: nothing the user does with the arrows, <bs>, <esc> and *)
(* <enter> changes or loses a line that was entered (command_mode.cpp,     *)
(* hists_).                                                                *)
Editor ==
  INSTANCE LineEditor WITH
    past    <- IF open THEN Front(Lines) ELSE Lines,
    line    <- IF open THEN Last(Lines) ELSE <<>>,
    at      <- IF open THEN idx ELSE Len(hists) + 1,
    editing <- open

ImplementsEditor == Editor!Spec

-----------------------------------------------------------------------------
(* The meaning of a line, over the line alone.  A unit of system keys that *)
(* no trigger can go on with is passed over.                               *)
Hopeless(word) ==
  \A i \in 1..Len(maps) : ~Begins(maps[i].trigger, word, Len(word))

GoesOn(word, u) ==
  IF IsSystemOnly(u) /\ Hopeless(Append(word, u)) THEN word ELSE Append(word, u)

Essence(units) ==
  LET upTo[n \in 0..Len(units)] ==
        IF n = 0 THEN <<>> ELSE GoesOn(upTo[n - 1], units[n])
  IN  upTo[Len(units)]

(* The maps that the line spells up to its k-th unit, and the longest      *)
(* beginning of the line that spells one.                                  *)
SpelledAt(word, k) == {i \in 1..Len(maps) : Spells(maps[i].trigger, word, k)}

Meaning(line) ==
  LET word == Essence(FlattenSeq(line))
      ends == {k \in 1..Len(word) : word[k] # {} /\ SpelledAt(word, k) # {}}
      end  == CHOOSE k \in ends : \A j \in ends : j <= k
  IN  IF ends = {} THEN <<>>
      ELSE FunctionsOf(CHOOSE i \in SpelledAt(word, end) :
                         \A j \in SpelledAt(word, end) : i <= j)

(* <enter> executes what the line says and nothing else, whatever was      *)
(* typed, erased, recalled and entered before: the command that the        *)
(* longest beginning of the line spells, the first one deployed of several *)
(* (decide()).                                                             *)
ExecutesTheLine == executed # Nothing => executed = Meaning(Latest)

(* The history is never without the line that is edited, and a line that   *)
(* is entered is executed as it reads (ToCommand, decide()).               *)
EntersTheLine == TypeOK /\ ExecutesTheLine

=============================================================================
