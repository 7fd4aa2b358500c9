----------------------------- MODULE Remapping -----------------------------
(***************************************************************************)
(* How the maps of a .vindrc are resolved against each other               *)
(* (src/src/core/mapsolver.cpp, deploy and what it calls).                 *)
(*                                                                         *)
(* A map is a record [trigger, target].  A trigger is a sequence of units. *)
(* The units of a target also say what executing them does: they are plain *)
(* keys, or keys sent to other programs ({abc} in a .vindrc), or a bound   *)
(* function (<click_left>), whose set of keys is empty.                    *)
(***************************************************************************)
EXTENDS Solving, Sublists, SequencesExt

CONSTANTS
  Functions,     \* the bound functions of the instance
  ModeFunctions  \* is_mode_modifiable(): those that change the mode

Plain == "plain"
External == "external"

ASSUME FunctionsAssumption ==
  /\ ModeFunctions \subseteq Functions
  /\ {Plain, External} \cap Functions = {}

TargetUnit ==
  [keys : Units \ {{}}, does : {Plain, External}] \cup [keys : {{}}, does : Functions]

Map == [trigger : Seq(Units), target : Seq(TargetUnit)]

KeysOf(target) == [i \in 1..Len(target) |-> target[i].keys]

(* remove_triggered_map() and the emplace_back() that follows it: the map  *)
(* goes to the end, and the one it replaces goes away.                     *)
RemoveTriggered(maps, trigger) ==
  Among(maps, {m \in Map : m.trigger # trigger})
Put(maps, m) == Append(RemoveTriggered(maps, m.trigger), m)

ChangesMode(target) == \E i \in 1..Len(target) : target[i].does \in ModeFunctions

(* A map that matched a part of its own expansion is left out of it.       *)
MapsToItself(trigger, m) == trigger = m.trigger \/ trigger = KeysOf(m.target)

-----------------------------------------------------------------------------
(* The locals of solve_mapping_recursive_impl(): the matchers, the units   *)
(* that are still the beginning of a trigger, what is solved, whether      *)
(* solving is given up, and whether the calls so far have returned.        *)
Start(refs) ==
  [stacks |-> Fresh(refs), queue |-> <<>>, solved |-> <<>>,
   giveUp |-> FALSE, returns |-> TRUE]

KeepAsIs(s, unit) ==
  [s EXCEPT !.solved = @ \o Append(s.queue, unit), !.queue = <<>>]

(* The unit completes the trigger of m; solve[t] is what the call for the  *)
(* target t returns.                                                       *)
AppendSolved(s, sub) ==
  [s EXCEPT !.solved = @ \o sub.target, !.returns = @ /\ sub.returns]
GiveUp(s, m) ==
  [s EXCEPT !.solved = @ \o m.target, !.giveUp = @ \/ ChangesMode(m.target)]
TakeMatched(s, m, trigger, recursively, solve) ==
  IF m.target = <<>> \/ MapsToItself(trigger, m) THEN s
  ELSE IF recursively /\ ~ChangesMode(m.target) THEN AppendSolved(s, solve[m.target])
  ELSE GiveUp(s, m)

(* What the matchers said of the unit, and which of them accepted it.      *)
TakeUnit(s, unit, up, chosen, trigger, refs, recursively, solve) ==
  CASE AllRejected(up) -> [KeepAsIs(s, unit) EXCEPT !.stacks = Fresh(refs)]
    [] ~AllRejected(up) /\ chosen = 0 ->
         [s EXCEPT !.stacks = up, !.queue = Append(@, unit)]
    [] ~AllRejected(up) /\ chosen # 0 ->
         TakeMatched([s EXCEPT !.stacks = Fresh(refs), !.queue = <<>>],
                     refs[chosen], trigger, recursively, solve)
TakeUpdated(s, unit, up, trigger, refs, recursively, solve) ==
  TakeUnit(s, unit, up, Chosen(up, unit.keys), trigger, refs, recursively, solve)

(* An update that never returns is that of a <num> inside a trigger.       *)
Overflow(s) == [s EXCEPT !.returns = FALSE]

(* One turn of the loop over the target.                                   *)
SolveUnit(s, unit, trigger, refs, recursively, solve) ==
  IF unit.does = External \/ s.giveUp THEN KeepAsIs(s, unit)
  ELSE IF SolverDiverges(refs, s.stacks, unit.keys) THEN Overflow(s)
  ELSE TakeUpdated(s, unit, Updated(refs, s.stacks, unit.keys),
                   trigger, refs, recursively, solve)

Result(s) == [target |-> s.solved \o s.queue, returns |-> s.returns]

(* solve_mapping_recursive_impl() of a target                              *)
SolveTarget(target, trigger, refs, recursively, solve) ==
  LET turn[n \in 0..Len(target)] ==
        IF n = 0 THEN Start(refs)
        ELSE SolveUnit(turn[n - 1], target[n], trigger, refs, recursively, solve)
  IN  Result(turn[Len(target)])

(* A chain of calls that is longer than the table of maps has expanded     *)
(* some map twice and, as a call depends on nothing but the target it is   *)
(* given, never returns.  solve[room] leaves room for so many calls.       *)
NoRoom == [target |-> <<>>, returns |-> FALSE]
SolveRecursively(trigger, target, refs, recursively) ==
  LET solve[room \in 0..(Len(refs) + 1)] ==
        IF room = 0 THEN [t \in Seq(TargetUnit) |-> NoRoom]
        ELSE [t \in Seq(TargetUnit) |->
                SolveTarget(t, trigger, refs, recursively, solve[room - 1])]
  IN  solve[Len(refs) + 1][target]

IsKeyToExternal(m) ==
  Len(m.trigger) = 1 /\ Len(m.target) = 1 /\ m.target[1].does = External

(* solve_mapping()                                                         *)
SolveMapping(m, refs, recursively) ==
  IF IsKeyToExternal(m) THEN [target |-> m.target, returns |-> TRUE]
  ELSE IF m.trigger = KeysOf(m.target) THEN [target |-> <<>>, returns |-> TRUE]
  ELSE SolveRecursively(m.trigger, m.target, refs, recursively)

-----------------------------------------------------------------------------
(* deploy(), in the order of the code.                                     *)

PutAll(maps, more) ==
  LET with[n \in 0..Len(more)] ==
        IF n = 0 THEN maps ELSE Put(with[n - 1], more[n])
  IN  with[Len(more)]

(* default noremaps, overwritten by those of the user                      *)
NoremapDrafts(default, noremaps) == PutAll(default, noremaps)

PutSolved(maps, m, target) ==
  IF target = <<>> THEN maps
  ELSE Put(maps, [trigger |-> m.trigger, target |-> target])

(* Mutant: the map it replaces goes away before it is known to solve.      *)
SolveIntoRemovingFirst(solved, drafts, refs, recursively) ==
  LET with[n \in 0..Len(drafts)] ==
        IF n = 0 THEN solved
        ELSE PutSolved(RemoveTriggered(with[n - 1], drafts[n].trigger), drafts[n],
                       SolveMapping(drafts[n], refs, recursively).target)
  IN  with[Len(drafts)]

SolveInto(solved, drafts, refs, recursively) ==
  LET with[n \in 0..Len(drafts)] ==
        IF n = 0 THEN solved
        ELSE PutSolved(with[n - 1], drafts[n],
                       SolveMapping(drafts[n], refs, recursively).target)
  IN  with[Len(drafts)]

(* Mutant: noremaps are solved against each other.                         *)
SolvedNoremapsTogether(default, noremaps) ==
  SolveInto(<<>>, NoremapDrafts(default, noremaps),
            NoremapDrafts(default, noremaps), FALSE)

SolvedNoremaps(default, noremaps) ==
  SolveInto(<<>>, NoremapDrafts(default, noremaps), default, FALSE)

(* the table that the maps of the user are solved against                  *)
MapTable(default, noremaps, maps) ==
  PutAll(SolvedNoremaps(default, noremaps), maps)

(* Mutant: each map is solved against those listed before it.              *)
SolvedMapsInTurn(default, noremaps, maps) ==
  LET Add(solved, m) == SolveInto(solved, <<m>>, solved, TRUE)
  IN  FoldLeft(Add, SolvedNoremaps(default, noremaps), maps)

SolvedMaps(default, noremaps, maps) ==
  SolveInto(SolvedNoremaps(default, noremaps), maps,
            MapTable(default, noremaps, maps), TRUE)

DeployReturns(default, noremaps, maps) ==
  /\ \A i \in 1..Len(noremaps) :
       SolveMapping(noremaps[i], default, FALSE).returns
  /\ \A i \in 1..Len(maps) :
       SolveMapping(maps[i], MapTable(default, noremaps, maps), TRUE).returns

(* A key mapped to keys of other programs is handed to the keyboard hook.  *)
IsHotkey(m) == IsKeyToExternal(m) /\ Cardinality(m.trigger[1]) = 1

=============================================================================
