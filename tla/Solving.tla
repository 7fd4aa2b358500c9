------------------------------ MODULE Solving ------------------------------
(***************************************************************************)
(* The runtime half of a MapSolver (src/src/core/mapsolver.cpp): the       *)
(* deployed maps, each with the matcher of its trigger, fed in step.       *)
(*                                                                         *)
(* maps is a sequence of records [trigger, target]; stacks holds the stack *)
(* of each map's matcher, in the same order.  The operators are used by    *)
(* MapSolver, and by the modules of its callers.                           *)
(***************************************************************************)
EXTENDS Matching

(* A matcher that has seen nothing, for every map.                         *)
Fresh(maps) == [i \in 1..Len(maps) |-> <<>>]

(* update_state(u) of every matcher.                                       *)
Updated(maps, stacks, u) ==
  [i \in 1..Len(maps) |->
     Append(stacks[i], StepOf(maps[i].trigger, Top(stacks[i]), u))]

(* An update of some matcher never returns.                                *)
SolverDiverges(maps, stacks, u) ==
  \E i \in 1..Len(maps) :
    StepOf(maps[i].trigger, Top(stacks[i]), u).state = Diverges

AllRejected(stacks) == \A i \in DOMAIN stacks : IsRejected(stacks[i])

(* Mutant: the last of the accepting maps.                                 *)
ChosenLast(stacks, u) ==
  LET accepted == {i \in DOMAIN stacks : IsAccepted(stacks[i])}
  IN  IF accepted = {} \/ u = {} THEN 0
      ELSE CHOOSE i \in accepted : \A j \in accepted : i >= j

(* Mutant: the index is counted from the wrong end of begin().             *)
ChosenOneOff(stacks, u) ==
  LET accepted == {i \in DOMAIN stacks : IsAccepted(stacks[i])}
  IN  IF accepted = {} \/ u = {} THEN 0
      ELSE 1 + CHOOSE i \in accepted : \A j \in accepted : i <= j

(* The index of the map that max_element() picks, 0 when its number is 0.  *)
(* update_state() returns the size of u from every matcher that accepts,   *)
(* so the maximum is shared by all of them and the first one is taken.     *)
Chosen(stacks, u) ==
  LET accepted == {i \in DOMAIN stacks : IsAccepted(stacks[i])}
  IN  IF accepted = {} \/ u = {} THEN 0
      ELSE CHOOSE i \in accepted : \A j \in accepted : i <= j

(* Mutant: the unit nobody wanted is left on the stacks.                   *)
MapCommandFromKeepsShift(maps, stacks, u, autoReset) ==
  LET up     == Updated(maps, stacks, u)
      chosen == Chosen(up, u)
      reset  == IF autoReset THEN Fresh(maps) ELSE up
  IN  IF AllRejected(up) /\ IsSystemOnly(u) THEN [stacks |-> up, fired |-> 0]
      ELSE IF AllRejected(up) \/ chosen # 0
           THEN [stacks |-> reset, fired |-> chosen]
      ELSE [stacks |-> up, fired |-> 0]

(* Mutant: the unit that ended a line also begins the next one.            *)
MapCommandFromReusing(maps, stacks, u, autoReset) ==
  LET up     == Updated(maps, stacks, u)
      chosen == Chosen(up, u)
      fresh  == IF autoReset THEN Fresh(maps) ELSE up
  IN  IF AllRejected(up)
      THEN [stacks |-> IF IsSystemOnly(u) THEN stacks ELSE fresh, fired |-> 0]
      ELSE IF chosen = 0 THEN [stacks |-> up, fired |-> 0]
      ELSE [stacks |-> Updated(maps, fresh, u), fired |-> chosen]

(* map_command_from(u, autoReset): the stacks it leaves and the map whose  *)
(* target it returns.  A rejection by every matcher of a unit with nothing *)
(* but system keys is unwound, any other one starts the matching anew.     *)
MapCommandFrom(maps, stacks, u, autoReset) ==
  LET up     == Updated(maps, stacks, u)
      chosen == Chosen(up, u)
      reset  == IF autoReset THEN Fresh(maps) ELSE up
  IN  CASE AllRejected(up) /\ IsSystemOnly(u) ->
             [stacks |-> [i \in 1..Len(maps) |-> Backward(up[i], 1)],
              fired |-> 0]
        [] AllRejected(up) /\ ~IsSystemOnly(u) ->
             [stacks |-> reset, fired |-> 0]
        [] ~AllRejected(up) /\ chosen = 0 -> [stacks |-> up, fired |-> 0]
        [] ~AllRejected(up) /\ chosen # 0 -> [stacks |-> reset, fired |-> chosen]

(* is_matching_any(): some matcher remembers an input, whatever it thinks  *)
(* of it.                                                                  *)
IsMatchingAny(stacks) == \E i \in DOMAIN stacks : Len(stacks[i]) > 0

=============================================================================
