----------------------------- MODULE MapSolver -----------------------------
(***************************************************************************)
(* A deployed MapSolver (src/src/core/mapsolver.cpp) while it is used: the *)
(* inputs of map_command_from(), backward_state() and reset_state().  How  *)
(* the maps get deployed is the subject of MapRegistry.                    *)
(***************************************************************************)
EXTENDS Solving

CONSTANTS
  Deployments,  \* the sequences of maps of the instance
  Inputs,       \* the input units of the instance
  MaxHistory    \* bound on the inputs the matchers remember

ASSUME SolverAssumption ==
  /\ \A maps \in Deployments :
       /\ maps \in Seq([trigger : Seq(Units), target : Seq(Units)])
       /\ \A i \in 1..Len(maps) : maps[i].trigger # <<>>
  /\ Inputs \subseteq Units
  /\ MaxHistory \in Nat

VARIABLES
  deployed,  \* deployed_: its triggers and targets
  stacks,    \* deployed_: the state of each trigger's matcher
  fired,     \* the map whose target the last call returned, 0 for none
  alive,     \* FALSE once an update_state() recurses without end
  word       \* history variable: the inputs the matchers remember

vars == <<deployed, stacks, fired, alive, word>>

Init ==
  /\ deployed \in Deployments
  /\ stacks = Fresh(deployed)
  /\ fired = 0
  /\ alive = TRUE
  /\ word = <<>>

(* map_command_from(u, autoReset).  The history of word follows the        *)
(* description of the comments: inputs are forgotten when the line starts  *)
(* anew, and a lone <shift> nobody wanted is forgotten by itself.          *)
Feed(u, autoReset) ==
  /\ alive
  /\ Len(word) < MaxHistory
  /\ IF SolverDiverges(deployed, stacks, u)
     THEN alive' = FALSE /\ fired' = 0 /\ UNCHANGED <<stacks, word>>
     ELSE LET r    == MapCommandFrom(deployed, stacks, u, autoReset)
              dead == AllRejected(Updated(deployed, stacks, u))
          IN  /\ stacks' = r.stacks
              /\ fired' = r.fired
              /\ word' = CASE dead /\ IsSystemOnly(u) -> word
                           [] ~(dead /\ IsSystemOnly(u)) /\ autoReset
                                /\ (dead \/ r.fired # 0) -> <<>>
                           [] OTHER -> Append(word, u)
              /\ alive' = alive
  /\ deployed' = deployed

(* backward_state(n)                                                       *)
BackwardState(n) ==
  /\ alive
  /\ stacks' = [i \in DOMAIN stacks |-> Backward(stacks[i], n)]
  /\ word' = SubSeq(word, 1, IF n < Len(word) THEN Len(word) - n ELSE 0)
  /\ fired' = 0
  /\ UNCHANGED <<deployed, alive>>

(* reset_state()                                                           *)
ResetState ==
  /\ alive
  /\ stacks' = Fresh(deployed)
  /\ word' = <<>>
  /\ fired' = 0
  /\ UNCHANGED <<deployed, alive>>

Next ==
  \/ \E u \in Inputs, autoReset \in BOOLEAN : Feed(u, autoReset)
  \/ \E n \in 1..MaxHistory : BackwardState(n)
  \/ ResetState

Spec == Init /\ [][Next]_vars

-----------------------------------------------------------------------------

TypeOK ==
  /\ deployed \in Deployments
  /\ stacks \in [1..Len(deployed) -> Seq(Entry)]
  /\ fired \in 0..Len(deployed)
  /\ alive \in BOOLEAN
  /\ word \in Seq(Inputs)

(* The matchers never get out of step: whatever was fed, unwound and       *)
(* reset, each of them remembers the same inputs, and its stack is the one *)
(* those inputs alone lead to (mapsolver.cpp map_command_from).            *)
InStep ==
  \A i \in 1..Len(deployed) :
    /\ Len(stacks[i]) = Len(word)
    /\ \A k \in 1..Len(word) :
         stacks[i][k] =
           StepOf(deployed[i].trigger, Below(stacks[i], k), word[k])

-----------------------------------------------------------------------------
(* What the solver promises, over the history alone: see TriggerLine.      *)
Line == INSTANCE TriggerLine

(* The solver is a TriggerLine: it fires a map exactly when the inputs     *)
(* since the line began spell its trigger and no earlier map's, and the    *)
(* stacks of the matchers are an implementation of that (mapsolver.cpp).   *)
ImplementsLine == Line!Spec

=============================================================================
