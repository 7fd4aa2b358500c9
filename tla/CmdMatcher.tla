----------------------------- MODULE CmdMatcher -----------------------------
(***************************************************************************)
(* One CmdMatcher (src/src/core/cmdmatcher.cpp): an incremental matcher of *)
(* input units against a trigger command whose last steps can be taken     *)
(* back, which is how MapSolver forgives a <shift> pressed on its own.     *)
(***************************************************************************)
EXTENDS Matching

CONSTANTS
  Commands,   \* the trigger commands of the instance
  Inputs,     \* the input units of the instance
  MaxHistory  \* bound on the inputs a matcher remembers

ASSUME MatcherAssumption ==
  /\ Commands \subseteq Seq(Units)
  /\ Inputs \subseteq Units
  /\ MaxHistory \in Nat

VARIABLES
  cmd,    \* cmd_, fixed when the matcher is constructed
  stack,  \* states_ and heads_
  alive,  \* FALSE once update_state() recurses without end
  word    \* history variable: the inputs that produced the stack

vars == <<cmd, stack, alive, word>>

Init ==
  /\ cmd \in Commands
  /\ stack = <<>>
  /\ alive = TRUE
  /\ word = <<>>

(* Mutant: a recursion that never ends is pushed like any other state.     *)
UpdateStateUnguarded(u) ==
  /\ alive
  /\ Len(stack) < MaxHistory
  /\ stack' = Append(stack, StepOf(cmd, Top(stack), u))
  /\ word' = Append(word, u)
  /\ UNCHANGED <<cmd, alive>>

(* update_state(u)                                                         *)
UpdateState(u) ==
  LET e == StepOf(cmd, Top(stack), u)
  IN  /\ alive
      /\ Len(stack) < MaxHistory
      /\ IF e.state = Diverges
         THEN alive' = FALSE /\ UNCHANGED <<stack, word>>
         ELSE /\ stack' = Append(stack, e)
              /\ word' = Append(word, u)
              /\ alive' = alive
      /\ cmd' = cmd

(* backward_state(n)                                                       *)
BackwardState(n) ==
  /\ alive
  /\ stack' = Backward(stack, n)
  /\ word' = SubSeq(word, 1, IF n < Len(word) THEN Len(word) - n ELSE 0)
  /\ UNCHANGED <<cmd, alive>>

(* reset_state()                                                           *)
ResetState ==
  /\ alive
  /\ stack' = <<>>
  /\ word' = <<>>
  /\ UNCHANGED <<cmd, alive>>

Next ==
  \/ \E u \in Inputs : UpdateState(u)
  \/ \E n \in 1..MaxHistory : BackwardState(n)
  \/ ResetState

Spec == Init /\ [][Next]_vars

-----------------------------------------------------------------------------

TypeOK ==
  /\ cmd \in Commands
  /\ stack \in Seq(Entry)
  /\ alive \in BOOLEAN
  /\ word \in Seq(Inputs)

(* The verdict the callers read off the two stacks is the one the whole    *)
(* history deserves, whatever was taken back in between: accepted exactly  *)
(* when the remembered inputs spell the command, rejected exactly when     *)
(* they do not even begin it (cmdmatcher.cpp is_accepted, is_rejected).    *)
Recognizes ==
  /\ IsAccepted(stack) <=> Spells(cmd, word, Len(word))
  /\ IsRejected(stack) <=> ~Begins(cmd, word, Len(word))

(* A step backwards is an exact undo: taking back the last input restores  *)
(* the stack the matcher had before it, so what is on the stack never      *)
(* depends on inputs that were taken back (cmdmatcher.cpp backward_state). *)
Undoable ==
  /\ Len(stack) = Len(word)
  /\ \A k \in 1..Len(stack) :
       stack[k] = StepOf(cmd, Below(stack, k), word[k])

(* Where update_state() may fail to return: only where the inputs have     *)
(* spelled the trigger up to a <num> that is not its last unit, be the way *)
(* there as it may, with inputs taken back or several to one <num>         *)
(* (cmdmatcher.cpp update_anynum).  Any other trigger is safe to match.    *)
StopsOnlyAtInnerNumber ==
  [][alive /\ ~alive' =>
       \E k \in 1..(Len(cmd) - 1) :
         /\ IsNum(cmd[k])
         /\ \E p \in [1..Len(word) -> 1..Len(cmd)] :
              /\ Spelling(cmd, word, Len(word), p)
              /\ k = IF word = <<>> THEN 1 ELSE p[Len(word)] + 1]_vars

=============================================================================
