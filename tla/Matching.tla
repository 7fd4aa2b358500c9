------------------------------ MODULE Matching ------------------------------
(***************************************************************************)
(* The transition function of a CmdMatcher (src/src/core/cmdmatcher.cpp).  *)
(*                                                                         *)
(* The code keeps two stacks, states_ and heads_, which every operation    *)
(* pushes, pops and clears together; here they are one stack of entries.   *)
(* A head is the position in the command the input was matched at, counted *)
(* from 1 (the code counts from 0).                                        *)
(***************************************************************************)
EXTENDS CmdUnits

States == {"ACCEPTED", "REJECTED", "MATCHING",
           "ANY_ACCEPTED", "ANYNUM_MATCHING", "ANYNUM_ACCEPTED"}

Entry == [state : States, head : Nat]

(* What an update would do that never returns: see MatchAt.                *)
Diverges == "DIVERGES"

Push(state, head) == [state |-> state, head |-> head]

Reject(cmd) == Push("REJECTED", Len(cmd) + 1)

(* The bottom of the stack: an empty stack matches from position 1.        *)
Top(stack) == IF stack = <<>> THEN Push("MATCHING", 0) ELSE stack[Len(stack)]

(* The entry that the k-th entry was pushed on.                            *)
Below(stack, k) == IF k = 1 THEN Push("MATCHING", 0) ELSE stack[k - 1]

(* update_anynum() once the unit is known to show no text.                 *)
TakeNum(cmd, head) ==
  Push(IF head = Len(cmd) THEN "ANYNUM_ACCEPTED" ELSE "ANYNUM_MATCHING", head)

(* Mutant: the test for the last unit is missing in update_anynum().       *)
MatchAtUnchecked(cmd, head, u) ==
  CASE head > Len(cmd) -> Reject(cmd)
    [] head <= Len(cmd) /\ IsAny(cmd[head]) -> Push("ANY_ACCEPTED", head)
    [] head <= Len(cmd) /\ IsNum(cmd[head]) ->
         IF u \notin TextUnits THEN TakeNum(cmd, head) ELSE Push(Diverges, head)
    [] OTHER ->
         IF UnitMatches(cmd[head], u)
         THEN Push(IF head = Len(cmd) THEN "ACCEPTED" ELSE "MATCHING", head)
         ELSE Reject(cmd)

(* update_matching(): the unit at head decides.  On a text unit at a <num> *)
(* that is not the last, update_anynum() calls update_matching() again,    *)
(* which finds the stacks as they were and calls update_anynum(): the two  *)
(* functions call each other until the call stack overflows.               *)
MatchAt(cmd, head, u) ==
  CASE head > Len(cmd) -> Reject(cmd)
    [] head <= Len(cmd) /\ IsAny(cmd[head]) -> Push("ANY_ACCEPTED", head)
    [] head <= Len(cmd) /\ IsNum(cmd[head]) ->
         IF u \notin TextUnits THEN TakeNum(cmd, head)
         ELSE IF head = Len(cmd) THEN Reject(cmd)
         ELSE Push(Diverges, head)
    [] OTHER ->
         IF UnitMatches(cmd[head], u)
         THEN Push(IF head = Len(cmd) THEN "ACCEPTED" ELSE "MATCHING", head)
         ELSE Reject(cmd)

(* Mutant: an accepted matcher goes on from the position after its last.   *)
StepOfKeepsAccepting(cmd, t, u) ==
  CASE t.state = "REJECTED" -> Reject(cmd)
    [] t.state = "ACCEPTED" -> Push("ACCEPTED", t.head)
    [] t.state = "ANY_ACCEPTED" -> Push("ANY_ACCEPTED", t.head)
    [] t.state = "MATCHING" -> MatchAt(cmd, t.head + 1, u)
    [] t.state \in {"ANYNUM_MATCHING", "ANYNUM_ACCEPTED"} ->
         IF u \notin TextUnits THEN TakeNum(cmd, t.head)
         ELSE IF t.head = Len(cmd) THEN Reject(cmd)
         ELSE MatchAt(cmd, t.head + 1, u)

(* update_state(): the entry that input u pushes on top of the entry t.    *)
StepOf(cmd, t, u) ==
  CASE t.state \in {"ACCEPTED", "REJECTED"} -> Reject(cmd)
    [] t.state = "ANY_ACCEPTED" -> Push("ANY_ACCEPTED", t.head)
    [] t.state = "MATCHING" -> MatchAt(cmd, t.head + 1, u)
    [] t.state \in {"ANYNUM_MATCHING", "ANYNUM_ACCEPTED"} ->
         IF u \notin TextUnits THEN TakeNum(cmd, t.head)
         ELSE IF t.head = Len(cmd) THEN Reject(cmd)
         ELSE MatchAt(cmd, t.head + 1, u)

(* The tests of the callers.  Only is_matching() holds of an empty stack.  *)
IsAccepted(stack) ==
  /\ stack # <<>>
  /\ Top(stack).state \in {"ACCEPTED", "ANY_ACCEPTED", "ANYNUM_ACCEPTED"}
IsRejected(stack) == stack # <<>> /\ Top(stack).state = "REJECTED"
IsMatching(stack) == Top(stack).state \in {"MATCHING", "ANYNUM_MATCHING"}

(* Mutant: the loop pops one entry too few.                                *)
BackwardOneShort(stack, n) ==
  SubSeq(stack, 1, IF n < Len(stack) THEN Len(stack) - n + 1 ELSE 0)

(* backward_state(n): as many pops as there are entries, at most n.        *)
Backward(stack, n) ==
  SubSeq(stack, 1, IF n < Len(stack) THEN Len(stack) - n ELSE 0)

-----------------------------------------------------------------------------
(***************************************************************************)
(* What a matcher promises, said without stacks or states.  A spelling of  *)
(* the first k inputs of a word assigns a position of the command to each  *)
(* input: the first input is at position 1, each input is covered by its   *)
(* position, and the next input stays on an <any>, stays on a <num> while  *)
(* it shows no text, and otherwise moves on by one.                        *)
(***************************************************************************)
Stays(unit, u) == IsAny(unit) \/ (IsNum(unit) /\ u \notin TextUnits)

Spelling(cmd, word, k, p) ==
  /\ p \in [1..k -> 1..Len(cmd)]
  /\ k > 0 => p[1] = 1
  /\ \A i \in 1..k : Covers(cmd[p[i]], word[i])
  /\ \A i \in 1..(k - 1) :
       p[i + 1] = IF Stays(cmd[p[i]], word[i + 1]) THEN p[i] ELSE p[i] + 1

(* The first k inputs of the word are the beginning of the command...      *)
Begins(cmd, word, k) ==
  \E p \in [1..k -> 1..Len(cmd)] : Spelling(cmd, word, k, p)

(* ... or all of it: its last unit, or an <any>, was reached.              *)
Spells(cmd, word, k) ==
  /\ k > 0
  /\ \E p \in [1..k -> 1..Len(cmd)] :
       /\ Spelling(cmd, word, k, p)
       /\ p[k] = Len(cmd) \/ IsAny(cmd[p[k]])

=============================================================================
