---------------------------- MODULE MapSolverProofs ----------------------------
(***************************************************************************)
(* Proofs about MapSolver: the matchers of all maps remember the same      *)
(* line, and the solver they make up implements a TriggerLine, for every   *)
(* sequence of maps, every set of inputs and every history.                *)
(***************************************************************************)
EXTENDS MapSolver, MatchingProofs

IInv == TypeOK /\ AllRemember(deployed, stacks, word)

-----------------------------------------------------------------------------
(* The tables of the instance.                                             *)

LEMMA Triggers ==
  ASSUME NEW maps \in Deployments
  PROVE  IsTable(maps)
<1>1. maps \in Seq([trigger : Seq(Units), target : Seq(Units)])
  BY SolverAssumption
<1>2. \A i \in 1..Len(maps) : maps[i] \in [trigger : Seq(Units), target : Seq(Units)]
  BY <1>1, ElementOfSeq
<1> QED
  BY <1>1, <1>2, LenProperties DEF IsTable

-----------------------------------------------------------------------------
(* What a call does to the line.                                           *)

DeadLine(w) == \A i \in 1..Len(deployed) : ~Begins(deployed[i].trigger, w, Len(w))
SpelledBy(w) == {i \in 1..Len(deployed) : Spells(deployed[i].trigger, w, Len(w))}

Rest(w, autoReset) == IF autoReset THEN <<>> ELSE w

FeedsLine(u, autoReset) ==
  LET w == Append(word, u)
  IN  \/ /\ DeadLine(w) /\ IsSystemOnly(u)
         /\ fired' = 0 /\ word' = word
      \/ /\ DeadLine(w) /\ ~IsSystemOnly(u)
         /\ fired' = 0 /\ word' = Rest(w, autoReset)
      \/ /\ ~DeadLine(w) /\ (u = {} \/ SpelledBy(w) = {})
         /\ fired' = 0 /\ word' = w
      \/ /\ ~DeadLine(w) /\ u # {}
         /\ fired' \in SpelledBy(w) /\ \A i \in SpelledBy(w) : fired' <= i
         /\ word' = Rest(w, autoReset)

LEMMA FeedLine ==
  ASSUME IInv, NEW u \in Inputs, NEW autoReset \in BOOLEAN, Feed(u, autoReset),
         ~SolverDiverges(deployed, stacks, u)
  PROVE  /\ AllRemember(deployed, stacks', word')
         /\ fired' \in 0..Len(deployed)
         /\ word' \in Seq(Inputs)
         /\ FeedsLine(u, autoReset)
         /\ UNCHANGED <<deployed, alive>>
<1> DEFINE N    == Len(deployed)
           w    == Append(word, u)
           up   == Updated(deployed, stacks, u)
           r    == MapCommandFrom(deployed, stacks, u, autoReset)
           dead == AllRejected(up)
           new  == IF autoReset THEN Fresh(deployed) ELSE up
           old  == [i \in 1..N |-> Backward(up[i], 1)]
           ch   == Chosen(up, u)
<1>1. /\ deployed \in Deployments /\ word \in Seq(Inputs)
      /\ AllRemember(deployed, stacks, word)
  BY DEF IInv, TypeOK
<1>2. N \in Nat /\ w \in Seq(Inputs) /\ <<>> \in Seq(Inputs)
  BY <1>1, Triggers DEF IsTable
<1>3. AllRemember(deployed, up, w)
  BY <1>1, Triggers, UpdatedRemembers
<1>4. AllRemember(deployed, Fresh(deployed), <<>>)
  BY FreshRemembers
<1>5. old = stacks
  BY <1>1, Triggers, UnwoundIsOld
<1>6. AllRemember(deployed, new, Rest(w, autoReset)) /\ Rest(w, autoReset) \in Seq(Inputs)
  BY <1>2, <1>3, <1>4 DEF Rest
<1>7. /\ stacks' = r.stacks /\ fired' = r.fired
      /\ word' = CASE dead /\ IsSystemOnly(u) -> word
                   [] ~(dead /\ IsSystemOnly(u)) /\ autoReset
                        /\ (dead \/ r.fired # 0) -> <<>>
                   [] OTHER -> w
      /\ UNCHANGED <<deployed, alive>>
  BY DEF Feed
<1> HIDE DEF up, w, r
<1>8. /\ DOMAIN up = 1..N
      /\ \A i \in 1..N : /\ IsAccepted(up[i]) <=> i \in SpelledBy(w)
                         /\ IsRejected(up[i]) <=> ~Begins(deployed[i].trigger, w, Len(w))
  BY <1>1, <1>3, Triggers, Verdicts DEF SpelledBy
<1>9. dead <=> DeadLine(w)
  BY <1>8 DEF AllRejected, DeadLine
<1>10. /\ ch \in 0..N
       /\ ch = 0 <=> (SpelledBy(w) = {} \/ u = {})
       /\ ch # 0 => ch \in SpelledBy(w) /\ \A j \in SpelledBy(w) : ch <= j
  <2> DEFINE accepted == {i \in 1..N : IsAccepted(up[i])}
  <2>1. accepted = SpelledBy(w)
    BY <1>8 DEF SpelledBy
  <2>2. /\ ch \in 0..N
        /\ ch = 0 <=> (accepted = {} \/ u = {})
        /\ ch # 0 => ch \in accepted /\ \A j \in accepted : ch <= j
    BY <1>2, <1>8, ChosenIsFirst
  <2> QED
    BY <2>1, <2>2
<1>11. r = CASE dead /\ IsSystemOnly(u) -> [stacks |-> old, fired |-> 0]
             [] dead /\ ~IsSystemOnly(u) -> [stacks |-> new, fired |-> 0]
             [] ~dead /\ ch = 0 -> [stacks |-> up, fired |-> 0]
             [] ~dead /\ ch # 0 -> [stacks |-> new, fired |-> ch]
  BY DEF r, MapCommandFrom, up
<1> HIDE DEF dead, new, old, ch
<1>12. CASE dead /\ IsSystemOnly(u)
  BY <1>1, <1>2, <1>5, <1>7, <1>9, <1>11, <1>12 DEF FeedsLine, w
<1>13. CASE dead /\ ~IsSystemOnly(u)
  <2>1. stacks' = new /\ fired' = 0 /\ word' = Rest(w, autoReset)
    BY <1>7, <1>11, <1>13 DEF Rest
  <2>2. FeedsLine(u, autoReset)
    BY <1>9, <1>13, <2>1 DEF FeedsLine, w
  <2>3. fired' \in 0..N /\ UNCHANGED <<deployed, alive>>
    BY <1>2, <1>7, <2>1
  <2> QED
    BY <1>6, <2>1, <2>2, <2>3
<1>14. CASE ~dead /\ ch = 0
  <2>1. stacks' = up /\ fired' = 0 /\ word' = w
    BY <1>7, <1>11, <1>14
  <2> QED
    BY <1>2, <1>3, <1>7, <1>9, <1>10, <1>14, <2>1 DEF FeedsLine, w
<1>15. CASE ~dead /\ ch # 0
  <2>1. stacks' = new /\ fired' = ch /\ word' = Rest(w, autoReset)
    BY <1>7, <1>11, <1>15 DEF Rest
  <2>2. u # {} /\ fired' \in SpelledBy(w) /\ \A i \in SpelledBy(w) : fired' <= i
    BY <1>10, <1>15, <2>1
  <2>3. FeedsLine(u, autoReset)
    BY <1>9, <1>15, <2>1, <2>2 DEF FeedsLine, w
  <2> QED
    BY <1>6, <1>7, <1>10, <2>1, <2>3
<1> QED
  BY <1>12, <1>13, <1>14, <1>15

LEMMA BackwardLine ==
  ASSUME IInv, NEW n \in Nat, BackwardState(n)
  PROVE  /\ AllRemember(deployed, stacks', word')
         /\ word' \in Seq(Inputs)
         /\ \E m \in 0..Len(word) : word' = SubSeq(word, 1, Len(word) - m)
<1>1. word \in Seq(Inputs) /\ AllRemember(deployed, stacks, word) /\ Len(word) \in Nat
  BY DEF IInv, TypeOK
<1>2. word' = Backward(word, n) /\ stacks' = [i \in DOMAIN stacks |-> Backward(stacks[i], n)]
  BY DEF BackwardState, Backward
<1>3. DOMAIN stacks = 1..Len(deployed)
  BY <1>1 DEF AllRemember
<1>4. \A i \in 1..Len(deployed) :
        Remembers(deployed[i].trigger, Backward(stacks[i], n), Backward(word, n))
  BY <1>1, BackwardRemembered DEF AllRemember
<1>5. AllRemember(deployed, stacks', word')
  BY <1>2, <1>3, <1>4 DEF AllRemember
<1>6. word' \in Seq(Inputs)
  BY <1>1, <1>2, BackwardProperties
<1>7. CASE n < Len(word)
  <2>1. n \in 0..Len(word) /\ word' = SubSeq(word, 1, Len(word) - n)
    BY <1>1, <1>2, <1>7 DEF Backward
  <2> QED
    BY <1>5, <1>6, <2>1
<1>8. CASE ~(n < Len(word))
  <2>1. Len(word) \in 0..Len(word) /\ Len(word) - Len(word) = 0
    BY <1>1
  <2>2. word' = SubSeq(word, 1, 0)
    BY <1>2, <1>8 DEF Backward
  <2> QED
    BY <1>5, <1>6, <2>1, <2>2
<1> QED
  BY <1>7, <1>8

-----------------------------------------------------------------------------
(* The invariant.                                                          *)

LEMMA InvInit == Init => IInv
<1> SUFFICES ASSUME Init
             PROVE  IInv
  OBVIOUS
<1>1. deployed \in Deployments /\ stacks = Fresh(deployed) /\ fired = 0
      /\ alive = TRUE /\ word = <<>>
  BY DEF Init
<1>2. Len(deployed) \in Nat
  BY <1>1, Triggers DEF IsTable
<1>3. AllRemember(deployed, stacks, word)
  BY <1>1, FreshRemembers
<1>4. stacks \in [1..Len(deployed) -> Seq(Entry)]
  BY <1>1 DEF Fresh
<1> QED
  BY <1>1, <1>2, <1>3, <1>4 DEF IInv, TypeOK

LEMMA StacksType ==
  ASSUME NEW maps, NEW ss, NEW w, AllRemember(maps, ss, w)
  PROVE  ss \in [1..Len(maps) -> Seq(Entry)]
  BY DEF AllRemember, Remembers

LEMMA InvNext == IInv /\ [Next]_vars => IInv'
<1> SUFFICES ASSUME IInv, [Next]_vars
             PROVE  IInv'
  OBVIOUS
<1>0. TypeOK /\ AllRemember(deployed, stacks, word) /\ Len(deployed) \in Nat
  BY Triggers DEF IInv, TypeOK, IsTable
<1>1. ASSUME NEW u \in Inputs, NEW autoReset \in BOOLEAN, Feed(u, autoReset)
      PROVE  IInv'
  <2>1. CASE SolverDiverges(deployed, stacks, u)
    <3>1. alive' = FALSE /\ fired' = 0 /\ UNCHANGED <<deployed, stacks, word>>
      BY <1>1, <2>1 DEF Feed
    <3>2. /\ stacks' \in [1..Len(deployed) -> Seq(Entry)]
          /\ deployed \in Deployments /\ word' \in Seq(Inputs)
      BY <1>0, <3>1 DEF TypeOK
    <3>3. fired' \in 0..Len(deployed)
      <4>1. fired' = 0 /\ Len(deployed) \in Nat
        BY <1>0, <3>1
      <4> QED
        BY <4>1
    <3>4. TypeOK'
      BY <3>1, <3>2, <3>3 DEF TypeOK
    <3>5. AllRemember(deployed', stacks', word')
      BY <1>0, <3>1
    <3> QED
      BY <3>4, <3>5 DEF IInv
  <2>2. CASE ~SolverDiverges(deployed, stacks, u)
    <3>1. /\ AllRemember(deployed, stacks', word')
          /\ fired' \in 0..Len(deployed)
          /\ word' \in Seq(Inputs)
          /\ UNCHANGED <<deployed, alive>>
      BY <1>1, <2>2, FeedLine
    <3>2. stacks' \in [1..Len(deployed) -> Seq(Entry)]
      BY <3>1, StacksType
    <3>3. TypeOK'
      BY <1>0, <3>1, <3>2 DEF TypeOK
    <3>4. AllRemember(deployed', stacks', word')
      BY <3>1
    <3> QED
      BY <3>3, <3>4 DEF IInv
  <2> QED
    BY <2>1, <2>2
<1>2. ASSUME NEW n \in 1..MaxHistory, BackwardState(n)
      PROVE  IInv'
  <2>1. n \in Nat
    BY SolverAssumption
  <2>2. AllRemember(deployed, stacks', word') /\ word' \in Seq(Inputs)
    BY <1>2, <2>1, BackwardLine
  <2>3. UNCHANGED <<deployed, alive>> /\ fired' = 0
    BY <1>2 DEF BackwardState
  <2>4. stacks' \in [1..Len(deployed) -> Seq(Entry)]
    BY <2>2, StacksType
  <2>5. TypeOK'
    BY <1>0, <2>2, <2>3, <2>4 DEF TypeOK
  <2>6. AllRemember(deployed', stacks', word')
    BY <2>2, <2>3
  <2> QED
    BY <2>5, <2>6 DEF IInv
<1>3. CASE ResetState
  <2>1. stacks' = Fresh(deployed) /\ word' = <<>> /\ fired' = 0 /\ UNCHANGED <<deployed, alive>>
    BY <1>3 DEF ResetState
  <2>2. AllRemember(deployed, stacks', word')
    BY <2>1, FreshRemembers
  <2>3. word' \in Seq(Inputs)
    BY <2>1
  <2>4. stacks' \in [1..Len(deployed) -> Seq(Entry)]
    BY <2>2, StacksType
  <2>5. TypeOK'
    BY <1>0, <2>1, <2>3, <2>4 DEF TypeOK
  <2>6. AllRemember(deployed', stacks', word')
    BY <2>1, <2>2
  <2> QED
    BY <2>5, <2>6 DEF IInv
<1>4. CASE UNCHANGED vars
  BY <1>4 DEF vars, IInv, TypeOK, AllRemember
<1> QED
  BY <1>1, <1>2, <1>3, <1>4 DEF Next

(* Whatever is fed, taken back and reset: the state of every matcher has   *)
(* its type, and the map that fires is a deployed one (map_command_from).  *)
THEOREM TypeCorrect == Spec => []TypeOK
<1>1. IInv => TypeOK
  BY DEF IInv
<1> QED
  BY <1>1, InvInit, InvNext, PTL DEF Spec

(* The matchers of any number of maps never get out of step: each of them  *)
(* remembers the same inputs, and nothing else (map_command_from).         *)
THEOREM MatchersInStep == Spec => []InStep
<1>1. IInv => InStep
  BY DEF IInv, AllRemember, Remembers, LeadsTo, InStep
<1> QED
  BY <1>1, InvInit, InvNext, PTL DEF Spec

-----------------------------------------------------------------------------
(* The refinement.  The operators of TriggerLine are those of the module   *)
(* Matching, too.                                                          *)

LEMMA SameSpelling ==
  ASSUME NEW c, NEW w, NEW k
  PROVE  /\ Line!Begins(c, w, k) <=> Begins(c, w, k)
         /\ Line!Spells(c, w, k) <=> Spells(c, w, k)
<1>1. ASSUME NEW p
      PROVE  Line!Spelling(c, w, k, p) <=> Spelling(c, w, k, p)
  BY DEF Line!Spelling, Line!Covers, Line!Stays, Line!IsAny, Line!IsNum,
         Line!UnitMatches, Line!AnswersTo,
         Spelling, Covers, Stays, IsAny, IsNum, UnitMatches, AnswersTo
<1> QED
  BY <1>1 DEF Line!Begins, Line!Spells, Line!IsAny, Begins, Spells, IsAny

LEMMA SameLine ==
  ASSUME NEW u
  PROVE  /\ Line!Dead(Append(word, u)) <=> DeadLine(Append(word, u))
         /\ u # {} => Line!Spelled(u) = SpelledBy(Append(word, u))
         /\ u = {} => Line!Spelled(u) = {}
  BY SameSpelling DEF Line!Dead, Line!Spelled, DeadLine, SpelledBy

LEMMA FeedImplements ==
  ASSUME IInv, NEW u \in Inputs, NEW autoReset \in BOOLEAN, Feed(u, autoReset)
  PROVE  Line!Next
<1>1. CASE SolverDiverges(deployed, stacks, u)
  BY <1>1 DEF Feed, Line!Next, Line!Overflow
<1>2. CASE ~SolverDiverges(deployed, stacks, u)
  <2>1. /\ FeedsLine(u, autoReset)
        /\ UNCHANGED <<deployed, alive>>
        /\ fired' \in 0..Len(deployed)
    BY <1>2, FeedLine
  <2> DEFINE w == Append(word, u)
  <2>2. CASE DeadLine(w) /\ IsSystemOnly(u) /\ fired' = 0 /\ word' = word
    BY <2>1, <2>2, SameLine DEF IsSystemOnly, Line!Feed, Line!Ignore, Line!Next
  <2>3. CASE DeadLine(w) /\ ~IsSystemOnly(u) /\ fired' = 0 /\ word' = Rest(w, autoReset)
    BY <2>1, <2>3, SameLine
    DEF IsSystemOnly, Rest, Line!Feed, Line!Abandon, Line!EndLine, Line!Continue, Line!Next
  <2>4. CASE ~DeadLine(w) /\ (u = {} \/ SpelledBy(w) = {}) /\ fired' = 0 /\ word' = w
    <3>1. Line!Spelled(u) = {}
      BY <2>4, SameLine
    <3> QED
      BY <2>1, <2>4, <3>1, SameLine DEF Line!Feed, Line!Wait, Line!Continue, Line!Next
  <2>5. CASE /\ u # {} /\ fired' \in SpelledBy(w)
             /\ \A i \in SpelledBy(w) : fired' <= i
             /\ word' = Rest(w, autoReset)
    <3>1. Line!Spelled(u) = SpelledBy(w)
      BY <2>5, SameLine
    <3>2. fired' # 0
      BY <2>5 DEF SpelledBy
    <3> QED
      BY <2>1, <2>5, <3>1, <3>2
      DEF Rest, Line!Feed, Line!Fire, Line!EndLine, Line!Continue, Line!Next
  <2> QED
    BY <2>1, <2>2, <2>3, <2>4, <2>5 DEF FeedsLine
<1> QED
  BY <1>1, <1>2

LEMMA NextImplements == IInv /\ [Next]_vars => [Line!Next]_(Line!vars)
<1> SUFFICES ASSUME IInv, [Next]_vars
             PROVE  Line!Next \/ UNCHANGED Line!vars
  OBVIOUS
<1>1. ASSUME NEW u \in Inputs, NEW autoReset \in BOOLEAN, Feed(u, autoReset)
      PROVE  Line!Next
  BY <1>1, FeedImplements
<1>2. ASSUME NEW n \in 1..MaxHistory, BackwardState(n)
      PROVE  Line!Next
  <2>1. n \in Nat
    BY SolverAssumption
  <2>2. PICK m \in 0..Len(word) : word' = SubSeq(word, 1, Len(word) - m)
    BY <1>2, <2>1, BackwardLine
  <2> QED
    BY <1>2, <2>2 DEF BackwardState, Line!TakeBack, Line!Next
<1>3. CASE ResetState
  <2>1. Len(word) \in 0..Len(word) /\ Len(word) - Len(word) = 0 /\ SubSeq(word, 1, 0) = <<>>
    BY DEF IInv, TypeOK
  <2>2. word' = SubSeq(word, 1, Len(word) - Len(word)) /\ fired' = 0
        /\ UNCHANGED <<deployed, alive>>
    BY <1>3, <2>1 DEF ResetState
  <2> QED
    BY <2>1, <2>2 DEF Line!TakeBack, Line!Next
<1>4. CASE UNCHANGED vars
  BY <1>4 DEF vars, Line!vars
<1> QED
  BY <1>1, <1>2, <1>3, <1>4 DEF Next

(* For every sequence of maps, every history and every unit: the solver    *)
(* fires a map exactly when the line spells its trigger and no earlier     *)
(* map's, gives a line up exactly when it begins no trigger, and forgets a *)
(* lone <shift> that leads nowhere (map_command_from, backward_state).     *)
THEOREM SolverIsATriggerLine == Spec => ImplementsLine
<1>1. Init => Line!Init
  BY DEF Init, Line!Init
<1> QED
  BY <1>1, InvInit, InvNext, NextImplements, PTL DEF Spec, ImplementsLine, Line!Spec

=============================================================================
