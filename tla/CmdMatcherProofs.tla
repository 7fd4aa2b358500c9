-------------------------- MODULE CmdMatcherProofs --------------------------
(***************************************************************************)
(* Proofs about CmdMatcher: its types, the exactness of backward_state(),  *)
(* and that the verdict on the top of the stack is the verdict on the      *)
(* whole history of remembered inputs.                                     *)
(***************************************************************************)
EXTENDS CmdMatcher, MatchingProofs

-----------------------------------------------------------------------------
(* Type correctness.                                                       *)

LEMMA TypeInit == Init => TypeOK
  BY DEF Init, TypeOK

LEMMA TypeNext == TypeOK /\ [Next]_vars => TypeOK'
<1> SUFFICES ASSUME TypeOK, [Next]_vars
             PROVE  TypeOK'
  OBVIOUS
<1> USE MatcherAssumption DEF TypeOK
<1>1. ASSUME NEW u \in Inputs, UpdateState(u)
      PROVE  TypeOK'
  <2> DEFINE e == StepOf(cmd, Top(stack), u)
  <2>1. e \in Entry \/ e.state = Diverges
    BY StepOfType, TopType
  <2>2. CASE e.state = Diverges
    BY <1>1, <2>2 DEF UpdateState
  <2>3. CASE e.state # Diverges
    <3>1. /\ stack' = Append(stack, e)
          /\ word' = Append(word, u)
          /\ UNCHANGED <<cmd, alive>>
      BY <1>1, <2>3 DEF UpdateState
    <3> QED
      BY <2>1, <2>3, <3>1
  <2> QED
    BY <2>2, <2>3
<1>2. ASSUME NEW n \in 1..MaxHistory, BackwardState(n)
      PROVE  TypeOK'
  <2>1. n \in Nat
    OBVIOUS
  <2>2. stack' \in Seq(Entry)
    BY <1>2, <2>1, BackwardProperties DEF BackwardState
  <2>3. word' = Backward(word, n)
    BY <1>2 DEF BackwardState, Backward
  <2>4. word' \in Seq(Inputs)
    BY <2>1, <2>3, BackwardProperties
  <2> QED
    BY <1>2, <2>2, <2>4 DEF BackwardState
<1>3. CASE ResetState
  BY <1>3 DEF ResetState
<1>4. CASE UNCHANGED vars
  BY <1>4 DEF vars
<1> QED
  BY <1>1, <1>2, <1>3, <1>4 DEF Next

(* Every reachable state of a matcher is well typed, for every set of      *)
(* commands, inputs and key tables (cmdmatcher.cpp states_ and heads_).    *)
THEOREM TypeCorrect == Spec => []TypeOK
  BY TypeInit, TypeNext, PTL DEF Spec

-----------------------------------------------------------------------------
(* The inductive invariant: the stack remembers the word.                  *)

MatcherInv == TypeOK /\ Remembers(cmd, stack, word)

LEMMA MatcherInvInit == Init => MatcherInv
  BY TypeInit, NothingRemembered DEF Init, MatcherInv

LEMMA MatcherInvNext == MatcherInv /\ [Next]_vars => MatcherInv'
<1> SUFFICES ASSUME MatcherInv, [Next]_vars
             PROVE  Remembers(cmd', stack', word')
  BY TypeNext DEF MatcherInv
<1> USE MatcherAssumption DEF MatcherInv, TypeOK
<1>1. ASSUME NEW u \in Inputs, UpdateState(u)
      PROVE  Remembers(cmd', stack', word')
  <2>1. CASE StepOf(cmd, Top(stack), u).state = Diverges
    BY <1>1, <2>1 DEF UpdateState
  <2>2. CASE StepOf(cmd, Top(stack), u).state # Diverges
    <3>1. /\ stack' = Append(stack, StepOf(cmd, Top(stack), u))
          /\ word' = Append(word, u)
          /\ cmd' = cmd
      BY <1>1, <2>2 DEF UpdateState
    <3>2. cmd \in Seq(Units)
      OBVIOUS
    <3> QED
      BY <2>2, <3>1, <3>2, UpdateRemembered
  <2> QED
    BY <2>1, <2>2
<1>2. ASSUME NEW n \in 1..MaxHistory, BackwardState(n)
      PROVE  Remembers(cmd', stack', word')
  <2>1. n \in Nat
    OBVIOUS
  <2>2. stack' = Backward(stack, n) /\ word' = Backward(word, n) /\ cmd' = cmd
    BY <1>2 DEF BackwardState, Backward
  <2> QED
    BY <2>1, <2>2, BackwardRemembered
<1>3. CASE ResetState
  BY <1>3, NothingRemembered DEF ResetState
<1>4. CASE UNCHANGED vars
  BY <1>4 DEF vars
<1> QED
  BY <1>1, <1>2, <1>3, <1>4 DEF Next

(* Every reachable stack is the one the remembered inputs alone lead to:   *)
(* backward_state() undoes updates exactly, however often and wherever it  *)
(* is called (cmdmatcher.cpp backward_state).                              *)
THEOREM BackwardIsUndo == Spec => []Undoable
<1>1. MatcherInv => Undoable
  BY DEF MatcherInv, Remembers, LeadsTo, Undoable
<1> QED
  BY <1>1, MatcherInvInit, MatcherInvNext, PTL DEF Spec

(* The invariant gives the verdict.                                        *)
LEMMA MatcherInvVerdict == MatcherInv => Recognizes
<1> SUFFICES ASSUME MatcherInv
             PROVE  Recognizes
  OBVIOUS
<1>1. /\ cmd \in Seq(Units)
      /\ stack \in Seq(Entry)
      /\ Len(stack) = Len(word)
      /\ SpellsOut(cmd, stack, word)
  BY MatcherAssumption DEF MatcherInv, TypeOK, Remembers, LeadsTo
<1> QED
  BY <1>1, VerdictOfSpelling DEF Recognizes

(* For every command with at most finitely many units, every key table and *)
(* every history of updates and undone updates: a matcher accepts exactly  *)
(* when the remembered inputs spell its command, and rejects exactly when  *)
(* they do not begin it (cmdmatcher.cpp update_state).                     *)
THEOREM MatcherRecognizes == Spec => []Recognizes
  BY MatcherInvInit, MatcherInvNext, MatcherInvVerdict, PTL DEF Spec

(* Matching stops for good only where the inputs have spelled the trigger  *)
(* up to a <num> that is not its last unit: for every other trigger and    *)
(* every history update_state() returns (cmdmatcher.cpp update_anynum).    *)
THEOREM StopsAtInnerNumber == Spec => StopsOnlyAtInnerNumber
<1> DEFINE Inner ==
      \E k \in 1..(Len(cmd) - 1) :
        /\ IsNum(cmd[k])
        /\ \E p \in [1..Len(word) -> 1..Len(cmd)] :
             /\ Spelling(cmd, word, Len(word), p)
             /\ k = IF word = <<>> THEN 1 ELSE p[Len(word)] + 1
<1>1. MatcherInv /\ [Next]_vars => [alive /\ ~alive' => Inner]_vars
  <2> SUFFICES ASSUME MatcherInv, Next, alive, ~alive'
               PROVE  Inner
    OBVIOUS
  <2>1. PICK u \in Inputs : UpdateState(u)
    BY DEF Next, BackwardState, ResetState
  <2> DEFINE t == Top(stack)
             n == Len(word)
             k == t.head + 1
  <2>2. /\ cmd \in Seq(Units) /\ stack \in Seq(Entry) /\ word \in Seq(Inputs)
        /\ Len(stack) = n /\ n \in Nat
        /\ SpellsOut(cmd, stack, word)
    BY MatcherAssumption, LenProperties DEF MatcherInv, TypeOK, Remembers, LeadsTo
  <2>3. t \in Entry /\ StepOf(cmd, t, u).state = Diverges
    BY <2>1, <2>2, TopType DEF UpdateState
  <2>4. IsLive(t) /\ k \in 1..(Len(cmd) - 1) /\ IsNum(cmd[k])
    BY <2>2, <2>3, DivergesAtNumber
  <2>5. CASE n = 0
    <3>1. stack = <<>> /\ word = <<>>
      BY <2>2, <2>5, EmptySeq
    <3>2. t.head = 0 /\ k = 1
      BY <3>1 DEF Top, Push
    <3>3. PICK p \in [1..n -> 1..Len(cmd)] : TRUE
      <4>1. [j \in 1..n |-> 1] \in [1..n -> 1..Len(cmd)]
        BY <2>5
      <4> QED
        BY <4>1
    <3>4. Spelling(cmd, word, n, p)
      BY <2>5 DEF Spelling
    <3>5. 1 \in 1..(Len(cmd) - 1) /\ IsNum(cmd[1])
      BY <2>4, <3>2
    <3> QED
      BY <3>1, <3>4, <3>5
  <2>6. CASE n # 0
    <3> DEFINE p == Heads(stack, n)
    <3>1. n \in 1..Len(stack) /\ word # <<>> /\ t = stack[n]
      BY <2>2, <2>6, EmptySeq DEF Top
    <3>2. p \in [1..n -> 1..Len(cmd)] /\ Spelling(cmd, word, n, p)
      BY <2>2, <2>4, <3>1 DEF SpellsOut
    <3>3. p[n] = t.head
      BY <2>2, <3>1 DEF Heads
    <3> HIDE DEF p, t
    <3> QED
      BY <2>4, <3>1, <3>2, <3>3
  <2> QED
    BY <2>5, <2>6
<1> QED
  BY <1>1, MatcherInvInit, MatcherInvNext, PTL DEF Spec, StopsOnlyAtInnerNumber

=============================================================================
