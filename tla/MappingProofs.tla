-------------------------- MODULE MappingProofs --------------------------
(***************************************************************************)
(* Proofs about the two users of Remapping.                                *)
(*                                                                         *)
(* MapRegistry: for default tables, triggers and targets of any number and *)
(* length, what deploy() makes of the maps of the user has one meaning for *)
(* every trigger, expands a noremap with nothing but the defaults, and     *)
(* drops no default that nobody mapped.                                    *)
(*                                                                         *)
(* InputHub: for any registries, modes, requests and order of calls, a map *)
(* is expanded when its solver was given what spells its trigger, a bound  *)
(* function leaves the matchers as they were, and counting is exact.       *)
(***************************************************************************)
EXTENDS MapRegistry, InputHub, MatchingProofs

-----------------------------------------------------------------------------
(* What a table lists.                                                     *)

Listed(s) == {s[i] : i \in 1..Len(s)}

DistinctTriggers(s) ==
  \A i, j \in 1..Len(s) : s[i].trigger = s[j].trigger => i = j

LEMMA RangeIsListed ==
  ASSUME NEW T, NEW s \in Seq(T)
  PROVE  Range(s) = Listed(s) /\ Listed(s) \subseteq T
  BY DEF Range, Listed

LEMMA NothingListed == Listed(<<>>) = {} /\ DistinctTriggers(<<>>)
  BY DEF Listed, DistinctTriggers

LEMMA AppendListed ==
  ASSUME NEW T, NEW s \in Seq(T), NEW e \in T
  PROVE  /\ Append(s, e) \in Seq(T)
         /\ Listed(Append(s, e)) = Listed(s) \cup {e}
         /\ DistinctTriggers(s) /\ (\A x \in Listed(s) : x.trigger # e.trigger) =>
              DistinctTriggers(Append(s, e))
<1> DEFINE t == Append(s, e)
           n == Len(s)
<1>1. /\ n \in Nat /\ t \in Seq(T) /\ Len(t) = n + 1 /\ t[n + 1] = e
      /\ \A i \in 1..n : t[i] = s[i]
  OBVIOUS
<1> HIDE DEF t
<1>2. \A i \in 1..(n + 1) : i \in 1..n \/ i = n + 1
  BY <1>1
<1>3. \A i \in 1..n : i \in 1..(n + 1)
  BY <1>1
<1>4. n + 1 \in 1..(n + 1) /\ n + 1 \notin 1..n
  BY <1>1
<1>5. Listed(t) = Listed(s) \cup {e}
  BY <1>1, <1>2, <1>3, <1>4 DEF Listed
<1>6. ASSUME DistinctTriggers(s), \A x \in Listed(s) : x.trigger # e.trigger
      PROVE  DistinctTriggers(t)
  <2>1. \A i \in 1..n : s[i].trigger # e.trigger
    BY <1>6 DEF Listed
  <2> QED
    BY <1>1, <1>2, <1>6, <2>1 DEF DistinctTriggers
<1> QED
  BY <1>1, <1>5, <1>6 DEF t

LEMMA AmongListed ==
  ASSUME NEW T, NEW s \in Seq(T), NEW set
  PROVE  /\ Listed(Among(s, set)) = Listed(s) \cap set
         /\ DistinctTriggers(s) => DistinctTriggers(Among(s, set))
<1> DEFINE N == Len(s)
           First(n) == {s[i] : i \in 1..n}
<1>1. PICK kept : /\ Among(s, set) = kept[N]
                  /\ kept[0] = <<>>
                  /\ \A n \in 1..N : kept[n] = AmongStep(kept[n - 1], s[n], set)
                  /\ \A n \in 0..N : kept[n] \in Seq(T \cap set)
  BY AmongBuilt
<1>2. N \in Nat /\ \A i \in 1..N : s[i] \in T
  BY ElementOfSeq, LenProperties
<1> DEFINE Good(n) == /\ Listed(kept[n]) = First(n) \cap set
                      /\ DistinctTriggers(s) => DistinctTriggers(kept[n])
           P == {n \in 0..N : Good(n)}
<1>3. 0 \in P
  <2>1. 1..0 = {}
    OBVIOUS
  <2>2. First(0) = {}
    BY <2>1, Zenon
  <2>3. kept[0] = <<>>
    BY <1>1, Zenon
  <2>4. Listed(kept[0]) = {} /\ DistinctTriggers(kept[0])
    BY <2>3, NothingListed, Zenon
  <2>5. 0 \in 0..N
    BY <1>2
  <2>6. Listed(kept[0]) = First(0) \cap set
    <3> HIDE DEF First
    <3> QED
      BY <2>2, <2>4
  <2> HIDE DEF First
  <2> QED
    BY <2>4, <2>5, <2>6, Zenon
<1>4. ASSUME NEW n \in 0..(N - 1), n \in P
      PROVE  n + 1 \in P
  <2>1. n + 1 \in 1..N /\ n + 1 - 1 = n /\ n \in 0..N /\ n + 1 \in 0..N
    BY <1>2
  <2>2. First(n + 1) = First(n) \cup {s[n + 1]}
    <3>1. \A i \in 1..(n + 1) : i \in 1..n \/ i = n + 1
      BY <2>1
    <3>2. \A i \in 1..n : i \in 1..(n + 1)
      BY <2>1
    <3>3. n + 1 \in 1..(n + 1)
      BY <2>1
    <3> QED
      BY <3>1, <3>2, <3>3
  <2>3. kept[n + 1] = AmongStep(kept[n], s[n + 1], set)
    BY <1>1, <2>1
  <2>4. Good(n)
    <3> HIDE DEF Good
    <3> QED
      BY <1>4
  <2>5. /\ Listed(kept[n]) = First(n) \cap set
        /\ DistinctTriggers(s) => DistinctTriggers(kept[n])
    <3> HIDE DEF First
    <3> QED
      BY <2>4
  <2>6. DistinctTriggers(s) => \A x \in First(n) : x.trigger # s[n + 1].trigger
    BY <1>2, <2>1 DEF DistinctTriggers
  <2> HIDE DEF First, P
  <2>7. CASE s[n + 1] \in set
    <3>1. kept[n + 1] = Append(kept[n], s[n + 1])
      BY <2>3, <2>7 DEF AmongStep
    <3>2. kept[n] \in Seq(T \cap set) /\ s[n + 1] \in T \cap set
      BY <1>1, <1>2, <2>1, <2>7
    <3>3. Listed(kept[n + 1]) = Listed(kept[n]) \cup {s[n + 1]}
      BY <3>1, <3>2, AppendListed
    <3>4. DistinctTriggers(s) => DistinctTriggers(kept[n + 1])
      <4>1. DistinctTriggers(s) => \A x \in Listed(kept[n]) : x.trigger # s[n + 1].trigger
        BY <2>5, <2>6
      <4> QED
        BY <2>5, <3>1, <3>2, <4>1, AppendListed
    <3> QED
      BY <2>1, <2>2, <2>5, <2>7, <3>3, <3>4 DEF P
  <2>8. CASE s[n + 1] \notin set
    <3>1. kept[n + 1] = kept[n]
      BY <2>3, <2>8 DEF AmongStep
    <3> QED
      BY <2>1, <2>2, <2>5, <2>8, <3>1 DEF P
  <2> QED
    BY <2>7, <2>8
<1>5. \A n \in 0..(N - 1) : n \in P => n + 1 \in P
  BY <1>4
<1>6. \A n \in 0..N : n \in P
  <2> HIDE DEF P
  <2> QED
    BY <1>2, <1>3, <1>5, InductionUpTo, Zenon
<1>7. N \in P
  <2> HIDE DEF P
  <2> QED
    BY <1>2, <1>6
<1>8. First(N) = Listed(s)
  BY Zenon DEF Listed
<1>9. Good(N)
  <2> HIDE DEF Good
  <2> QED
    BY <1>7
<1>10. /\ Listed(kept[N]) = First(N) \cap set
       /\ DistinctTriggers(s) => DistinctTriggers(kept[N])
  <2> HIDE DEF First
  <2> QED
    BY <1>9
<1> HIDE DEF First, P, N
<1> QED
  BY <1>1, <1>8, <1>10

LEMMA RemoveProperties ==
  ASSUME NEW maps \in Seq(Map), NEW trigger
  PROVE  /\ RemoveTriggered(maps, trigger) \in Seq(Map)
         /\ Listed(RemoveTriggered(maps, trigger)) =
              {x \in Listed(maps) : x.trigger # trigger}
         /\ DistinctTriggers(maps) => DistinctTriggers(RemoveTriggered(maps, trigger))
<1> DEFINE set == {m \in Map : m.trigger # trigger}
<1>1. RemoveTriggered(maps, trigger) = Among(maps, set)
  BY DEF RemoveTriggered
<1>2. Listed(maps) \subseteq Map
  BY RangeIsListed
<1>3. Listed(maps) \cap set = {x \in Listed(maps) : x.trigger # trigger}
  BY <1>2
<1> HIDE DEF set
<1>4. Among(maps, set) \in Seq(Map)
  BY AmongType, Zenon
<1>5. /\ Listed(Among(maps, set)) = Listed(maps) \cap set
      /\ DistinctTriggers(maps) => DistinctTriggers(Among(maps, set))
  BY AmongListed, Zenon
<1> QED
  BY <1>1, <1>3, <1>4, <1>5

LEMMA PutProperties ==
  ASSUME NEW maps \in Seq(Map), NEW m \in Map
  PROVE  /\ Put(maps, m) \in Seq(Map)
         /\ Listed(Put(maps, m)) = {x \in Listed(maps) : x.trigger # m.trigger} \cup {m}
         /\ DistinctTriggers(maps) => DistinctTriggers(Put(maps, m))
<1> DEFINE rest == RemoveTriggered(maps, m.trigger)
<1>1. /\ rest \in Seq(Map)
      /\ Listed(rest) = {x \in Listed(maps) : x.trigger # m.trigger}
      /\ DistinctTriggers(maps) => DistinctTriggers(rest)
  BY RemoveProperties
<1>2. Put(maps, m) = Append(rest, m)
  BY DEF Put
<1> HIDE DEF rest
<1>3. \A x \in Listed(rest) : x.trigger # m.trigger
  BY <1>1
<1> QED
  BY <1>1, <1>2, <1>3, AppendListed

-----------------------------------------------------------------------------
(* What solving a map computes: targets, whatever the maps are.            *)

Results == [target : Seq(TargetUnit), returns : BOOLEAN]

Solvers == [Seq(TargetUnit) -> Results]

Solvings(refs) ==
  [stacks : StacksOf(refs), queue : Seq(TargetUnit), solved : Seq(TargetUnit),
   giveUp : BOOLEAN, returns : BOOLEAN]

LEMMA MapFields ==
  ASSUME NEW m \in Map
  PROVE  m.trigger \in Seq(Units) /\ m.target \in Seq(TargetUnit)
  BY DEF Map

LEMMA TableOfMaps ==
  ASSUME NEW refs \in Seq(Map)
  PROVE  IsTable(refs)
<1>1. Len(refs) \in Nat /\ \A i \in 1..Len(refs) : refs[i] \in Map
  BY ElementOfSeq, LenProperties
<1> QED
  BY <1>1, MapFields DEF IsTable

LEMMA SolvingFields ==
  ASSUME NEW refs, NEW s \in Solvings(refs)
  PROVE  /\ s.stacks \in StacksOf(refs)
         /\ s.queue \in Seq(TargetUnit)
         /\ s.solved \in Seq(TargetUnit)
         /\ s.giveUp \in BOOLEAN
         /\ s.returns \in BOOLEAN
  BY Zenon DEF Solvings

LEMMA StartType ==
  ASSUME NEW refs
  PROVE  Start(refs) \in Solvings(refs) /\ Fresh(refs) \in StacksOf(refs)
<1>1. Fresh(refs) \in StacksOf(refs)
  BY DEF Fresh, StacksOf
<1>2. <<>> \in Seq(TargetUnit)
  OBVIOUS
<1> HIDE DEF Fresh
<1> QED
  BY <1>1, <1>2 DEF Start, Solvings

LEMMA AsSolving ==
  ASSUME NEW refs, NEW ss \in StacksOf(refs), NEW queue \in Seq(TargetUnit),
         NEW solved \in Seq(TargetUnit), NEW giveUp \in BOOLEAN, NEW returns \in BOOLEAN
  PROVE  [stacks |-> ss, queue |-> queue, solved |-> solved,
          giveUp |-> giveUp, returns |-> returns] \in Solvings(refs)
  BY Zenon DEF Solvings

(* A turn of the loop, field by field.                                     *)
LEMMA SolvingExcept ==
  ASSUME NEW refs, NEW s \in Solvings(refs)
  PROVE  /\ \A x \in StacksOf(refs) : [s EXCEPT !.stacks = x] \in Solvings(refs)
         /\ \A x \in Seq(TargetUnit) : [s EXCEPT !.queue = x] \in Solvings(refs)
         /\ \A x \in Seq(TargetUnit) : [s EXCEPT !.solved = x] \in Solvings(refs)
         /\ \A x \in BOOLEAN : [s EXCEPT !.giveUp = x] \in Solvings(refs)
         /\ \A x \in BOOLEAN : [s EXCEPT !.returns = x] \in Solvings(refs)
  BY DEF Solvings

LEMMA KeepAsIsType ==
  ASSUME NEW refs, NEW s \in Solvings(refs), NEW unit \in TargetUnit
  PROVE  KeepAsIs(s, unit) \in Solvings(refs)
<1>1. s.solved \in Seq(TargetUnit) /\ s.queue \in Seq(TargetUnit)
  BY SolvingFields
<1>2. s.solved \o Append(s.queue, unit) \in Seq(TargetUnit) /\ <<>> \in Seq(TargetUnit)
  BY <1>1
<1> QED
  BY <1>2 DEF KeepAsIs, Solvings

LEMMA TakeMatchedType ==
  ASSUME NEW refs, NEW s \in Solvings(refs), NEW m \in Map, NEW trigger,
         NEW recursively, NEW solve \in Solvers
  PROVE  TakeMatched(s, m, trigger, recursively, solve) \in Solvings(refs)
<1>1. s.solved \in Seq(TargetUnit) /\ s.giveUp \in BOOLEAN /\ s.returns \in BOOLEAN
  BY SolvingFields
<1>2. m.target \in Seq(TargetUnit)
  BY MapFields
<1>3. GiveUp(s, m) \in Solvings(refs)
  <2>1. s.solved \o m.target \in Seq(TargetUnit)
    BY <1>1, <1>2
  <2>2. (s.giveUp \/ ChangesMode(m.target)) \in BOOLEAN
    OBVIOUS
  <2> QED
    BY <2>1, <2>2 DEF GiveUp, Solvings
<1>4. AppendSolved(s, solve[m.target]) \in Solvings(refs)
  <2> DEFINE sub == solve[m.target]
  <2>1. sub \in Results
    BY <1>2 DEF Solvers
  <2> HIDE DEF sub
  <2>2. sub.target \in Seq(TargetUnit) /\ sub.returns \in BOOLEAN
    BY <2>1 DEF Results
  <2>3. s.solved \o sub.target \in Seq(TargetUnit) /\ (s.returns /\ sub.returns) \in BOOLEAN
    BY <1>1, <2>2
  <2>4. AppendSolved(s, sub) \in Solvings(refs)
    BY <2>3 DEF AppendSolved, Solvings
  <2> QED
    BY <2>4 DEF sub
<1> QED
  BY <1>3, <1>4 DEF TakeMatched

LEMMA TakeUnitType ==
  ASSUME NEW refs \in Seq(Map), NEW s \in Solvings(refs), NEW unit \in TargetUnit,
         NEW up \in StacksOf(refs), NEW chosen \in 0..Len(refs), NEW trigger,
         NEW recursively, NEW solve \in Solvers
  PROVE  TakeUnit(s, unit, up, chosen, trigger, refs, recursively, solve) \in Solvings(refs)
<1>1. s.queue \in Seq(TargetUnit) /\ Fresh(refs) \in StacksOf(refs) /\ <<>> \in Seq(TargetUnit)
  BY SolvingFields, StartType
<1>2. CASE AllRejected(up)
  <2>1. KeepAsIs(s, unit) \in Solvings(refs)
    BY KeepAsIsType
  <2>2. [KeepAsIs(s, unit) EXCEPT !.stacks = Fresh(refs)] \in Solvings(refs)
    BY <1>1, <2>1, SolvingExcept
  <2> QED
    BY <1>2, <2>2 DEF TakeUnit
<1>3. CASE ~AllRejected(up) /\ chosen = 0
  <2>1. Append(s.queue, unit) \in Seq(TargetUnit)
    BY <1>1
  <2>2. [s EXCEPT !.stacks = up, !.queue = Append(@, unit)] \in Solvings(refs)
    BY <2>1 DEF Solvings
  <2> QED
    BY <1>3, <2>2 DEF TakeUnit
<1>4. CASE ~AllRejected(up) /\ chosen # 0
  <2>1. chosen \in 1..Len(refs)
    BY <1>4, LenProperties
  <2>2. refs[chosen] \in Map
    BY <2>1, ElementOfSeq
  <2> DEFINE r == [s EXCEPT !.stacks = Fresh(refs), !.queue = <<>>]
  <2>3. r \in Solvings(refs)
    BY <1>1 DEF Solvings
  <2>4. TakeUnit(s, unit, up, chosen, trigger, refs, recursively, solve) =
          TakeMatched(r, refs[chosen], trigger, recursively, solve)
    BY <1>4 DEF TakeUnit
  <2> HIDE DEF r
  <2> QED
    BY <2>2, <2>3, <2>4, TakeMatchedType
<1> QED
  BY <1>2, <1>3, <1>4

LEMMA SolveUnitType ==
  ASSUME NEW refs \in Seq(Map), NEW s \in Solvings(refs), NEW unit \in TargetUnit,
         NEW trigger, NEW recursively, NEW solve \in Solvers
  PROVE  SolveUnit(s, unit, trigger, refs, recursively, solve) \in Solvings(refs)
<1> DEFINE up     == Updated(refs, s.stacks, unit.keys)
           chosen == Chosen(up, unit.keys)
<1>1. KeepAsIs(s, unit) \in Solvings(refs)
  BY KeepAsIsType
<1>2. Overflow(s) \in Solvings(refs)
  BY SolvingExcept DEF Overflow
<1>3. CASE ~SolverDiverges(refs, s.stacks, unit.keys)
  <2>1. up \in StacksOf(refs)
    BY <1>3, SolvingFields, TableOfMaps, UpdatedType
  <2>2. Len(refs) \in Nat /\ DOMAIN up = 1..Len(refs)
    BY LenProperties DEF Updated
  <2> HIDE DEF up
  <2>3. chosen \in 0..Len(refs)
    BY <2>2, ChosenIsFirst
  <2> HIDE DEF chosen
  <2>4. TakeUnit(s, unit, up, chosen, trigger, refs, recursively, solve) \in Solvings(refs)
    BY <2>1, <2>3, TakeUnitType
  <2>5. TakeUpdated(s, unit, up, trigger, refs, recursively, solve) \in Solvings(refs)
    BY <2>4 DEF TakeUpdated, chosen
  <2> QED
    BY <1>1, <1>3, <2>5 DEF SolveUnit, up
<1> QED
  BY <1>1, <1>2, <1>3 DEF SolveUnit

TurnFun(target, trigger, refs, recursively, solve, turn) ==
  turn = [n \in 0..Len(target) |->
            IF n = 0 THEN Start(refs)
            ELSE SolveUnit(turn[n - 1], target[n], trigger, refs, recursively, solve)]

Turns(target, trigger, refs, recursively, solve, turn) ==
  /\ turn[0] = Start(refs)
  /\ \A n \in 1..Len(target) :
       turn[n] = SolveUnit(turn[n - 1], target[n], trigger, refs, recursively, solve)
  /\ \A n \in 0..Len(target) : turn[n] \in Solvings(refs)

LEMMA SolveTargetBuilt ==
  ASSUME NEW refs \in Seq(Map), NEW target \in Seq(TargetUnit), NEW trigger,
         NEW recursively, NEW solve \in Solvers
  PROVE  \E turn :
           /\ SolveTarget(target, trigger, refs, recursively, solve) =
                Result(turn[Len(target)])
           /\ Turns(target, trigger, refs, recursively, solve, turn)
<1> DEFINE N       == Len(target)
           S       == Solvings(refs)
           Go(k, n) == SolveUnit(k, target[n], trigger, refs, recursively, solve)
           step    == [n \in 1..N |-> [k \in S |-> Go(k, n)]]
           turn    == CHOOSE f : TurnFun(target, trigger, refs, recursively, solve, f)
<1>1. N \in Nat /\ Start(refs) \in S
  BY StartType
<1>2. \A n \in 1..N : \A k \in S : Go(k, n) \in S
  BY SolveUnitType, ElementOfSeq
<1> HIDE DEF S, Go
<1>3. step \in [1..N -> [S -> S]]
  BY <1>2
<1>4. \A n \in 1..N : \A k \in S : step[n][k] = Go(k, n)
  OBVIOUS
<1> HIDE DEF step, N
<1>5. PICK f : Recursive(f, N, S, Start(refs), step)
  BY <1>1, <1>3, RecursionUpTo
<1>6. TurnFun(target, trigger, refs, recursively, solve, f)
  <2>1. ASSUME NEW n \in 0..N
        PROVE  f[n] = IF n = 0 THEN Start(refs) ELSE Go(f[n - 1], n)
    <3>1. CASE n = 0
      BY <1>5, <3>1 DEF Recursive
    <3>2. CASE n # 0
      <4>1. n \in 1..N /\ n - 1 \in 0..N
        BY <1>1, <3>2
      <4> QED
        BY <1>4, <1>5, <3>2, <4>1 DEF Recursive
    <3> QED
      BY <3>1, <3>2
  <2> QED
    BY <1>5, <2>1 DEF TurnFun, N, Recursive, Go
<1>7. TurnFun(target, trigger, refs, recursively, solve, turn)
  BY <1>6
<1>8. SolveTarget(target, trigger, refs, recursively, solve) = Result(turn[N])
  BY DEF SolveTarget, TurnFun, N
<1> HIDE DEF turn
<1>9. turn[0] = Start(refs) /\ \A n \in 1..N : turn[n] = Go(turn[n - 1], n)
  BY <1>1, <1>7 DEF TurnFun, N, Go
<1>10. Follows(turn, N, S, Start(refs), step)
  BY <1>4, <1>9 DEF Follows
<1>11. \A n \in 0..N : turn[n] \in S
  BY <1>1, <1>3, <1>10, FollowsType
<1> QED
  BY <1>8, <1>9, <1>11 DEF N, S, Go, Turns

LEMMA ResultType ==
  ASSUME NEW refs, NEW s \in Solvings(refs)
  PROVE  Result(s) \in Results
<1>1. s.solved \in Seq(TargetUnit) /\ s.queue \in Seq(TargetUnit) /\ s.returns \in BOOLEAN
  BY SolvingFields
<1>2. s.solved \o s.queue \in Seq(TargetUnit)
  BY <1>1
<1> QED
  BY <1>1, <1>2 DEF Result, Results

LEMMA SolveTargetType ==
  ASSUME NEW refs \in Seq(Map), NEW target \in Seq(TargetUnit), NEW trigger,
         NEW recursively, NEW solve \in Solvers
  PROVE  SolveTarget(target, trigger, refs, recursively, solve) \in Results
<1>1. PICK turn :
        /\ SolveTarget(target, trigger, refs, recursively, solve) = Result(turn[Len(target)])
        /\ Turns(target, trigger, refs, recursively, solve, turn)
  BY SolveTargetBuilt
<1>2. Len(target) \in 0..Len(target)
  OBVIOUS
<1>3. turn[Len(target)] \in Solvings(refs)
  BY <1>1, <1>2 DEF Turns
<1>4. Result(turn[Len(target)]) \in Results
  BY <1>3, ResultType
<1> QED
  BY <1>1, <1>4

(* The calls, each given a solver for the calls that it makes.             *)
CalledBy(trigger, refs, recursively, solve) ==
  [t \in Seq(TargetUnit) |-> SolveTarget(t, trigger, refs, recursively, solve)]

NoCalls == [t \in Seq(TargetUnit) |-> NoRoom]

SolveFun(trigger, refs, recursively, solve) ==
  solve = [room \in 0..(Len(refs) + 1) |->
             IF room = 0 THEN NoCalls
             ELSE CalledBy(trigger, refs, recursively, solve[room - 1])]

LEMMA CalledByType ==
  ASSUME NEW refs \in Seq(Map), NEW trigger, NEW recursively, NEW solve \in Solvers
  PROVE  CalledBy(trigger, refs, recursively, solve) \in Solvers /\ NoCalls \in Solvers
<1>1. \A t \in Seq(TargetUnit) :
        SolveTarget(t, trigger, refs, recursively, solve) \in Results
  BY SolveTargetType
<1>2. NoRoom \in Results
  BY DEF NoRoom, Results
<1> QED
  BY <1>1, <1>2 DEF CalledBy, NoCalls, Solvers

LEMMA SolveRecursivelyBuilt ==
  ASSUME NEW refs \in Seq(Map), NEW target \in Seq(TargetUnit), NEW trigger,
         NEW recursively
  PROVE  \E solve \in Solvers :
           SolveRecursively(trigger, target, refs, recursively) =
             SolveTarget(target, trigger, refs, recursively, solve)
<1> DEFINE N        == Len(refs) + 1
           S        == Solvers
           Go(k)    == CalledBy(trigger, refs, recursively, k)
           step     == [n \in 1..N |-> [k \in S |-> Go(k)]]
           solve    == CHOOSE f : SolveFun(trigger, refs, recursively, f)
<1>1. N \in Nat /\ N # 0 /\ NoCalls \in S
  <2>1. NoCalls \in S
    BY DEF NoCalls, NoRoom, Results, Solvers
  <2> QED
    BY <2>1
<1>2. \A k \in S : Go(k) \in S
  BY CalledByType
<1> HIDE DEF S, Go
<1>3. step \in [1..N -> [S -> S]]
  BY <1>2
<1>4. \A n \in 1..N : \A k \in S : step[n][k] = Go(k)
  OBVIOUS
<1> HIDE DEF step, N
<1>5. PICK f : Recursive(f, N, S, NoCalls, step)
  BY <1>1, <1>3, RecursionUpTo
<1>6. SolveFun(trigger, refs, recursively, f)
  <2>1. ASSUME NEW n \in 0..N
        PROVE  f[n] = IF n = 0 THEN NoCalls ELSE Go(f[n - 1])
    <3>1. CASE n = 0
      BY <1>5, <3>1 DEF Recursive
    <3>2. CASE n # 0
      <4>1. n \in 1..N /\ n - 1 \in 0..N
        BY <1>1, <3>2
      <4> QED
        BY <1>4, <1>5, <3>2, <4>1 DEF Recursive
    <3> QED
      BY <3>1, <3>2
  <2> QED
    BY <1>5, <2>1 DEF SolveFun, N, Recursive, Go
<1>7. SolveFun(trigger, refs, recursively, solve)
  BY <1>6
<1>8. SolveRecursively(trigger, target, refs, recursively) = solve[N][target]
  BY DEF SolveRecursively, SolveFun, N, CalledBy, NoCalls
<1> HIDE DEF solve
<1>9. solve[0] = NoCalls /\ \A n \in 1..N : solve[n] = Go(solve[n - 1])
  <2>1. solve = [n \in 0..N |-> IF n = 0 THEN NoCalls ELSE Go(solve[n - 1])]
    BY <1>7 DEF SolveFun, N, Go
  <2> QED
    BY <1>1, <2>1
<1>10. Follows(solve, N, S, NoCalls, step)
  BY <1>4, <1>9 DEF Follows
<1>11. \A n \in 0..N : solve[n] \in S
  BY <1>1, <1>3, <1>10, FollowsType
<1>12. N - 1 \in 0..N /\ N \in 1..N
  BY <1>1
<1>13. solve[N - 1] \in Solvers /\ solve[N] = CalledBy(trigger, refs, recursively, solve[N - 1])
  BY <1>9, <1>11, <1>12 DEF S, Go
<1>14. solve[N][target] = SolveTarget(target, trigger, refs, recursively, solve[N - 1])
  BY <1>13 DEF CalledBy
<1> QED
  BY <1>8, <1>13, <1>14

LEMMA SolveMappingType ==
  ASSUME NEW refs \in Seq(Map), NEW m \in Map, NEW recursively
  PROVE  SolveMapping(m, refs, recursively) \in Results
<1>1. m.target \in Seq(TargetUnit)
  BY MapFields
<1>2. [target |-> m.target, returns |-> TRUE] \in Results
  BY <1>1 DEF Results
<1>3. [target |-> <<>>, returns |-> TRUE] \in Results
  BY DEF Results
<1>4. SolveRecursively(m.trigger, m.target, refs, recursively) \in Results
  BY <1>1, SolveRecursivelyBuilt, SolveTargetType
<1> QED
  BY <1>2, <1>3, <1>4 DEF SolveMapping

(* what deploy() asks of solve_mapping()                                   *)
LEMMA SolvedTarget ==
  ASSUME NEW refs \in Seq(Map), NEW m \in Map, NEW recursively
  PROVE  SolveMapping(m, refs, recursively).target \in Seq(TargetUnit)
<1>1. SolveMapping(m, refs, recursively) \in Results
  BY SolveMappingType
<1> HIDE DEF SolveMapping
<1> QED
  BY <1>1, Zenon DEF Results

-----------------------------------------------------------------------------
(* A function has no keys for a matcher to accept: a target of functions,  *)
(* and a default binding is one, solves to itself.                         *)

Expanded(s) == s.solved \o s.queue

LEMMA KeepsExpansion ==
  ASSUME NEW refs, NEW s \in Solvings(refs), NEW unit \in TargetUnit
  PROVE  /\ Expanded(KeepAsIs(s, unit)) = Append(Expanded(s), unit)
         /\ \A x : Expanded([KeepAsIs(s, unit) EXCEPT !.stacks = x]) =
                     Append(Expanded(s), unit)
         /\ \A x : Expanded([s EXCEPT !.stacks = x, !.queue = Append(@, unit)]) =
                     Append(Expanded(s), unit)
<1> DEFINE p == s.solved
           q == s.queue
<1>1. p \in Seq(TargetUnit) /\ q \in Seq(TargetUnit)
  BY SolvingFields
<1>2. Expanded(s) = p \o q
  BY DEF Expanded
<1> HIDE DEF p, q
<1>3. (p \o Append(q, unit)) \o <<>> = Append(p \o q, unit)
  BY <1>1
<1>4. p \o Append(q, unit) = Append(p \o q, unit)
  BY <1>1
<1> DEFINE k == KeepAsIs(s, unit)
<1>5. k.solved = p \o Append(q, unit) /\ k.queue = <<>> /\ k \in Solvings(refs)
  <2>1. k \in Solvings(refs)
    BY KeepAsIsType
  <2> QED
    BY <2>1 DEF KeepAsIs, Solvings, p, q
<1> HIDE DEF k
<1>6. ASSUME NEW x
      PROVE  Expanded([k EXCEPT !.stacks = x]) = Append(p \o q, unit)
  <2>1. /\ [k EXCEPT !.stacks = x].solved = k.solved
        /\ [k EXCEPT !.stacks = x].queue = k.queue
    BY <1>5 DEF Solvings
  <2> QED
    BY <1>3, <1>5, <2>1 DEF Expanded
<1>7. ASSUME NEW x
      PROVE  Expanded([s EXCEPT !.stacks = x, !.queue = Append(@, unit)]) =
               Append(p \o q, unit)
  <2> DEFINE r == [s EXCEPT !.stacks = x, !.queue = Append(@, unit)]
  <2>1. r.solved = p /\ r.queue = Append(q, unit)
    BY DEF Solvings, p, q
  <2> HIDE DEF r
  <2>2. Expanded(r) = Append(p \o q, unit)
    BY <1>4, <2>1 DEF Expanded
  <2> QED
    BY <2>2 DEF r
<1>8. Expanded(k) = Append(p \o q, unit)
  BY <1>3, <1>5 DEF Expanded
<1>9. /\ Expanded(k) = Append(Expanded(s), unit)
      /\ \A x : Expanded([k EXCEPT !.stacks = x]) = Append(Expanded(s), unit)
      /\ \A x : Expanded([s EXCEPT !.stacks = x, !.queue = Append(@, unit)]) =
                  Append(Expanded(s), unit)
  BY <1>2, <1>6, <1>7, <1>8
<1> QED
  BY <1>9, Zenon DEF k

LEMMA FunctionTurn ==
  ASSUME NEW refs \in Seq(Map), NEW s \in Solvings(refs), NEW unit \in TargetUnit,
         unit.does \in Functions, NEW trigger, NEW recursively, NEW solve
  PROVE  Expanded(SolveUnit(s, unit, trigger, refs, recursively, solve)) =
           Append(Expanded(s), unit)
<1> DEFINE up == Updated(refs, s.stacks, unit.keys)
<1>1. unit.keys = {} /\ unit.does # External
  BY FunctionsAssumption DEF TargetUnit
<1>2. unit.keys \notin TextUnits
  BY <1>1, KeysAssumption
<1>3. ~SolverDiverges(refs, s.stacks, unit.keys)
  BY <1>2, SolvingFields, TableOfMaps, SilentUnitsReturn
<1>4. Chosen(up, unit.keys) = 0
  BY <1>1 DEF Chosen
<1> HIDE DEF up
<1>5. Expanded(TakeUnit(s, unit, up, 0, trigger, refs, recursively, solve)) =
        Append(Expanded(s), unit)
  <2>1. TakeUnit(s, unit, up, 0, trigger, refs, recursively, solve) =
          IF AllRejected(up) THEN [KeepAsIs(s, unit) EXCEPT !.stacks = Fresh(refs)]
          ELSE [s EXCEPT !.stacks = up, !.queue = Append(@, unit)]
    BY DEF TakeUnit
  <2>2. /\ Expanded([KeepAsIs(s, unit) EXCEPT !.stacks = Fresh(refs)]) =
             Append(Expanded(s), unit)
        /\ Expanded([s EXCEPT !.stacks = up, !.queue = Append(@, unit)]) =
             Append(Expanded(s), unit)
    BY KeepsExpansion, Zenon
  <2> HIDE DEF Expanded
  <2> QED
    BY <2>1, <2>2
<1>6. SolveUnit(s, unit, trigger, refs, recursively, solve) =
        IF s.giveUp THEN KeepAsIs(s, unit)
        ELSE TakeUnit(s, unit, up, 0, trigger, refs, recursively, solve)
  BY <1>1, <1>3, <1>4 DEF SolveUnit, TakeUpdated, up
<1> QED
  BY <1>5, <1>6, KeepsExpansion

OnlyFunctions(target) == \A i \in 1..Len(target) : target[i].does \in Functions

LEMMA FunctionsSolveToThemselves ==
  ASSUME NEW refs \in Seq(Map), NEW target \in Seq(TargetUnit), OnlyFunctions(target),
         NEW trigger, NEW recursively, NEW solve \in Solvers
  PROVE  SolveTarget(target, trigger, refs, recursively, solve).target = target
<1>1. PICK turn :
        /\ SolveTarget(target, trigger, refs, recursively, solve) = Result(turn[Len(target)])
        /\ Turns(target, trigger, refs, recursively, solve, turn)
  BY SolveTargetBuilt
<1> DEFINE N == Len(target)
<1>2. /\ N \in Nat
      /\ \A n \in 1..N : target[n] \in TargetUnit /\ target[n].does \in Functions
  BY ElementOfSeq, LenProperties DEF OnlyFunctions
<1>3. /\ Beginning(target, 0) = <<>>
      /\ Beginning(target, N) = target
      /\ \A n \in 0..(N - 1) : Beginning(target, n + 1) = Append(Beginning(target, n), target[n + 1])
  BY BuiltByAppending
<1> HIDE DEF N
<1> DEFINE Same(n) == Expanded(turn[n]) = Beginning(target, n)
           P == {n \in 0..N : Same(n)}
<1>4. 0 \in P
  <2>1. Expanded(Start(refs)) = <<>>
    BY DEF Expanded, Start
  <2> QED
    BY <1>1, <1>2, <1>3, <2>1 DEF Turns
<1>5. ASSUME NEW n \in 0..(N - 1), n \in P
      PROVE  n + 1 \in P
  <2>1. n + 1 \in 1..N /\ n + 1 - 1 = n /\ n \in 0..N /\ n + 1 \in 0..N
    BY <1>2
  <2>2. Same(n)
    <3> HIDE DEF Same
    <3> QED
      BY <1>5
  <2>3. turn[n + 1] = SolveUnit(turn[n], target[n + 1], trigger, refs, recursively, solve)
    BY <1>1, <2>1 DEF Turns, N
  <2>4. Expanded(turn[n + 1]) = Append(Expanded(turn[n]), target[n + 1])
    <3>1. turn[n] \in Solvings(refs)
      BY <1>1, <2>1 DEF Turns, N
    <3>2. target[n + 1] \in TargetUnit /\ target[n + 1].does \in Functions
      BY <1>2, <2>1
    <3> QED
      BY <2>3, <3>1, <3>2, FunctionTurn
  <2>5. Same(n + 1)
    BY <1>3, <2>2, <2>4
  <2> HIDE DEF Same
  <2> QED
    BY <2>1, <2>5
<1>6. \A n \in 0..(N - 1) : n \in P => n + 1 \in P
  BY <1>5
<1>7. N \in P
  <2> HIDE DEF P
  <2>1. \A n \in 0..N : n \in P
    BY <1>2, <1>4, <1>6, InductionUpTo, Zenon
  <2> QED
    BY <1>2, <2>1
<1>8. Expanded(turn[N]) = target
  BY <1>3, <1>7
<1> QED
  BY <1>1, <1>8 DEF Result, Expanded, N

LEMMA FunctionsStay ==
  ASSUME NEW refs \in Seq(Map), NEW m \in Map, m.trigger \in Seq(Units \ {{}}),
         m.target # <<>>, OnlyFunctions(m.target), NEW recursively
  PROVE  SolveMapping(m, refs, recursively).target = m.target
<1>1. m.target \in Seq(TargetUnit)
  BY MapFields
<1>2. m.trigger # KeysOf(m.target)
  <2> SUFFICES ASSUME m.trigger = KeysOf(m.target)
               PROVE  FALSE
    OBVIOUS
  <2>1. Len(m.target) \in Nat /\ 1 \in 1..Len(m.target)
    BY <1>1, EmptySeq, LenProperties
  <2>2. m.target[1] \in TargetUnit /\ m.target[1].does \in Functions
    BY <1>1, <2>1, ElementOfSeq DEF OnlyFunctions
  <2>3. m.target[1].keys = {}
    BY <2>2, FunctionsAssumption DEF TargetUnit
  <2>4. m.trigger[1] = {} /\ DOMAIN m.trigger = 1..Len(m.target)
    BY <2>1, <2>3 DEF KeysOf
  <2>5. m.trigger[1] \in Units \ {{}}
    BY <2>1, <2>4
  <2> QED
    BY <2>4, <2>5
<1>3. PICK solve \in Solvers :
        SolveRecursively(m.trigger, m.target, refs, recursively) =
          SolveTarget(m.target, m.trigger, refs, recursively, solve)
  BY <1>1, SolveRecursivelyBuilt
<1>4. SolveRecursively(m.trigger, m.target, refs, recursively).target = m.target
  BY <1>1, <1>3, FunctionsSolveToThemselves
<1> QED
  BY <1>2, <1>4 DEF SolveMapping

-----------------------------------------------------------------------------
(* Maps that are put into a table, one after the other, some left out.     *)

Places(with, N, start, on, m) ==
  /\ with[0] = start
  /\ \A n \in 1..N : with[n] = IF n \in on THEN Put(with[n - 1], m[n]) ELSE with[n - 1]

LEMMA PlacedType ==
  ASSUME NEW N \in Nat, NEW start \in Seq(Map), NEW on, NEW m,
         \A n \in 1..N : m[n] \in Map,
         NEW with, Places(with, N, start, on, m)
  PROVE  \A n \in 0..N : /\ with[n] \in Seq(Map)
                         /\ DistinctTriggers(start) => DistinctTriggers(with[n])
<1> DEFINE Good(n) == /\ with[n] \in Seq(Map)
                      /\ DistinctTriggers(start) => DistinctTriggers(with[n])
           P == {n \in 0..N : Good(n)}
<1>1. 0 \in P
  BY DEF Places
<1>2. ASSUME NEW n \in 0..(N - 1), n \in P
      PROVE  n + 1 \in P
  <2>1. n + 1 \in 1..N /\ n + 1 - 1 = n /\ n + 1 \in 0..N
    OBVIOUS
  <2>2. Good(n)
    <3> HIDE DEF Good
    <3> QED
      BY <1>2
  <2>3. with[n + 1] = IF n + 1 \in on THEN Put(with[n], m[n + 1]) ELSE with[n]
    BY <2>1 DEF Places
  <2>4. m[n + 1] \in Map
    BY <2>1
  <2>5. Good(n + 1)
    BY <2>2, <2>3, <2>4, PutProperties
  <2> HIDE DEF Good
  <2> QED
    BY <2>1, <2>5
<1>3. \A n \in 0..(N - 1) : n \in P => n + 1 \in P
  BY <1>2
<1>4. \A n \in 0..N : n \in P
  <2> HIDE DEF P
  <2> QED
    BY <1>1, <1>3, InductionUpTo, Zenon
<1>5. \A n \in 0..N : Good(n)
  <2> HIDE DEF Good
  <2> QED
    BY <1>4
<1> QED
  BY <1>5

(* What is put is listed, and what was listed unless it was put anew.      *)
KeptOf(start, on, m, n) ==
  {x \in Listed(start) : \A i \in (1..n) \cap on : m[i].trigger # x.trigger}
PutOf(on, m, n) == {m[i] : i \in (1..n) \cap on}

Without(S, trigger) == {x \in S : x.trigger # trigger}

LEMMA NextPut ==
  ASSUME NEW n \in Nat, NEW start, NEW on, NEW m, n + 1 \in on,
         \A i \in 1..n : m[i].trigger # m[n + 1].trigger
  PROVE  /\ KeptOf(start, on, m, n + 1) =
              Without(KeptOf(start, on, m, n), m[n + 1].trigger)
         /\ PutOf(on, m, n + 1) = PutOf(on, m, n) \cup {m[n + 1]}
         /\ \A x \in PutOf(on, m, n) : x.trigger # m[n + 1].trigger
<1> DEFINE I == (1..n) \cap on
           J == (1..(n + 1)) \cap on
<1>1. J = I \cup {n + 1} /\ I \subseteq 1..n
  OBVIOUS
<1> HIDE DEF I, J
<1>2. \A x \in {m[i] : i \in I} : x.trigger # m[n + 1].trigger
  BY <1>1
<1>3. {x \in Listed(start) : \A i \in J : m[i].trigger # x.trigger} =
        {x \in {y \in Listed(start) : \A i \in I : m[i].trigger # y.trigger} :
           x.trigger # m[n + 1].trigger}
  BY <1>1
<1>4. {m[i] : i \in J} = {m[i] : i \in I} \cup {m[n + 1]}
  BY <1>1
<1> QED
  BY <1>2, <1>3, <1>4 DEF KeptOf, PutOf, Without, I, J

LEMMA NextLeft ==
  ASSUME NEW n \in Nat, NEW start, NEW on, NEW m, n + 1 \notin on
  PROVE  /\ KeptOf(start, on, m, n + 1) = KeptOf(start, on, m, n)
         /\ PutOf(on, m, n + 1) = PutOf(on, m, n)
<1>1. (1..n) \cap on = (1..(n + 1)) \cap on
  OBVIOUS
<1> QED
  BY <1>1 DEF KeptOf, PutOf

LEMMA PlacedListed ==
  ASSUME NEW N \in Nat, NEW start \in Seq(Map), NEW on, NEW m,
         \A n \in 1..N : m[n] \in Map,
         \A i, j \in 1..N : m[i].trigger = m[j].trigger => i = j,
         NEW with, Places(with, N, start, on, m)
  PROVE  Listed(with[N]) = KeptOf(start, on, m, N) \cup PutOf(on, m, N)
<1> DEFINE Good(n) == Listed(with[n]) = KeptOf(start, on, m, n) \cup PutOf(on, m, n)
           P == {n \in 0..N : Good(n)}
<1>1. 0 \in P
  <2>1. (1..0) \cap on = {}
    OBVIOUS
  <2>2. KeptOf(start, on, m, 0) = Listed(start) /\ PutOf(on, m, 0) = {}
    BY <2>1 DEF KeptOf, PutOf
  <2> QED
    BY <2>2 DEF Places
<1>2. ASSUME NEW n \in 0..(N - 1), n \in P
      PROVE  n + 1 \in P
  <2>1. n + 1 \in 1..N /\ n + 1 - 1 = n /\ n + 1 \in 0..N /\ n \in 0..N /\ n \in Nat
    OBVIOUS
  <2>2. Good(n)
    <3> HIDE DEF Good
    <3> QED
      BY <1>2
  <2>3. with[n + 1] = IF n + 1 \in on THEN Put(with[n], m[n + 1]) ELSE with[n]
    BY <2>1 DEF Places
  <2>4. m[n + 1] \in Map /\ with[n] \in Seq(Map)
    BY <2>1, PlacedType
  <2>5. \A i \in 1..n : m[i].trigger # m[n + 1].trigger
    <3>1. \A i \in 1..n : i \in 1..N /\ i # n + 1
      BY <2>1
    <3> QED
      BY <2>1, <3>1
  <2>6. Good(n + 1)
    <3>1. CASE n + 1 \in on
      <4>1. Listed(with[n + 1]) =
              Without(Listed(with[n]), m[n + 1].trigger) \cup {m[n + 1]}
        BY <2>3, <2>4, <3>1, PutProperties DEF Without
      <4>2. /\ KeptOf(start, on, m, n + 1) =
                 Without(KeptOf(start, on, m, n), m[n + 1].trigger)
            /\ PutOf(on, m, n + 1) = PutOf(on, m, n) \cup {m[n + 1]}
            /\ \A x \in PutOf(on, m, n) : x.trigger # m[n + 1].trigger
        BY <2>1, <2>5, <3>1, NextPut, Zenon
      <4>3. Listed(with[n]) = KeptOf(start, on, m, n) \cup PutOf(on, m, n)
        BY <2>2
      <4>4. Listed(with[n + 1]) = KeptOf(start, on, m, n + 1) \cup PutOf(on, m, n + 1)
        <5> DEFINE K == KeptOf(start, on, m, n)
                   Q == PutOf(on, m, n)
                   e == m[n + 1]
        <5>1. Without(K \cup Q, e.trigger) \cup {e} = Without(K, e.trigger) \cup (Q \cup {e})
          <6>1. \A x \in Q : x.trigger # e.trigger
            BY <4>2
          <6> HIDE DEF K, Q, e
          <6> QED
            BY <6>1 DEF Without
        <5>2. Listed(with[n + 1]) =
                Without(KeptOf(start, on, m, n), m[n + 1].trigger)
                  \cup (PutOf(on, m, n) \cup {m[n + 1]})
          BY <4>1, <4>3, <5>1
        <5> QED
          BY <4>2, <5>2
      <4> QED
        BY <4>4
    <3>2. CASE n + 1 \notin on
      <4>1. /\ KeptOf(start, on, m, n + 1) = KeptOf(start, on, m, n)
            /\ PutOf(on, m, n + 1) = PutOf(on, m, n)
        BY <2>1, <3>2, NextLeft
      <4> QED
        BY <2>2, <2>3, <3>2, <4>1
    <3> QED
      BY <3>1, <3>2
  <2> HIDE DEF Good
  <2> QED
    BY <2>1, <2>6
<1>3. \A n \in 0..(N - 1) : n \in P => n + 1 \in P
  BY <1>2
<1>4. N \in P
  <2> HIDE DEF P
  <2>1. \A n \in 0..N : n \in P
    BY <1>1, <1>3, InductionUpTo, Zenon
  <2> QED
    BY <2>1
<1>5. Good(N)
  <2> HIDE DEF Good
  <2> QED
    BY <1>4
<1> QED
  BY <1>5

-----------------------------------------------------------------------------
(* The tables that deploy() builds.                                        *)

PutAllFun(maps, more, with) ==
  with = [n \in 0..Len(more) |-> IF n = 0 THEN maps ELSE Put(with[n - 1], more[n])]

LEMMA PutAllBuilt ==
  ASSUME NEW maps \in Seq(Map), NEW more \in Seq(Map)
  PROVE  \E with : /\ PutAll(maps, more) = with[Len(more)]
                   /\ Places(with, Len(more), maps, 1..Len(more), more)
<1> DEFINE N        == Len(more)
           S        == Seq(Map)
           Go(k, n) == Put(k, more[n])
           step     == [n \in 1..N |-> [k \in S |-> Go(k, n)]]
           with     == CHOOSE f : PutAllFun(maps, more, f)
<1>1. N \in Nat /\ maps \in S
  BY LenProperties
<1>2. \A n \in 1..N : \A k \in S : Go(k, n) \in S
  BY PutProperties, ElementOfSeq
<1> HIDE DEF S, Go
<1>3. step \in [1..N -> [S -> S]]
  BY <1>2
<1>4. \A n \in 1..N : \A k \in S : step[n][k] = Go(k, n)
  OBVIOUS
<1> HIDE DEF step, N
<1>5. PICK f : Recursive(f, N, S, maps, step)
  BY <1>1, <1>3, RecursionUpTo
<1>6. PutAllFun(maps, more, f)
  <2>1. ASSUME NEW n \in 0..N
        PROVE  f[n] = IF n = 0 THEN maps ELSE Go(f[n - 1], n)
    <3>1. CASE n = 0
      BY <1>5, <3>1 DEF Recursive
    <3>2. CASE n # 0
      <4>1. n \in 1..N /\ n - 1 \in 0..N
        BY <1>1, <3>2
      <4> QED
        BY <1>4, <1>5, <3>2, <4>1 DEF Recursive
    <3> QED
      BY <3>1, <3>2
  <2> QED
    BY <1>5, <2>1 DEF PutAllFun, N, Recursive, Go
<1>7. PutAllFun(maps, more, with)
  BY <1>6
<1>8. PutAll(maps, more) = with[N]
  BY DEF PutAll, PutAllFun, N
<1> HIDE DEF with
<1>9. with[0] = maps /\ \A n \in 1..N : n \in 1..N /\ with[n] = Put(with[n - 1], more[n])
  BY <1>1, <1>7 DEF PutAllFun, N
<1>10. Places(with, N, maps, 1..N, more)
  BY <1>9 DEF Places
<1> QED
  BY <1>8, <1>10 DEF N

(* A map and the target it solves to                                       *)
Solved(m, refs, recursively) ==
  [trigger |-> m.trigger, target |-> SolveMapping(m, refs, recursively).target]

LEMMA SolvedIsMap ==
  ASSUME NEW refs \in Seq(Map), NEW m \in Map, NEW recursively
  PROVE  Solved(m, refs, recursively) \in Map
<1>1. SolveMapping(m, refs, recursively).target \in Seq(TargetUnit)
  BY SolvedTarget
<1>2. m.trigger \in Seq(Units)
  BY MapFields
<1> HIDE DEF SolveMapping
<1> QED
  BY <1>1, <1>2 DEF Solved, Map

(* The drafts that solve to something, and what they solve to.             *)
Yielding(drafts, refs, recursively) ==
  {n \in 1..Len(drafts) : Solved(drafts[n], refs, recursively).target # <<>>}
SolvedAll(drafts, refs, recursively) ==
  [n \in 1..Len(drafts) |-> Solved(drafts[n], refs, recursively)]

SolveIntoFun(solved, drafts, refs, recursively, with) ==
  with = [n \in 0..Len(drafts) |->
            IF n = 0 THEN solved
            ELSE PutSolved(with[n - 1], drafts[n],
                           SolveMapping(drafts[n], refs, recursively).target)]

LEMMA SolveIntoBuilt ==
  ASSUME NEW solved \in Seq(Map), NEW drafts \in Seq(Map), NEW refs \in Seq(Map),
         NEW recursively
  PROVE  \E with : /\ SolveInto(solved, drafts, refs, recursively) = with[Len(drafts)]
                   /\ Places(with, Len(drafts), solved, Yielding(drafts, refs, recursively),
                             SolvedAll(drafts, refs, recursively))
<1> DEFINE N        == Len(drafts)
           S        == Seq(Map)
           m        == SolvedAll(drafts, refs, recursively)
           on       == Yielding(drafts, refs, recursively)
           Go(k, n) == IF n \in on THEN Put(k, m[n]) ELSE k
           Now(k, n) == PutSolved(k, drafts[n],
                                  SolveMapping(drafts[n], refs, recursively).target)
           step     == [n \in 1..N |-> [k \in S |-> Go(k, n)]]
           with     == CHOOSE f : SolveIntoFun(solved, drafts, refs, recursively, f)
<1>1. N \in Nat /\ solved \in S
  BY LenProperties
<1>2. \A n \in 1..N : m[n] \in Map
  BY SolvedIsMap, ElementOfSeq DEF SolvedAll
<1>3. ASSUME NEW n \in 1..N, NEW k
      PROVE  Now(k, n) = Go(k, n)
  <2> HIDE DEF SolveMapping
  <2>1. /\ m[n] = Solved(drafts[n], refs, recursively)
        /\ n \in on <=> Solved(drafts[n], refs, recursively).target # <<>>
    BY DEF SolvedAll, Yielding
  <2>2. Solved(drafts[n], refs, recursively).target =
          SolveMapping(drafts[n], refs, recursively).target
    BY DEF Solved
  <2> HIDE DEF m, on
  <2> QED
    BY <2>1, <2>2 DEF PutSolved, Solved
<1> HIDE DEF m, on
<1>4. \A n \in 1..N : \A k \in S : Go(k, n) \in S
  BY <1>2, PutProperties
<1> HIDE DEF S, Go, Now
<1>5. step \in [1..N -> [S -> S]]
  BY <1>4
<1>6. \A n \in 1..N : \A k \in S : step[n][k] = Go(k, n)
  OBVIOUS
<1> HIDE DEF step, N
<1>7. PICK f : Recursive(f, N, S, solved, step)
  BY <1>1, <1>5, RecursionUpTo
<1>8. SolveIntoFun(solved, drafts, refs, recursively, f)
  <2>1. ASSUME NEW n \in 0..N
        PROVE  f[n] = IF n = 0 THEN solved ELSE Now(f[n - 1], n)
    <3>1. CASE n = 0
      BY <1>7, <3>1 DEF Recursive
    <3>2. CASE n # 0
      <4>1. n \in 1..N /\ n - 1 \in 0..N
        BY <1>1, <3>2
      <4>2. Now(f[n - 1], n) = Go(f[n - 1], n)
        BY <1>3, <4>1
      <4> QED
        BY <1>6, <1>7, <3>2, <4>1, <4>2 DEF Recursive
    <3> QED
      BY <3>1, <3>2
  <2> QED
    BY <1>7, <2>1 DEF SolveIntoFun, N, Recursive, Now
<1>9. SolveIntoFun(solved, drafts, refs, recursively, with)
  BY <1>8
<1>10. SolveInto(solved, drafts, refs, recursively) = with[N]
  BY DEF SolveInto, SolveIntoFun, N
<1> HIDE DEF with
<1>11. with[0] = solved /\ \A n \in 1..N : with[n] = Now(with[n - 1], n)
  <2>1. with = [n \in 0..N |-> IF n = 0 THEN solved ELSE Now(with[n - 1], n)]
    BY <1>9 DEF SolveIntoFun, N, Now
  <2>2. 0 \in 0..N /\ \A n \in 1..N : n \in 0..N /\ n # 0
    BY <1>1
  <2>3. \A n \in 0..N : with[n] = IF n = 0 THEN solved ELSE Now(with[n - 1], n)
    BY <2>1, Zenon
  <2> QED
    BY <2>2, <2>3
<1>12. Places(with, N, solved, on, m)
  <2>1. ASSUME NEW n \in 1..N
        PROVE  with[n] = Go(with[n - 1], n)
    <3>1. with[n] = Now(with[n - 1], n)
      BY <1>11
    <3>2. Now(with[n - 1], n) = Go(with[n - 1], n)
      BY <1>3
    <3> QED
      BY <3>1, <3>2
  <2> QED
    BY <1>11, <2>1 DEF Places, Go
<1> QED
  BY <1>10, <1>12 DEF N, on, m

LEMMA PutAllType ==
  ASSUME NEW maps \in Seq(Map), NEW more \in Seq(Map)
  PROVE  /\ PutAll(maps, more) \in Seq(Map)
         /\ DistinctTriggers(maps) => DistinctTriggers(PutAll(maps, more))
<1>1. PICK with : /\ PutAll(maps, more) = with[Len(more)]
                  /\ Places(with, Len(more), maps, 1..Len(more), more)
  BY PutAllBuilt
<1>2. Len(more) \in Nat /\ \A n \in 1..Len(more) : more[n] \in Map
  BY ElementOfSeq, LenProperties
<1>3. \A n \in 0..Len(more) : /\ with[n] \in Seq(Map)
                              /\ DistinctTriggers(maps) => DistinctTriggers(with[n])
  BY <1>1, <1>2, PlacedType
<1>4. Len(more) \in 0..Len(more)
  BY <1>2
<1> QED
  BY <1>1, <1>3, <1>4

LEMMA PutAllListed ==
  ASSUME NEW maps \in Seq(Map), NEW more \in Seq(Map), DistinctTriggers(more)
  PROVE  \A x : x \in Listed(PutAll(maps, more)) <=>
                  \/ x \in Listed(maps) /\ \A y \in Listed(more) : y.trigger # x.trigger
                  \/ x \in Listed(more)
<1> DEFINE N == Len(more)
<1>1. PICK with : /\ PutAll(maps, more) = with[Len(more)]
                  /\ Places(with, Len(more), maps, 1..Len(more), more)
  BY PutAllBuilt
<1>2. N \in Nat /\ \A n \in 1..N : more[n] \in Map
  BY ElementOfSeq, LenProperties
<1>3. Listed(with[N]) = KeptOf(maps, 1..N, more, N) \cup PutOf(1..N, more, N)
  BY <1>1, <1>2, PlacedListed DEF DistinctTriggers
<1>4. (1..N) \cap (1..N) = 1..N
  OBVIOUS
<1>5. PutOf(1..N, more, N) = Listed(more)
  BY <1>4 DEF PutOf, Listed
<1>6. \A x : x \in KeptOf(maps, 1..N, more, N) <=>
               x \in Listed(maps) /\ \A y \in Listed(more) : y.trigger # x.trigger
  BY <1>4 DEF KeptOf, Listed
<1> QED
  BY <1>1, <1>3, <1>5, <1>6

LEMMA SolveIntoType ==
  ASSUME NEW solved \in Seq(Map), NEW drafts \in Seq(Map), NEW refs \in Seq(Map),
         NEW recursively
  PROVE  LET all == SolveInto(solved, drafts, refs, recursively)
         IN  /\ all \in Seq(Map)
             /\ DistinctTriggers(solved) => DistinctTriggers(all)
<1> DEFINE N  == Len(drafts)
           m  == SolvedAll(drafts, refs, recursively)
           on == Yielding(drafts, refs, recursively)
<1>1. PICK with : /\ SolveInto(solved, drafts, refs, recursively) = with[N]
                  /\ Places(with, N, solved, on, m)
  BY SolveIntoBuilt
<1>2. N \in Nat /\ N \in 0..N /\ \A n \in 1..N : m[n] \in Map
  BY SolvedIsMap, ElementOfSeq, LenProperties DEF SolvedAll
<1> HIDE DEF N, m, on
<1>3. \A n \in 0..N : /\ with[n] \in Seq(Map)
                      /\ DistinctTriggers(solved) => DistinctTriggers(with[n])
  BY <1>1, <1>2, PlacedType
<1> QED
  BY <1>1, <1>2, <1>3

(* what a table yields when its maps are solved against refs               *)
Yields(d, refs, recursively) == Solved(d, refs, recursively).target # <<>>

IsSolvedInto(x, solved, drafts, refs, recursively) ==
  \/ /\ x \in Listed(solved)
     /\ \A d \in Listed(drafts) : Yields(d, refs, recursively) => d.trigger # x.trigger
  \/ \E d \in Listed(drafts) :
       Yields(d, refs, recursively) /\ x = Solved(d, refs, recursively)

LEMMA SolveIntoListed ==
  ASSUME NEW solved \in Seq(Map), NEW drafts \in Seq(Map), NEW refs \in Seq(Map),
         NEW recursively, DistinctTriggers(drafts)
  PROVE  \A x : x \in Listed(SolveInto(solved, drafts, refs, recursively)) <=>
                  IsSolvedInto(x, solved, drafts, refs, recursively)
<1> DEFINE N  == Len(drafts)
           m  == SolvedAll(drafts, refs, recursively)
           on == Yielding(drafts, refs, recursively)
           F(d) == Solved(d, refs, recursively)
           Y(d) == Yields(d, refs, recursively)
<1>1. PICK with : /\ SolveInto(solved, drafts, refs, recursively) = with[N]
                  /\ Places(with, N, solved, on, m)
  BY SolveIntoBuilt
<1>2. N \in Nat /\ \A n \in 1..N : m[n] \in Map
  BY SolvedIsMap, ElementOfSeq, LenProperties DEF SolvedAll
<1>3. \A d : F(d).trigger = d.trigger
  BY DEF Solved
<1>4. \A n \in 1..N : m[n] = F(drafts[n]) /\ (n \in on <=> Y(drafts[n]))
  BY DEF SolvedAll, Yielding, Yields
<1>5. \A i, j \in 1..N : m[i].trigger = m[j].trigger => i = j
  <2> HIDE DEF m, on, F, Y
  <2> QED
    BY <1>3, <1>4 DEF DistinctTriggers
<1>6. on \subseteq 1..N
  BY DEF Yielding
<1> HIDE DEF m, on, F, Y
<1>7. Listed(with[N]) = KeptOf(solved, on, m, N) \cup PutOf(on, m, N)
  BY <1>1, <1>2, <1>5, PlacedListed
<1>8. (1..N) \cap on = on
  BY <1>6
<1>9. ASSUME NEW x
      PROVE  x \in PutOf(on, m, N) <=> \E d \in Listed(drafts) : Y(d) /\ x = F(d)
  <2>1. x \in PutOf(on, m, N) <=> \E n \in on : x = m[n]
    BY <1>8 DEF PutOf
  <2> QED
    BY <1>4, <1>6, <2>1 DEF Listed
<1>10. ASSUME NEW x
       PROVE  x \in KeptOf(solved, on, m, N) <=>
                /\ x \in Listed(solved)
                /\ \A d \in Listed(drafts) : Y(d) => d.trigger # x.trigger
  <2>1. x \in KeptOf(solved, on, m, N) <=>
          x \in Listed(solved) /\ \A n \in on : m[n].trigger # x.trigger
    BY <1>8 DEF KeptOf
  <2>2. \A n \in on : m[n].trigger = drafts[n].trigger
    BY <1>3, <1>4, <1>6
  <2> QED
    BY <1>4, <1>6, <2>1, <2>2 DEF Listed
<1>11. \A x : x \in Listed(with[N]) <=>
         \/ /\ x \in Listed(solved)
            /\ \A d \in Listed(drafts) : Y(d) => d.trigger # x.trigger
         \/ \E d \in Listed(drafts) : Y(d) /\ x = F(d)
  BY <1>7, <1>9, <1>10
<1> QED
  BY <1>1, <1>11 DEF F, Y, IsSolvedInto

-----------------------------------------------------------------------------
(* What deploy() makes of the tables of the user.                          *)

(* A trigger is mapped once, by a map or by a noremap.                     *)
Tables(noremaps, maps) ==
  /\ noremaps \in Seq(Map) /\ DistinctTriggers(noremaps)
  /\ maps \in Seq(Map) /\ DistinctTriggers(maps)
  /\ \A x \in Listed(noremaps), y \in Listed(maps) : x.trigger # y.trigger

LEMMA DefaultTable ==
  ASSUME NEW table, IsDefault(table)
  PROVE  /\ table \in Seq(Map)
         /\ DistinctTriggers(table)
         /\ \A d \in Listed(table) :
              /\ d.target # <<>>
              /\ ~IsHotkey(d)
              /\ \A refs \in Seq(Map) : \A recursively :
                   Solved(d, refs, recursively) = d /\ Yields(d, refs, recursively)
<1>1. table \in Seq(Map) /\ DistinctTriggers(table)
  BY DEF IsDefault, DistinctTriggers
<1>2. ASSUME NEW d \in Listed(table)
      PROVE  /\ d \in Map
             /\ d.trigger \in Seq(Units \ {{}})
             /\ d.target # <<>>
             /\ OnlyFunctions(d.target)
  BY <1>1, RangeIsListed DEF IsDefault, OnlyFunctions, Listed
<1>3. ASSUME NEW d \in Listed(table)
      PROVE  ~IsHotkey(d)
  <2> SUFFICES ASSUME Len(d.target) = 1, d.target[1].does = External
               PROVE  FALSE
    BY DEF IsHotkey, IsKeyToExternal
  <2>1. d.target[1].does \in Functions
    BY <1>2 DEF OnlyFunctions
  <2> QED
    BY <2>1, FunctionsAssumption
<1>4. ASSUME NEW d \in Listed(table), NEW refs \in Seq(Map), NEW recursively
      PROVE  Solved(d, refs, recursively) = d /\ Yields(d, refs, recursively)
  <2>1. SolveMapping(d, refs, recursively).target = d.target
    BY <1>2, FunctionsStay
  <2>2. d = [trigger |-> d.trigger, target |-> d.target]
    BY <1>2 DEF Map
  <2>3. Solved(d, refs, recursively) = d
    BY <2>1, <2>2 DEF Solved
  <2> QED
    BY <1>2, <2>3 DEF Yields
<1> QED
  BY <1>1, <1>2, <1>3, <1>4

(* A default whose trigger is not mapped, or a noremap, solved              *)
IsSolvedNoremap(x, table, noremaps) ==
  \/ x \in Listed(table) /\ \A n \in Listed(noremaps) : n.trigger # x.trigger
  \/ \E n \in Listed(noremaps) : Yields(n, table, FALSE) /\ x = Solved(n, table, FALSE)

LEMMA SolvedNoremapsListed ==
  ASSUME NEW table, IsDefault(table), NEW noremaps \in Seq(Map), DistinctTriggers(noremaps)
  PROVE  /\ SolvedNoremaps(table, noremaps) \in Seq(Map)
         /\ DistinctTriggers(SolvedNoremaps(table, noremaps))
         /\ \A x : x \in Listed(SolvedNoremaps(table, noremaps)) <=>
                     IsSolvedNoremap(x, table, noremaps)
<1> DEFINE drafts == PutAll(table, noremaps)
           all == SolveInto(<<>>, drafts, table, FALSE)
<1>1. /\ table \in Seq(Map) /\ DistinctTriggers(table)
      /\ \A d \in Listed(table) : Solved(d, table, FALSE) = d /\ Yields(d, table, FALSE)
  BY DefaultTable
<1>2. drafts \in Seq(Map) /\ DistinctTriggers(drafts)
  BY <1>1, PutAllType
<1>3. \A x : x \in Listed(drafts) <=>
               \/ x \in Listed(table) /\ \A y \in Listed(noremaps) : y.trigger # x.trigger
               \/ x \in Listed(noremaps)
  BY <1>1, PutAllListed
<1>4. <<>> \in Seq(Map) /\ Listed(<<>>) = {} /\ DistinctTriggers(<<>>)
  BY NothingListed
<1>5. SolvedNoremaps(table, noremaps) = all
  BY DEF SolvedNoremaps, NoremapDrafts
<1> HIDE DEF drafts
<1>6. all \in Seq(Map) /\ DistinctTriggers(all)
  BY <1>1, <1>2, <1>4, SolveIntoType
<1>7. \A x : x \in Listed(all) <=> IsSolvedInto(x, <<>>, drafts, table, FALSE)
  BY <1>1, <1>2, <1>4, SolveIntoListed
<1> HIDE DEF all
<1>8. ASSUME NEW x
      PROVE  x \in Listed(all) <=> IsSolvedNoremap(x, table, noremaps)
  <2>1. x \in Listed(all) <=>
          \E d \in Listed(drafts) : Yields(d, table, FALSE) /\ x = Solved(d, table, FALSE)
    BY <1>4, <1>7 DEF IsSolvedInto
  <2> QED
    BY <1>1, <1>3, <2>1 DEF IsSolvedNoremap
<1> QED
  BY <1>5, <1>6, <1>8

LEMMA SolvedMapsListed ==
  ASSUME NEW table, IsDefault(table), NEW noremaps, NEW maps, Tables(noremaps, maps)
  PROVE  LET refs == MapTable(table, noremaps, maps)
             all  == SolvedMaps(table, noremaps, maps)
         IN  /\ refs \in Seq(Map)
             /\ all \in Seq(Map)
             /\ DistinctTriggers(all)
             /\ \A x : x \in Listed(all) <=>
                  IsSolvedInto(x, SolvedNoremaps(table, noremaps), maps, refs, TRUE)
<1> DEFINE solved == SolvedNoremaps(table, noremaps)
           refs == MapTable(table, noremaps, maps)
           all  == SolvedMaps(table, noremaps, maps)
<1>1. /\ noremaps \in Seq(Map) /\ DistinctTriggers(noremaps)
      /\ maps \in Seq(Map) /\ DistinctTriggers(maps)
  BY DEF Tables
<1>2. solved \in Seq(Map) /\ DistinctTriggers(solved)
  BY <1>1, SolvedNoremapsListed
<1>3. refs \in Seq(Map)
  BY <1>1, <1>2, PutAllType DEF MapTable
<1>4. all = SolveInto(solved, maps, refs, TRUE)
  BY DEF SolvedMaps
<1> HIDE DEF solved, refs, all
<1>5. all \in Seq(Map) /\ DistinctTriggers(all)
  BY <1>1, <1>2, <1>3, <1>4, SolveIntoType
<1>6. \A x : x \in Listed(all) <=> IsSolvedInto(x, solved, maps, refs, TRUE)
  BY <1>1, <1>2, <1>3, <1>4, SolveIntoListed
<1> QED
  BY <1>3, <1>5, <1>6 DEF solved, refs, all

(* No map without a target comes out of it.                                *)
LEMMA SolvedMapsHaveTargets ==
  ASSUME NEW table, IsDefault(table), NEW noremaps, NEW maps, Tables(noremaps, maps)
  PROVE  /\ \A x \in Listed(SolvedNoremaps(table, noremaps)) : x.target # <<>>
         /\ \A x \in Listed(SolvedMaps(table, noremaps, maps)) : x.target # <<>>
<1> DEFINE refs == MapTable(table, noremaps, maps)
<1>1. noremaps \in Seq(Map) /\ DistinctTriggers(noremaps)
  BY DEF Tables
<1>2. \A x \in Listed(SolvedNoremaps(table, noremaps)) : x.target # <<>>
  <2>1. \A x \in Listed(SolvedNoremaps(table, noremaps)) :
          x \in Listed(table) \/ \E n \in Listed(noremaps) :
                                   Yields(n, table, FALSE) /\ x = Solved(n, table, FALSE)
    <3>1. \A x \in Listed(SolvedNoremaps(table, noremaps)) :
            IsSolvedNoremap(x, table, noremaps)
      BY <1>1, SolvedNoremapsListed
    <3> QED
      BY <3>1 DEF IsSolvedNoremap
  <2>2. \A d \in Listed(table) : d.target # <<>>
    BY DefaultTable
  <2> QED
    BY <2>1, <2>2 DEF Yields
<1>3. \A x \in Listed(SolvedMaps(table, noremaps, maps)) :
        \/ x \in Listed(SolvedNoremaps(table, noremaps))
        \/ \E m \in Listed(maps) : Yields(m, refs, TRUE) /\ x = Solved(m, refs, TRUE)
  <2>1. \A x \in Listed(SolvedMaps(table, noremaps, maps)) :
          IsSolvedInto(x, SolvedNoremaps(table, noremaps), maps, refs, TRUE)
    BY SolvedMapsListed
  <2> HIDE DEF refs
  <2> QED
    BY <2>1 DEF IsSolvedInto
<1> HIDE DEF refs
<1> QED
  BY <1>2, <1>3 DEF Yields

-----------------------------------------------------------------------------
(* The edits keep the tables apart.                                        *)

LEMMA NoTables == Tables(<<>>, <<>>)
  BY NothingListed DEF Tables

LEMMA MapReplacesNoremap ==
  ASSUME NEW noremaps, NEW maps, Tables(noremaps, maps), NEW m \in Map
  PROVE  /\ Tables(RemoveTriggered(noremaps, m.trigger), Put(maps, m))
         /\ Tables(Put(noremaps, m), RemoveTriggered(maps, m.trigger))
<1> DEFINE n1 == RemoveTriggered(noremaps, m.trigger)
           n2 == Put(noremaps, m)
           m1 == Put(maps, m)
           m2 == RemoveTriggered(maps, m.trigger)
<1>1. /\ noremaps \in Seq(Map) /\ DistinctTriggers(noremaps)
      /\ maps \in Seq(Map) /\ DistinctTriggers(maps)
      /\ \A x \in Listed(noremaps), y \in Listed(maps) : x.trigger # y.trigger
  BY DEF Tables
<1>2. /\ n1 \in Seq(Map) /\ DistinctTriggers(n1)
      /\ Listed(n1) = {x \in Listed(noremaps) : x.trigger # m.trigger}
  BY <1>1, RemoveProperties
<1>3. /\ m2 \in Seq(Map) /\ DistinctTriggers(m2)
      /\ Listed(m2) = {x \in Listed(maps) : x.trigger # m.trigger}
  BY <1>1, RemoveProperties
<1>4. /\ m1 \in Seq(Map) /\ DistinctTriggers(m1)
      /\ Listed(m1) = {x \in Listed(maps) : x.trigger # m.trigger} \cup {m}
  BY <1>1, PutProperties
<1>5. /\ n2 \in Seq(Map) /\ DistinctTriggers(n2)
      /\ Listed(n2) = {x \in Listed(noremaps) : x.trigger # m.trigger} \cup {m}
  BY <1>1, PutProperties
<1> HIDE DEF n1, n2, m1, m2
<1>6. \A x \in Listed(n1), y \in Listed(m1) : x.trigger # y.trigger
  BY <1>1, <1>2, <1>4
<1>7. \A x \in Listed(n2), y \in Listed(m2) : x.trigger # y.trigger
  BY <1>1, <1>3, <1>5
<1>8. Tables(n1, m1) /\ Tables(n2, m2)
  BY <1>2, <1>3, <1>4, <1>5, <1>6, <1>7 DEF Tables
<1> QED
  BY <1>8 DEF n1, n2, m1, m2

LEMMA RemovedFromTables ==
  ASSUME NEW noremaps, NEW maps, Tables(noremaps, maps), NEW trigger
  PROVE  /\ Tables(noremaps, RemoveTriggered(maps, trigger))
         /\ Tables(RemoveTriggered(noremaps, trigger), maps)
         /\ Tables(RemoveTriggered(noremaps, trigger), RemoveTriggered(maps, trigger))
<1> DEFINE n == RemoveTriggered(noremaps, trigger)
           m == RemoveTriggered(maps, trigger)
<1>1. /\ noremaps \in Seq(Map) /\ DistinctTriggers(noremaps)
      /\ maps \in Seq(Map) /\ DistinctTriggers(maps)
      /\ \A x \in Listed(noremaps), y \in Listed(maps) : x.trigger # y.trigger
  BY DEF Tables
<1>2. n \in Seq(Map) /\ DistinctTriggers(n) /\ Listed(n) \subseteq Listed(noremaps)
  BY <1>1, RemoveProperties
<1>3. m \in Seq(Map) /\ DistinctTriggers(m) /\ Listed(m) \subseteq Listed(maps)
  BY <1>1, RemoveProperties
<1> HIDE DEF n, m
<1>4. Tables(noremaps, m) /\ Tables(n, maps) /\ Tables(n, m)
  BY <1>1, <1>2, <1>3 DEF Tables
<1> QED
  BY <1>4 DEF n, m

LEMMA CommandIsMap ==
  ASSUME NEW m \in Commands
  PROVE  m \in Map /\ [m EXCEPT !.trigger = WithArguments(@)] \in Map
<1>1. m \in Map
  BY RegistryAssumption
<1>2. {SPACE} \in Units /\ {OPTIONAL} \in Units
  BY RegistryAssumption, KeysAssumption DEF Units
<1>3. m.trigger \in Seq(Units)
  BY <1>1, MapFields
<1>4. WithArguments(m.trigger) \in Seq(Units)
  BY <1>2, <1>3 DEF WithArguments
<1> QED
  BY <1>1, <1>4 DEF Map

LEMMA MappedIsMap ==
  ASSUME NEW t \in Triggers, NEW g \in Targets
  PROVE  [trigger |-> t, target |-> g] \in Map
  BY RegistryAssumption DEF Map

-----------------------------------------------------------------------------
(* What is deployed: the maps of deploy() that the hook does not rewrite.  *)

Matched(all) == Among(all, {m \in Map : ~IsHotkey(m)})
Rewritten(all) == {x \in Range(all) : IsHotkey(x)}

LEMMA DeployedListed ==
  ASSUME NEW table, IsDefault(table), NEW noremaps, NEW maps, Tables(noremaps, maps)
  PROVE  LET all == SolvedMaps(table, noremaps, maps)
         IN  /\ Matched(all) \in Seq(Map)
             /\ DistinctTriggers(Matched(all))
             /\ Range(Matched(all)) = {x \in Listed(all) : ~IsHotkey(x)}
             /\ Rewritten(all) = {x \in Listed(all) : IsHotkey(x)}
             /\ Rewritten(all) \subseteq Map
             /\ \A x \in Listed(Matched(all)) : x.target # <<>>
             /\ \A h \in Rewritten(all) :
                  h.trigger \notin {m.trigger : m \in Range(Matched(all))}
<1> DEFINE all       == SolvedMaps(table, noremaps, maps)
           matched   == Matched(all)
           rewritten == Rewritten(all)
           quiet     == {m \in Map : ~IsHotkey(m)}
<1>1. all \in Seq(Map) /\ DistinctTriggers(all)
  BY SolvedMapsListed
<1>2. Range(all) = Listed(all) /\ Listed(all) \subseteq Map
  BY <1>1, RangeIsListed
<1>3. matched \in Seq(Map)
  BY <1>1, AmongType, Zenon DEF Matched
<1>4. Listed(matched) = Listed(all) \cap quiet /\ DistinctTriggers(matched)
  BY <1>1, AmongListed, Zenon DEF Matched
<1>5. Range(matched) = Listed(matched)
  BY <1>3, RangeIsListed
<1>6. Listed(matched) = {x \in Listed(all) : ~IsHotkey(x)}
  BY <1>2, <1>4
<1>7. rewritten = {x \in Listed(all) : IsHotkey(x)}
  BY <1>2 DEF Rewritten
<1>8. \A x \in Listed(all) : x.target # <<>>
  BY SolvedMapsHaveTargets
<1>9. \A x, y \in Listed(all) : x.trigger = y.trigger => x = y
  BY <1>1 DEF DistinctTriggers, Listed
<1>10. \A h \in rewritten : \A x \in Listed(matched) : h.trigger # x.trigger
  BY <1>6, <1>7, <1>9
<1>11. \A x \in Listed(matched) : x.target # <<>>
  BY <1>6, <1>8
<1>12. rewritten \subseteq Map
  BY <1>2, <1>7
<1>13. \A h \in rewritten : h.trigger \notin {m.trigger : m \in Range(matched)}
  BY <1>5, <1>10
<1> QED
  BY <1>3, <1>4, <1>5, <1>6, <1>7, <1>11, <1>12, <1>13

-----------------------------------------------------------------------------
(* The inductive invariant: OneMeaning, with the two tables of the user    *)
(* told apart, which is what the edits preserve and deploy() relies on.    *)

IInv ==
  /\ TypeOK
  /\ Tables(registered_noremap, registered_map)
  /\ DistinctTriggers(deployed)
  /\ \A h \in hotkeys : h.trigger \notin {m.trigger : m \in Range(deployed)}

LEMMA DistinctIsInjective ==
  ASSUME NEW s, DOMAIN s = 1..Len(s), DistinctTriggers(s)
  PROVE  IsInjective([i \in DOMAIN s |-> s[i].trigger])
  BY DEF IsInjective, DistinctTriggers

LEMMA TablesAreInjective ==
  ASSUME NEW noremaps, NEW maps, Tables(noremaps, maps)
  PROVE  DistinctTriggers(noremaps \o maps) /\ noremaps \o maps \in Seq(Map)
<1> DEFINE s == noremaps \o maps
           p == Len(noremaps)
           q == Len(maps)
<1>1. /\ noremaps \in Seq(Map) /\ DistinctTriggers(noremaps)
      /\ maps \in Seq(Map) /\ DistinctTriggers(maps)
      /\ \A x \in Listed(noremaps), y \in Listed(maps) : x.trigger # y.trigger
  BY DEF Tables
<1>2. /\ p \in Nat /\ q \in Nat /\ Len(s) = p + q
      /\ \A i \in 1..p : s[i] = noremaps[i]
      /\ \A i \in (p + 1)..(p + q) : i - p \in 1..q /\ s[i] = maps[i - p]
      /\ s \in Seq(Map)
  BY <1>1
<1> HIDE DEF s, p, q
<1>3. \A i \in 1..Len(s) : i \in 1..p \/ i \in (p + 1)..(p + q)
  BY <1>2
<1>4. ASSUME NEW i \in 1..Len(s), NEW j \in 1..Len(s), s[i].trigger = s[j].trigger
      PROVE  i = j
  <2>1. CASE i \in 1..p /\ j \in 1..p
    BY <1>1, <1>2, <1>4, <2>1 DEF DistinctTriggers, p
  <2>2. CASE i \in (p + 1)..(p + q) /\ j \in (p + 1)..(p + q)
    <3>1. i - p \in 1..q /\ j - p \in 1..q /\ maps[i - p].trigger = maps[j - p].trigger
      BY <1>2, <1>4, <2>2
    <3>2. i - p = j - p
      BY <1>1, <3>1 DEF DistinctTriggers, q
    <3> QED
      BY <1>2, <2>2, <3>2
  <2>3. CASE i \in 1..p /\ j \in (p + 1)..(p + q)
    <3>1. noremaps[i] \in Listed(noremaps) /\ maps[j - p] \in Listed(maps)
      BY <1>2, <2>3 DEF Listed, p, q
    <3> QED
      BY <1>1, <1>2, <1>4, <2>3, <3>1
  <2>4. CASE j \in 1..p /\ i \in (p + 1)..(p + q)
    <3>1. noremaps[j] \in Listed(noremaps) /\ maps[i - p] \in Listed(maps)
      BY <1>2, <2>4 DEF Listed, p, q
    <3> QED
      BY <1>1, <1>2, <1>4, <2>4, <3>1
  <2> QED
    BY <1>3, <2>1, <2>2, <2>3, <2>4
<1>5. DistinctTriggers(s) /\ s \in Seq(Map)
  BY <1>2, <1>4 DEF DistinctTriggers
<1> QED
  BY <1>5 DEF s

LEMMA InvariantImplies == IInv => TablesAgree
<1> SUFFICES ASSUME IInv
             PROVE  TypeOK /\ OneMeaning
  BY DEF TablesAgree
<1>1. /\ TypeOK
      /\ Tables(registered_noremap, registered_map)
      /\ DistinctTriggers(deployed)
      /\ \A h \in hotkeys : h.trigger \notin {m.trigger : m \in Range(deployed)}
  BY DEF IInv
<1>2. DistinctTriggers(UserMaps) /\ UserMaps \in Seq(Map)
  BY <1>1, TablesAreInjective DEF UserMaps
<1>3. DOMAIN UserMaps = 1..Len(UserMaps)
  BY <1>2
<1>4. deployed \in Seq(Map)
  BY <1>1 DEF TypeOK
<1>5. DOMAIN deployed = 1..Len(deployed)
  BY <1>4
<1> HIDE DEF UserMaps
<1>6. IsInjective([i \in DOMAIN UserMaps |-> UserMaps[i].trigger])
  BY <1>2, <1>3, DistinctIsInjective
<1>7. IsInjective([i \in DOMAIN deployed |-> deployed[i].trigger])
  BY <1>1, <1>5, DistinctIsInjective
<1> QED
  BY <1>1, <1>6, <1>7 DEF OneMeaning

LEMMA DefaultIsDefault == IInv => IsDefault(default)
  BY RegistryAssumption DEF IInv, TypeOK

LEMMA InitInvariant == Init => IInv
<1> SUFFICES ASSUME Init
             PROVE  IInv
  OBVIOUS
<1>1. /\ default \in Defaults /\ IsDefault(default)
      /\ registered_noremap = <<>> /\ registered_map = <<>>
      /\ deployed = SolvedNoremaps(default, <<>>)
      /\ hotkeys = {} /\ edits = 0 /\ alive = TRUE
  BY RegistryAssumption DEF Init
<1>2. Tables(<<>>, <<>>) /\ <<>> \in Seq(Map) /\ DistinctTriggers(<<>>)
  BY NoTables, NothingListed
<1>3. deployed \in Seq(Map) /\ DistinctTriggers(deployed)
  BY <1>1, <1>2, SolvedNoremapsListed
<1>4. \A x \in Listed(deployed) : x.target # <<>>
  BY <1>1, <1>2, SolvedMapsHaveTargets
<1>5. \A i \in DOMAIN deployed : deployed[i].target # <<>>
  BY <1>3, <1>4 DEF Listed
<1>6. edits \in 0..MaxEdits
  BY <1>1, RegistryAssumption
<1>7. TypeOK
  BY <1>1, <1>2, <1>3, <1>5, <1>6 DEF TypeOK
<1> QED
  BY <1>1, <1>2, <1>3, <1>7 DEF IInv

(* An edit that keeps the tables apart keeps the invariant.                *)
LEMMA EditInvariant ==
  ASSUME IInv, Edit, Tables(registered_noremap', registered_map')
  PROVE  IInv'
<1>1. /\ TypeOK
      /\ DistinctTriggers(deployed)
      /\ \A h \in hotkeys : h.trigger \notin {m.trigger : m \in Range(deployed)}
  BY DEF IInv
<1>2. /\ edits < MaxEdits /\ edits' = edits + 1
      /\ default' = default /\ deployed' = deployed /\ hotkeys' = hotkeys /\ alive' = alive
  BY DEF Edit
<1>3. registered_noremap' \in Seq(Map) /\ registered_map' \in Seq(Map)
  BY DEF Tables
<1>4. edits' \in 0..MaxEdits
  BY <1>1, <1>2, RegistryAssumption DEF TypeOK
<1>5. TypeOK'
  BY <1>1, <1>2, <1>3, <1>4 DEF TypeOK
<1> QED
  BY <1>1, <1>2, <1>5 DEF IInv

LEMMA DeployInvariant ==
  ASSUME IInv, Deploy
  PROVE  IInv'
<1>1. /\ TypeOK
      /\ Tables(registered_noremap, registered_map)
      /\ DistinctTriggers(deployed)
      /\ \A h \in hotkeys : h.trigger \notin {m.trigger : m \in Range(deployed)}
  BY DEF IInv
<1>2. /\ edits' = 0 /\ default' = default
      /\ registered_noremap' = registered_noremap /\ registered_map' = registered_map
  BY DEF Deploy
<1>3. edits' \in 0..MaxEdits
  BY <1>2, RegistryAssumption
<1>4. Tables(registered_noremap', registered_map')
  BY <1>1, <1>2
<1>5. CASE DeployTable /\ alive' = alive
  <2> DEFINE all == SolvedMaps(default, registered_noremap, registered_map)
  <2>1. IsDefault(default)
    BY DefaultIsDefault
  <2>2. deployed' = Matched(all) /\ hotkeys' = Rewritten(all)
    BY <1>5 DEF DeployTable, Matched, Rewritten
  <2> HIDE DEF all
  <2>3. /\ deployed' \in Seq(Map)
        /\ DistinctTriggers(deployed')
        /\ hotkeys' \subseteq Map
        /\ \A x \in Listed(deployed') : x.target # <<>>
        /\ \A h \in hotkeys' : h.trigger \notin {m.trigger : m \in Range(deployed')}
    BY <1>1, <2>1, <2>2, DeployedListed DEF all
  <2>4. \A i \in DOMAIN deployed' : deployed'[i].target # <<>>
    BY <2>3 DEF Listed
  <2>5. TypeOK'
    BY <1>1, <1>2, <1>3, <1>5, <2>3, <2>4 DEF TypeOK
  <2> QED
    BY <1>4, <2>3, <2>5 DEF IInv
<1>6. CASE alive' = FALSE /\ UNCHANGED <<deployed, hotkeys>>
  <2>1. TypeOK'
    BY <1>1, <1>2, <1>3, <1>6 DEF TypeOK
  <2> QED
    BY <1>1, <1>4, <1>6, <2>1 DEF IInv
<1> QED
  BY <1>5, <1>6 DEF Deploy

LEMMA NextInvariant == IInv /\ [Next]_vars => IInv'
<1> SUFFICES ASSUME IInv, [Next]_vars
             PROVE  IInv'
  OBVIOUS
<1> DEFINE noremaps == registered_noremap
           maps     == registered_map
<1>1. Tables(noremaps, maps)
  BY DEF IInv
<1>2. ASSUME NEW t \in Triggers, NEW g \in Targets, AddMap([trigger |-> t, target |-> g])
      PROVE  IInv'
  <2> DEFINE m == [trigger |-> t, target |-> g]
  <2>1. m \in Map
    BY MappedIsMap
  <2>2. noremaps' = RemoveTriggered(noremaps, m.trigger) /\ maps' = Put(maps, m) /\ Edit
    BY <1>2 DEF AddMap
  <2> HIDE DEF m
  <2>3. Tables(noremaps', maps')
    BY <1>1, <2>1, <2>2, MapReplacesNoremap
  <2> QED
    BY <2>2, <2>3, EditInvariant
<1>3. ASSUME NEW t \in Triggers, NEW g \in Targets, AddNoremap([trigger |-> t, target |-> g])
      PROVE  IInv'
  <2> DEFINE m == [trigger |-> t, target |-> g]
  <2>1. m \in Map
    BY MappedIsMap
  <2>2. maps' = RemoveTriggered(maps, m.trigger) /\ noremaps' = Put(noremaps, m) /\ Edit
    BY <1>3 DEF AddNoremap
  <2> HIDE DEF m
  <2>3. Tables(noremaps', maps')
    BY <1>1, <2>1, <2>2, MapReplacesNoremap
  <2> QED
    BY <2>2, <2>3, EditInvariant
<1>4. ASSUME NEW m \in Commands, DefineCommand(m)
      PROVE  IInv'
  <2> DEFINE args == [m EXCEPT !.trigger = WithArguments(@)]
             n1 == Put(noremaps, m)
             m1 == RemoveTriggered(maps, m.trigger)
  <2>1. m \in Map /\ args \in Map
    BY CommandIsMap
  <2>2. maps' = RemoveTriggered(m1, args.trigger) /\ noremaps' = Put(n1, args) /\ Edit
    BY <1>4 DEF DefineCommand
  <2>3. Tables(n1, m1)
    BY <1>1, <2>1, MapReplacesNoremap
  <2> HIDE DEF args, n1, m1
  <2>4. Tables(noremaps', maps')
    BY <2>1, <2>2, <2>3, MapReplacesNoremap
  <2> QED
    BY <2>2, <2>4, EditInvariant
<1>5. ASSUME NEW trigger, RemoveMap(trigger)
      PROVE  IInv'
  <2>1. /\ maps' = RemoveTriggered(maps, trigger)
        /\ noremaps' = noremaps \/ noremaps' = RemoveTriggered(noremaps, trigger)
        /\ Edit
    BY <1>5 DEF RemoveMap
  <2>2. Tables(noremaps', maps')
    BY <1>1, <2>1, RemovedFromTables
  <2> QED
    BY <2>1, <2>2, EditInvariant
<1>6. ASSUME Clear
      PROVE  IInv'
  BY <1>6, NoTables, EditInvariant DEF Clear
<1>7. ASSUME Deploy
      PROVE  IInv'
  BY <1>7, DeployInvariant
<1>8. ASSUME UNCHANGED vars
      PROVE  IInv'
  BY <1>8 DEF vars, IInv, TypeOK
<1> QED
  BY <1>2, <1>3, <1>4, <1>5, <1>6, <1>7, <1>8 DEF Next

LEMMA Invariant == Spec => []IInv
<1>1. Init => IInv
  BY InitInvariant
<1>2. IInv /\ [Next]_vars => IInv'
  BY NextInvariant
<1> QED
  BY <1>1, <1>2, PTL DEF Spec

(* A trigger has one meaning in every table of the registry and among the  *)
(* hotkeys, and no map without a target is deployed, whatever is mapped,   *)
(* defined, removed and deployed in which order.                           *)
THEOREM OneMeaningAlways == Spec => []TablesAgree
<1>1. IInv => TablesAgree
  BY InvariantImplies
<1> QED
  BY <1>1, Invariant, PTL

-----------------------------------------------------------------------------
(* A noremap is expanded with the defaults alone.                          *)

Triggered(s, trigger) == {x \in Range(s) : x.trigger = trigger}

(* What is deployed for the trigger of a noremap depends on the noremap    *)
(* and the default table, and on no other map of the user.                 *)
Alone(n, table) ==
  {x \in {Solved(n, table, FALSE)} : Yields(n, table, FALSE)}

LEMMA NoremapIsSolved ==
  ASSUME NEW table, IsDefault(table), NEW noremaps, NEW maps, Tables(noremaps, maps),
         NEW n \in Listed(noremaps)
  PROVE  Triggered(SolvedMaps(table, noremaps, maps), n.trigger) = Alone(n, table)
<1> DEFINE solved == SolvedNoremaps(table, noremaps)
           all    == SolvedMaps(table, noremaps, maps)
           refs   == MapTable(table, noremaps, maps)
           s      == Solved(n, table, FALSE)
<1>1. /\ noremaps \in Seq(Map) /\ DistinctTriggers(noremaps)
      /\ \A y \in Listed(maps) : n.trigger # y.trigger
  BY DEF Tables
<1>2. \A x : x \in Listed(solved) <=> IsSolvedNoremap(x, table, noremaps)
  BY <1>1, SolvedNoremapsListed
<1>3. /\ \A x : x \in Listed(all) <=> IsSolvedInto(x, solved, maps, refs, TRUE)
      /\ Range(all) = Listed(all)
  BY SolvedMapsListed, RangeIsListed
<1>4. \A m, r, w : Solved(m, r, w).trigger = m.trigger
  BY DEF Solved
<1>5. \A x \in Listed(noremaps) : x.trigger = n.trigger => x = n
  BY <1>1 DEF DistinctTriggers, Listed
<1> HIDE DEF solved, all, refs
<1>6. ASSUME NEW x, x.trigger = n.trigger
      PROVE  x \in Listed(all) <=> x \in Listed(solved)
  <2>1. \A m \in Listed(maps) : m.trigger # x.trigger
    BY <1>1, <1>6
  <2>2. \A m \in Listed(maps) : x # Solved(m, refs, TRUE)
    BY <1>4, <2>1
  <2> QED
    BY <1>3, <2>1, <2>2 DEF IsSolvedInto
<1>7. ASSUME NEW x, x.trigger = n.trigger
      PROVE  x \in Listed(solved) <=> Yields(n, table, FALSE) /\ x = s
  <2>1. IsSolvedNoremap(x, table, noremaps) <=>
          \E m \in Listed(noremaps) : Yields(m, table, FALSE) /\ x = Solved(m, table, FALSE)
    BY <1>7 DEF IsSolvedNoremap
  <2>2. \A m \in Listed(noremaps) : x = Solved(m, table, FALSE) => m = n
    BY <1>4, <1>5, <1>7
  <2> QED
    BY <1>2, <2>1, <2>2
<1>8. s.trigger = n.trigger
  BY <1>4
<1> HIDE DEF s
<1>9. \A x : x \in Triggered(all, n.trigger) <=> Yields(n, table, FALSE) /\ x = s
  BY <1>3, <1>6, <1>7, <1>8 DEF Triggered
<1>10. Triggered(all, n.trigger) = {x \in {s} : Yields(n, table, FALSE)}
  BY <1>9
<1> QED
  BY <1>10 DEF all, s, Alone

LEMMA AloneIsTables ==
  ASSUME NEW n \in Map
  PROVE  Tables(<<n>>, <<>>) /\ n \in Listed(<<n>>)
<1>1. <<n>> \in Seq(Map) /\ Len(<<n>>) = 1 /\ <<n>>[1] = n
  OBVIOUS
<1>2. Listed(<<n>>) = {n} /\ DistinctTriggers(<<n>>)
  BY <1>1 DEF Listed, DistinctTriggers
<1> QED
  BY <1>1, <1>2, NothingListed DEF Tables

LEMMA NoremapsAreAlone == IInv => NoremapAlone
<1> SUFFICES ASSUME IInv, NEW i \in DOMAIN registered_noremap
             PROVE  LET n == registered_noremap[i]
                        TargetIn(solved) ==
                          {m.target : m \in {x \in Range(solved) : x.trigger = n.trigger}}
                    IN  TargetIn(SolvedMaps(default, registered_noremap, registered_map)) =
                          TargetIn(SolvedMaps(default, <<n>>, <<>>))
  BY DEF NoremapAlone
<1> DEFINE n   == registered_noremap[i]
           all == SolvedMaps(default, registered_noremap, registered_map)
           one == SolvedMaps(default, <<n>>, <<>>)
<1>1. Tables(registered_noremap, registered_map) /\ registered_noremap \in Seq(Map)
  BY DEF IInv, Tables
<1>2. n \in Map /\ n \in Listed(registered_noremap)
  BY <1>1 DEF Listed
<1>3. IsDefault(default)
  BY DefaultIsDefault
<1> HIDE DEF n
<1>4. Tables(<<n>>, <<>>) /\ n \in Listed(<<n>>)
  BY <1>2, AloneIsTables
<1>5. Triggered(all, n.trigger) = Alone(n, default)
  BY <1>1, <1>2, <1>3, NoremapIsSolved
<1>6. Triggered(one, n.trigger) = Alone(n, default)
  BY <1>3, <1>4, NoremapIsSolved
<1>7. Triggered(all, n.trigger) = Triggered(one, n.trigger)
  BY <1>5, <1>6, Zenon
<1>8. {m.target : m \in Triggered(all, n.trigger)} = {m.target : m \in Triggered(one, n.trigger)}
  BY <1>7, Zenon
<1> QED
  BY <1>8 DEF Triggered, n

(* A noremap means what it means on its own: the other maps of the user do *)
(* not show in what deploy() expands it to (docs/usage/index.md).          *)
THEOREM NoremapsAloneAlways == Spec => []NoremapAlone
<1>1. IInv => NoremapAlone
  BY NoremapsAreAlone
<1> QED
  BY <1>1, Invariant, PTL

-----------------------------------------------------------------------------
(* What a deploy() that returns does to the defaults.                      *)

LEMMA DeployReplaces ==
  ASSUME IInv, Deploy, alive' \/ DeployReturns(default, registered_noremap, registered_map)
  PROVE  LET all == SolvedMaps(default, registered_noremap, registered_map)
         IN  /\ Range(deployed') = {x \in Listed(all) : ~IsHotkey(x)}
             /\ hotkeys' = {x \in Listed(all) : IsHotkey(x)}
<1> DEFINE all == SolvedMaps(default, registered_noremap, registered_map)
<1>1. IsDefault(default) /\ Tables(registered_noremap, registered_map)
  BY DefaultIsDefault DEF IInv
<1>2. DeployTable
  BY DEF Deploy
<1>3. deployed' = Matched(all) /\ hotkeys' = Rewritten(all)
  BY <1>2 DEF DeployTable, Matched, Rewritten
<1>4. /\ Range(Matched(all)) = {x \in Listed(all) : ~IsHotkey(x)}
      /\ Rewritten(all) = {x \in Listed(all) : IsHotkey(x)}
  BY <1>1, DeployedListed
<1> QED
  BY <1>3, <1>4

LEMMA DefaultIsSolved ==
  ASSUME NEW table, IsDefault(table), NEW noremaps, NEW maps, Tables(noremaps, maps),
         NEW d \in Listed(table)
  PROVE  \/ d \in Listed(SolvedMaps(table, noremaps, maps))
         \/ \E n \in Listed(noremaps) : n.trigger = d.trigger
         \/ /\ \E m \in Listed(maps) : m.trigger = d.trigger
            /\ \E x \in Listed(SolvedMaps(table, noremaps, maps)) : x.trigger = d.trigger
<1> DEFINE solved == SolvedNoremaps(table, noremaps)
           all    == SolvedMaps(table, noremaps, maps)
           refs   == MapTable(table, noremaps, maps)
<1>1. noremaps \in Seq(Map) /\ DistinctTriggers(noremaps)
  BY DEF Tables
<1>2. \A x : x \in Listed(solved) <=> IsSolvedNoremap(x, table, noremaps)
  BY <1>1, SolvedNoremapsListed
<1>3. \A x : x \in Listed(all) <=> IsSolvedInto(x, solved, maps, refs, TRUE)
  BY SolvedMapsListed
<1>4. \A m : Solved(m, refs, TRUE).trigger = m.trigger
  BY DEF Solved
<1> HIDE DEF solved, all, refs
<1>5. CASE \E m \in Listed(maps) : Yields(m, refs, TRUE) /\ m.trigger = d.trigger
  <2>1. PICK m \in Listed(maps) : Yields(m, refs, TRUE) /\ m.trigger = d.trigger
    BY <1>5
  <2>2. Solved(m, refs, TRUE) \in Listed(all)
    BY <1>3, <2>1 DEF IsSolvedInto
  <2> QED
    BY <1>4, <2>1, <2>2 DEF all
<1>6. CASE /\ \A n \in Listed(noremaps) : n.trigger # d.trigger
           /\ \A m \in Listed(maps) : Yields(m, refs, TRUE) => m.trigger # d.trigger
  <2>1. d \in Listed(solved)
    BY <1>2, <1>6 DEF IsSolvedNoremap
  <2>2. d \in Listed(all)
    BY <1>3, <1>6, <2>1 DEF IsSolvedInto
  <2> QED
    BY <2>2 DEF all
<1> QED
  BY <1>5, <1>6

LEMMA DeploySurvived ==
  ASSUME IInv, Deploy, alive', NEW i \in DOMAIN default
  PROVE  LET d == default[i]
         IN  \/ d \in Range(deployed')
             \/ d.trigger \in {m.trigger : m \in Range(registered_noremap)}
             \/ /\ d.trigger \in {m.trigger : m \in Range(registered_map)}
                /\ d.trigger \in {m.trigger : m \in Range(deployed') \cup hotkeys'}
<1> DEFINE d   == default[i]
           all == SolvedMaps(default, registered_noremap, registered_map)
<1>1. /\ IsDefault(default)
      /\ Tables(registered_noremap, registered_map)
      /\ registered_noremap \in Seq(Map) /\ registered_map \in Seq(Map)
  BY DefaultIsDefault DEF IInv, Tables
<1>2. /\ Range(deployed') = {x \in Listed(all) : ~IsHotkey(x)}
      /\ hotkeys' = {x \in Listed(all) : IsHotkey(x)}
  BY DeployReplaces
<1>3. d \in Listed(default) /\ ~IsHotkey(d)
  <2>1. default \in Seq(Map)
    BY <1>1 DEF IsDefault
  <2>2. d \in Listed(default)
    BY <2>1 DEF Listed
  <2> QED
    BY <1>1, <2>2, DefaultTable
<1>4. /\ Range(registered_noremap) = Listed(registered_noremap)
      /\ Range(registered_map) = Listed(registered_map)
  BY <1>1, RangeIsListed
<1> HIDE DEF d, all
<1>5. \/ d \in Listed(all)
      \/ \E n \in Listed(registered_noremap) : n.trigger = d.trigger
      \/ /\ \E m \in Listed(registered_map) : m.trigger = d.trigger
         /\ \E x \in Listed(all) : x.trigger = d.trigger
  BY <1>1, <1>3, DefaultIsSolved DEF all
<1>6. Range(deployed') \cup hotkeys' = Listed(all)
  BY <1>2
<1>7. d \in Listed(all) => d \in Range(deployed')
  BY <1>2, <1>3
<1>8. \/ d \in Range(deployed')
      \/ d.trigger \in {m.trigger : m \in Range(registered_noremap)}
      \/ /\ d.trigger \in {m.trigger : m \in Range(registered_map)}
         /\ d.trigger \in {m.trigger : m \in Range(deployed') \cup hotkeys'}
  BY <1>4, <1>5, <1>6, <1>7
<1> QED
  BY <1>8 DEF d

(* No deploy() drops a default binding that nobody mapped, and a map that  *)
(* solves to nothing leaves the default of its trigger in place (deploy()).*)
THEOREM DefaultsSurviveAlways == Spec => DefaultsSurvive
<1> DEFINE Survives ==
      Deploy /\ alive' =>
        \A i \in DOMAIN default :
          LET d == default[i]
          IN  \/ d \in Range(deployed')
              \/ d.trigger \in {m.trigger : m \in Range(registered_noremap)}
              \/ /\ d.trigger \in {m.trigger : m \in Range(registered_map)}
                 /\ d.trigger \in {m.trigger : m \in Range(deployed') \cup hotkeys'}
<1>1. ASSUME IInv, [Next]_vars
      PROVE  [Survives]_vars
  BY <1>1, DeploySurvived
<1> HIDE DEF Survives
<1>2. Spec => [][Survives]_vars
  BY <1>1, Invariant, PTL DEF Spec
<1> QED
  BY <1>2 DEF DefaultsSurvive, Survives

LEMMA NothingMapped ==
  ASSUME NEW table, IsDefault(table)
  PROVE  Listed(SolvedMaps(table, <<>>, <<>>)) = Listed(table)
<1> DEFINE solved == SolvedNoremaps(table, <<>>)
           all    == SolvedMaps(table, <<>>, <<>>)
           refs   == MapTable(table, <<>>, <<>>)
<1>1. <<>> \in Seq(Map) /\ DistinctTriggers(<<>>) /\ Listed(<<>>) = {}
  BY NothingListed
<1>2. \A x : x \in Listed(solved) <=> IsSolvedNoremap(x, table, <<>>)
  BY <1>1, SolvedNoremapsListed
<1>3. \A x : x \in Listed(all) <=> IsSolvedInto(x, solved, <<>>, refs, TRUE)
  BY NoTables, SolvedMapsListed
<1> HIDE DEF solved, all, refs
<1>4. \A x : x \in Listed(solved) <=> x \in Listed(table)
  BY <1>1, <1>2 DEF IsSolvedNoremap
<1>5. \A x : x \in Listed(all) <=> x \in Listed(solved)
  BY <1>1, <1>3 DEF IsSolvedInto
<1>6. Listed(all) = Listed(table)
  BY <1>4, <1>5
<1> QED
  BY <1>6 DEF all

LEMMA NothingLeft ==
  ASSUME IInv, Deploy, UserMaps = <<>>
  PROVE  Range(deployed') = Range(default) /\ hotkeys' = {}
<1>1. registered_noremap \in Seq(Map) /\ registered_map \in Seq(Map)
  BY DEF IInv, Tables
<1>2. registered_noremap = <<>> /\ registered_map = <<>>
  <2>1. Len(UserMaps) = Len(registered_noremap) + Len(registered_map)
    BY <1>1 DEF UserMaps
  <2>2. Len(registered_noremap) = 0 /\ Len(registered_map) = 0
    BY <1>1, <2>1, LenProperties
  <2> QED
    BY <1>1, <2>2, EmptySeq
<1>3. DeployReturns(default, registered_noremap, registered_map)
  BY <1>2 DEF DeployReturns
<1>4. LET all == SolvedMaps(default, registered_noremap, registered_map)
      IN  /\ Range(deployed') = {x \in Listed(all) : ~IsHotkey(x)}
          /\ hotkeys' = {x \in Listed(all) : IsHotkey(x)}
  BY <1>3, DeployReplaces
<1>5. IsDefault(default)
  BY DefaultIsDefault
<1>6. Listed(SolvedMaps(default, registered_noremap, registered_map)) = Listed(default)
  BY <1>2, <1>5, NothingMapped
<1>7. \A d \in Listed(default) : ~IsHotkey(d)
  BY <1>5, DefaultTable
<1>8. default \in Seq(Map)
  BY <1>5 DEF IsDefault
<1>9. Range(default) = Listed(default)
  BY <1>8, RangeIsListed
<1> QED
  BY <1>4, <1>6, <1>7, <1>9

(* Once the user has no maps, deploy() brings back the default bindings    *)
(* and leaves the hook nothing to rewrite, whatever was mapped before.     *)
THEOREM NoTraceOfRemovedAlways == Spec => NoTraceOfRemoved
<1> DEFINE Forgets ==
      Deploy /\ UserMaps = <<>> =>
        /\ Range(deployed') = Range(default)
        /\ hotkeys' = {}
<1>1. ASSUME IInv, [Next]_vars
      PROVE  [Forgets]_vars
  BY <1>1, NothingLeft
<1> HIDE DEF Forgets
<1>2. Spec => [][Forgets]_vars
  BY <1>1, Invariant, PTL DEF Spec
<1> QED
  BY <1>2 DEF NoTraceOfRemoved, Forgets

-----------------------------------------------------------------------------
(* What a solver of the hub does with a unit: one call of                  *)
(* map_command_from(), in step with the line.                              *)

Spelled(maps, w) == {i \in 1..Len(maps) : Spells(maps[i].trigger, w, Len(w))}

(* The stacks, the line, and the map that is matched.                      *)
LEMMA CallInStep ==
  ASSUME NEW maps, IsTable(maps), NEW ss, NEW w \in Seq(Units), NEW u \in Units,
         AllRemember(maps, ss, w), ~SolverDiverges(maps, ss, u),
         NEW hub, hub.stacks = ss, hub.line = w
  PROVE  LET r == MapCommandFrom(maps, ss, u, TRUE)
             l == LineAfter(maps, hub, u)
         IN  /\ AllRemember(maps, r.stacks, l)
             /\ l \in Seq(Units)
             /\ r.fired \in 0..Len(maps)
             /\ r.fired # 0 =>
                  /\ u # {}
                  /\ r.fired \in Spelled(maps, Append(w, u))
                  /\ \A i \in Spelled(maps, Append(w, u)) : r.fired <= i
<1> DEFINE N    == Len(maps)
           w2   == Append(w, u)
           up   == Updated(maps, ss, u)
           r    == MapCommandFrom(maps, ss, u, TRUE)
           l    == LineAfter(maps, hub, u)
           dead == AllRejected(up)
           new  == Fresh(maps)
           old  == [i \in 1..N |-> Backward(up[i], 1)]
           ch   == Chosen(up, u)
           quiet == IsSystemOnly(u)
           Good == /\ AllRemember(maps, r.stacks, l)
                   /\ l \in Seq(Units)
                   /\ r.fired \in 0..N
                   /\ r.fired # 0 =>
                        /\ u # {}
                        /\ r.fired \in Spelled(maps, w2)
                        /\ \A i \in Spelled(maps, w2) : r.fired <= i
<1> SUFFICES Good
  OBVIOUS
<1>1. N \in Nat /\ w2 \in Seq(Units) /\ <<>> \in Seq(Units)
  BY DEF IsTable
<1>2. AllRemember(maps, up, w2)
  BY UpdatedRemembers
<1>3. AllRemember(maps, new, <<>>)
  BY FreshRemembers
<1>4. old = ss
  BY UnwoundIsOld
<1>5. l = IF dead /\ quiet THEN w ELSE IF dead \/ r.fired # 0 THEN <<>> ELSE w2
  BY DEF LineAfter
<1>6. r = CASE dead /\ quiet -> [stacks |-> old, fired |-> 0]
            [] dead /\ ~quiet -> [stacks |-> new, fired |-> 0]
            [] ~dead /\ ch = 0 -> [stacks |-> up, fired |-> 0]
            [] ~dead /\ ch # 0 -> [stacks |-> new, fired |-> ch]
  BY DEF MapCommandFrom
<1> HIDE DEF up, w2, r, l, new, quiet, Good
<1>7. /\ DOMAIN up = 1..N
      /\ \A i \in 1..N : IsAccepted(up[i]) <=> i \in Spelled(maps, w2)
  BY <1>2, Verdicts DEF Spelled
<1>8. /\ ch \in 0..N
      /\ ch = 0 <=> (Spelled(maps, w2) = {} \/ u = {})
      /\ ch # 0 => ch \in Spelled(maps, w2) /\ \A j \in Spelled(maps, w2) : ch <= j
  <2> DEFINE accepted == {i \in 1..N : IsAccepted(up[i])}
  <2>1. accepted = Spelled(maps, w2)
    BY <1>7 DEF Spelled
  <2>2. /\ ch \in 0..N
        /\ ch = 0 <=> (accepted = {} \/ u = {})
        /\ ch # 0 => ch \in accepted /\ \A j \in accepted : ch <= j
    BY <1>1, <1>7, ChosenIsFirst
  <2> QED
    BY <2>1, <2>2
<1> HIDE DEF dead, old, ch
<1>9. CASE dead /\ quiet
  <2>1. r.stacks = ss /\ r.fired = 0 /\ l = w
    BY <1>4, <1>5, <1>6, <1>9
  <2>2. l \in Seq(Units) /\ AllRemember(maps, r.stacks, l)
    BY <2>1, Zenon
  <2> QED
    BY <1>1, <2>1, <2>2 DEF Good
<1>10. CASE dead /\ ~quiet
  <2>1. r.stacks = new /\ r.fired = 0 /\ l = <<>>
    BY <1>5, <1>6, <1>10
  <2>2. l \in Seq(Units) /\ AllRemember(maps, r.stacks, l)
    BY <1>1, <1>3, <2>1, Zenon
  <2> QED
    BY <1>1, <2>1, <2>2 DEF Good
<1>11. CASE ~dead /\ ch = 0
  <2>1. r.stacks = up /\ r.fired = 0 /\ l = w2
    BY <1>5, <1>6, <1>11
  <2>2. l \in Seq(Units) /\ AllRemember(maps, r.stacks, l)
    BY <1>1, <1>2, <2>1, Zenon
  <2> QED
    BY <1>1, <2>1, <2>2 DEF Good
<1>12. CASE ~dead /\ ch # 0
  <2>1. r.stacks = new /\ r.fired = ch /\ l = <<>>
    BY <1>5, <1>6, <1>12
  <2>2. l \in Seq(Units) /\ AllRemember(maps, r.stacks, l)
    BY <1>1, <1>3, <2>1, Zenon
  <2> QED
    BY <1>1, <1>8, <1>12, <2>1, <2>2 DEF Good
<1> QED
  BY <1>9, <1>10, <1>11, <1>12

Firings == [map : Map, input : Inputs, line : Seq(Units)]

(* The hub within a call, for a table: the matchers remember the line, and *)
(* what was expanded was spelled and is counted.                           *)
Hubs(maps) ==
  [stacks : StacksOf(maps), line : Seq(Units), out : Seq(Inputs),
   fired : Seq(Firings), returns : BOOLEAN]

SpelledAll(maps, firings) ==
  \A i \in 1..Len(firings) : IsSpelled(maps, firings[i].map, firings[i].line)

Balanced(out, firings) ==
  \A f \in Functions : Pending(f, out) = Promised(f, firings)

HubOK(maps, hub) ==
  /\ hub \in Hubs(maps)
  /\ AllRemember(maps, hub.stacks, hub.line)
  /\ SpelledAll(maps, hub.fired)
  /\ Balanced(hub.out, hub.fired)

LEMMA HubFields ==
  ASSUME NEW maps, NEW hub \in Hubs(maps)
  PROVE  /\ hub.stacks \in StacksOf(maps) /\ hub.line \in Seq(Units)
         /\ hub.out \in Seq(Inputs) /\ hub.fired \in Seq(Firings)
         /\ hub.returns \in BOOLEAN
  BY Zenon DEF Hubs

LEMMA RememberedStacks ==
  ASSUME NEW maps, NEW ss, NEW w, AllRemember(maps, ss, w)
  PROVE  ss \in StacksOf(maps)
<1>1. \A i \in 1..Len(maps) : ss[i] \in Seq(Entry)
  BY DEF AllRemember, Remembers
<1> QED
  BY <1>1 DEF AllRemember, StacksOf

SameQueue(h, hub) == h.out = hub.out /\ h.fired = hub.fired
SameSolver(h, hub) == h.stacks = hub.stacks /\ h.line = hub.line

LEMMA HubReturns ==
  ASSUME NEW maps, NEW hub \in Hubs(maps), NEW x \in BOOLEAN
  PROVE  LET h == [hub EXCEPT !.returns = x]
         IN  h \in Hubs(maps) /\ SameQueue(h, hub) /\ SameSolver(h, hub)
  BY DEF Hubs, SameQueue, SameSolver

LEMMA HubSolver ==
  ASSUME NEW maps, NEW hub \in Hubs(maps), NEW x \in StacksOf(maps), NEW y \in Seq(Units)
  PROVE  LET h == [hub EXCEPT !.stacks = x, !.line = y]
         IN  h \in Hubs(maps) /\ SameQueue(h, hub) /\ h.stacks = x /\ h.line = y
  BY DEF Hubs, SameQueue

LEMMA HubQueue ==
  ASSUME NEW maps, NEW hub \in Hubs(maps), NEW x \in Seq(Inputs), NEW y \in Seq(Firings)
  PROVE  LET h == [hub EXCEPT !.out = x, !.fired = y]
         IN  h \in Hubs(maps) /\ SameSolver(h, hub) /\ h.out = x /\ h.fired = y
  BY DEF Hubs, SameSolver

(* A call of map_command_from() keeps the solver in step, and touches      *)
(* neither the queue nor the history of what was expanded.                 *)
LEMMA MapCommandKeeps ==
  ASSUME NEW maps, IsTable(maps), NEW hub, HubOK(maps, hub), NEW u \in Units
  PROVE  LET h == MapCommand(maps, hub, u)
         IN  /\ HubOK(maps, h)
             /\ h.out = hub.out /\ h.fired = hub.fired
<1> DEFINE r == MapCommandFrom(maps, hub.stacks, u, TRUE)
           l == LineAfter(maps, hub, u)
<1>1. hub \in Hubs(maps) /\ AllRemember(maps, hub.stacks, hub.line)
  BY DEF HubOK
<1>2. CASE SolverDiverges(maps, hub.stacks, u)
  <2>1. MapCommand(maps, hub, u) = [hub EXCEPT !.returns = FALSE]
    BY <1>2 DEF MapCommand
  <2> DEFINE h == [hub EXCEPT !.returns = FALSE]
  <2>2. h \in Hubs(maps) /\ SameQueue(h, hub) /\ SameSolver(h, hub)
    BY <1>1, HubReturns
  <2> HIDE DEF h
  <2>3. HubOK(maps, h)
    BY <2>2 DEF HubOK, SameQueue, SameSolver
  <2> QED
    BY <2>1, <2>2, <2>3 DEF SameQueue, h
<1>3. CASE ~SolverDiverges(maps, hub.stacks, u)
  <2>1. MapCommand(maps, hub, u) = [hub EXCEPT !.stacks = r.stacks, !.line = l]
    BY <1>3 DEF MapCommand
  <2>2. hub.line \in Seq(Units)
    BY <1>1, HubFields
  <2>3. AllRemember(maps, r.stacks, l) /\ l \in Seq(Units)
    BY <1>1, <1>3, <2>2, CallInStep
  <2> HIDE DEF r, l
  <2>4. r.stacks \in StacksOf(maps)
    BY <2>3, RememberedStacks
  <2> DEFINE st == r.stacks
             h == [hub EXCEPT !.stacks = st, !.line = l]
  <2>5. h \in Hubs(maps) /\ SameQueue(h, hub) /\ h.stacks = st /\ h.line = l
    <3> HIDE DEF st
    <3>1. st \in StacksOf(maps) /\ l \in Seq(Units)
      BY <2>3, <2>4 DEF st
    <3> QED
      BY <1>1, <3>1 DEF Hubs, SameQueue
  <2> HIDE DEF h
  <2>6. HubOK(maps, h)
    BY <2>3, <2>5 DEF HubOK, SameQueue
  <2> QED
    BY <2>1, <2>5, <2>6 DEF SameQueue, h
<1> QED
  BY <1>2, <1>3

(* The solver is moved on by a target.                                     *)
Fed(maps, hub) == {h \in Hubs(maps) : HubOK(maps, h) /\ SameQueue(h, hub)}

FeedStep(maps, h, e) == IF e.keys = {} THEN h ELSE MapCommand(maps, h, e.keys)

FeedFun(maps, hub, target, f) ==
  f = [n \in 0..Len(target) |->
         IF n = 0 THEN hub ELSE FeedStep(maps, f[n - 1], target[n])]

LEMMA TargetUnitFields ==
  ASSUME NEW e \in TargetUnit
  PROVE  /\ e.keys \in Units
         /\ e.does \in Functions => e.keys = {}
  BY FunctionsAssumption DEF TargetUnit, Units

LEMMA FeedStepKeeps ==
  ASSUME NEW maps, IsTable(maps), NEW hub, NEW h \in Fed(maps, hub), NEW e \in TargetUnit
  PROVE  FeedStep(maps, h, e) \in Fed(maps, hub)
<1>1. HubOK(maps, h) /\ SameQueue(h, hub)
  BY DEF Fed
<1> DEFINE u == e.keys
           k == MapCommand(maps, h, u)
<1>2. u \in Units
  BY TargetUnitFields
<1>3. HubOK(maps, k) /\ k.out = h.out /\ k.fired = h.fired
  <2> HIDE DEF u
  <2> QED
    BY <1>1, <1>2, MapCommandKeeps
<1>4. FeedStep(maps, h, e) = h \/ FeedStep(maps, h, e) = k
  BY DEF FeedStep
<1> HIDE DEF k
<1>5. k \in Fed(maps, hub)
  BY <1>1, <1>3 DEF Fed, HubOK, SameQueue
<1> QED
  BY <1>4, <1>5

(* The definition of FeedAll, as the value that is built up.               *)
LEMMA FeedAllBuilt ==
  ASSUME NEW maps, IsTable(maps), NEW hub, HubOK(maps, hub), NEW target \in Seq(TargetUnit)
  PROVE  \E f :
           /\ FeedAll(maps, hub, target) = f[Len(target)]
           /\ f[0] = hub
           /\ \A n \in 1..Len(target) : f[n] = FeedStep(maps, f[n - 1], target[n])
           /\ \A n \in 0..Len(target) : f[n] \in Fed(maps, hub)
<1> DEFINE N    == Len(target)
           S    == Fed(maps, hub)
           step == [n \in 1..N |-> [k \in S |-> FeedStep(maps, k, target[n])]]
           g    == CHOOSE f : FeedFun(maps, hub, target, f)
<1>1. N \in Nat /\ hub \in S
  BY DEF Fed, HubOK, SameQueue
<1>2. ASSUME NEW n \in 1..N, NEW k \in S
      PROVE  FeedStep(maps, k, target[n]) \in S
  <2>1. target[n] \in TargetUnit
    OBVIOUS
  <2> QED
    BY <2>1, FeedStepKeeps
<1>3. step \in [1..N -> [S -> S]]
  BY <1>2
<1>4. \A n \in 1..N : \A k \in S : step[n][k] = FeedStep(maps, k, target[n])
  OBVIOUS
<1> HIDE DEF step, S, N
<1>5. PICK f : Recursive(f, N, S, hub, step)
  BY <1>1, <1>3, RecursionUpTo
<1>6. FeedFun(maps, hub, target, f)
  <2>1. ASSUME NEW n \in 0..N
        PROVE  f[n] = IF n = 0 THEN hub ELSE FeedStep(maps, f[n - 1], target[n])
    <3>1. CASE n = 0
      BY <1>5, <3>1 DEF Recursive
    <3>2. CASE n # 0
      <4>1. n \in 1..N /\ n - 1 \in 0..N
        BY <1>1, <3>2
      <4> QED
        BY <1>4, <1>5, <3>2, <4>1 DEF Recursive
    <3> QED
      BY <3>1, <3>2
  <2> QED
    BY <1>5, <2>1 DEF FeedFun, N, Recursive
<1>7. FeedFun(maps, hub, target, g)
  BY <1>6
<1>8. FeedAll(maps, hub, target) = g[N]
  BY DEF FeedAll, FeedFun, FeedStep, N
<1> HIDE DEF g
<1>9. g[0] = hub /\ \A n \in 1..N : g[n] = FeedStep(maps, g[n - 1], target[n])
  BY <1>1, <1>7 DEF FeedFun, N
<1>10. Follows(g, N, S, hub, step)
  BY <1>4, <1>9 DEF Follows
<1>11. \A n \in 0..N : g[n] \in S
  BY <1>1, <1>3, <1>10, FollowsType
<1> QED
  BY <1>8, <1>9, <1>11 DEF N, S

LEMMA FeedAllKeeps ==
  ASSUME NEW maps, IsTable(maps), NEW hub, HubOK(maps, hub), NEW target \in Seq(TargetUnit)
  PROVE  HubOK(maps, FeedAll(maps, hub, target)) /\ SameQueue(FeedAll(maps, hub, target), hub)
<1>1. PICK f : /\ FeedAll(maps, hub, target) = f[Len(target)]
               /\ \A n \in 0..Len(target) : f[n] \in Fed(maps, hub)
  BY FeedAllBuilt
<1>2. Len(target) \in 0..Len(target)
  OBVIOUS
<1>3. FeedAll(maps, hub, target) \in Fed(maps, hub)
  BY <1>1, <1>2
<1> QED
  BY <1>3 DEF Fed

-----------------------------------------------------------------------------
(* Sums.                                                                   *)

TotalFun(numbers, f) ==
  f = [n \in 0..Len(numbers) |-> IF n = 0 THEN 0 ELSE f[n - 1] + numbers[n]]

(* The definition of Total, as the value that is built up.                 *)
LEMMA TotalBuilt ==
  ASSUME NEW numbers \in Seq(Nat)
  PROVE  \E f :
           /\ Total(numbers) = f[Len(numbers)]
           /\ f[0] = 0
           /\ \A n \in 1..Len(numbers) : f[n] = f[n - 1] + numbers[n]
           /\ \A n \in 0..Len(numbers) : f[n] \in Nat
<1> DEFINE N    == Len(numbers)
           S    == Nat
           step == [n \in 1..N |-> [k \in S |-> k + numbers[n]]]
           g    == CHOOSE f : TotalFun(numbers, f)
<1>1. N \in Nat /\ 0 \in S
  OBVIOUS
<1>2. ASSUME NEW n \in 1..N, NEW k \in S
      PROVE  k + numbers[n] \in S
  BY DEF N
<1>3. step \in [1..N -> [S -> S]]
  BY <1>2
<1>4. \A n \in 1..N : \A k \in S : step[n][k] = k + numbers[n]
  OBVIOUS
<1> HIDE DEF step, S, N
<1>5. PICK f : Recursive(f, N, S, 0, step)
  BY <1>1, <1>3, RecursionUpTo
<1>6. TotalFun(numbers, f)
  <2>1. ASSUME NEW n \in 0..N
        PROVE  f[n] = IF n = 0 THEN 0 ELSE f[n - 1] + numbers[n]
    <3>1. CASE n = 0
      BY <1>5, <3>1 DEF Recursive
    <3>2. CASE n # 0
      <4>1. n \in 1..N /\ n - 1 \in 0..N
        BY <1>1, <3>2
      <4> QED
        BY <1>4, <1>5, <3>2, <4>1 DEF Recursive
    <3> QED
      BY <3>1, <3>2
  <2> QED
    BY <1>5, <2>1 DEF TotalFun, N, Recursive
<1>7. TotalFun(numbers, g)
  BY <1>6
<1>8. Total(numbers) = g[N]
  BY DEF Total, TotalFun, N
<1> HIDE DEF g
<1>9. g[0] = 0 /\ \A n \in 1..N : g[n] = g[n - 1] + numbers[n]
  BY <1>1, <1>7 DEF TotalFun, N
<1>10. Follows(g, N, S, 0, step)
  BY <1>4, <1>9 DEF Follows
<1>11. \A n \in 0..N : g[n] \in S
  BY <1>1, <1>3, <1>10, FollowsType
<1> QED
  BY <1>8, <1>9, <1>11 DEF N, S

LEMMA TotalType ==
  ASSUME NEW numbers \in Seq(Nat)
  PROVE  Total(numbers) \in Nat
<1>1. PICK f : /\ Total(numbers) = f[Len(numbers)]
               /\ \A n \in 0..Len(numbers) : f[n] \in Nat
  BY TotalBuilt
<1>2. Len(numbers) \in 0..Len(numbers)
  OBVIOUS
<1> QED
  BY <1>1, <1>2

LEMMA TotalOfNothing == Total(<<>>) = 0
<1>1. <<>> \in Seq(Nat) /\ Len(<<>>) = 0
  OBVIOUS
<1>2. PICK f : Total(<<>>) = f[Len(<<>>)] /\ f[0] = 0
  BY <1>1, TotalBuilt
<1> QED
  BY <1>1, <1>2

LEMMA TotalOfAppend ==
  ASSUME NEW numbers \in Seq(Nat), NEW x \in Nat
  PROVE  Total(Append(numbers, x)) = Total(numbers) + x
<1> DEFINE N == Len(numbers)
           more == Append(numbers, x)
           step == [n \in 1..N |-> [k \in Nat |-> k + numbers[n]]]
<1>1. /\ N \in Nat /\ more \in Seq(Nat) /\ Len(more) = N + 1 /\ more[N + 1] = x
      /\ \A n \in 1..N : more[n] = numbers[n] /\ numbers[n] \in Nat
  OBVIOUS
<1>2. step \in [1..N -> [Nat -> Nat]]
  BY <1>1
<1>3. \A n \in 1..N : \A k \in Nat : step[n][k] = k + numbers[n]
  OBVIOUS
<1> HIDE DEF more, step
<1>4. PICK f : /\ Total(numbers) = f[N]
               /\ f[0] = 0
               /\ \A n \in 1..N : f[n] = f[n - 1] + numbers[n]
               /\ \A n \in 0..N : f[n] \in Nat
  BY TotalBuilt
<1>5. PICK g : /\ Total(more) = g[Len(more)]
               /\ g[0] = 0
               /\ \A n \in 1..Len(more) : g[n] = g[n - 1] + more[n]
               /\ \A n \in 0..Len(more) : g[n] \in Nat
  BY <1>1, TotalBuilt
<1> HIDE DEF N
<1>6. \A n \in 1..N : n \in 1..(N + 1) /\ n - 1 \in 0..N
  BY <1>1
<1>7. Follows(f, N, Nat, 0, step)
  BY <1>3, <1>4, <1>6 DEF Follows
<1>8. Follows(g, N, Nat, 0, step)
  <2>1. ASSUME NEW n \in 1..N, g[n - 1] \in Nat
        PROVE  g[n] = step[n][g[n - 1]]
    <3>1. g[n] = g[n - 1] + more[n] /\ more[n] = numbers[n]
      BY <1>1, <1>5, <1>6
    <3>2. step[n][g[n - 1]] = g[n - 1] + numbers[n]
      BY <1>3, <2>1
    <3> QED
      BY <3>1, <3>2
  <2> QED
    BY <1>5, <2>1 DEF Follows
<1>9. \A n \in 0..N : f[n] = g[n]
  <2> DEFINE S == Nat
             z == 0
  <2>1. z \in S /\ step \in [1..N -> [S -> S]]
    BY <1>2
  <2>2. Follows(f, N, S, z, step) /\ Follows(g, N, S, z, step)
    BY <1>7, <1>8
  <2>3. N \in Nat
    BY <1>1
  <2> HIDE DEF S, z
  <2>4. \A n \in 0..N : f[n] = g[n]
    BY <2>1, <2>2, <2>3, FollowsUnique
  <2> QED
    BY <2>4
<1>10. N \in 0..N /\ N + 1 \in 1..(N + 1) /\ N + 1 - 1 = N
  BY <1>1
<1>11. g[N + 1] = g[N] + x
  BY <1>1, <1>5, <1>10
<1> QED
  BY <1>1, <1>4, <1>5, <1>9, <1>10, <1>11 DEF more

LEMMA TotalOfOne ==
  ASSUME NEW x \in Nat
  PROVE  Total(<<x>>) = x
<1> DEFINE s == <<>>
<1>1. s \in Seq(Nat) /\ Append(s, x) = <<x>>
  OBVIOUS
<1>2. Total(s) = 0
  BY TotalOfNothing
<1> HIDE DEF s
<1>3. Total(Append(s, x)) = Total(s) + x
  BY <1>1, TotalOfAppend
<1> QED
  BY <1>1, <1>2, <1>3

LEMMA TotalOfBoth ==
  ASSUME NEW s \in Seq(Nat), NEW t \in Seq(Nat)
  PROVE  Total(s \o t) = Total(s) + Total(t)
<1> DEFINE N == Len(t)
           P == {n \in 0..N : Total(s \o Beginning(t, n)) = Total(s) + Total(Beginning(t, n))}
<1>1. /\ N \in Nat
      /\ Beginning(t, 0) = <<>> /\ Beginning(t, N) = t
      /\ \A n \in 0..(N - 1) :
           /\ Beginning(t, n) \in Seq(Nat)
           /\ t[n + 1] \in Nat
           /\ Beginning(t, n + 1) = Append(Beginning(t, n), t[n + 1])
  <2> DEFINE S == Nat
  <2>1. t \in Seq(S)
    OBVIOUS
  <2> HIDE DEF S
  <2>2. /\ Beginning(t, 0) = <<>> /\ Beginning(t, Len(t)) = t
        /\ \A n \in 0..(Len(t) - 1) :
             /\ Beginning(t, n) \in Seq(S)
             /\ t[n + 1] \in S
             /\ Beginning(t, n + 1) = Append(Beginning(t, n), t[n + 1])
    BY <2>1, BuiltByAppending
  <2> QED
    BY <2>2 DEF S
<1>2. 0 \in P
  <2>1. s \o <<>> = s
    OBVIOUS
  <2>2. Total(s) \in Nat
    BY TotalType
  <2>3. Total(s \o Beginning(t, 0)) = Total(s)
    BY <1>1, <2>1, Zenon
  <2>4. Total(Beginning(t, 0)) = 0
    BY <1>1, TotalOfNothing, Zenon
  <2>5. 0 \in 0..N
    BY <1>1
  <2> QED
    BY <2>2, <2>3, <2>4, <2>5
<1>3. ASSUME NEW n \in 0..(N - 1), n \in P
      PROVE  n + 1 \in P
  <2> DEFINE b == Beginning(t, n)
             x == t[n + 1]
  <2>1. b \in Seq(Nat) /\ x \in Nat /\ Beginning(t, n + 1) = Append(b, x)
    BY <1>1
  <2>2. Total(s \o b) = Total(s) + Total(b)
    BY <1>3
  <2> HIDE DEF b, x
  <2>3. s \o b \in Seq(Nat) /\ s \o Append(b, x) = Append(s \o b, x)
    <3> DEFINE S == Nat
    <3>1. s \in Seq(S) /\ b \in Seq(S) /\ x \in S
      BY <2>1
    <3> HIDE DEF S
    <3>2. s \o b \in Seq(S) /\ s \o Append(b, x) = Append(s \o b, x)
      BY <3>1
    <3> QED
      BY <3>2 DEF S
  <2>4. Total(s) \in Nat /\ Total(b) \in Nat
    BY <2>1, TotalType
  <2>5. Total(Append(s \o b, x)) = Total(s \o b) + x
    BY <2>1, <2>3, TotalOfAppend
  <2>6. Total(Append(b, x)) = Total(b) + x
    BY <2>1, TotalOfAppend
  <2>7. Total(s \o Beginning(t, n + 1)) = Total(s) + Total(Beginning(t, n + 1))
    <3>1. Total(s \o Beginning(t, n + 1)) = Total(s \o b) + x
      BY <2>1, <2>3, <2>5, Zenon
    <3>2. Total(Beginning(t, n + 1)) = Total(b) + x
      BY <2>1, <2>6, Zenon
    <3> QED
      BY <2>1, <2>2, <2>4, <3>1, <3>2
  <2>8. n + 1 \in 0..N
    BY <1>1
  <2> QED
    BY <2>7, <2>8
<1>4. \A n \in 0..(N - 1) : n \in P => n + 1 \in P
  BY <1>3
<1> HIDE DEF P
<1>5. \A n \in 0..N : n \in P
  BY <1>1, <1>2, <1>4, InductionUpTo, Zenon
<1>6. N \in P
  BY <1>1, <1>5
<1> QED
  BY <1>1, <1>6 DEF P

-----------------------------------------------------------------------------
(* What is to be executed.                                                 *)

Weights(f, queue) ==
  [i \in 1..Len(queue) |-> IF queue[i].unit.does = f THEN queue[i].count ELSE 0]
Marks(f, target) ==
  [i \in 1..Len(target) |-> IF target[i].does = f THEN 1 ELSE 0]
Promises(f, firings) ==
  [i \in 1..Len(firings) |->
     firings[i].input.count * Occurrences(f, firings[i].map.target)]

LEMMA InputFields ==
  ASSUME NEW e \in Inputs
  PROVE  /\ e.unit \in TargetUnit /\ e.unit.keys \in Units
         /\ e.count \in Nat /\ e.count \in 0..(CountRange - 1)
<1>1. e.unit \in TargetUnit /\ e.count \in 0..(CountRange - 1)
  BY DEF Inputs
<1>2. CountRange \in Nat
  BY HubAssumption
<1> QED
  BY <1>1, <1>2, TargetUnitFields

LEMMA IsInput ==
  ASSUME NEW unit \in TargetUnit, NEW n \in 0..(CountRange - 1)
  PROVE  /\ Input(unit, n) \in Inputs
         /\ Input(unit, n).unit = unit /\ Input(unit, n).count = n
  BY DEF Input, Inputs

LEMMA OneIsCount == 1 \in 0..(CountRange - 1)
  BY HubAssumption

(* What a function makes of each element.                                  *)
Image(g, s) == [i \in 1..Len(s) |-> g[s[i]]]

LEMMA ImageType ==
  ASSUME NEW g, NEW T, NEW s \in Seq(T), NEW R, \A x \in T : g[x] \in R
  PROVE  /\ Image(g, s) \in Seq(R) /\ Len(Image(g, s)) = Len(s)
         /\ \A i \in 1..Len(s) : Image(g, s)[i] = g[s[i]]
<1>1. Len(s) \in Nat /\ \A i \in 1..Len(s) : g[s[i]] \in R
  OBVIOUS
<1> QED
  BY <1>1 DEF Image

LEMMA ImageOfBoth ==
  ASSUME NEW g, NEW T, NEW a \in Seq(T), NEW b \in Seq(T)
  PROVE  Image(g, a \o b) = Image(g, a) \o Image(g, b)
<1> DEFINE R == {g[e] : e \in T}
           both == a \o b
           x == Image(g, a)
           y == Image(g, b)
           z == Image(g, both)
<1>1. /\ both \in Seq(T) /\ Len(both) = Len(a) + Len(b)
      /\ \A i \in 1..Len(both) :
           both[i] = IF i <= Len(a) THEN a[i] ELSE b[i - Len(a)]
      /\ Len(a) \in Nat /\ Len(b) \in Nat
  BY ConcatProperties
<1>0. \A e \in T : g[e] \in R
  OBVIOUS
<1> HIDE DEF R, both, x, y, z
<1>2. /\ x \in Seq(R) /\ Len(x) = Len(a)
      /\ y \in Seq(R) /\ Len(y) = Len(b)
      /\ z \in Seq(R) /\ Len(z) = Len(both)
  BY <1>0, <1>1, ImageType DEF x, y, z
<1>3. /\ \A i \in 1..Len(a) : x[i] = g[a[i]]
      /\ \A i \in 1..Len(b) : y[i] = g[b[i]]
      /\ \A i \in 1..Len(both) : z[i] = g[both[i]]
  BY DEF x, y, z, Image
<1>4. /\ x \o y \in Seq(R) /\ Len(x \o y) = Len(a) + Len(b)
      /\ \A i \in 1..(Len(a) + Len(b)) :
           (x \o y)[i] = IF i <= Len(a) THEN x[i] ELSE y[i - Len(a)]
  <2>1. /\ x \o y \in Seq(R) /\ Len(x \o y) = Len(x) + Len(y)
        /\ \A i \in 1..(Len(x) + Len(y)) :
             (x \o y)[i] = IF i <= Len(x) THEN x[i] ELSE y[i - Len(x)]
    <3>1. x \in Seq(R) /\ y \in Seq(R)
      BY <1>2
    <3> QED
      BY <3>1, ConcatProperties
  <2> QED
    BY <1>2, <2>1
<1>5. ASSUME NEW i \in 1..Len(both)
      PROVE  z[i] = (x \o y)[i]
  <2> HIDE DEF Image
  <2>0. /\ i \in 1..(Len(a) + Len(b)) /\ i \in 1..Len(both)
        /\ z[i] = g[both[i]]
    BY <1>1, <1>3
  <2>1. CASE i <= Len(a)
    <3>1. i \in 1..Len(a)
      BY <1>1, <2>1, <2>0
    <3>2. both[i] = a[i] /\ (x \o y)[i] = x[i]
      BY <1>1, <1>4, <2>1, <2>0
    <3> QED
      BY <1>3, <2>0, <3>1, <3>2
  <2>2. CASE ~(i <= Len(a))
    <3>1. i - Len(a) \in 1..Len(b)
      BY <1>1, <2>2, <2>0
    <3>2. both[i] = b[i - Len(a)] /\ (x \o y)[i] = y[i - Len(a)]
      BY <1>1, <1>4, <2>2, <2>0
    <3> QED
      BY <1>3, <2>0, <3>1, <3>2
  <2> QED
    BY <2>1, <2>2
<1>6. z = x \o y
  BY <1>1, <1>2, <1>4, <1>5, SeqEqual
<1> QED
  BY <1>6 DEF x, y, z, both

LEMMA ImageOfAppend ==
  ASSUME NEW g, NEW T, NEW s \in Seq(T), NEW e \in T
  PROVE  Image(g, Append(s, e)) = Append(Image(g, s), g[e])
<1>1. <<e>> \in Seq(T) /\ Append(s, e) = s \o <<e>>
  OBVIOUS
<1>2. Image(g, <<e>>) = <<g[e]>>
  BY DEF Image
<1>3. Image(g, s) \in Seq({g[x] : x \in T}) /\ g[e] \in {g[x] : x \in T}
  <2> DEFINE R == {g[x] : x \in T}
  <2>1. \A x \in T : g[x] \in R
    OBVIOUS
  <2> HIDE DEF R
  <2>2. Image(g, s) \in Seq(R) /\ g[e] \in R
    BY <2>1, ImageType
  <2> QED
    BY <2>2 DEF R
<1>4. Image(g, s \o <<e>>) = Image(g, s) \o Image(g, <<e>>)
  BY <1>1, ImageOfBoth
<1>5. Image(g, s) \o <<g[e]>> = Append(Image(g, s), g[e])
  BY <1>3
<1> QED
  BY <1>1, <1>2, <1>4, <1>5

LEMMA WeightsOfBoth ==
  ASSUME NEW f, NEW a \in Seq(Inputs), NEW b \in Seq(Inputs)
  PROVE  /\ Weights(f, a) \in Seq(Nat)
         /\ Weights(f, a \o b) = Weights(f, a) \o Weights(f, b)
<1> DEFINE w == [e \in Inputs |-> IF e.unit.does = f THEN e.count ELSE 0]
<1>1. w \in [Inputs -> Nat]
  BY InputFields
<1>2. \A s \in Seq(Inputs) : Weights(f, s) = Image(w, s)
  BY DEF Weights, Image
<1> HIDE DEF w
<1>3. a \o b \in Seq(Inputs)
  OBVIOUS
<1>4. Image(w, a) \in Seq(Nat)
  <2> DEFINE N == Nat
  <2>1. \A e \in Inputs : w[e] \in N
    BY <1>1
  <2> HIDE DEF N
  <2>2. Image(w, a) \in Seq(N)
    BY <2>1, ImageType
  <2> QED
    BY <2>2 DEF N
<1>5. Image(w, a \o b) = Image(w, a) \o Image(w, b)
  BY ImageOfBoth
<1> QED
  BY <1>2, <1>3, <1>4, <1>5

LEMMA PendingOfBoth ==
  ASSUME NEW f, NEW a \in Seq(Inputs), NEW b \in Seq(Inputs)
  PROVE  /\ Pending(f, a \o b) = Pending(f, a) + Pending(f, b)
         /\ Pending(f, a) \in Nat
<1>1. \A q : Pending(f, q) = Total(Weights(f, q))
  BY DEF Pending, Weights
<1>2. /\ Weights(f, a) \in Seq(Nat) /\ Weights(f, b) \in Seq(Nat)
      /\ Weights(f, a \o b) = Weights(f, a) \o Weights(f, b)
  BY WeightsOfBoth
<1> QED
  BY <1>1, <1>2, TotalOfBoth, TotalType

LEMMA NothingPending ==
  ASSUME NEW f
  PROVE  Pending(f, <<>>) = 0 /\ Promised(f, <<>>) = 0
<1>1. Weights(f, <<>>) = <<>> /\ Promises(f, <<>>) = <<>>
  BY DEF Weights, Promises
<1> QED
  BY <1>1, TotalOfNothing DEF Pending, Weights, Promised, Promises

LEMMA OccurrencesType ==
  ASSUME NEW f, NEW target \in Seq(TargetUnit)
  PROVE  Marks(f, target) \in Seq(Nat) /\ Occurrences(f, target) \in Nat
<1>1. Marks(f, target) \in Seq(Nat)
  BY DEF Marks
<1> QED
  BY <1>1, TotalType DEF Occurrences, Marks

LEMMA PromisesType ==
  ASSUME NEW f, NEW e \in Firings
  PROVE  e.input.count * Occurrences(f, e.map.target) \in Nat
<1>1. e.input \in Inputs /\ e.map \in Map
  BY DEF Firings
<1>2. e.input.count \in Nat /\ e.map.target \in Seq(TargetUnit)
  BY <1>1, InputFields, MapFields
<1>3. Occurrences(f, e.map.target) \in Nat
  BY <1>2, OccurrencesType
<1> QED
  BY <1>2, <1>3

LEMMA PromisedType ==
  ASSUME NEW f, NEW firings \in Seq(Firings)
  PROVE  Promised(f, firings) \in Nat
<1> DEFINE p == [x \in Firings |-> x.input.count * Occurrences(f, x.map.target)]
           N == Nat
<1>1. \A x \in Firings : p[x] \in N
  BY PromisesType
<1>2. Promises(f, firings) = Image(p, firings)
  BY DEF Promises, Image
<1> HIDE DEF p, N
<1>3. Image(p, firings) \in Seq(N)
  BY <1>1, ImageType
<1>4. Promises(f, firings) \in Seq(Nat)
  BY <1>2, <1>3 DEF N
<1> QED
  BY <1>4, TotalType DEF Promised, Promises

LEMMA PromisedOfAppend ==
  ASSUME NEW f, NEW firings \in Seq(Firings), NEW e \in Firings
  PROVE  /\ Promised(f, firings) \in Nat
         /\ Promised(f, Append(firings, e)) =
              Promised(f, firings) + e.input.count * Occurrences(f, e.map.target)
<1> DEFINE p == [x \in Firings |-> x.input.count * Occurrences(f, x.map.target)]
           N == Nat
<1>1. \A x \in Firings : p[x] \in N
  BY PromisesType
<1>2. \A s \in Seq(Firings) : Promises(f, s) = Image(p, s)
  BY DEF Promises, Image
<1>3. \A s : Promised(f, s) = Total(Promises(f, s))
  BY DEF Promised, Promises
<1>4. p[e] = e.input.count * Occurrences(f, e.map.target)
  OBVIOUS
<1> HIDE DEF p, N
<1>5. Append(firings, e) \in Seq(Firings)
  OBVIOUS
<1>6. Image(p, firings) \in Seq(N) /\ p[e] \in N
  BY <1>1, ImageType
<1>7. Image(p, Append(firings, e)) = Append(Image(p, firings), p[e])
  BY ImageOfAppend
<1>8. /\ Promised(f, firings) = Total(Image(p, firings))
      /\ Promised(f, Append(firings, e)) = Total(Append(Image(p, firings), p[e]))
  BY <1>2, <1>3, <1>5, <1>7
<1>9. Image(p, firings) \in Seq(Nat) /\ p[e] \in Nat
  BY <1>6 DEF N
<1> QED
  BY <1>4, <1>8, <1>9, TotalOfAppend, TotalType

(* A repetition                                                            *)
RepeatedFun(seq, c, f) ==
  f = [i \in 0..c |-> IF i = 0 THEN <<>> ELSE f[i - 1] \o seq]

(* The definition of Repeated, as the value that is built up.              *)
LEMMA RepeatedBuilt ==
  ASSUME NEW T, NEW seq \in Seq(T), NEW c \in Nat
  PROVE  \E f :
           /\ Repeated(seq, c) = f[c]
           /\ f[0] = <<>>
           /\ \A n \in 1..c : f[n] = f[n - 1] \o seq
           /\ \A n \in 0..c : f[n] \in Seq(T)
<1> DEFINE N    == c
           S    == Seq(T)
           step == [n \in 1..N |-> [k \in S |-> k \o seq]]
           g    == CHOOSE f : RepeatedFun(seq, c, f)
<1>1. N \in Nat /\ <<>> \in S
  OBVIOUS
<1>2. ASSUME NEW n \in 1..N, NEW k \in S
      PROVE  k \o seq \in S
  BY DEF S
<1>3. step \in [1..N -> [S -> S]]
  BY <1>2
<1>4. \A n \in 1..N : \A k \in S : step[n][k] = k \o seq
  OBVIOUS
<1> HIDE DEF step, S, N
<1>5. PICK f : Recursive(f, N, S, <<>>, step)
  BY <1>1, <1>3, RecursionUpTo
<1>6. RepeatedFun(seq, c, f)
  <2>1. ASSUME NEW n \in 0..N
        PROVE  f[n] = IF n = 0 THEN <<>> ELSE f[n - 1] \o seq
    <3>1. CASE n = 0
      BY <1>5, <3>1 DEF Recursive
    <3>2. CASE n # 0
      <4>1. n \in 1..N /\ n - 1 \in 0..N
        BY <1>1, <3>2
      <4> QED
        BY <1>4, <1>5, <3>2, <4>1 DEF Recursive
    <3> QED
      BY <3>1, <3>2
  <2> QED
    BY <1>5, <2>1 DEF RepeatedFun, N, Recursive
<1>7. RepeatedFun(seq, c, g)
  BY <1>6
<1>8. Repeated(seq, c) = g[N]
  BY DEF Repeated, RepeatedFun, N
<1> HIDE DEF g
<1>9. g[0] = <<>> /\ \A n \in 1..N : g[n] = g[n - 1] \o seq
  BY <1>1, <1>7 DEF RepeatedFun, N
<1>10. Follows(g, N, S, <<>>, step)
  BY <1>4, <1>9 DEF Follows
<1>11. \A n \in 0..N : g[n] \in S
  BY <1>1, <1>3, <1>10, FollowsType
<1> QED
  BY <1>8, <1>9, <1>11 DEF N, S

LEMMA RepeatedType ==
  ASSUME NEW T, NEW seq \in Seq(T), NEW c \in Nat
  PROVE  Repeated(seq, c) \in Seq(T)
<1>1. PICK r : /\ Repeated(seq, c) = r[c]
               /\ r[0] = <<>>
               /\ \A i \in 1..c : r[i] = r[i - 1] \o seq
               /\ \A i \in 0..c : r[i] \in Seq(T)
  BY RepeatedBuilt, Zenon
<1>2. c \in 0..c
  OBVIOUS
<1> QED
  BY <1>1, <1>2

LEMMA PendingOfRepeated ==
  ASSUME NEW f, NEW seq \in Seq(Inputs), NEW c \in Nat
  PROVE  Pending(f, Repeated(seq, c)) = c * Pending(f, seq)
<1>1. PICK r : /\ Repeated(seq, c) = r[c]
               /\ r[0] = <<>>
               /\ \A i \in 1..c : r[i] = r[i - 1] \o seq
               /\ \A i \in 0..c : r[i] \in Seq(Inputs)
  BY RepeatedBuilt
<1> DEFINE p == Pending(f, seq)
           P == {i \in 0..c : Pending(f, r[i]) = i * p}
<1>2. p \in Nat
  BY PendingOfBoth
<1> HIDE DEF p
<1>3. 0 \in P
  <2>1. Pending(f, r[0]) = 0
    BY <1>1, NothingPending, Zenon
  <2> QED
    BY <1>2, <2>1
<1>4. ASSUME NEW i \in 0..(c - 1), i \in P
      PROVE  i + 1 \in P
  <2>1. i \in 0..c /\ i + 1 \in 1..c /\ i + 1 - 1 = i /\ i + 1 \in 0..c
    OBVIOUS
  <2>2. r[i + 1] = r[i] \o seq /\ r[i] \in Seq(Inputs)
    BY <1>1, <2>1
  <2>3. Pending(f, r[i] \o seq) = Pending(f, r[i]) + p
    BY <2>2, PendingOfBoth DEF p
  <2>4. Pending(f, r[i]) = i * p
    BY <1>4
  <2>5. i * p + p = (i + 1) * p
    BY <1>2
  <2>6. Pending(f, r[i + 1]) = (i + 1) * p
    BY <2>2, <2>3, <2>4, <2>5, Zenon
  <2> QED
    BY <2>1, <2>6
<1>5. \A i \in 0..(c - 1) : i \in P => i + 1 \in P
  BY <1>4
<1> HIDE DEF P
<1>6. \A i \in 0..c : i \in P
  BY <1>3, <1>5, InductionUpTo, Zenon
<1>7. c \in P
  BY <1>6
<1> QED
  BY <1>1, <1>7 DEF P, p

(* Whichever way an expansion is repeated, it is due count times.          *)
LEMMA ExpansionIsExact ==
  ASSUME NEW target \in Seq(TargetUnit), NEW c \in 0..(CountRange - 1)
  PROVE  /\ Expansion(target, c) \in Seq(Inputs)
         /\ \A f : Pending(f, Expansion(target, c)) = c * Occurrences(f, target)
<1>1. c \in Nat /\ Len(target) \in Nat /\ 1 \in 0..(CountRange - 1)
  BY HubAssumption, OneIsCount
<1>2. \A k \in 1..Len(target) : target[k] \in TargetUnit
  OBVIOUS
<1>3. CASE Len(target) = 1
  <2> DEFINE e == Input(target[1], c)
  <2>1. Expansion(target, c) = <<e>>
    BY <1>3 DEF Expansion
  <2>2. e \in Inputs /\ e.unit = target[1] /\ e.count = c
    BY <1>2, <1>3, IsInput
  <2> HIDE DEF e
  <2>3. ASSUME NEW f
        PROVE  Pending(f, <<e>>) = c * Occurrences(f, target)
    <3> DEFINE x == IF target[1].does = f THEN c ELSE 0
               y == IF target[1].does = f THEN 1 ELSE 0
    <3>1. Weights(f, <<e>>) = <<x>>
      BY <2>2 DEF Weights
    <3>2. Marks(f, target) = <<y>>
      BY <1>3 DEF Marks
    <3>3. x \in Nat /\ y \in Nat /\ x = c * y
      BY <1>1
    <3> HIDE DEF x, y
    <3>4. Total(<<x>>) = x /\ Total(<<y>>) = y
      BY <3>3, TotalOfOne
    <3>5. Pending(f, <<e>>) = x
      BY <3>1, <3>4, Zenon DEF Pending, Weights
    <3>6. Occurrences(f, target) = y
      BY <3>2, <3>4, Zenon DEF Occurrences, Marks
    <3> QED
      BY <3>3, <3>5, <3>6
  <2>4. <<e>> \in Seq(Inputs)
    BY <2>2
  <2> QED
    BY <2>1, <2>3, <2>4
<1>4. CASE Len(target) # 1
  <2> DEFINE seq == [k \in 1..Len(target) |-> Input(target[k], 1)]
  <2>1. Expansion(target, c) = Repeated(seq, c)
    BY <1>4 DEF Expansion
  <2>2. \A k \in 1..Len(target) : /\ Input(target[k], 1) \in Inputs
                                   /\ Input(target[k], 1).unit = target[k]
                                   /\ Input(target[k], 1).count = 1
    BY <1>1, <1>2, IsInput
  <2>3. /\ seq \in Seq(Inputs) /\ Len(seq) = Len(target)
        /\ \A k \in 1..Len(target) : seq[k].unit = target[k] /\ seq[k].count = 1
    BY <1>1, <2>2
  <2> HIDE DEF seq
  <2>4. ASSUME NEW f
        PROVE  Pending(f, Repeated(seq, c)) = c * Occurrences(f, target)
    <3>1. Weights(f, seq) = Marks(f, target)
      BY <2>3 DEF Weights, Marks
    <3>2. Pending(f, seq) = Occurrences(f, target)
      BY <3>1, Zenon DEF Pending, Weights, Occurrences, Marks
    <3> QED
      BY <1>1, <2>3, <3>2, PendingOfRepeated
  <2>5. Repeated(seq, c) \in Seq(Inputs)
    BY <1>1, <2>3, RepeatedType
  <2> QED
    BY <2>1, <2>4, <2>5
<1> QED
  BY <1>3, <1>4

-----------------------------------------------------------------------------
(* enqueue_mapped(), of one input and of all of a call.                    *)

(* A map that is expanded: it was spelled, and what it adds is counted.    *)
LEMMA ExpandedIsSpelled ==
  ASSUME NEW maps \in Seq(Map), NEW hub, HubOK(maps, hub), NEW e \in Inputs,
         ~SolverDiverges(maps, hub.stacks, e.unit.keys),
         MapCommandFrom(maps, hub.stacks, e.unit.keys, TRUE).fired # 0
  PROVE  LET i == MapCommandFrom(maps, hub.stacks, e.unit.keys, TRUE).fired
             w == Append(hub.line, e.unit.keys)
         IN  /\ i \in 1..Len(maps) /\ maps[i] \in Map
             /\ IsSpelled(maps, maps[i], w)
             /\ w \in Seq(Units)
<1> DEFINE u == e.unit.keys
           i == MapCommandFrom(maps, hub.stacks, u, TRUE).fired
           w == Append(hub.line, u)
<1>1. IsTable(maps) /\ Len(maps) \in Nat
  BY TableOfMaps
<1>2. AllRemember(maps, hub.stacks, hub.line) /\ hub.line \in Seq(Units)
  BY HubFields DEF HubOK
<1>3. u \in Units /\ ~SolverDiverges(maps, hub.stacks, u) /\ i # 0
  BY InputFields
<1> HIDE DEF u
<1>4. /\ i \in 0..Len(maps)
      /\ i # 0 => /\ i \in Spelled(maps, w)
                  /\ \A j \in Spelled(maps, w) : i <= j
  BY <1>1, <1>2, <1>3, CallInStep
<1> HIDE DEF i
<1>5. /\ i \in 1..Len(maps) /\ i \in Spelled(maps, w)
      /\ \A j \in Spelled(maps, w) : i <= j
  BY <1>1, <1>3, <1>4
<1>6. w \in Seq(Units)
  BY <1>2, <1>3
<1> HIDE DEF w
<1>7. maps[i] \in Map
  BY <1>5
<1>8. \A j \in 1..(i - 1) : j \in 1..Len(maps) /\ ~(i <= j)
  BY <1>1, <1>5
<1>9. IsSpelled(maps, maps[i], w)
  BY <1>5, <1>8 DEF IsSpelled, Spelled
<1> QED
  BY <1>5, <1>6, <1>7, <1>9 DEF i, w, u

(* What is added to the queue, and to the history                          *)
LEMMA AddedKeeps ==
  ASSUME NEW maps, NEW hub, HubOK(maps, hub), NEW x \in Seq(Inputs), NEW e \in Firings,
         IsSpelled(maps, e.map, e.line),
         \A f \in Functions : Pending(f, x) = e.input.count * Occurrences(f, e.map.target)
  PROVE  HubOK(maps, [hub EXCEPT !.out = @ \o x, !.fired = Append(@, e)])
<1> DEFINE out   == hub.out \o x
           fired2 == Append(hub.fired, e)
           h     == [hub EXCEPT !.out = out, !.fired = fired2]
<1>1. /\ hub \in Hubs(maps) /\ AllRemember(maps, hub.stacks, hub.line)
      /\ SpelledAll(maps, hub.fired) /\ Balanced(hub.out, hub.fired)
  BY DEF HubOK
<1>2. hub.out \in Seq(Inputs) /\ hub.fired \in Seq(Firings)
  BY <1>1, HubFields
<1>3. out \in Seq(Inputs) /\ fired2 \in Seq(Firings)
  BY <1>2
<1>4. SpelledAll(maps, fired2)
  <2>1. /\ Len(fired2) = Len(hub.fired) + 1 /\ fired2[Len(hub.fired) + 1] = e
        /\ \A i \in 1..Len(hub.fired) : fired2[i] = hub.fired[i]
        /\ Len(hub.fired) \in Nat
    BY <1>2
  <2> HIDE DEF fired2
  <2>2. \A i \in 1..(Len(hub.fired) + 1) :
          i \in 1..Len(hub.fired) \/ i = Len(hub.fired) + 1
    BY <2>1
  <2> QED
    BY <1>1, <2>1, <2>2 DEF SpelledAll
<1>5. Balanced(out, fired2)
  <2> SUFFICES ASSUME NEW f \in Functions
               PROVE  Pending(f, out) = Promised(f, fired2)
    BY DEF Balanced
  <2>1. Pending(f, out) = Pending(f, hub.out) + Pending(f, x)
    BY <1>2, PendingOfBoth
  <2>2. Promised(f, fired2) =
          Promised(f, hub.fired) + e.input.count * Occurrences(f, e.map.target)
    BY <1>2, PromisedOfAppend
  <2>3. Pending(f, hub.out) = Promised(f, hub.fired)
    BY <1>1 DEF Balanced
  <2> QED
    BY <2>1, <2>2, <2>3, Zenon
<1> HIDE DEF out, fired2
<1>6. h \in Hubs(maps) /\ SameSolver(h, hub) /\ h.out = out /\ h.fired = fired2
  BY <1>1, <1>3 DEF Hubs, SameSolver
<1> HIDE DEF h
<1>7. HubOK(maps, h)
  BY <1>1, <1>4, <1>5, <1>6 DEF HubOK, SameSolver
<1> QED
  BY <1>7 DEF h, out, fired2

LEMMA EnqueueMappedKeeps ==
  ASSUME NEW maps \in Seq(Map), NEW hub, HubOK(maps, hub), NEW e \in Inputs
  PROVE  HubOK(maps, EnqueueMapped(maps, hub, e))
<1> DEFINE u == e.unit.keys
           i == MapCommandFrom(maps, hub.stacks, u, TRUE).fired
           m == maps[i]
           firing == [map |-> m, input |-> e, line |-> Append(hub.line, u)]
           moved == MapCommand(maps, hub, u)
           fed == FeedAll(maps, moved, m.target)
           x == Expansion(m.target, e.count)
           Diverges1 == SolverDiverges(maps, hub.stacks, u)
<1>1. IsTable(maps)
  BY TableOfMaps
<1>2. u \in Units /\ e.count \in 0..(CountRange - 1)
  BY InputFields
<1>3. HubOK(maps, moved)
  <2> HIDE DEF u
  <2> QED
    BY <1>1, <1>2, MapCommandKeeps
<1>4. CASE Diverges1 \/ i = 0
  <2>1. EnqueueMapped(maps, hub, e) = moved
    BY <1>4 DEF EnqueueMapped
  <2> QED
    BY <1>3, <2>1, Zenon
<1>5. CASE ~(Diverges1 \/ i = 0)
  <2>1. EnqueueMapped(maps, hub, e) =
          [fed EXCEPT !.out = @ \o x, !.fired = Append(@, firing)]
    BY <1>5 DEF EnqueueMapped
  <2>2. m \in Map /\ IsSpelled(maps, m, Append(hub.line, u)) /\ Append(hub.line, u) \in Seq(Units)
    BY <1>5, ExpandedIsSpelled
  <2> HIDE DEF m, moved, u, i
  <2>3. m.target \in Seq(TargetUnit)
    BY <2>2, MapFields
  <2>4. HubOK(maps, fed)
    BY <1>1, <1>3, <2>3, FeedAllKeeps
  <2>5. /\ x \in Seq(Inputs)
        /\ \A f : Pending(f, x) = e.count * Occurrences(f, m.target)
    BY <1>2, <2>3, ExpansionIsExact
  <2>6. /\ firing \in Firings
        /\ firing.map = m /\ firing.input = e /\ firing.line = Append(hub.line, u)
    BY <2>2 DEF Firings
  <2> HIDE DEF fed, x, firing
  <2>7. IsSpelled(maps, firing.map, firing.line)
    BY <2>2, <2>6
  <2>8. \A f \in Functions :
          Pending(f, x) = firing.input.count * Occurrences(f, firing.map.target)
    BY <2>5, <2>6
  <2>9. HubOK(maps, [fed EXCEPT !.out = @ \o x, !.fired = Append(@, firing)])
    BY <2>4, <2>5, <2>6, <2>7, <2>8, AddedKeeps
  <2> QED
    BY <2>1, <2>9, Zenon
<1> QED
  BY <1>4, <1>5

(* The hubs within a call                                                  *)
GoodHubs(maps) == {h \in Hubs(maps) : HubOK(maps, h)}

LEMMA GoodHubsAreOK ==
  ASSUME NEW maps, NEW h
  PROVE  h \in GoodHubs(maps) <=> HubOK(maps, h)
  BY DEF GoodHubs, HubOK

EnqueueFun(maps, hub, inputs, f) ==
  f = [n \in 0..Len(inputs) |->
         IF n = 0 THEN hub ELSE EnqueueMapped(maps, f[n - 1], inputs[n])]

(* The definition of EnqueueAll, as the value that is built up.            *)
LEMMA EnqueueAllBuilt ==
  ASSUME NEW maps \in Seq(Map), NEW hub, HubOK(maps, hub), NEW inputs \in Seq(Inputs)
  PROVE  \E f :
           /\ EnqueueAll(maps, hub, inputs) = f[Len(inputs)]
           /\ f[0] = hub
           /\ \A n \in 1..Len(inputs) : f[n] = EnqueueMapped(maps, f[n - 1], inputs[n])
           /\ \A n \in 0..Len(inputs) : f[n] \in GoodHubs(maps)
<1> DEFINE N    == Len(inputs)
           S    == GoodHubs(maps)
           step == [n \in 1..N |-> [k \in S |-> EnqueueMapped(maps, k, inputs[n])]]
           g    == CHOOSE f : EnqueueFun(maps, hub, inputs, f)
<1>1. N \in Nat /\ hub \in S
  BY GoodHubsAreOK
<1>2. ASSUME NEW n \in 1..N, NEW k \in S
      PROVE  EnqueueMapped(maps, k, inputs[n]) \in S
  <2>1. inputs[n] \in Inputs /\ HubOK(maps, k)
    BY GoodHubsAreOK
  <2> QED
    BY <2>1, EnqueueMappedKeeps, GoodHubsAreOK
<1>3. step \in [1..N -> [S -> S]]
  BY <1>2
<1>4. \A n \in 1..N : \A k \in S : step[n][k] = EnqueueMapped(maps, k, inputs[n])
  OBVIOUS
<1> HIDE DEF step, S, N
<1>5. PICK f : Recursive(f, N, S, hub, step)
  BY <1>1, <1>3, RecursionUpTo
<1>6. EnqueueFun(maps, hub, inputs, f)
  <2>1. ASSUME NEW n \in 0..N
        PROVE  f[n] = IF n = 0 THEN hub ELSE EnqueueMapped(maps, f[n - 1], inputs[n])
    <3>1. CASE n = 0
      BY <1>5, <3>1 DEF Recursive
    <3>2. CASE n # 0
      <4>1. n \in 1..N /\ n - 1 \in 0..N
        BY <1>1, <3>2
      <4> QED
        BY <1>4, <1>5, <3>2, <4>1 DEF Recursive
    <3> QED
      BY <3>1, <3>2
  <2> QED
    BY <1>5, <2>1 DEF EnqueueFun, N, Recursive
<1>7. EnqueueFun(maps, hub, inputs, g)
  BY <1>6
<1>8. EnqueueAll(maps, hub, inputs) = g[N]
  BY DEF EnqueueAll, EnqueueFun, N
<1> HIDE DEF g
<1>9. g[0] = hub /\ \A n \in 1..N : g[n] = EnqueueMapped(maps, g[n - 1], inputs[n])
  BY <1>1, <1>7 DEF EnqueueFun, N
<1>10. Follows(g, N, S, hub, step)
  BY <1>4, <1>9 DEF Follows
<1>11. \A n \in 0..N : g[n] \in S
  BY <1>1, <1>3, <1>10, FollowsType
<1> QED
  BY <1>8, <1>9, <1>11 DEF N, S

LEMMA EnqueueAllKeeps ==
  ASSUME NEW maps \in Seq(Map), NEW hub, HubOK(maps, hub), NEW inputs \in Seq(Inputs)
  PROVE  HubOK(maps, EnqueueAll(maps, hub, inputs))
<1>1. PICK f : /\ EnqueueAll(maps, hub, inputs) = f[Len(inputs)]
               /\ \A n \in 0..Len(inputs) : f[n] \in GoodHubs(maps)
  BY EnqueueAllBuilt
<1>2. Len(inputs) \in 0..Len(inputs)
  OBVIOUS
<1> QED
  BY <1>1, <1>2, GoodHubsAreOK

LEMMA EnqueueOne ==
  ASSUME NEW maps \in Seq(Map), NEW hub, HubOK(maps, hub), NEW inputs \in Seq(Inputs),
         Len(inputs) = 1
  PROVE  EnqueueAll(maps, hub, inputs) = EnqueueMapped(maps, hub, inputs[1])
<1>1. PICK f : /\ EnqueueAll(maps, hub, inputs) = f[Len(inputs)]
               /\ f[0] = hub
               /\ \A n \in 1..Len(inputs) : f[n] = EnqueueMapped(maps, f[n - 1], inputs[n])
  BY EnqueueAllBuilt
<1>2. 1 \in 1..Len(inputs) /\ 1 - 1 = 0
  OBVIOUS
<1> QED
  BY <1>1, <1>2

LEMMA CallingIsOK ==
  ASSUME NEW maps, NEW ss, NEW w \in Seq(Units), AllRemember(maps, ss, w)
  PROVE  HubOK(maps, Calling(ss, w))
<1> DEFINE h == Calling(ss, w)
<1>1. /\ h.stacks = ss /\ h.line = w /\ h.out = <<>> /\ h.fired = <<>>
  BY DEF Calling
<1>2. ss \in StacksOf(maps)
  BY RememberedStacks
<1>3. h \in Hubs(maps)
  BY <1>2 DEF Calling, Hubs
<1> HIDE DEF h
<1>4. SpelledAll(maps, h.fired)
  BY <1>1 DEF SpelledAll
<1>5. Balanced(h.out, h.fired)
  BY <1>1, NothingPending DEF Balanced
<1>6. HubOK(maps, h)
  BY <1>1, <1>3, <1>4, <1>5 DEF HubOK
<1> QED
  BY <1>6 DEF h

-----------------------------------------------------------------------------
(* What is typed, and the counts                                           *)

NumberFun(digits, f) ==
  f = [n \in 0..Len(digits) |-> IF n = 0 THEN 0 ELSE 10 * f[n - 1] + digits[n]]

(* The definition of Number, as the value that is built up.                *)
LEMMA NumberBuilt ==
  ASSUME NEW digits \in Seq(0..9)
  PROVE  \E f :
           /\ Number(digits) = f[Len(digits)]
           /\ f[0] = 0
           /\ \A n \in 1..Len(digits) : f[n] = 10 * f[n - 1] + digits[n]
           /\ \A n \in 0..Len(digits) : f[n] \in Nat
<1> DEFINE N    == Len(digits)
           S    == Nat
           step == [n \in 1..N |-> [k \in S |-> 10 * k + digits[n]]]
           g    == CHOOSE f : NumberFun(digits, f)
<1>1. N \in Nat /\ 0 \in S
  OBVIOUS
<1>2. ASSUME NEW n \in 1..N, NEW k \in S
      PROVE  10 * k + digits[n] \in S
  <2>1. digits[n] \in 0..9 /\ k \in Nat
    BY DEF N
  <2> QED
    BY <2>1
<1>3. step \in [1..N -> [S -> S]]
  BY <1>2
<1>4. \A n \in 1..N : \A k \in S : step[n][k] = 10 * k + digits[n]
  OBVIOUS
<1> HIDE DEF step, S, N
<1>5. PICK f : Recursive(f, N, S, 0, step)
  BY <1>1, <1>3, RecursionUpTo
<1>6. NumberFun(digits, f)
  <2>1. ASSUME NEW n \in 0..N
        PROVE  f[n] = IF n = 0 THEN 0 ELSE 10 * f[n - 1] + digits[n]
    <3>1. CASE n = 0
      BY <1>5, <3>1 DEF Recursive
    <3>2. CASE n # 0
      <4>1. n \in 1..N /\ n - 1 \in 0..N
        BY <1>1, <3>2
      <4> QED
        BY <1>4, <1>5, <3>2, <4>1 DEF Recursive
    <3> QED
      BY <3>1, <3>2
  <2> QED
    BY <1>5, <2>1 DEF NumberFun, N, Recursive
<1>7. NumberFun(digits, g)
  BY <1>6
<1>8. Number(digits) = g[N]
  BY DEF Number, NumberFun, N
<1> HIDE DEF g
<1>9. g[0] = 0 /\ \A n \in 1..N : g[n] = 10 * g[n - 1] + digits[n]
  BY <1>1, <1>7 DEF NumberFun, N
<1>10. Follows(g, N, S, 0, step)
  BY <1>4, <1>9 DEF Follows
<1>11. \A n \in 0..N : g[n] \in S
  BY <1>1, <1>3, <1>10, FollowsType
<1> QED
  BY <1>8, <1>9, <1>11 DEF N, S

LEMMA CountType ==
  ASSUME NEW digits \in Seq(0..9)
  PROVE  CountOf(digits) \in 0..(CountRange - 1)
<1>1. PICK f : Number(digits) = f[Len(digits)] /\ \A n \in 0..Len(digits) : f[n] \in Nat
  BY NumberBuilt
<1>2. Len(digits) \in 0..Len(digits)
  OBVIOUS
<1>3. Number(digits) \in Nat
  BY <1>1, <1>2
<1>4. CountRange \in Nat /\ CountRange > 1
  BY HubAssumption
<1>5. Number(digits) % CountRange \in 0..(CountRange - 1)
  BY <1>3, <1>4
<1> QED
  BY <1>4, <1>5 DEF CountOf

LEMMA TypedIsUnit ==
  ASSUME NEW r \in Units, NEW p \in Units, NEW passed, Typed(r, p, passed) # Nothing
  PROVE  UnitOf(Typed(r, p, passed)) \in Units \ {{}}
<1>1. \A u : UnitOf(Just(u)) = u
  BY DEF UnitOf, Just, Nothing
<1>2. Difference(r, p) \in Units
  BY DEF Difference, SystemPart, TextPart, Units
<1>3. \/ Typed(r, p, passed) = Just(r) /\ r # {}
      \/ Typed(r, p, passed) = Just(Difference(r, p)) /\ Difference(r, p) # {}
  BY DEF Typed
<1> QED
  BY <1>1, <1>2, <1>3

LEMMA TypeableIsInput ==
  ASSUME NEW u \in Units \ {{}}, NEW n \in 0..(CountRange - 1)
  PROVE  /\ Input(Typeable(u), n) \in Inputs
         /\ <<Input(Typeable(u), n)>> \in Seq(Inputs)
<1>1. Typeable(u) \in TargetUnit
  BY DEF Typeable, TargetUnit
<1>2. Input(Typeable(u), n) \in Inputs
  BY <1>1, IsInput
<1> QED
  BY <1>2

LEMMA DeploymentIsTable ==
  ASSUME NEW r \in Registries
  PROVE  Deployment[r] \in Seq(Map) /\ IsTable(Deployment[r])
<1>1. /\ r.default \in Seq(Map) /\ r.noremaps \in Seq(Map) /\ r.maps \in Seq(Map)
  BY HubAssumption
<1> DEFINE d == r.default
           n == r.noremaps
           m == r.maps
<1>2. d \in Seq(Map) /\ n \in Seq(Map) /\ m \in Seq(Map)
  BY <1>1
<1> HIDE DEF d, n, m
<1>3. SolvedMaps(d, n, m) \in Seq(Map)
  <2>1. <<>> \in Seq(Map)
    OBVIOUS
  <2>2. NoremapDrafts(d, n) \in Seq(Map)
    BY <1>2, PutAllType DEF NoremapDrafts
  <2>3. SolvedNoremaps(d, n) \in Seq(Map)
    BY <1>2, <2>1, <2>2, SolveIntoType DEF SolvedNoremaps
  <2>4. MapTable(d, n, m) \in Seq(Map)
    BY <1>2, <2>3, PutAllType DEF MapTable
  <2> QED
    BY <1>2, <2>3, <2>4, SolveIntoType DEF SolvedMaps
<1>4. Among(SolvedMaps(d, n, m), {x \in Map : ~IsHotkey(x)}) \in Seq(Map)
  BY <1>3, AmongType, Zenon
<1>5. Deployment[r] \in Seq(Map)
  BY <1>4, Zenon DEF Deployment, DeployedFrom, d, n, m
<1> QED
  BY <1>5, TableOfMaps

-----------------------------------------------------------------------------
(* The inductive invariant: every matcher of every mode remembers the line *)
(* of its solver, which is what FiresWhatIsSpelled needs to be kept.       *)

SolversOK ==
  /\ solvers = [m \in Modes |-> Deployment[registry[m]]]
  /\ stacks = [m \in Modes |-> stacks[m]]
  /\ line \in [Modes -> Seq(Units)]
  /\ \A m \in Modes : AllRemember(solvers[m], stacks[m], line[m])

FiringsOK == fired \in Seq(Firings) /\ FiresWhatIsSpelled

HubIInv == HubTypeOK /\ SolversOK /\ FiringsOK

LEMMA HubInvariantImplies == HubIInv => MapsFireInTurn
  BY DEF HubIInv, FiringsOK, MapsFireInTurn

(* The types of the stacks are those of what they remember.                *)
LEMMA TypesFollow ==
  ASSUME SolversOK
  PROVE  \A m \in Modes : stacks[m] \in [1..Len(solvers[m]) -> Seq(Entry)]
<1> SUFFICES ASSUME NEW m \in Modes
             PROVE  stacks[m] \in [1..Len(solvers[m]) -> Seq(Entry)]
  OBVIOUS
<1>1. AllRemember(solvers[m], stacks[m], line[m])
  BY DEF SolversOK
<1>2. stacks[m] \in StacksOf(solvers[m])
  BY <1>1, RememberedStacks
<1> QED
  BY <1>2 DEF StacksOf

LEMMA NothingFired ==
  ASSUME fired = <<>>
  PROVE  FiringsOK
<1>1. fired \in Seq(Firings) /\ DOMAIN fired = {}
  OBVIOUS
<1> QED
  BY <1>1 DEF FiringsOK, FiresWhatIsSpelled

LEMMA NothingFiredNext ==
  ASSUME fired' = <<>>
  PROVE  FiringsOK'
<1>1. fired' \in Seq(Firings) /\ DOMAIN fired' = {}
  OBVIOUS
<1> QED
  BY <1>1 DEF FiringsOK, FiresWhatIsSpelled

LEMMA TypesFollowNext ==
  ASSUME SolversOK'
  PROVE  \A m \in Modes : stacks'[m] \in [1..Len(solvers'[m]) -> Seq(Entry)]
<1> SUFFICES ASSUME NEW m \in Modes
             PROVE  stacks'[m] \in [1..Len(solvers'[m]) -> Seq(Entry)]
  OBVIOUS
<1>1. AllRemember(solvers'[m], stacks'[m], line'[m])
  BY DEF SolversOK
<1>2. stacks'[m] \in StacksOf(solvers'[m])
  BY <1>1, RememberedStacks
<1> QED
  BY <1>2 DEF StacksOf

LEMMA HubInitInvariant == HubInit => HubIInv
<1> SUFFICES ASSUME HubInit
             PROVE  HubIInv
  OBVIOUS
<1>1. SolversOK
  <2>1. ASSUME NEW m \in Modes
        PROVE  AllRemember(solvers[m], stacks[m], line[m])
    <3>1. stacks[m] = Fresh(solvers[m]) /\ line[m] = <<>>
      BY DEF HubInit
    <3>2. AllRemember(solvers[m], Fresh(solvers[m]), <<>>)
      BY FreshRemembers
    <3> QED
      BY <3>1, <3>2, Zenon
  <2>2. stacks = [m \in Modes |-> stacks[m]]
    BY Zenon DEF HubInit
  <2>3. line \in [Modes -> Seq(Units)]
    <3>1. <<>> \in Seq(Units)
      OBVIOUS
    <3> QED
      BY <3>1 DEF HubInit
  <2>4. solvers = [m \in Modes |-> Deployment[registry[m]]]
    BY DEF HubInit
  <2> QED
    BY <2>1, <2>2, <2>3, <2>4 DEF SolversOK
<1>2. FiringsOK
  BY NothingFired DEF HubInit
<1>3. HubTypeOK
  <2>1. \A m \in Modes : stacks[m] \in [1..Len(solvers[m]) -> Seq(Entry)]
    BY <1>1, TypesFollow
  <2>2. /\ registry \in [Modes -> Registries] /\ mode \in Modes
        /\ raw = {} /\ prev = {} /\ count = <<>>
        /\ typing = <<>> /\ waiting = <<>> /\ got = <<>> /\ running = TRUE
    BY DEF HubInit
  <2>3. {} \in Units /\ <<>> \in Seq(0..9) /\ <<>> \in Seq(Inputs)
    BY DEF Units
  <2> QED
    BY <2>1, <2>2, <2>3 DEF HubTypeOK
<1> QED
  BY <1>1, <1>2, <1>3 DEF HubIInv

-----------------------------------------------------------------------------
(* A unit without keys is unwound by a table that has no use for it.       *)
LEMMA SilentInputIsUnwound ==
  ASSUME NEW maps \in Seq(Map), NEW hub, HubOK(maps, hub), NEW e \in Inputs,
         e.unit.does \in Functions, IgnoresFunctions(maps)
  PROVE  EnqueueMapped(maps, hub, e).stacks = hub.stacks
<1> DEFINE u   == e.unit.keys
           ss  == hub.stacks
           w   == hub.line
           up  == Updated(maps, ss, u)
           old == [i \in 1..Len(maps) |-> Backward(up[i], 1)]
           r   == MapCommandFrom(maps, ss, u, TRUE)
<1>1. IsTable(maps)
  BY TableOfMaps
<1>2. /\ hub \in Hubs(maps) /\ AllRemember(maps, ss, w)
      /\ ss \in StacksOf(maps) /\ w \in Seq(Units)
  BY HubFields DEF HubOK
<1>3. u = {} /\ u \in Units
  BY InputFields, TargetUnitFields
<1>4. u \notin TextUnits
  BY <1>3, KeysAssumption
<1> HIDE DEF u, ss, w
<1>5. ~SolverDiverges(maps, ss, u)
  BY <1>1, <1>2, <1>4, SilentUnitsReturn
<1>6. AllRemember(maps, up, Append(w, u))
  BY <1>1, <1>2, <1>3, <1>5, UpdatedRemembers
<1>7. old = ss
  BY <1>1, <1>2, <1>3, <1>5, UnwoundIsOld
<1>8. r.fired = 0 /\ r.stacks = old
  <2>1. AllRejected(up)
    <3> DEFINE w2 == Append(w, u)
    <3>1. w2 \in Seq(Units) /\ Len(w2) \in 1..Len(w2) /\ w2[Len(w2)] = u
      BY <1>2, <1>3
    <3> HIDE DEF up, w2
    <3>2. /\ DOMAIN up = 1..Len(maps)
          /\ \A i \in 1..Len(maps) :
               IsRejected(up[i]) <=> ~Begins(maps[i].trigger, w2, Len(w2))
      BY <1>1, <1>6, Verdicts DEF w2
    <3>3. ASSUME NEW i \in 1..Len(maps), Begins(maps[i].trigger, w2, Len(w2))
          PROVE  FALSE
      <4> DEFINE c == maps[i].trigger
      <4>1. c \in Seq(Units) /\ i \in DOMAIN maps
        BY <1>1 DEF IsTable
      <4>2. \A k \in 1..Len(c) : ~Covers(c[k], {})
        BY <4>1 DEF IgnoresFunctions
      <4> HIDE DEF c
      <4>3. PICK p \in [1..Len(w2) -> 1..Len(c)] : Spelling(c, w2, Len(w2), p)
        BY <3>3 DEF Begins, c
      <4>4. Covers(c[p[Len(w2)]], w2[Len(w2)]) /\ p[Len(w2)] \in 1..Len(c)
        BY <3>1, <4>3 DEF Spelling
      <4> QED
        BY <1>3, <3>1, <4>2, <4>4
    <3> QED
      BY <3>2, <3>3 DEF AllRejected
  <2>2. IsSystemOnly(u)
    BY <1>3 DEF IsSystemOnly
  <2> QED
    BY <2>1, <2>2 DEF MapCommandFrom
<1>9. EnqueueMapped(maps, hub, e) = MapCommand(maps, hub, u)
  BY <1>8 DEF EnqueueMapped, u, ss
<1> DEFINE l == LineAfter(maps, hub, u)
<1>10. MapCommand(maps, hub, u) = [hub EXCEPT !.stacks = r.stacks, !.line = l]
  BY <1>5 DEF MapCommand, ss
<1> HIDE DEF l, r, old
<1>11. [hub EXCEPT !.stacks = r.stacks, !.line = l].stacks = r.stacks
  BY <1>2 DEF Hubs
<1> QED
  BY <1>7, <1>8, <1>9, <1>10, <1>11 DEF ss

-----------------------------------------------------------------------------
(* A call that returns inputs, mapped or not                               *)

(* What a call that returns inputs, with left still waiting, leads to      *)
Returns(inputs, left) ==
  /\ SolversOK' /\ FiringsOK'
  /\ waiting' \in Seq(Inputs) /\ got' = inputs /\ running' \in BOOLEAN
  /\ UNCHANGED <<registry, solvers, mode, raw>>
  /\ \A f \in Functions : Pending(f, waiting') = Pending(f, left) + Promised(f, fired')
  /\ Len(inputs) = 1 /\ inputs[1].unit.does \in Functions
       /\ IgnoresFunctions(solvers[mode]) => stacks' = stacks

LEMMA FetchedReturns ==
  ASSUME HubIInv, NEW inputs \in Seq(Inputs), NEW left \in Seq(Inputs),
         Return(inputs, left, FALSE)
  PROVE  Returns(inputs, left)
<1>1. /\ waiting' = left /\ got' = inputs /\ fired' = <<>>
      /\ UNCHANGED <<stacks, line, running, registry, solvers, mode, raw>>
  BY DEF Return, Fetched
<1>2. SolversOK /\ running \in BOOLEAN
  BY DEF HubIInv, HubTypeOK
<1>3. SolversOK'
  BY <1>1, <1>2 DEF SolversOK
<1>4. FiringsOK'
  BY <1>1, NothingFiredNext
<1>5. ASSUME NEW f \in Functions
      PROVE  Pending(f, waiting') = Pending(f, left) + Promised(f, fired')
  <2>1. Promised(f, <<>>) = 0
    BY NothingPending
  <2>2. Pending(f, left) \in Nat
    BY PendingOfBoth
  <2> QED
    BY <1>1, <2>1, <2>2
<1> QED
  BY <1>1, <1>2, <1>3, <1>4, <1>5 DEF Returns

LEMMA PulledReturns ==
  ASSUME HubIInv, NEW inputs \in Seq(Inputs), NEW left \in Seq(Inputs),
         Return(inputs, left, TRUE)
  PROVE  Returns(inputs, left)
<1> DEFINE maps  == solvers[mode]
           start == Calling(stacks[mode], line[mode])
           hub   == EnqueueAll(maps, start, inputs)
<1>1. SolversOK /\ mode \in Modes /\ registry \in [Modes -> Registries]
  BY DEF HubIInv, HubTypeOK
<1>2. /\ stacks = [m \in Modes |-> stacks[m]] /\ line \in [Modes -> Seq(Units)]
      /\ \A m \in Modes : AllRemember(solvers[m], stacks[m], line[m])
      /\ maps = Deployment[registry[mode]]
  BY <1>1 DEF SolversOK
<1>3. maps \in Seq(Map)
  BY <1>1, <1>2, DeploymentIsTable
<1>4. HubOK(maps, start)
  BY <1>1, <1>2, CallingIsOK
<1>5. /\ stacks' = [stacks EXCEPT ![mode] = hub.stacks]
      /\ line' = [line EXCEPT ![mode] = hub.line]
      /\ waiting' = left \o hub.out
      /\ got' = inputs
      /\ fired' = hub.fired
      /\ running' = hub.returns
      /\ UNCHANGED <<registry, solvers, mode, raw>>
  BY DEF Return, Pulled
<1>6. start.stacks = stacks[mode]
  BY DEF Calling
<1> HIDE DEF maps, start
<1>7. HubOK(maps, hub)
  BY <1>3, <1>4, EnqueueAllKeeps
<1>8. Len(inputs) = 1 /\ inputs[1].unit.does \in Functions /\ IgnoresFunctions(maps) =>
        hub.stacks = start.stacks
  <2> SUFFICES ASSUME Len(inputs) = 1, inputs[1].unit.does \in Functions,
                      IgnoresFunctions(maps)
               PROVE  hub.stacks = start.stacks
    OBVIOUS
  <2>1. hub = EnqueueMapped(maps, start, inputs[1])
    BY <1>3, <1>4, EnqueueOne
  <2> HIDE DEF hub
  <2>2. inputs[1] \in Inputs
    BY 1 \in 1..Len(inputs), ElementOfSeq
  <2>3. EnqueueMapped(maps, start, inputs[1]).stacks = start.stacks
    BY <1>3, <1>4, <2>2, SilentInputIsUnwound
  <2> QED
    BY <2>1, <2>3
<1> HIDE DEF hub
<1>9. /\ hub \in Hubs(maps) /\ AllRemember(maps, hub.stacks, hub.line)
      /\ SpelledAll(maps, hub.fired) /\ Balanced(hub.out, hub.fired)
  BY <1>7 DEF HubOK
<1>10. /\ hub.line \in Seq(Units) /\ hub.out \in Seq(Inputs)
       /\ hub.fired \in Seq(Firings) /\ hub.returns \in BOOLEAN
  BY <1>9, HubFields
<1>11. SolversOK'
  <2>1. ASSUME NEW m \in Modes
        PROVE  AllRemember(solvers[m], stacks'[m], line'[m])
    <3>1. CASE m = mode
      <4>1. stacks'[m] = hub.stacks /\ line'[m] = hub.line
        BY <1>1, <1>2, <1>5, <3>1
      <4> QED
        BY <1>9, <3>1, <4>1, Zenon DEF maps
    <3>2. CASE m # mode
      <4>1. stacks'[m] = stacks[m] /\ line'[m] = line[m]
        BY <1>2, <1>5, <3>2
      <4> QED
        BY <1>2, <4>1, Zenon
    <3> QED
      BY <3>1, <3>2
  <2>2. stacks' = [m \in Modes |-> stacks'[m]]
    BY <1>2, <1>5
  <2>3. line' \in [Modes -> Seq(Units)]
    BY <1>1, <1>2, <1>5, <1>10
  <2>4. solvers' = [m \in Modes |-> Deployment[registry'[m]]]
    BY <1>1, <1>5 DEF SolversOK
  <2>5. \A m \in Modes : AllRemember(solvers'[m], stacks'[m], line'[m])
    BY <1>5, <2>1
  <2> QED
    BY <2>2, <2>3, <2>4, <2>5 DEF SolversOK
<1>12. FiringsOK'
  <2>1. fired' \in Seq(Firings) /\ solvers'[mode'] = maps
    BY <1>5, <1>10 DEF maps
  <2>2. DOMAIN fired' = 1..Len(fired')
    BY <2>1
  <2>3. \A i \in 1..Len(fired') : IsSpelled(maps, fired'[i].map, fired'[i].line)
    BY <1>5, <1>9 DEF SpelledAll
  <2> QED
    BY <2>1, <2>2, <2>3 DEF FiringsOK, FiresWhatIsSpelled
<1>13. ASSUME NEW f \in Functions
       PROVE  Pending(f, waiting') = Pending(f, left) + Promised(f, fired')
  <2>1. Pending(f, left \o hub.out) = Pending(f, left) + Pending(f, hub.out)
    BY <1>10, PendingOfBoth
  <2>2. Pending(f, hub.out) = Promised(f, hub.fired)
    BY <1>9 DEF Balanced
  <2> QED
    BY <1>5, <2>1, <2>2
<1>14. hub.stacks = start.stacks => stacks' = stacks
  BY <1>1, <1>2, <1>5, <1>6
<1>15. waiting' \in Seq(Inputs) /\ running' \in BOOLEAN
  BY <1>5, <1>10
<1> QED
  BY <1>5, <1>8, <1>11, <1>12, <1>13, <1>14, <1>15 DEF Returns, maps

-----------------------------------------------------------------------------
(* Steps.                                                                  *)

CountsStep ==
  running' =>
    \A f \in Functions :
      Pending(f, waiting') + Pending(f, OutOf(waiting, got')) =
        Pending(f, waiting) + Promised(f, fired')

TraceStep ==
  Len(got') = 1 /\ got'[1].unit.does \in Functions
    /\ IgnoresFunctions(solvers[mode]) => stacks' = stacks

HubStep == HubIInv' /\ CountsStep /\ TraceStep

(* What an input that is returned takes out of the waiting queue           *)
LEMMA OutOfQueue ==
  ASSUME NEW q \in Seq(Inputs), NEW t \in Seq(Inputs)
  PROVE  /\ OutOf(q, <<>>) = <<>>
         /\ OutOf(<<>>, t) = <<>>
         /\ OutOf(q, q \o t) = q
         /\ q # <<>> => OutOf(q, <<Head(q)>>) = <<Head(q)>>
<1>1. OutOf(q, <<>>) = <<>>
  BY DEF OutOf
<1>2. OutOf(<<>>, t) = <<>>
  BY DEF OutOf
<1>3. OutOf(q, q \o t) = q
  <2> DEFINE both == q \o t
  <2>1. /\ both \in Seq(Inputs) /\ Len(both) = Len(q) + Len(t)
        /\ \A i \in 1..Len(q) : both[i] = q[i]
        /\ Len(q) \in Nat /\ Len(t) \in Nat
    OBVIOUS
  <2> HIDE DEF both
  <2>2. OutOf(q, both) = SubSeq(both, 1, Len(q))
    BY <2>1 DEF OutOf
  <2>3. /\ SubSeq(both, 1, Len(q)) \in Seq(Inputs)
        /\ Len(SubSeq(both, 1, Len(q))) = Len(q)
        /\ \A i \in 1..Len(q) : SubSeq(both, 1, Len(q))[i] = both[i]
    BY <2>1
  <2>4. SubSeq(both, 1, Len(q)) = q
    BY <2>1, <2>3, SeqEqual
  <2> QED
    BY <2>2, <2>4 DEF both
<1>4. q # <<>> => OutOf(q, <<Head(q)>>) = <<Head(q)>>
  <2> SUFFICES ASSUME q # <<>>
               PROVE  OutOf(q, <<Head(q)>>) = <<Head(q)>>
    OBVIOUS
  <2>1. Len(q) \in Nat /\ Len(q) >= 1
    OBVIOUS
  <2> DEFINE e == Head(q)
  <2> HIDE DEF e
  <2>2. OutOf(q, <<e>>) = SubSeq(<<e>>, 1, 1)
    BY <2>1 DEF OutOf
  <2> QED
    BY <2>2 DEF e
<1> QED
  BY <1>1, <1>2, <1>3, <1>4

(* A step that returns inputs                                              *)
LEMMA ReturnsStep ==
  ASSUME HubIInv, NEW inputs \in Seq(Inputs), NEW left \in Seq(Inputs), Returns(inputs, left),
         \A f \in Functions :
           Pending(f, left) + Pending(f, OutOf(waiting, inputs)) = Pending(f, waiting),
         OutOf(waiting, inputs) \in Seq(Inputs),
         prev' \in Units, count' \in Seq(0..9), typing' \in Seq(Inputs)
  PROVE  HubStep
<1>1. /\ SolversOK' /\ FiringsOK'
      /\ waiting' \in Seq(Inputs) /\ got' = inputs /\ running' \in BOOLEAN
      /\ UNCHANGED <<registry, solvers, mode, raw>>
      /\ \A f \in Functions : Pending(f, waiting') = Pending(f, left) + Promised(f, fired')
      /\ Len(inputs) = 1 /\ inputs[1].unit.does \in Functions
           /\ IgnoresFunctions(solvers[mode]) => stacks' = stacks
  BY DEF Returns
<1>2. HubTypeOK'
  <2>1. \A m \in Modes : stacks'[m] \in [1..Len(solvers'[m]) -> Seq(Entry)]
    BY <1>1, TypesFollowNext
  <2>2. registry \in [Modes -> Registries] /\ mode \in Modes /\ raw \in Units
    BY DEF HubIInv, HubTypeOK
  <2> QED
    BY <1>1, <2>1, <2>2 DEF HubTypeOK
<1>3. CountsStep
  <2> SUFFICES ASSUME NEW f \in Functions
               PROVE  Pending(f, waiting') + Pending(f, OutOf(waiting, inputs)) =
                        Pending(f, waiting) + Promised(f, fired')
    BY <1>1 DEF CountsStep
  <2> DEFINE a == Pending(f, left)
             b == Pending(f, OutOf(waiting, inputs))
             c == Promised(f, fired')
  <2>1. a \in Nat /\ b \in Nat
    BY PendingOfBoth
  <2>2. c \in Nat
    <3>1. fired' \in Seq(Firings)
      BY <1>1 DEF FiringsOK
    <3> QED
      BY <3>1, PromisedType
  <2>3. Pending(f, waiting') = a + c /\ Pending(f, waiting) = a + b
    BY <1>1
  <2> HIDE DEF a, b, c
  <2>4. Pending(f, waiting') + b = Pending(f, waiting) + c
    BY <2>1, <2>2, <2>3
  <2> QED
    BY <2>4 DEF b, c
<1>4. TraceStep
  BY <1>1 DEF TraceStep
<1> QED
  BY <1>1, <1>2, <1>3, <1>4 DEF HubStep, HubIInv

(* A step that returns nothing and leaves the queue alone                  *)
LEMMA QuietStep ==
  ASSUME HubIInv, got' = <<>>, fired' = <<>>, waiting' = waiting
  PROVE  CountsStep /\ TraceStep /\ FiringsOK'
<1>1. FiringsOK'
  BY NothingFiredNext
<1>2. TraceStep
  BY DEF TraceStep
<1>3. CountsStep
  <2> SUFFICES ASSUME NEW f \in Functions
               PROVE  Pending(f, waiting) + Pending(f, OutOf(waiting, <<>>)) =
                        Pending(f, waiting) + Promised(f, <<>>)
    BY DEF CountsStep
  <2>1. waiting \in Seq(Inputs) /\ <<>> \in Seq(Inputs)
    BY DEF HubIInv, HubTypeOK
  <2>2. OutOf(waiting, <<>>) = <<>>
    BY <2>1, OutOfQueue
  <2>3. Pending(f, <<>>) = 0 /\ Promised(f, <<>>) = 0
    BY NothingPending
  <2> QED
    BY <2>2, <2>3
<1> QED
  BY <1>1, <1>2, <1>3

(* ... and changes nothing of the solvers                                  *)
LEMMA UnchangedSolvers ==
  ASSUME SolversOK, UNCHANGED mappings
  PROVE  SolversOK'
  BY DEF SolversOK, mappings

LEMMA AsideStep ==
  ASSUME HubIInv, got' = <<>>, fired' = <<>>, UNCHANGED <<mappings, waiting>>,
         mode' \in Modes, raw' \in Units, prev' \in Units, count' \in Seq(0..9),
         typing' \in Seq(Inputs), running' \in BOOLEAN
  PROVE  HubStep
<1>1. CountsStep /\ TraceStep /\ FiringsOK'
  BY QuietStep
<1>2. SolversOK'
  BY UnchangedSolvers DEF HubIInv
<1>3. HubTypeOK'
  <2>1. \A m \in Modes : stacks'[m] \in [1..Len(solvers'[m]) -> Seq(Entry)]
    BY <1>2, TypesFollowNext
  <2>2. registry \in [Modes -> Registries] /\ waiting \in Seq(Inputs) /\ <<>> \in Seq(Inputs)
    BY DEF HubIInv, HubTypeOK
  <2> QED
    BY <2>1, <2>2 DEF HubTypeOK, mappings
<1> QED
  BY <1>1, <1>2, <1>3 DEF HubStep, HubIInv

(* get_typed_input()                                                       *)
LEMMA GetTypedInputStep ==
  ASSUME HubIInv, NEW passed, NEW mapped \in BOOLEAN, NEW parseCount,
         waiting = <<>>, typing = <<>>, running, GetTypedInput(passed, mapped, parseCount)
  PROVE  HubStep
<1> DEFINE answer == Typed(raw, prev, passed)
           digits == IF parseCount /\ ~IsMatchingAny(stacks[mode])
                     THEN NewDigits(UnitOf(answer)) ELSE <<>>
<1>1. /\ raw \in Units /\ prev \in Units /\ count \in Seq(0..9) /\ mode \in Modes
      /\ waiting \in Seq(Inputs) /\ typing \in Seq(Inputs)
  BY DEF HubIInv, HubTypeOK
<1>2. answer # Nothing => UnitOf(answer) \in Units \ {{}}
  BY <1>1, TypedIsUnit
<1>3. prev' = raw /\ prev' \in Units
  BY <1>1 DEF GetTypedInput
<1>4. ASSUME TypeNothing, count' \in Seq(0..9)
      PROVE  HubStep
  <2>1. got' = <<>> /\ fired' = <<>> /\ UNCHANGED <<mappings, waiting, typing, mode, raw, running>>
    BY <1>4 DEF TypeNothing, queues
  <2> QED
    BY <1>1, <1>3, <1>4, <2>1, AsideStep
<1>5. CASE answer = Nothing /\ TypeNothing /\ UNCHANGED count
  BY <1>1, <1>4, <1>5
<1>6. CASE answer # Nothing /\ digits # <<>> /\ TypeDigits(digits)
  <2>1. digits \in Seq(0..9)
    <3> DEFINE u == UnitOf(answer)
    <3>1. DigitsOf[u] \in Seq(0..9)
      BY <1>2, <1>6, HubAssumption
    <3> HIDE DEF u
    <3>2. Among(DigitsOf[u], 1..9) \in Seq(0..9)
      BY <3>1, AmongType, Zenon
    <3>3. NewDigits(u) \in Seq(0..9)
      BY <3>1, <3>2 DEF NewDigits
    <3> QED
      BY <3>3 DEF u
  <2> HIDE DEF digits
  <2>2. count' \in Seq(0..9) /\ TypeNothing
    BY <1>1, <1>6, <2>1 DEF TypeDigits
  <2> QED
    BY <1>4, <2>2
<1>7. CASE CountTooLong
  <2>1. /\ got' = <<>> /\ fired' = <<>> /\ running' = FALSE
        /\ UNCHANGED <<mappings, waiting, typing, mode, raw, count>>
    BY <1>7 DEF CountTooLong, queues
  <2> QED
    BY <1>1, <1>3, <2>1, AsideStep
<1>8. CASE answer # Nothing /\ TypeUnit(UnitOf(answer), mapped)
  <2> DEFINE e == Input(Typeable(UnitOf(answer)), CountOf(count))
  <2>1. count' = <<>> /\ Return(<<e>>, <<>>, mapped) /\ typing' = typing
    BY <1>8 DEF TypeUnit
  <2>2. <<e>> \in Seq(Inputs) /\ <<>> \in Seq(Inputs)
    BY <1>1, <1>2, <1>8, CountType, TypeableIsInput
  <2> HIDE DEF e
  <2> DEFINE inputs == <<e>>
             left == <<>>
  <2>3. inputs \in Seq(Inputs) /\ left \in Seq(Inputs) /\ Return(inputs, left, mapped)
    BY <2>1, <2>2
  <2>4. OutOf(waiting, inputs) = <<>>
    BY <1>1, <2>2, OutOfQueue
  <2>5. \A f \in Functions : Pending(f, left) + Pending(f, OutOf(waiting, inputs)) = Pending(f, waiting)
    BY <2>4, NothingPending
  <2>6. OutOf(waiting, inputs) \in Seq(Inputs)
    BY <2>2, <2>4
  <2>7. count' \in Seq(0..9) /\ typing' \in Seq(Inputs)
    BY <1>1, <2>1
  <2> HIDE DEF inputs, left
  <2>8. Returns(inputs, left)
    BY <2>3, FetchedReturns, PulledReturns
  <2> QED
    BY <1>3, <2>3, <2>5, <2>6, <2>7, <2>8, ReturnsStep
<1> QED
  BY <1>5, <1>6, <1>7, <1>8 DEF GetTypedInput

(* fetch_input() and pull_input()                                          *)
LEMMA FetchInputStep ==
  ASSUME HubIInv, NEW passed, NEW mapped \in BOOLEAN, NEW parseCount,
         FetchInput(passed, mapped, parseCount)
  PROVE  HubStep
<1>1. /\ prev \in Units /\ count \in Seq(0..9) /\ running
      /\ waiting \in Seq(Inputs) /\ typing \in Seq(Inputs) /\ <<>> \in Seq(Inputs)
  BY DEF FetchInput, HubIInv, HubTypeOK
<1>2. CASE /\ waiting # <<>>
           /\ Return(<<Head(waiting)>>, Dequeued(waiting), mapped)
           /\ UNCHANGED <<typing, prev, count>>
  <2> DEFINE inputs == <<Head(waiting)>>
             left == Tail(waiting)
  <2>1. /\ inputs \in Seq(Inputs) /\ left \in Seq(Inputs) /\ waiting = inputs \o left
    BY <1>1, <1>2
  <2>2. Return(inputs, left, mapped)
    BY <1>2 DEF Dequeued
  <2>3. OutOf(waiting, inputs) = inputs
    BY <1>1, <1>2, OutOfQueue
  <2> HIDE DEF inputs, left
  <2>4. \A f \in Functions : Pending(f, left) + Pending(f, OutOf(waiting, inputs)) = Pending(f, waiting)
    <3> SUFFICES ASSUME NEW f \in Functions
                 PROVE  Pending(f, left) + Pending(f, inputs) = Pending(f, waiting)
      BY <2>3
    <3>1. /\ Pending(f, inputs \o left) = Pending(f, inputs) + Pending(f, left)
          /\ Pending(f, inputs) \in Nat /\ Pending(f, left) \in Nat
      BY <2>1, PendingOfBoth
    <3> QED
      BY <2>1, <3>1
  <2>5. Returns(inputs, left)
    BY <2>1, <2>2, FetchedReturns, PulledReturns
  <2>6. prev' \in Units /\ count' \in Seq(0..9) /\ typing' \in Seq(Inputs)
    BY <1>1, <1>2
  <2>7. OutOf(waiting, inputs) \in Seq(Inputs)
    BY <2>1, <2>3
  <2> QED
    BY <2>1, <2>4, <2>5, <2>6, <2>7, ReturnsStep
<1>3. CASE /\ waiting = <<>> /\ typing # <<>>
           /\ Return(<<Head(typing)>>, <<>>, mapped)
           /\ typing' = Dequeued(typing)
           /\ UNCHANGED <<prev, count>>
  <2> DEFINE inputs == <<Head(typing)>>
             left == <<>>
  <2>1. inputs \in Seq(Inputs) /\ left \in Seq(Inputs) /\ Tail(typing) \in Seq(Inputs)
    BY <1>1, <1>3
  <2>2. Return(inputs, left, mapped)
    BY <1>3
  <2> HIDE DEF inputs
  <2>3. OutOf(waiting, inputs) = <<>>
    BY <1>1, <1>3, <2>1, OutOfQueue
  <2>4. \A f \in Functions : Pending(f, left) + Pending(f, OutOf(waiting, inputs)) = Pending(f, waiting)
    BY <1>3, <2>3, NothingPending
  <2>5. prev' \in Units /\ count' \in Seq(0..9) /\ typing' \in Seq(Inputs)
    BY <1>1, <1>3, <2>1 DEF Dequeued
  <2>6. OutOf(waiting, inputs) \in Seq(Inputs)
    BY <1>1, <2>3
  <2> HIDE DEF left
  <2>7. Returns(inputs, left)
    BY <2>1, <2>2, FetchedReturns, PulledReturns
  <2> QED
    BY <2>1, <2>4, <2>5, <2>6, <2>7, ReturnsStep
<1>4. CASE waiting = <<>> /\ typing = <<>> /\ GetTypedInput(passed, mapped, parseCount)
  BY <1>1, <1>4, GetTypedInputStep
<1> QED
  BY <1>2, <1>3, <1>4 DEF FetchInput

(* pull_all_inputs()                                                       *)
LEMMA PullAllInputsStep ==
  ASSUME HubIInv, NEW passed, PullAllInputs(passed)
  PROVE  HubStep
<1>1. /\ prev \in Units /\ count \in Seq(0..9) /\ running
      /\ waiting \in Seq(Inputs) /\ typing \in Seq(Inputs) /\ <<>> \in Seq(Inputs)
  BY DEF PullAllInputs, HubIInv, HubTypeOK
<1>2. CASE /\ waiting \o typing # <<>>
           /\ Return(waiting \o typing, <<>>, TRUE)
           /\ typing' = <<>>
           /\ UNCHANGED <<prev, count>>
  <2> DEFINE inputs == waiting \o typing
             left == <<>>
  <2>1. inputs \in Seq(Inputs) /\ left \in Seq(Inputs)
    BY <1>1
  <2>2. Return(inputs, left, TRUE)
    BY <1>2
  <2>3. OutOf(waiting, inputs) = waiting
    BY <1>1, OutOfQueue
  <2> HIDE DEF inputs
  <2>4. \A f \in Functions : Pending(f, left) + Pending(f, OutOf(waiting, inputs)) = Pending(f, waiting)
    <3> SUFFICES ASSUME NEW f \in Functions
                 PROVE  Pending(f, <<>>) + Pending(f, waiting) = Pending(f, waiting)
      BY <2>3
    <3>1. Pending(f, <<>>) = 0 /\ Pending(f, waiting) \in Nat
      BY <1>1, NothingPending, PendingOfBoth
    <3> QED
      BY <3>1
  <2>5. prev' \in Units /\ count' \in Seq(0..9) /\ typing' \in Seq(Inputs)
    BY <1>1, <1>2
  <2>6. OutOf(waiting, inputs) \in Seq(Inputs)
    BY <1>1, <2>3
  <2> HIDE DEF left
  <2>7. Returns(inputs, left)
    BY <2>1, <2>2, PulledReturns
  <2> QED
    BY <2>1, <2>4, <2>5, <2>6, <2>7, ReturnsStep
<1>3. CASE waiting \o typing = <<>> /\ GetTypedInput(passed, TRUE, TRUE)
  <2>1. waiting = <<>> /\ typing = <<>>
    BY <1>1, <1>3
  <2> QED
    BY <1>1, <1>3, <2>1, GetTypedInputStep
<1> QED
  BY <1>2, <1>3 DEF PullAllInputs

(* do_typing() of a request                                                *)
LEMMA DoTypingStep ==
  ASSUME HubIInv, NEW request \in Requests, DoTyping(request)
  PROVE  HubStep
<1>1. /\ raw \in Units /\ prev \in Units /\ count \in Seq(0..9) /\ mode \in Modes
  BY DEF HubIInv, HubTypeOK
<1> DEFINE units == Typeables(request)
<1>2. units \in Seq(TargetUnit)
  <2>1. request \in Seq(TargetUnit)
    BY HubAssumption
  <2> QED
    BY <2>1, AmongType, Zenon DEF Typeables
<1>3. /\ got' = <<>> /\ fired' = <<>> /\ running'  \in BOOLEAN
      /\ typing' = [i \in DOMAIN units |-> Input(units[i], 1)]
      /\ UNCHANGED <<mappings, mode, raw, prev, count, waiting>>
  BY DEF DoTyping
<1> HIDE DEF units
<1>4. Len(units) \in Nat /\ DOMAIN units = 1..Len(units)
      /\ \A i \in 1..Len(units) : units[i] \in TargetUnit
  BY <1>2
<1>5. \A i \in 1..Len(units) : Input(units[i], 1) \in Inputs
  BY <1>4, IsInput, OneIsCount
<1>6. typing' \in Seq(Inputs)
  BY <1>3, <1>4, <1>5
<1> QED
  BY <1>1, <1>3, <1>6, AsideStep

(* apply_mapping() after a map command: every matcher begins anew.         *)
LEMMA ApplyMappingStep ==
  ASSUME HubIInv, NEW m \in Modes, NEW r \in Registries, ApplyMapping(m, r)
  PROVE  HubStep
<1>1. /\ registry \in [Modes -> Registries] /\ mode \in Modes
      /\ raw \in Units /\ prev \in Units /\ count \in Seq(0..9) /\ running
      /\ waiting \in Seq(Inputs) /\ typing \in Seq(Inputs) /\ <<>> \in Seq(Inputs)
      /\ solvers = [i \in Modes |-> Deployment[registry[i]]]
  BY DEF ApplyMapping, HubIInv, HubTypeOK, SolversOK
<1>2. /\ got' = <<>> /\ fired' = <<>> /\ waiting' = waiting
      /\ registry' = [registry EXCEPT ![m] = r]
      /\ solvers' = [solvers EXCEPT ![m] = Deployment[r]]
      /\ stacks' = [i \in Modes |-> Fresh(solvers'[i])]
      /\ line' = [i \in Modes |-> <<>>]
      /\ UNCHANGED <<mode, raw, prev, count, typing, running>>
  BY DEF ApplyMapping, queues
<1>3. CountsStep /\ TraceStep /\ FiringsOK'
  BY <1>2, QuietStep
<1>4. SolversOK'
  <2>1. solvers' = [i \in Modes |-> Deployment[registry'[i]]]
    BY <1>1, <1>2
  <2>2. stacks' = [i \in Modes |-> stacks'[i]]
    BY <1>2
  <2>3. line' \in [Modes -> Seq(Units)]
    <3>1. <<>> \in Seq(Units)
      OBVIOUS
    <3> QED
      BY <1>2, <3>1
  <2>4. ASSUME NEW i \in Modes
        PROVE  AllRemember(solvers'[i], stacks'[i], line'[i])
    <3>1. stacks'[i] = Fresh(solvers'[i]) /\ line'[i] = <<>>
      BY <1>2, Zenon
    <3>2. AllRemember(solvers'[i], Fresh(solvers'[i]), <<>>)
      BY FreshRemembers
    <3> QED
      BY <3>1, <3>2, Zenon
  <2> QED
    BY <2>1, <2>2, <2>3, <2>4 DEF SolversOK
<1>5. HubTypeOK'
  <2>1. \A i \in Modes : stacks'[i] \in [1..Len(solvers'[i]) -> Seq(Entry)]
    BY <1>4, TypesFollowNext
  <2>2. registry' \in [Modes -> Registries]
    BY <1>1, <1>2
  <2> QED
    BY <1>1, <1>2, <2>1, <2>2 DEF HubTypeOK
<1> QED
  BY <1>3, <1>4, <1>5 DEF HubStep, HubIInv

LEMMA ChangeModeStep ==
  ASSUME HubIInv, NEW m \in Modes, ChangeMode(m)
  PROVE  HubStep
  BY AsideStep DEF ChangeMode, queues, HubIInv, HubTypeOK

LEMMA KeyboardStep ==
  ASSUME HubIInv, Keyboard
  PROVE  HubStep
<1>1. Raws \subseteq Units
  BY HubAssumption
<1> QED
  BY <1>1, AsideStep DEF Keyboard, queues, HubIInv, HubTypeOK

LEMMA HubNextStep == HubIInv /\ HubNext => HubStep
<1> SUFFICES ASSUME HubIInv, HubNext
             PROVE  HubStep
  OBVIOUS
<1>1. ASSUME NEW passed \in BOOLEAN, PullInput(passed)
      PROVE  HubStep
  BY <1>1, FetchInputStep DEF PullInput
<1>2. ASSUME NEW passed \in BOOLEAN, NEW parseCount \in BOOLEAN,
             FetchInput(passed, FALSE, parseCount)
      PROVE  HubStep
  BY <1>2, FetchInputStep
<1>3. ASSUME NEW passed \in BOOLEAN, PullAllInputs(passed)
      PROVE  HubStep
  BY <1>3, PullAllInputsStep
<1>4. ASSUME NEW request \in Requests, DoTyping(request)
      PROVE  HubStep
  BY <1>4, DoTypingStep
<1>5. ASSUME NEW m \in Modes, NEW r \in Registries, ApplyMapping(m, r)
      PROVE  HubStep
  BY <1>5, ApplyMappingStep
<1>6. ASSUME NEW m \in Modes, ChangeMode(m)
      PROVE  HubStep
  BY <1>6, ChangeModeStep
<1>7. CASE Keyboard
  BY <1>7, KeyboardStep
<1> QED
  BY <1>1, <1>2, <1>3, <1>4, <1>5, <1>6, <1>7 DEF HubNext, Pull

LEMMA HubStutters == HubIInv /\ UNCHANGED hubVars => HubIInv'
<1> SUFFICES ASSUME HubIInv, UNCHANGED hubVars
             PROVE  HubIInv'
  OBVIOUS
<1>1. UNCHANGED <<mappings, mode, raw, prev, count, typing, waiting, got, running, fired>>
  BY DEF hubVars, queues
<1>2. SolversOK'
  BY <1>1, UnchangedSolvers DEF HubIInv
<1>3. HubTypeOK'
  BY <1>1 DEF HubIInv, HubTypeOK, mappings
<1>4. FiringsOK'
  BY <1>1 DEF HubIInv, FiringsOK, FiresWhatIsSpelled, mappings
<1> QED
  BY <1>2, <1>3, <1>4 DEF HubIInv

LEMMA HubInvariant == HubSpec => []HubIInv
<1>1. HubIInv /\ [HubNext]_hubVars => HubIInv'
  BY HubNextStep, HubStutters DEF HubStep
<1> QED
  BY <1>1, HubInitInvariant, PTL DEF HubSpec

(* Every map that a pull expands is the first one of its table whose       *)
(* trigger is spelled by what the solver was given since it began anew,    *)
(* the targets that it was moved on by among it; and what is queued and    *)
(* counted keeps its width (enqueue_mapped, map_command_from): for any     *)
(* registries, requests and interleaving of modes.                         *)
THEOREM MapsFireInTurnAlways == HubSpec => []MapsFireInTurn
  BY HubInvariant, HubInvariantImplies, PTL

(* A bound function that passes through the queues leaves the matchers of  *)
(* a table that has no <any> and no <num> in its triggers as they were     *)
(* (the unwinding in map_command_from).                                    *)
THEOREM FunctionsLeaveNoTraceAlways == HubSpec => FunctionsLeaveNoTrace
<1>1. HubIInv /\ HubNext => TraceStep
  BY HubNextStep DEF HubStep
<1>2. HubIInv /\ [HubNext]_hubVars => [TraceStep]_hubVars
  BY <1>1
<1>3. FunctionsLeaveNoTrace <=> [][TraceStep]_hubVars
  BY PTL DEF FunctionsLeaveNoTrace, TraceStep
<1> QED
  BY <1>2, <1>3, HubInvariant, PTL DEF HubSpec

(* Whatever is pulled in whatever way, a function is due exactly as often  *)
(* as the inputs ask for: an expansion adds it count times for each time   *)
(* it occurs, and what is returned leaves the queue once (enqueue_mapped). *)
THEOREM CountsAreExactAlways == HubSpec => CountsAreExact
<1>1. HubIInv /\ HubNext => CountsStep
  BY HubNextStep DEF HubStep
<1>2. HubIInv /\ [HubNext]_hubVars => [CountsStep]_hubVars
  BY <1>1
<1>3. CountsAreExact <=> [][CountsStep]_hubVars
  BY PTL DEF CountsAreExact, CountsStep
<1> QED
  BY <1>2, <1>3, HubInvariant, PTL DEF HubSpec

=============================================================================
