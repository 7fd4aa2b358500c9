-------------------------- MODULE CommandLineProofs --------------------------
(***************************************************************************)
(* Proofs about CommandLine: for every table of commands, every alphabet   *)
(* of inputs and a history of any length, a line that is entered is        *)
(* executed as it reads, and the shared entries of the history behave like *)
(* lines that are copied.                                                  *)
(***************************************************************************)
EXTENDS CommandLine, MatchingProofs, FiniteSetTheorems

-----------------------------------------------------------------------------
(* The tables of the instance.                                             *)

LEMMA TableProperties ==
  ASSUME NEW t \in Tables
  PROVE  /\ t \in Seq(Map)
         /\ IsTable(t)
         /\ \A i \in 1..Len(t) :
              t[i].target \in Seq(TargetUnit) /\ ~HasInnerNum(t[i].trigger)
<1>1. t \in Seq(Map) /\ \A i \in 1..Len(t) : ~HasInnerNum(t[i].trigger)
  BY LineAssumption
<1>2. Len(t) \in Nat /\ \A i \in 1..Len(t) : t[i] \in Map
  BY <1>1, ElementOfSeq, LenProperties
<1>3. \A i \in 1..Len(t) : t[i].trigger \in Seq(Units) /\ t[i].target \in Seq(TargetUnit)
  BY <1>2 DEF Map
<1> QED
  BY <1>1, <1>2, <1>3 DEF IsTable

(* Without a <num> inside a trigger, every update returns.                 *)
LEMMA NeverDiverges ==
  ASSUME NEW t \in Tables, NEW ss \in StacksOf(t), NEW u
  PROVE  ~SolverDiverges(t, ss, u)
<1> SUFFICES ASSUME NEW i \in 1..Len(t),
                    StepOf(t[i].trigger, Top(ss[i]), u).state = Diverges
             PROVE  FALSE
  BY DEF SolverDiverges
<1> DEFINE c == t[i].trigger
           e == Top(ss[i])
<1>1. c \in Seq(Units) /\ ~HasInnerNum(c)
  BY TableProperties DEF IsTable
<1>2. e \in Entry
  BY TopType DEF StacksOf
<1> HIDE DEF c, e
<1>3. e.head + 1 \in 1..(Len(c) - 1) /\ IsNum(c[e.head + 1])
  <2>1. StepOf(c, e, u).state = Diverges
    BY DEF c, e
  <2> QED
    BY <1>1, <1>2, <2>1, DivergesAtNumber
<1> QED
  BY <1>1, <1>3 DEF HasInnerNum

LEMMA MapCommandType ==
  ASSUME NEW t \in Tables, NEW ss \in StacksOf(t), NEW u, NEW autoReset \in BOOLEAN
  PROVE  LET r == MapCommandFrom(t, ss, u, autoReset)
         IN  r.stacks \in StacksOf(t) /\ r.fired \in 0..Len(t)
<1> DEFINE up  == Updated(t, ss, u)
           old == [i \in 1..Len(t) |-> Backward(up[i], 1)]
           new == IF autoReset THEN Fresh(t) ELSE up
           ch  == Chosen(up, u)
           r   == MapCommandFrom(t, ss, u, autoReset)
<1>1. Len(t) \in Nat
  BY TableProperties DEF IsTable
<1>2. up \in StacksOf(t) /\ old \in StacksOf(t)
  BY TableProperties, NeverDiverges, UpdatedType
<1>3. new \in StacksOf(t)
  BY <1>2 DEF Fresh, StacksOf
<1>4. DOMAIN up = 1..Len(t)
  BY DEF Updated
<1>5. r = CASE AllRejected(up) /\ IsSystemOnly(u) -> [stacks |-> old, fired |-> 0]
            [] AllRejected(up) /\ ~IsSystemOnly(u) -> [stacks |-> new, fired |-> 0]
            [] ~AllRejected(up) /\ ch = 0 -> [stacks |-> up, fired |-> 0]
            [] ~AllRejected(up) /\ ch # 0 -> [stacks |-> new, fired |-> ch]
  BY DEF MapCommandFrom
<1> HIDE DEF up, old, new, ch, r
<1>6. ch \in 0..Len(t)
  BY <1>1, <1>4, ChosenIsFirst DEF ch
<1>7. 0 \in 0..Len(t)
  BY <1>1
<1>8. r.stacks \in StacksOf(t) /\ r.fired \in 0..Len(t)
  BY <1>2, <1>3, <1>5, <1>6, <1>7
<1> QED
  BY <1>8 DEF r

-----------------------------------------------------------------------------
(* Functions and characters.                                               *)

LEMMA FunctionsOfType ==
  ASSUME maps \in Tables, NEW found \in 0..Len(maps)
  PROVE  FunctionsOf(found) \in Seq(Functions)
<1>1. CASE found = 0
  BY <1>1 DEF FunctionsOf
<1>2. CASE found # 0
  <2> DEFINE target == maps[found].target
             bound  == {x \in TargetUnit : x.keys = {}}
             calls  == Among(target, bound)
  <2>1. target \in Seq(TargetUnit)
    <3>1. found \in 1..Len(maps)
      BY <1>2, TableProperties DEF IsTable
    <3> QED
      BY <3>1, TableProperties
  <2>2. \A x \in TargetUnit \cap bound : x.does \in Functions
    BY DEF TargetUnit
  <2>3. FunctionsOf(found) = [i \in 1..Len(calls) |-> calls[i].does]
    BY <1>2 DEF FunctionsOf
  <2> HIDE DEF bound, target
  <2>4. calls \in Seq(TargetUnit \cap bound)
    BY <2>1, AmongType
  <2> HIDE DEF calls
  <2>5. Len(calls) \in Nat /\ \A i \in 1..Len(calls) : calls[i] \in TargetUnit \cap bound
    BY <2>4, ElementOfSeq, LenProperties
  <2>6. \A i \in 1..Len(calls) : calls[i].does \in Functions
    BY <2>2, <2>5
  <2> QED
    BY <2>3, <2>5, <2>6, IsASeq
<1> QED
  BY <1>1, <1>2

LEMMA PrintablesType ==
  ASSUME maps \in Tables, NEW u \in Units, NEW fired \in 0..Len(maps)
  PROVE  Printables(u, fired) \in Seq(Units)
<1>1. CASE fired = 0
  BY <1>1 DEF Printables
<1>2. CASE fired # 0
  <2> DEFINE target == maps[fired].target
             shown  == Among(KeysOf(target), Units \ {{}})
  <2>1. target \in Seq(TargetUnit)
    <3>1. fired \in 1..Len(maps)
      BY <1>2, TableProperties DEF IsTable
    <3> QED
      BY <3>1, TableProperties
  <2>2. \A x \in TargetUnit : x.keys \in Units
    BY DEF TargetUnit, Units
  <2>3. Printables(u, fired) = IF shown = <<>> THEN <<u>> ELSE shown
    BY <1>2 DEF Printables
  <2> HIDE DEF target
  <2>4. Len(target) \in Nat /\ \A i \in 1..Len(target) : target[i].keys \in Units
    BY <2>1, <2>2, ElementOfSeq, LenProperties
  <2>5. KeysOf(target) \in Seq(Units)
    BY <2>4, IsASeq DEF KeysOf
  <2>6. shown \in Seq(Units)
    BY <2>5, AmongType
  <2> HIDE DEF shown
  <2> QED
    BY <2>3, <2>6
<1> QED
  BY <1>1, <1>2

-----------------------------------------------------------------------------
(* The units of a line, one after the other.                               *)

FlattenFun(lines, f) ==
  f = [i \in 1..Len(lines) |-> IF i = 1 THEN lines[i] ELSE f[i - 1] \o lines[i]]

LEMMA FlattenType ==
  ASSUME NEW T, NEW lines \in Seq(Seq(T))
  PROVE  FlattenSeq(lines) \in Seq(T)
<1> DEFINE N    == Len(lines)
           S    == Seq(T)
           step == [n \in 1..(N - 1) |-> [k \in S |-> k \o lines[n + 1]]]
           flat == CHOOSE f : FlattenFun(lines, f)
<1>1. N \in Nat /\ \A i \in 1..N : lines[i] \in S
  BY ElementOfSeq, LenProperties
<1>2. CASE N = 0
  BY <1>1, <1>2, EmptySeq DEF FlattenSeq
<1>3. CASE N # 0
  <2>1. N - 1 \in Nat /\ 1 \in 1..N /\ \A n \in 1..(N - 1) : n + 1 \in 1..N
    BY <1>1, <1>3
  <2>2. step \in [1..(N - 1) -> [S -> S]]
    BY <1>1, <2>1
  <2>3. \A n \in 1..(N - 1) : \A k \in S : step[n][k] = k \o lines[n + 1]
    OBVIOUS
  <2> HIDE DEF step, S
  <2>4. PICK g : Recursive(g, N - 1, S, lines[1], step)
    BY <1>1, <2>1, <2>2, RecursionUpTo
  <2> DEFINE f0 == [i \in 1..N |-> g[i - 1]]
  <2>5. FlattenFun(lines, f0)
    <3>1. ASSUME NEW i \in 1..N
          PROVE  f0[i] = IF i = 1 THEN lines[i] ELSE f0[i - 1] \o lines[i]
      <4>1. CASE i = 1
        BY <2>4, <4>1 DEF Recursive
      <4>2. CASE i # 1
        <5>1. i - 1 \in 1..(N - 1) /\ i - 1 \in 1..N /\ i - 1 + 1 = i /\ i - 1 - 1 \in 0..(N - 1)
          BY <1>1, <4>2
        <5>2. g[i - 1] = step[i - 1][g[i - 1 - 1]] /\ g[i - 1 - 1] \in S
          BY <2>4, <5>1 DEF Recursive
        <5>3. g[i - 1] = g[i - 1 - 1] \o lines[i]
          BY <2>3, <5>1, <5>2
        <5> QED
          BY <4>2, <5>1, <5>3
      <4> QED
        BY <4>1, <4>2
    <3> QED
      BY <3>1 DEF FlattenFun
  <2> HIDE DEF f0
  <2>6. FlattenFun(lines, flat)
    BY <2>5
  <2>7. ASSUME NEW i \in 1..N
         PROVE  flat[i] = IF i = 1 THEN lines[i] ELSE flat[i - 1] \o lines[i]
    <3> HIDE DEF flat
    <3> QED
      BY <2>6, Zenon DEF FlattenFun, N
  <2>8. FlattenSeq(lines) = flat[N]
    BY <1>3 DEF FlattenSeq, FlattenFun
  <2> HIDE DEF flat
  <2> DEFINE h == [n \in 0..(N - 1) |-> flat[n + 1]]
  <2>9. Follows(h, N - 1, S, lines[1], step)
    <3>1. h[0] = lines[1]
      BY <2>1, <2>7
    <3>2. ASSUME NEW n \in 1..(N - 1), h[n - 1] \in S
          PROVE  h[n] = step[n][h[n - 1]]
      <4>1. n + 1 \in 1..N /\ n + 1 # 1 /\ n + 1 - 1 = n /\ n - 1 \in 0..(N - 1) /\ n \in 0..(N - 1)
        BY <2>1
      <4>2. flat[n + 1] = flat[n] \o lines[n + 1]
        <5>1. PICK i \in 1..N : i = n + 1 /\ i # 1 /\ i - 1 = n
          BY <4>1
        <5>2. flat[i] = IF i = 1 THEN lines[i] ELSE flat[i - 1] \o lines[i]
          BY <2>7, Zenon
        <5>3. flat[i] = flat[n] \o lines[i]
          BY <5>1, <5>2, Zenon
        <5> QED
          BY <5>1, <5>3, Zenon
      <4>3. h[n] = flat[n + 1] /\ h[n - 1] = flat[n]
        BY <4>1
      <4> QED
        BY <2>3, <3>2, <4>2, <4>3
    <3> QED
      BY <3>1, <3>2 DEF Follows
  <2>10. \A n \in 0..(N - 1) : h[n] \in S
    <3> HIDE DEF h
    <3> QED
      BY <1>1, <2>1, <2>2, <2>9, FollowsType
  <2>11. N - 1 \in 0..(N - 1) /\ h[N - 1] = flat[N]
    BY <2>1
  <2> QED
    BY <2>8, <2>10, <2>11 DEF S
<1> QED
  BY <1>2, <1>3

-----------------------------------------------------------------------------
(* What the matchers have heard after a word is what the word says.        *)

Ends(w) == {k \in 1..Len(w) : w[k] # {} /\ SpelledAt(w, k) # {}}

IsHeard(w, f) ==
  \/ Ends(w) = {} /\ f = 0
  \/ \E k \in Ends(w) :
       /\ \A j \in Ends(w) : j <= k
       /\ f \in SpelledAt(w, k)
       /\ \A i \in SpelledAt(w, k) : f <= i

LEMMA SpelledBefore ==
  ASSUME NEW I, NEW w \in Seq(I), NEW u \in I, NEW k \in 0..Len(w)
  PROVE  SpelledAt(Append(w, u), k) = SpelledAt(w, k)
<1> DEFINE w2 == Append(w, u)
<1>1. \A j \in 1..k : w2[j] = w[j]
  OBVIOUS
<1>2. \A j \in 1..(k - 1) : w2[j + 1] = w[j + 1]
  OBVIOUS
<1> HIDE DEF w2
<1>3. \A c : \A p : Spelling(c, w2, k, p) <=> Spelling(c, w, k, p)
  BY <1>1, <1>2 DEF Spelling
<1>4. \A c : Spells(c, w2, k) <=> Spells(c, w, k)
  BY <1>3 DEF Spells
<1> QED
  BY <1>4 DEF SpelledAt, w2

LEMMA EndsOfAppend ==
  ASSUME NEW I, NEW w \in Seq(I), NEW u \in I
  PROVE  LET w2 == Append(w, u)
             m  == Len(w) + 1
         IN  /\ u # {} /\ SpelledAt(w2, m) # {} => Ends(w2) = Ends(w) \cup {m}
             /\ u = {} \/ SpelledAt(w2, m) = {} => Ends(w2) = Ends(w)
<1> DEFINE w2 == Append(w, u)
           m  == Len(w) + 1
<1>1. Len(w) \in Nat /\ Len(w2) = m /\ w2[m] = u /\ \A k \in 1..Len(w) : w2[k] = w[k]
  OBVIOUS
<1>2. \A k \in 1..Len(w) : SpelledAt(w2, k) = SpelledAt(w, k)
  BY SpelledBefore
<1>3. 1..Len(w2) = (1..Len(w)) \cup {m} /\ m \notin 1..Len(w)
  BY <1>1
<1> HIDE DEF w2, m
<1>4. \A k \in 1..Len(w2) :
        k \in Ends(w2) <=> \/ k \in Ends(w)
                           \/ k = m /\ u # {} /\ SpelledAt(w2, m) # {}
  BY <1>1, <1>2, <1>3 DEF Ends
<1>5. Ends(w2) \subseteq 1..Len(w2) /\ Ends(w) \subseteq 1..Len(w2) /\ m \in 1..Len(w2)
  BY <1>3 DEF Ends
<1> QED
  BY <1>4, <1>5 DEF w2, m

LEMMA HeardBefore ==
  ASSUME NEW I, NEW w \in Seq(I), NEW u \in I, NEW f, IsHeard(w, f),
         Ends(Append(w, u)) = Ends(w)
  PROVE  IsHeard(Append(w, u), f)
<1>1. Ends(w) \subseteq 1..Len(w)
  BY DEF Ends
<1>2. \A k \in Ends(w) : SpelledAt(Append(w, u), k) = SpelledAt(w, k)
  BY <1>1, SpelledBefore
<1> QED
  BY <1>2 DEF IsHeard

(* One more unit                                                           *)
LEMMA LookHears ==
  ASSUME maps \in Tables, NEW w \in Seq(Units), NEW u \in Units, NEW s,
         s.stacks \in StacksOf(maps),
         AllRemember(maps, s.stacks, w), IsHeard(w, s.found)
  PROVE  /\ AllRemember(maps, Look(s, u).stacks, GoesOn(w, u))
         /\ IsHeard(GoesOn(w, u), Look(s, u).found)
<1> DEFINE N   == Len(maps)
           w2  == Append(w, u)
           m   == Len(w) + 1
           up  == Updated(maps, s.stacks, u)
           old == [i \in 1..N |-> Backward(up[i], 1)]
           ch  == Chosen(up, u)
           r   == MapCommandFrom(maps, s.stacks, u, FALSE)
           t   == Look(s, u)
           dead == AllRejected(up)
           spelled == SpelledAt(w2, m)
<1>1. N \in Nat /\ IsTable(maps) /\ ~SolverDiverges(maps, s.stacks, u)
  BY TableProperties, NeverDiverges DEF IsTable
<1>2. AllRemember(maps, up, w2)
  BY <1>1, UpdatedRemembers
<1>3. old = s.stacks
  BY <1>1, UnwoundIsOld
<1>4. Len(w2) = m /\ w2 \in Seq(Units) /\ m \in Nat
  OBVIOUS
<1>5. t.stacks = r.stacks /\ t.found = IF r.fired = 0 THEN s.found ELSE r.fired
  BY DEF Look
<1>6. r = CASE dead /\ IsSystemOnly(u) -> [stacks |-> old, fired |-> 0]
            [] dead /\ ~IsSystemOnly(u) -> [stacks |-> up, fired |-> 0]
            [] ~dead /\ ch = 0 -> [stacks |-> up, fired |-> 0]
            [] ~dead /\ ch # 0 -> [stacks |-> up, fired |-> ch]
  BY DEF MapCommandFrom
<1>7. /\ u # {} /\ spelled # {} => Ends(w2) = Ends(w) \cup {m}
      /\ u = {} \/ spelled = {} => Ends(w2) = Ends(w)
  BY EndsOfAppend
<1>8. Ends(w2) = Ends(w) => IsHeard(w2, s.found)
  BY HeardBefore
<1>9. \A j \in Ends(w) : j <= m
  BY DEF Ends
<1> HIDE DEF t, r, up, old
<1>10. /\ DOMAIN up = 1..N
       /\ \A i \in 1..N : /\ IsAccepted(up[i]) <=> Spells(maps[i].trigger, w2, m)
                          /\ IsRejected(up[i]) <=> ~Begins(maps[i].trigger, w2, m)
  <2> HIDE DEF w2
  <2> QED
    BY <1>1, <1>2, <1>4, Verdicts
<1>11. dead <=> Hopeless(w2)
  BY <1>4, <1>10 DEF AllRejected, Hopeless
<1>12. /\ ch = 0 <=> (spelled = {} \/ u = {})
       /\ ch # 0 => ch \in spelled /\ \A j \in spelled : ch <= j
       /\ ch # 0 => ch \in 1..N
  <2> DEFINE accepted == {i \in 1..N : IsAccepted(up[i])}
  <2>1. accepted = spelled
    BY <1>10 DEF SpelledAt
  <2>2. /\ ch \in 0..N
        /\ ch = 0 <=> (accepted = {} \/ u = {})
        /\ ch # 0 => ch \in accepted /\ \A j \in accepted : ch <= j
    BY <1>1, <1>10, ChosenIsFirst
  <2> HIDE DEF accepted, spelled, ch
  <2> QED
    BY <1>1, <2>1, <2>2
<1>13. dead => spelled = {}
  <2>1. \A i \in 1..N : Spells(maps[i].trigger, w2, m) => Begins(maps[i].trigger, w2, m)
    BY DEF Spells, Begins
  <2> QED
    BY <1>4, <1>11, <2>1 DEF Hopeless, SpelledAt
<1>14. GoesOn(w, u) = IF IsSystemOnly(u) /\ dead THEN w ELSE w2
  BY <1>11 DEF GoesOn
<1> HIDE DEF dead, ch, w2, spelled
<1>15. CASE dead /\ IsSystemOnly(u)
  BY <1>3, <1>5, <1>6, <1>14, <1>15 DEF t
<1>16. CASE dead /\ ~IsSystemOnly(u)
  BY <1>2, <1>5, <1>6, <1>7, <1>8, <1>13, <1>14, <1>16 DEF t
<1>17. CASE ~dead /\ ch = 0
  BY <1>2, <1>5, <1>6, <1>7, <1>8, <1>12, <1>14, <1>17 DEF t
<1>18. CASE ~dead /\ ch # 0
  <2>1. t.stacks = up /\ t.found = ch
    BY <1>5, <1>6, <1>18
  <2>2. Ends(w2) = Ends(w) \cup {m}
    BY <1>7, <1>12, <1>18
  <2>3. m \in Ends(w2) /\ \A j \in Ends(w2) : j <= m
    BY <1>4, <1>9, <2>2
  <2>4. ch \in SpelledAt(w2, m) /\ \A i \in SpelledAt(w2, m) : ch <= i
    BY <1>12, <1>18 DEF spelled
  <2>5. IsHeard(w2, ch)
    BY <2>3, <2>4 DEF IsHeard
  <2> QED
    BY <1>2, <1>14, <1>18, <2>1, <2>5 DEF t
<1> QED
  BY <1>15, <1>16, <1>17, <1>18

-----------------------------------------------------------------------------
(* The recursions of LookUp and of Essence, and what they reach together.  *)

Lookups == [stacks : StacksOf(maps), found : 0..Len(maps)]

AfterFun(start, word, after) ==
  after = [n \in 0..Len(word) |-> IF n = 0 THEN start ELSE Look(after[n - 1], word[n])]

UpToFun(word, upTo) ==
  upTo = [n \in 0..Len(word) |-> IF n = 0 THEN <<>> ELSE GoesOn(upTo[n - 1], word[n])]

LEMMA LookType ==
  ASSUME maps \in Tables, NEW s \in Lookups, NEW u
  PROVE  Look(s, u) \in Lookups
<1> DEFINE r == MapCommandFrom(maps, s.stacks, u, FALSE)
<1>1. s.stacks \in StacksOf(maps) /\ s.found \in 0..Len(maps)
  BY DEF Lookups
<1>2. r.stacks \in StacksOf(maps) /\ r.fired \in 0..Len(maps)
  BY <1>1, MapCommandType
<1>3. Look(s, u) = [stacks |-> r.stacks, found |-> IF r.fired = 0 THEN s.found ELSE r.fired]
  BY DEF Look
<1> HIDE DEF r
<1> QED
  BY <1>1, <1>2, <1>3 DEF Lookups

LEMMA LookUpBuilt ==
  ASSUME maps \in Tables, NEW start \in Lookups, NEW word \in Seq(Units)
  PROVE  \E after :
           /\ LookUp(start, word) = after[Len(word)]
           /\ after[0] = start
           /\ \A n \in 1..Len(word) : after[n] = Look(after[n - 1], word[n])
           /\ \A n \in 0..Len(word) : after[n] \in Lookups
<1> DEFINE N     == Len(word)
           S     == Lookups
           step  == [n \in 1..N |-> [k \in S |-> Look(k, word[n])]]
           after == CHOOSE f : AfterFun(start, word, f)
<1>1. N \in Nat /\ start \in S
  OBVIOUS
<1>2. \A n \in 1..N : \A k \in S : Look(k, word[n]) \in S
  BY LookType
<1> HIDE DEF S
<1>3. step \in [1..N -> [S -> S]]
  BY <1>2
<1>4. \A n \in 1..N : \A k \in S : step[n][k] = Look(k, word[n])
  OBVIOUS
<1> HIDE DEF step, N
<1>5. PICK f : Recursive(f, N, S, start, step)
  BY <1>1, <1>3, RecursionUpTo
<1>6. AfterFun(start, word, f)
  <2>1. ASSUME NEW n \in 0..N
        PROVE  f[n] = IF n = 0 THEN start ELSE Look(f[n - 1], word[n])
    <3>1. CASE n = 0
      BY <1>5, <3>1 DEF Recursive
    <3>2. CASE n # 0
      <4>1. n \in 1..N /\ n - 1 \in 0..N
        BY <1>1, <3>2
      <4> QED
        BY <1>4, <1>5, <3>2, <4>1 DEF Recursive
    <3> QED
      BY <3>1, <3>2
  <2> QED
    BY <1>5, <2>1 DEF AfterFun, N, Recursive
<1>7. AfterFun(start, word, after)
  BY <1>6
<1>8. LookUp(start, word) = after[N]
  BY DEF LookUp, AfterFun, N
<1> HIDE DEF after
<1>9. after[0] = start /\ \A n \in 1..N : after[n] = Look(after[n - 1], word[n])
  BY <1>1, <1>7 DEF AfterFun, N
<1>10. Follows(after, N, S, start, step)
  BY <1>4, <1>9 DEF Follows
<1>11. \A n \in 0..N : after[n] \in S
  BY <1>1, <1>3, <1>10, FollowsType
<1> QED
  BY <1>8, <1>9, <1>11 DEF N, S

LEMMA EssenceBuilt ==
  ASSUME NEW word \in Seq(Units)
  PROVE  \E upTo :
           /\ Essence(word) = upTo[Len(word)]
           /\ upTo[0] = <<>>
           /\ \A n \in 1..Len(word) : upTo[n] = GoesOn(upTo[n - 1], word[n])
           /\ \A n \in 0..Len(word) : upTo[n] \in Seq(Units)
<1> DEFINE N    == Len(word)
           S    == Seq(Units)
           step == [n \in 1..N |-> [k \in S |-> GoesOn(k, word[n])]]
           upTo == CHOOSE f : UpToFun(word, f)
<1>1. N \in Nat /\ <<>> \in S
  OBVIOUS
<1>2. \A n \in 1..N : \A k \in S : GoesOn(k, word[n]) \in S
  <2>1. \A n \in 1..N : word[n] \in Units
    BY ElementOfSeq
  <2> QED
    BY <2>1 DEF GoesOn
<1> HIDE DEF S
<1>3. step \in [1..N -> [S -> S]]
  BY <1>2
<1>4. \A n \in 1..N : \A k \in S : step[n][k] = GoesOn(k, word[n])
  OBVIOUS
<1> HIDE DEF step, N
<1>5. PICK f : Recursive(f, N, S, <<>>, step)
  BY <1>1, <1>3, RecursionUpTo
<1>6. UpToFun(word, f)
  <2>1. ASSUME NEW n \in 0..N
        PROVE  f[n] = IF n = 0 THEN <<>> ELSE GoesOn(f[n - 1], word[n])
    <3>1. CASE n = 0
      BY <1>5, <3>1 DEF Recursive
    <3>2. CASE n # 0
      <4>1. n \in 1..N /\ n - 1 \in 0..N
        BY <1>1, <3>2
      <4> QED
        BY <1>4, <1>5, <3>2, <4>1 DEF Recursive
    <3> QED
      BY <3>1, <3>2
  <2> QED
    BY <1>5, <2>1 DEF UpToFun, N, Recursive
<1>7. UpToFun(word, upTo)
  BY <1>6
<1>8. Essence(word) = upTo[N]
  BY DEF Essence, UpToFun, N
<1> HIDE DEF upTo
<1>9. upTo[0] = <<>> /\ \A n \in 1..N : upTo[n] = GoesOn(upTo[n - 1], word[n])
  BY <1>1, <1>7 DEF UpToFun, N
<1>10. Follows(upTo, N, S, <<>>, step)
  BY <1>4, <1>9 DEF Follows
<1>11. \A n \in 0..N : upTo[n] \in S
  BY <1>1, <1>3, <1>10, FollowsType
<1> QED
  BY <1>8, <1>9, <1>11 DEF N, S

(* Fresh matchers that are given a line have heard what its essence says.  *)
LEMMA LookUpHears ==
  ASSUME maps \in Tables, NEW word \in Seq(Units)
  PROVE  LET s == LookUp([stacks |-> Fresh(maps), found |-> 0], word)
         IN  /\ s \in Lookups
             /\ IsHeard(Essence(word), s.found)
<1> DEFINE N     == Len(word)
           start == [stacks |-> Fresh(maps), found |-> 0]
           s     == LookUp(start, word)
<1>1. start \in Lookups
  <2>1. Fresh(maps) \in StacksOf(maps)
    BY DEF Fresh, StacksOf
  <2>2. 0 \in 0..Len(maps)
    BY TableProperties DEF IsTable
  <2> QED
    BY <2>1, <2>2 DEF Lookups
<1>2. start.stacks = Fresh(maps) /\ start.found = 0
  OBVIOUS
<1> HIDE DEF start
<1>3. PICK after : /\ s = after[N]
                   /\ after[0] = start
                   /\ \A n \in 1..N : after[n] = Look(after[n - 1], word[n])
                   /\ \A n \in 0..N : after[n] \in Lookups
  BY <1>1, LookUpBuilt
<1>4. PICK upTo : /\ Essence(word) = upTo[N]
                  /\ upTo[0] = <<>>
                  /\ \A n \in 1..N : upTo[n] = GoesOn(upTo[n - 1], word[n])
                  /\ \A n \in 0..N : upTo[n] \in Seq(Units)
  BY EssenceBuilt
<1>5. N \in Nat /\ \A n \in 1..N : word[n] \in Units
  BY ElementOfSeq, LenProperties
<1> HIDE DEF N, s
<1> DEFINE Heard(n) == /\ AllRemember(maps, after[n].stacks, upTo[n])
                       /\ IsHeard(upTo[n], after[n].found)
           P == {n \in 0..N : Heard(n)}
<1>6. 0 \in P
  <2>1. AllRemember(maps, after[0].stacks, upTo[0])
    BY <1>2, <1>3, <1>4, FreshRemembers
  <2>2. Ends(<<>>) = {}
    BY DEF Ends
  <2>3. IsHeard(upTo[0], after[0].found)
    BY <1>2, <1>3, <1>4, <2>2 DEF IsHeard
  <2> QED
    BY <1>5, <2>1, <2>3
<1>7. ASSUME NEW n \in 0..(N - 1), n \in P
      PROVE  n + 1 \in P
  <2>1. n + 1 \in 1..N /\ n + 1 - 1 = n /\ n \in 0..N /\ Heard(n)
    BY <1>5, <1>7
  <2>2. after[n + 1] = Look(after[n], word[n + 1]) /\ upTo[n + 1] = GoesOn(upTo[n], word[n + 1])
    BY <1>3, <1>4, <2>1
  <2>3. after[n].stacks \in StacksOf(maps) /\ upTo[n] \in Seq(Units) /\ word[n + 1] \in Units
    BY <1>3, <1>4, <1>5, <2>1 DEF Lookups
  <2>4. Heard(n + 1)
    BY <2>1, <2>2, <2>3, LookHears
  <2> HIDE DEF Heard
  <2> QED
    BY <1>5, <2>1, <2>4
<1>8. \A n \in 0..(N - 1) : n \in P => n + 1 \in P
  BY <1>7
<1> HIDE DEF P
<1>9. \A n \in 0..N : n \in P
  BY <1>5, <1>6, <1>8, InductionUpTo, Zenon
<1>10. N \in P /\ N \in 0..N
  BY <1>5, <1>9
<1>11. Heard(N)
  BY <1>10 DEF P
<1>12. s \in Lookups /\ IsHeard(Essence(word), s.found)
  BY <1>3, <1>4, <1>10, <1>11
<1> QED
  BY <1>12 DEF s, start

LEMMA MeaningOfHeard ==
  ASSUME maps \in Tables, NEW line, NEW f, IsHeard(Essence(FlattenSeq(line)), f)
  PROVE  FunctionsOf(f) = Meaning(line)
<1> DEFINE word == Essence(FlattenSeq(line))
           ends == Ends(word)
           end  == CHOOSE k \in ends : \A j \in ends : j <= k
           first == CHOOSE i \in SpelledAt(word, end) : \A j \in SpelledAt(word, end) : i <= j
<1>1. Meaning(line) = IF ends = {} THEN <<>> ELSE FunctionsOf(first)
  BY DEF Meaning, Ends
<1>2. CASE ends = {}
  <2>1. f = 0
    BY <1>2 DEF IsHeard
  <2> QED
    BY <1>1, <1>2, <2>1 DEF FunctionsOf
<1>3. CASE ends # {}
  <2>1. PICK k \in ends : /\ \A j \in ends : j <= k
                          /\ f \in SpelledAt(word, k)
                          /\ \A i \in SpelledAt(word, k) : f <= i
    BY <1>3 DEF IsHeard
  <2>2. ends \subseteq Int
    BY DEF Ends
  <2> HIDE DEF ends, word
  <2>3. end \in ends /\ \A j \in ends : j <= end
    BY <2>1
  <2>4. end = k
    <3> HIDE DEF end
    <3> QED
      BY <2>1, <2>2, <2>3
  <2> HIDE DEF end
  <2>5. first \in SpelledAt(word, k) /\ \A j \in SpelledAt(word, k) : first <= j
    BY <2>1, <2>4
  <2>6. SpelledAt(word, k) \subseteq Int
    BY DEF SpelledAt
  <2>7. first = f
    <3> HIDE DEF first
    <3> QED
      BY <2>1, <2>5, <2>6
  <2> QED
    BY <1>1, <1>3, <2>7
<1> QED
  BY <1>2, <1>3

-----------------------------------------------------------------------------
(* The invariant: no two entries of the history share what they point to,  *)
(* and nothing is executed while a line is edited.                         *)

Distinct == \A i, j \in 1..Len(hists) : hists[i] = hists[j] => i = j

IInv ==
  /\ TypeOK
  /\ Distinct
  /\ open => executed = Nothing /\ idx <= Len(hists)
  /\ ExecutesTheLine

LEMMA WhileOpen ==
  ASSUME IInv, open
  PROVE  /\ Len(hists) \in Nat \ {0}
         /\ hists \in Seq(Names) /\ Last(hists) = hists[Len(hists)]
         /\ \A i \in 1..Len(hists) : hists[i] \in Names
         /\ Last(hists) \in Names /\ Latest \in Seq(Seq(Units))
         /\ idx \in 1..Len(hists)
         /\ executed = Nothing
<1>1. hists \in Seq(Names) /\ hists # <<>> /\ points \in [Names -> Seq(Seq(Units))]
  BY DEF IInv, TypeOK
<1>2. Len(hists) \in Nat \ {0} /\ \A i \in 1..Len(hists) : hists[i] \in Names
  BY <1>1, EmptySeq, ElementOfSeq, LenProperties
<1>3. Last(hists) = hists[Len(hists)] /\ Len(hists) \in 1..Len(hists)
  BY <1>2 DEF Last
<1>4. Last(hists) \in Names
  BY <1>2, <1>3
<1>5. Latest \in Seq(Seq(Units))
  BY <1>1, <1>4 DEF Latest
<1>6. idx \in 1..(Len(hists) + 1) /\ idx <= Len(hists) /\ executed = Nothing
  BY DEF IInv, TypeOK
<1> QED
  BY <1>1, <1>2, <1>3, <1>4, <1>5, <1>6

(* The history holds fewer names than there are.                           *)
LEMMA NewNameIsNew ==
  ASSUME IInv, Len(hists) < MaxLines
  PROVE  NewName \in Names /\ \A i \in 1..Len(hists) : hists[i] # NewName
<1>1. hists \in Seq(Names) /\ MaxLines \in Nat
  BY LineAssumption DEF IInv, TypeOK
<1>2. Len(hists) \in Nat /\ DOMAIN hists = 1..Len(hists) /\ hists \in [1..Len(hists) -> Names]
  BY <1>1
<1>3. \E n \in Names : \A i \in 1..Len(hists) : hists[i] # n
  <2> SUFFICES ASSUME \A n \in Names : \E i \in 1..Len(hists) : hists[i] = n
               PROVE  FALSE
    OBVIOUS
  <2>1. hists \in Surjection(1..Len(hists), Names)
    BY <1>2 DEF Surjection
  <2>2. IsFiniteSet(1..Len(hists)) /\ Cardinality(1..Len(hists)) = Len(hists)
    <3>1. Len(hists) \in Nat
      BY <1>2
    <3>2. IsFiniteSet(1..Len(hists))
      BY <3>1, FS_Interval
    <3>3. Cardinality(1..Len(hists)) = IF 1 > Len(hists) THEN 0 ELSE Len(hists) - 1 + 1
      BY <3>1, FS_Interval
    <3>4. (IF 1 > Len(hists) THEN 0 ELSE Len(hists) - 1 + 1) = Len(hists)
      BY <3>1
    <3> QED
      BY <3>2, <3>3, <3>4
  <2>3. Cardinality(Names) = MaxLines
    <3>1. Cardinality(1..MaxLines) = IF 1 > MaxLines THEN 0 ELSE MaxLines - 1 + 1
      BY <1>1, FS_Interval
    <3> QED
      BY <1>1, <3>1 DEF Names
  <2>4. Cardinality(Names) <= Cardinality(1..Len(hists))
    BY <2>1, <2>2, FS_Surjection
  <2> QED
    BY <1>1, <1>2, <2>2, <2>3, <2>4
<1> QED
  BY <1>2, <1>3 DEF NewName

-----------------------------------------------------------------------------
(* What the answers to an input do to the history.                         *)

Quits ==
  /\ points' = [points EXCEPT ![Last(hists)] = <<>>]
  /\ hists' = Front(hists)
  /\ open' = FALSE
  /\ UNCHANGED <<maps, stacks, idx, executed>>

Edits(line) ==
  /\ line \in Seq(Seq(Units))
  /\ idx' \in 1..Len(hists)
  /\ points' = [points EXCEPT ![Last(hists)] = line]
  /\ stacks' \in StacksOf(maps)
  /\ UNCHANGED <<maps, hists, open, executed>>

Enters ==
  /\ executed' = Meaning(Latest)
  /\ executed' \in Seq(Functions)
  /\ open' = FALSE
  /\ stacks' \in StacksOf(maps)
  /\ UNCHANGED <<maps, hists, points, idx>>

Listens ==
  /\ stacks' \in StacksOf(maps)
  /\ UNCHANGED <<maps, hists, points, idx, open, executed>>

LEMMA StacksAreTyped == IInv => stacks \in StacksOf(maps) /\ maps \in Tables
  BY DEF IInv, TypeOK, StacksOf

LEMMA BackspaceEdits ==
  ASSUME IInv, open, NEW u, Backspace(u)
  PROVE  Quits \/ (Latest # <<>> /\ idx' = idx /\ Edits(SubSeq(Latest, 1, Len(Latest) - 1)))
<1>1. CASE Latest = <<>>
  BY <1>1 DEF Backspace, QuitLoop, Quits
<1>2. CASE Latest # <<>>
  <2>1. SubSeq(Latest, 1, Len(Latest) - 1) \in Seq(Seq(Units))
    <3>1. Latest \in Seq(Seq(Units)) /\ Len(Latest) \in Nat \ {0}
      BY <1>2, WhileOpen, EmptySeq, LenProperties
    <3>2. Len(Latest) - 1 \in 0..Len(Latest)
      BY <3>1
    <3> QED
      BY <3>1, <3>2, SubSeqProperties
  <2> QED
    BY <1>2, <2>1, WhileOpen, StacksAreTyped DEF Backspace, Edit, Edits, Front
<1> QED
  BY <1>1, <1>2

LEMMA BackwardHistoryEdits ==
  ASSUME IInv, open, NEW u, BackwardHistory(u)
  PROVE  idx > 1 /\ idx' = idx - 1 /\ Edits(points[hists[idx - 1]])
<1>1. idx > 1 /\ idx' = idx - 1 /\ idx - 1 \in 1..Len(hists)
  BY WhileOpen DEF BackwardHistory
<1>2. points[hists[idx - 1]] \in Seq(Seq(Units))
  BY <1>1, WhileOpen DEF IInv, TypeOK
<1> QED
  BY <1>1, <1>2, StacksAreTyped DEF BackwardHistory, Edit, Edits

LEMMA ForwardHistoryEdits ==
  ASSUME IInv, open, NEW u, ForwardHistory(u)
  PROVE  /\ idx < Len(hists) /\ idx' = idx + 1
         /\ Edits(IF idx' = Len(hists) THEN <<>> ELSE points[hists[idx']])
<1>1. idx < Len(hists) /\ idx' = idx + 1 /\ idx' \in 1..Len(hists)
  BY WhileOpen DEF ForwardHistory
<1>2. points[hists[idx']] \in Seq(Seq(Units)) /\ <<>> \in Seq(Seq(Units))
  BY <1>1, WhileOpen DEF IInv, TypeOK
<1> QED
  BY <1>1, <1>2, StacksAreTyped DEF ForwardHistory, Edit, Edits

LEMMA DecideEnters ==
  ASSUME IInv, open, NEW u, Decide(u)
  PROVE  Enters
<1> DEFINE word == FlattenSeq(Latest)
           s    == LookUp([stacks |-> Fresh(maps), found |-> 0], word)
<1>1. Latest \in Seq(Seq(Units)) /\ maps \in Tables
  BY WhileOpen, StacksAreTyped
<1>2. word \in Seq(Units)
  BY <1>1, FlattenType
<1>3. stacks' = s.stacks /\ executed' = FunctionsOf(s.found) /\ open' = FALSE
      /\ UNCHANGED <<maps, hists, points, idx>>
  BY DEF Decide
<1>4. s \in Lookups /\ IsHeard(Essence(word), s.found)
  <2> HIDE DEF word
  <2> QED
    BY <1>1, <1>2, LookUpHears
<1> HIDE DEF s
<1>5. FunctionsOf(s.found) = Meaning(Latest)
  BY <1>1, <1>4, MeaningOfHeard DEF word
<1>6. s.stacks \in StacksOf(maps) /\ s.found \in 0..Len(maps)
  BY <1>4 DEF Lookups
<1>7. FunctionsOf(s.found) \in Seq(Functions)
  BY <1>1, <1>6, FunctionsOfType
<1> QED
  BY <1>3, <1>5, <1>6, <1>7 DEF Enters

LEMMA WriteEdits ==
  ASSUME IInv, open, NEW u \in Inputs, WriteAsPrintable(u)
  PROVE  \/ Listens
         \/ \E units \in Seq(Units) : idx' = idx /\ Edits(Append(Latest, units))
<1>1. Latest \in Seq(Seq(Units)) /\ maps \in Tables /\ stacks \in StacksOf(maps) /\ u \in Units
  BY WhileOpen, StacksAreTyped, LineAssumption
<1> DEFINE r == MapCommandFrom(maps, stacks, u, TRUE)
           units == Printables(u, r.fired)
<1>2. r.stacks \in StacksOf(maps) /\ r.fired \in 0..Len(maps)
  BY <1>1, MapCommandType
<1>3. /\ stacks' = r.stacks
      /\ \/ Edit(Append(Latest, units))
         \/ UNCHANGED <<hists, points, open>>
      /\ UNCHANGED <<maps, idx, executed>>
  BY DEF WriteAsPrintable
<1> HIDE DEF r
<1>4. units \in Seq(Units)
  BY <1>1, <1>2, PrintablesType
<1> HIDE DEF units
<1>5. CASE UNCHANGED <<hists, points, open>>
  BY <1>2, <1>3, <1>5 DEF Listens
<1>6. CASE Edit(Append(Latest, units))
  <2>1. Append(Latest, units) \in Seq(Seq(Units))
    BY <1>1, <1>4
  <2>2. idx' = idx /\ idx' \in 1..Len(hists)
    BY <1>3, WhileOpen
  <2>3. Edits(Append(Latest, units))
    BY <1>2, <1>3, <1>6, <2>1, <2>2 DEF Edits, Edit
  <2> QED
    BY <1>4, <2>2, <2>3
<1> QED
  BY <1>3, <1>5, <1>6

-----------------------------------------------------------------------------
(* Every step preserves the invariant.                                     *)

LEMMA InvInit == Init => IInv
<1> SUFFICES ASSUME Init
             PROVE  IInv
  OBVIOUS
<1>1. /\ maps \in Tables /\ stacks = Fresh(maps) /\ hists = <<>>
      /\ points = [n \in Names |-> <<>>] /\ idx = 1 /\ open = FALSE /\ executed = Nothing
  BY DEF Init
<1>2. stacks \in [1..Len(maps) -> Seq(Entry)] /\ points \in [Names -> Seq(Seq(Units))]
  BY <1>1 DEF Fresh
<1>3. hists \in Seq(Names) /\ idx \in 1..(Len(hists) + 1)
  BY <1>1
<1> QED
  BY <1>1, <1>2, <1>3 DEF IInv, TypeOK, Distinct, ExecutesTheLine

LEMMA FrontProperties ==
  ASSUME NEW S, NEW s \in Seq(S), s # <<>>
  PROVE  /\ Front(s) \in Seq(S)
         /\ Len(Front(s)) = Len(s) - 1
         /\ \A i \in 1..(Len(s) - 1) : Front(s)[i] = s[i]
<1> DEFINE k == Len(s) - 1
<1>1. k \in 0..Len(s)
  BY EmptySeq, LenProperties
<1> HIDE DEF k
<1>2. /\ SubSeq(s, 1, k) \in Seq(S)
      /\ Len(SubSeq(s, 1, k)) = k
      /\ \A i \in 1..k : SubSeq(s, 1, k)[i] = s[i]
  BY <1>1, SubSeqProperties
<1> QED
  BY <1>2 DEF Front, k

LEMMA QuitsKeeps ==
  ASSUME IInv, open, Quits
  PROVE  IInv'
<1> DEFINE n == Len(hists)
<1>1. /\ n \in Nat \ {0} /\ hists \in Seq(Names) /\ idx \in 1..n
      /\ \A i \in 1..n : hists[i] \in Names
      /\ executed = Nothing
  BY WhileOpen
<1>2. /\ hists' \in Seq(Names) /\ Len(hists') = n - 1
      /\ \A i \in 1..(n - 1) : hists'[i] = hists[i]
  <2>1. hists' = Front(hists) /\ hists # <<>>
    BY <1>1 DEF Quits
  <2> QED
    BY <1>1, <2>1, FrontProperties
<1>3. points' \in [Names -> Seq(Seq(Units))]
  <2>1. points \in [Names -> Seq(Seq(Units))] /\ <<>> \in Seq(Seq(Units))
    BY DEF IInv, TypeOK
  <2> QED
    BY <2>1 DEF Quits
<1>4. Distinct'
  BY <1>1, <1>2 DEF IInv, Distinct
<1>5. idx' \in 1..(Len(hists') + 1)
  BY <1>1, <1>2 DEF Quits
<1>6. TypeOK'
  BY <1>2, <1>3, <1>5 DEF IInv, TypeOK, Quits
<1> QED
  BY <1>1, <1>4, <1>6 DEF IInv, Quits, ExecutesTheLine

LEMMA EditsKeeps ==
  ASSUME IInv, open, NEW line, Edits(line)
  PROVE  IInv'
<1>1. Len(hists) \in Nat \ {0} /\ executed = Nothing
  BY WhileOpen
<1>2. points' \in [Names -> Seq(Seq(Units))]
  BY DEF IInv, TypeOK, Edits
<1>3. stacks' \in [1..Len(maps') -> Seq(Entry)]
  BY DEF Edits, StacksOf
<1>4. idx' \in 1..(Len(hists') + 1) /\ idx' <= Len(hists')
  BY <1>1 DEF Edits
<1>5. TypeOK'
  BY <1>2, <1>3, <1>4 DEF IInv, TypeOK, Edits
<1>6. Distinct'
  BY DEF IInv, Distinct, Edits
<1> QED
  BY <1>1, <1>4, <1>5, <1>6 DEF IInv, Edits, ExecutesTheLine

(* What a line means depends on the table only.                            *)
LEMMA SameMeaning ==
  ASSUME maps' = maps, hists' = hists, points' = points
  PROVE  Meaning(Latest)' = Meaning(Latest)
  BY DEF Meaning, Essence, GoesOn, Hopeless, SpelledAt, FunctionsOf, Latest

LEMMA EntersKeeps ==
  ASSUME IInv, open, Enters
  PROVE  IInv'
<1>1. stacks' \in [1..Len(maps') -> Seq(Entry)]
  BY DEF Enters, StacksOf
<1>2. TypeOK'
  BY <1>1 DEF IInv, TypeOK, Enters
<1>3. ExecutesTheLine'
  <2>1. Meaning(Latest)' = Meaning(Latest)
    BY SameMeaning DEF Enters
  <2> QED
    BY <2>1 DEF ExecutesTheLine, Enters
<1>4. Distinct'
  BY DEF IInv, Distinct, Enters
<1> QED
  BY <1>2, <1>3, <1>4 DEF IInv, Enters

LEMMA ListensKeeps ==
  ASSUME IInv, open, Listens
  PROVE  IInv'
<1>1. stacks' \in [1..Len(maps') -> Seq(Entry)]
  BY DEF Listens, StacksOf
<1>2. TypeOK'
  BY <1>1 DEF IInv, TypeOK, Listens
<1>3. executed' = Nothing
  BY WhileOpen DEF Listens
<1>4. Distinct'
  BY DEF IInv, Distinct, Listens
<1> QED
  BY <1>2, <1>3, <1>4 DEF IInv, Listens, ExecutesTheLine

LEMMA OpenKeeps ==
  ASSUME IInv, Open
  PROVE  IInv'
<1> DEFINE n == Len(hists)
           new == NewName
<1>1. hists \in Seq(Names) /\ n \in Nat /\ \A i \in 1..n : hists[i] \in Names
  BY ElementOfSeq, LenProperties DEF IInv, TypeOK
<1>2. new \in Names /\ \A i \in 1..n : hists[i] # new
  BY NewNameIsNew DEF Open
<1>3. /\ hists' = Append(hists, new) /\ points' = [points EXCEPT ![new] = <<>>]
      /\ idx' = Len(hists') /\ open' = TRUE /\ executed' = Nothing
      /\ UNCHANGED <<maps, stacks>>
  BY DEF Open
<1> HIDE DEF new
<1>4. /\ hists' \in Seq(Names) /\ Len(hists') = n + 1 /\ hists'[n + 1] = new
      /\ \A i \in 1..n : hists'[i] = hists[i]
  BY <1>1, <1>2, <1>3
<1>5. points' \in [Names -> Seq(Seq(Units))]
  <2>1. points \in [Names -> Seq(Seq(Units))] /\ <<>> \in Seq(Seq(Units))
    BY DEF IInv, TypeOK
  <2> QED
    BY <1>3, <2>1
<1>6. Distinct'
  <2>1. \A i \in 1..(n + 1) : i \in 1..n \/ i = n + 1
    BY <1>1
  <2> QED
    BY <1>2, <1>4, <2>1 DEF IInv, Distinct
<1>7. idx' \in 1..(Len(hists') + 1) /\ idx' <= Len(hists') /\ hists' # <<>>
  BY <1>1, <1>3, <1>4
<1>8. TypeOK'
  BY <1>3, <1>4, <1>5, <1>7 DEF IInv, TypeOK
<1> QED
  BY <1>3, <1>6, <1>7, <1>8 DEF IInv, ExecutesTheLine

LEMMA DeployKeeps ==
  ASSUME IInv, NEW table \in Tables, Deploy(table)
  PROVE  IInv'
<1>1. stacks' \in [1..Len(maps') -> Seq(Entry)]
  BY DEF Deploy, Fresh
<1>2. TypeOK'
  BY <1>1 DEF IInv, TypeOK, Deploy
<1>3. Distinct'
  BY DEF IInv, Distinct, Deploy
<1> QED
  BY <1>2, <1>3 DEF IInv, Deploy, ExecutesTheLine

LEMMA InvNext == IInv /\ [Next]_vars => IInv'
<1> SUFFICES ASSUME IInv, [Next]_vars
             PROVE  IInv'
  OBVIOUS
<1>1. CASE Open
  BY <1>1, OpenKeeps
<1>2. ASSUME NEW u \in Inputs, Input(u)
      PROVE  IInv'
  <2>0. open
    BY <1>2 DEF Input
  <2>1. CASE Escape(u)
    <3>1. Quits
      BY <2>1 DEF Escape, QuitLoop, Quits
    <3> QED
      BY <2>0, <3>1, QuitsKeeps
  <2>2. CASE Backspace(u)
    BY <2>0, <2>2, BackspaceEdits, QuitsKeeps, EditsKeeps
  <2>3. CASE BackwardHistory(u)
    BY <2>0, <2>3, BackwardHistoryEdits, EditsKeeps
  <2>4. CASE ForwardHistory(u)
    BY <2>0, <2>4, ForwardHistoryEdits, EditsKeeps
  <2>5. CASE Decide(u)
    BY <2>0, <2>5, DecideEnters, EntersKeeps
  <2>6. CASE WriteAsPrintable(u)
    BY <2>0, <2>6, WriteEdits, EditsKeeps, ListensKeeps
  <2> QED
    BY <1>2, <2>1, <2>2, <2>3, <2>4, <2>5, <2>6 DEF Input
<1>3. ASSUME NEW table \in Tables, Deploy(table)
      PROVE  IInv'
  BY <1>3, DeployKeeps
<1>4. CASE UNCHANGED vars
  <2>1. ExecutesTheLine'
    <3>1. maps' = maps /\ hists' = hists /\ points' = points /\ executed' = executed
      BY <1>4 DEF vars
    <3>2. Meaning(Latest)' = Meaning(Latest)
      BY <3>1, SameMeaning
    <3> QED
      BY <3>1, <3>2 DEF IInv, ExecutesTheLine
  <2>2. TypeOK'
    BY <1>4 DEF vars, IInv, TypeOK
  <2> QED
    BY <1>4, <2>1, <2>2 DEF vars, IInv, Distinct
<1> QED
  BY <1>1, <1>2, <1>3, <1>4 DEF Next

(* Whatever table of commands is deployed, whatever was typed, erased,     *)
(* recalled and entered before: a line that is entered executes the        *)
(* command that its longest beginning spells, or none when it spells none  *)
(* (decide(), map_command_from).                                           *)
THEOREM LineEntered == Spec => []EntersTheLine
<1>1. IInv => EntersTheLine
  BY DEF IInv, EntersTheLine
<1> QED
  BY <1>1, InvInit, InvNext, PTL DEF Spec

-----------------------------------------------------------------------------
(* The refinement.  What the user sees of the history:                     *)

Past == IF open THEN Front(Lines) ELSE Lines
Line == IF open THEN Last(Lines) ELSE <<>>
At   == IF open THEN idx ELSE Len(hists) + 1

LinesShape ==
  /\ Len(hists) \in Nat /\ hists \in Seq(Names)
  /\ Lines \in Seq(Seq(Seq(Units))) /\ Len(Lines) = Len(hists)
  /\ \A i \in 1..Len(hists) : hists[i] \in Names /\ Lines[i] = points[hists[i]]

LEMMA LinesProperties == IInv => LinesShape
<1> SUFFICES ASSUME IInv
             PROVE  LinesShape
  OBVIOUS
<1>1. hists \in Seq(Names) /\ points \in [Names -> Seq(Seq(Units))]
  BY DEF IInv, TypeOK
<1>2. Len(hists) \in Nat /\ DOMAIN hists = 1..Len(hists)
      /\ \A i \in 1..Len(hists) : hists[i] \in Names
  BY <1>1, ElementOfSeq, LenProperties
<1>3. \A i \in 1..Len(hists) : points[hists[i]] \in Seq(Seq(Units))
  BY <1>1, <1>2
<1>4. Lines = [i \in 1..Len(hists) |-> points[hists[i]]]
  BY <1>2 DEF Lines
<1>5. Lines \in Seq(Seq(Seq(Units)))
  BY <1>2, <1>3, <1>4, IsASeq
<1> QED
  BY <1>1, <1>2, <1>4, <1>5 DEF LinesShape

PastShape ==
  /\ Past \in Seq(Seq(Seq(Units))) /\ Len(Past) = Len(hists) - 1
  /\ \A i \in 1..(Len(hists) - 1) : Past[i] = points[hists[i]]
  /\ Line = Latest /\ At = idx

LEMMA PastWhileOpen == IInv /\ open => PastShape
<1> SUFFICES ASSUME IInv, open
             PROVE  PastShape
  OBVIOUS
<1> DEFINE n == Len(hists)
<1>1. n \in Nat \ {0} /\ Last(hists) = hists[n]
  BY WhileOpen
<1>2. Lines \in Seq(Seq(Seq(Units))) /\ Len(Lines) = n
      /\ \A i \in 1..n : Lines[i] = points[hists[i]]
  BY LinesProperties DEF LinesShape
<1>3. Past = SubSeq(Lines, 1, n - 1) /\ Line = Lines[n] /\ At = idx
  BY <1>2 DEF Past, Line, At, Front, Last
<1> HIDE DEF n
<1>4. n - 1 \in 0..Len(Lines) /\ n \in 1..n
  BY <1>1, <1>2
<1>5. Past \in Seq(Seq(Seq(Units))) /\ Len(Past) = n - 1
      /\ \A i \in 1..(n - 1) : Past[i] = Lines[i]
  BY <1>2, <1>3, <1>4, SubSeqProperties
<1>6. \A i \in 1..(n - 1) : i \in 1..n
  BY <1>1
<1>7. Line = Latest
  BY <1>1, <1>2, <1>3, <1>4 DEF Latest
<1> QED
  BY <1>2, <1>3, <1>5, <1>6, <1>7 DEF n, PastShape

(* The same after a step.                                                  *)
LEMMA ShapesAfter ==
  /\ IInv' => LinesShape'
  /\ IInv' /\ open' => PastShape'
  BY LinesProperties, PastWhileOpen, PTL

(* Taken entry by entry, because the entries are distinct: an edit changes *)
(* the line and nothing of the past.                                       *)
LEMMA EditsShown ==
  ASSUME IInv, open, NEW line, Edits(line)
  PROVE  Past' = Past /\ Line' = line /\ At' = idx' /\ open'
<1> DEFINE n == Len(hists)
           T == Seq(Seq(Units))
<1>1. n \in Nat \ {0} /\ Last(hists) = hists[n] /\ Last(hists) \in Names
  BY WhileOpen
<1>2. IInv' /\ open' /\ hists' = hists
  BY EditsKeeps DEF Edits
<1>3. Past \in Seq(T) /\ Len(Past) = n - 1
      /\ \A i \in 1..(n - 1) : Past[i] = points[hists[i]]
  BY PastWhileOpen DEF PastShape
<1>4. Past' \in Seq(T) /\ Len(Past') = n - 1
      /\ \A i \in 1..(n - 1) : Past'[i] = points'[hists[i]]
  <2>1. /\ (Past \in Seq(Seq(Seq(Units))))' /\ (Len(Past) = Len(hists) - 1)'
        /\ (\A i \in 1..(Len(hists) - 1) : Past[i] = points[hists[i]])'
    BY <1>2, ShapesAfter DEF PastShape
  <2> QED
    BY <1>2, <2>1
<1>5. \A i \in 1..(n - 1) : points'[hists[i]] = points[hists[i]]
  <2>1. \A i \in 1..(n - 1) : hists[i] # hists[n] /\ hists[i] \in Names
    BY <1>1, WhileOpen DEF IInv, Distinct
  <2>2. points \in [Names -> T] /\ points' = [points EXCEPT ![hists[n]] = line]
    BY <1>1 DEF Edits, IInv, TypeOK
  <2> QED
    BY <2>1, <2>2
<1>6. Past' = Past
  <2> HIDE DEF T
  <2>1. \A i \in 1..(n - 1) : Past'[i] = Past[i]
    BY <1>3, <1>4, <1>5
  <2> QED
    BY <1>3, <1>4, <2>1, SeqEqual
<1>7. Line' = Latest' /\ At' = idx'
  BY <1>2, ShapesAfter DEF PastShape
<1>8. Latest' = line
  BY <1>1, <1>2 DEF Latest, Edits, IInv, TypeOK
<1> QED
  BY <1>2, <1>6, <1>7, <1>8

LEMMA QuitsLeaves ==
  ASSUME IInv, open, Quits
  PROVE  Editor!Leave
<1> DEFINE n == Len(hists)
           T == Seq(Seq(Units))
<1>1. n \in Nat \ {0} /\ Last(hists) = hists[n]
  BY WhileOpen
<1>2. IInv' /\ ~open' /\ Len(hists') = n - 1 /\ \A i \in 1..(n - 1) : hists'[i] = hists[i]
  <2>1. hists' = Front(hists) /\ hists # <<>> /\ hists \in Seq(Names)
    BY <1>1, WhileOpen DEF Quits
  <2>2. Len(hists') = n - 1 /\ \A i \in 1..(n - 1) : hists'[i] = hists[i]
    BY <2>1, FrontProperties
  <2>3. IInv'
    BY QuitsKeeps
  <2> QED
    BY <2>2, <2>3 DEF Quits
<1>3. Past \in Seq(T) /\ Len(Past) = n - 1
      /\ \A i \in 1..(n - 1) : Past[i] = points[hists[i]]
  BY PastWhileOpen DEF PastShape
<1>4. Past' \in Seq(T) /\ Len(Past') = n - 1
      /\ \A i \in 1..(n - 1) : Past'[i] = points'[hists[i]]
  <2>1. /\ (Lines \in Seq(Seq(Seq(Units))))' /\ (Len(Lines) = Len(hists))'
        /\ (\A i \in 1..Len(hists) : Lines[i] = points[hists[i]])'
    BY <1>2, ShapesAfter DEF LinesShape
  <2>2. Past' = Lines'
    BY <1>2 DEF Past
  <2> QED
    BY <1>2, <2>1, <2>2
<1>5. \A i \in 1..(n - 1) : points'[hists[i]] = points[hists[i]]
  <2>1. \A i \in 1..(n - 1) : hists[i] # hists[n] /\ hists[i] \in Names
    BY <1>1, WhileOpen DEF IInv, Distinct
  <2>2. points \in [Names -> T] /\ points' = [points EXCEPT ![hists[n]] = <<>>]
    BY <1>1 DEF Quits, IInv, TypeOK
  <2> QED
    BY <2>1, <2>2
<1>6. Past' = Past
  <2> HIDE DEF T
  <2>1. \A i \in 1..(n - 1) : Past'[i] = Past[i]
    BY <1>3, <1>4, <1>5
  <2> QED
    BY <1>3, <1>4, <2>1, SeqEqual
<1>7. Line' = <<>> /\ At' = n /\ Len(Past') + 1 = n
  BY <1>1, <1>2, <1>4 DEF Line, At
<1> QED
  BY <1>2, <1>6, <1>7 DEF Editor!Leave, Editor!End, Past, Line, At

LEMMA EntersEnters ==
  ASSUME IInv, open, Enters
  PROVE  Editor!Enter
<1> DEFINE n == Len(hists)
           T == Seq(Seq(Units))
<1>1. n \in Nat \ {0} /\ Latest \in T /\ Last(hists) = hists[n]
  BY WhileOpen
<1>2. Lines \in Seq(T) /\ Len(Lines) = n
      /\ \A i \in 1..n : Lines[i] = points[hists[i]]
  BY LinesProperties DEF LinesShape
<1>3. Past \in Seq(T) /\ Len(Past) = n - 1 /\ Line = Latest
      /\ \A i \in 1..(n - 1) : Past[i] = points[hists[i]]
  BY PastWhileOpen DEF PastShape
<1>4. ~open' /\ Lines' = Lines /\ hists' = hists
  BY DEF Enters, Lines
<1>5. Past' = Lines /\ Line' = <<>> /\ At' = n + 1
  BY <1>4 DEF Past, Line, At
<1>6. Lines = Append(Past, Line)
  <2> HIDE DEF T
  <2>1. Append(Past, Line) \in Seq(T) /\ Len(Append(Past, Line)) = n
        /\ Append(Past, Line)[n] = Line
        /\ \A i \in 1..(n - 1) : Append(Past, Line)[i] = Past[i]
    BY <1>1, <1>3
  <2>2. Lines[n] = Line
    BY <1>1, <1>2, <1>3 DEF Latest
  <2>3. \A i \in 1..n : Append(Past, Line)[i] = Lines[i]
    <3>1. \A i \in 1..n : i \in 1..(n - 1) \/ i = n
      BY <1>1
    <3> QED
      BY <1>2, <1>3, <2>1, <2>2, <3>1
  <2> QED
    BY <1>2, <2>1, <2>3, SeqEqual
<1>7. Len(Past') + 1 = n + 1
  BY <1>2, <1>5
<1> QED
  BY <1>4, <1>5, <1>6, <1>7 DEF Editor!Enter, Editor!End, Past, Line, At

LEMMA OpenBegins ==
  ASSUME IInv, Open
  PROVE  Editor!Begin
<1> DEFINE n == Len(hists)
           T == Seq(Seq(Units))
           new == NewName
<1>1. n \in Nat /\ Lines \in Seq(T) /\ Len(Lines) = n
      /\ \A i \in 1..n : hists[i] \in Names /\ Lines[i] = points[hists[i]]
  BY LinesProperties DEF LinesShape
<1>2. new \in Names /\ \A i \in 1..n : hists[i] # new
  BY NewNameIsNew DEF Open
<1>3. /\ hists' = Append(hists, new) /\ points' = [points EXCEPT ![new] = <<>>]
      /\ idx' = Len(hists') /\ open' /\ ~open
  BY DEF Open
<1> HIDE DEF new
<1>4. /\ Len(hists') = n + 1 /\ hists'[n + 1] = new /\ Last(hists') = new
      /\ \A i \in 1..n : hists'[i] = hists[i]
  <2>1. hists \in Seq(Names)
    BY LinesProperties DEF LinesShape
  <2> QED
    BY <1>1, <1>2, <1>3, <2>1 DEF Last
<1>5. IInv'
  BY OpenKeeps
<1>6. /\ Past' \in Seq(T) /\ Len(Past') = n /\ Line' = Latest' /\ At' = n + 1
      /\ \A i \in 1..n : Past'[i] = points'[hists[i]]
  <2>1. /\ (Past \in Seq(Seq(Seq(Units))))' /\ (Len(Past) = Len(hists) - 1)'
        /\ (\A i \in 1..(Len(hists) - 1) : Past[i] = points[hists[i]])'
        /\ (Line = Latest)' /\ (At = idx)'
    BY <1>3, <1>5, ShapesAfter DEF PastShape
  <2>2. Len(hists') - 1 = n
    BY <1>1, <1>4
  <2> QED
    BY <1>3, <1>4, <2>1, <2>2
<1>7. points \in [Names -> T]
  BY DEF IInv, TypeOK
<1>8. Latest' = <<>>
  <2>1. Latest' = points'[Last(hists')]
    BY DEF Latest
  <2> QED
    BY <1>2, <1>3, <1>4, <1>7, <2>1
<1>9. \A i \in 1..n : points'[hists[i]] = points[hists[i]]
  BY <1>1, <1>2, <1>3, <1>7
<1>10. Past = Lines /\ ~open
  BY <1>3 DEF Past
<1>11. Past' = Past
  <2> HIDE DEF T
  <2>1. \A i \in 1..n : Past'[i] = Lines[i]
    BY <1>1, <1>6, <1>9
  <2> QED
    BY <1>1, <1>6, <1>10, <2>1, SeqEqual
<1>12. Line' = <<>> /\ At' = Len(Past) + 1
  BY <1>1, <1>6, <1>8, <1>10
<1> QED
  BY <1>3, <1>11, <1>12 DEF Editor!Begin, Past, Line, At

LEMMA EditorStutters ==
  ASSUME UNCHANGED <<hists, points, idx, open>>
  PROVE  UNCHANGED Editor!vars
  BY DEF Editor!vars, Lines

LEMMA DeployStutters ==
  ASSUME NEW table, Deploy(table)
  PROVE  UNCHANGED Editor!vars
  BY EditorStutters DEF Deploy

LEMMA BackspaceImplements ==
  ASSUME IInv, open, NEW u, Backspace(u)
  PROVE  Editor!Next
<1>1. CASE Quits
  BY <1>1, QuitsLeaves DEF Editor!Next
<1>2. CASE Latest # <<>> /\ idx' = idx /\ Edits(SubSeq(Latest, 1, Len(Latest) - 1))
  <2>1. /\ Past' = Past /\ Line' = SubSeq(Latest, 1, Len(Latest) - 1)
        /\ At' = idx' /\ open' /\ Line = Latest /\ At = idx
    BY <1>2, EditsShown, PastWhileOpen DEF PastShape
  <2>2. /\ Line # <<>> /\ Line' = SubSeq(Line, 1, Len(Line) - 1)
        /\ Past' = Past /\ At' = At /\ open' = open
    <3>1. open' = open
      BY <1>2 DEF Edits
    <3> QED
      BY <1>2, <2>1, <3>1
  <2>3. Editor!Erase
    BY <2>2 DEF Editor!Erase, Past, Line, At
  <2> QED
    BY <2>3 DEF Editor!Next
<1> QED
  BY <1>1, <1>2, BackspaceEdits

LEMMA BackwardHistoryImplements ==
  ASSUME IInv, open, NEW u, BackwardHistory(u)
  PROVE  Editor!Next
<1>1. idx > 1 /\ idx' = idx - 1 /\ Edits(points[hists[idx - 1]])
  BY BackwardHistoryEdits
<1>2. Past' = Past /\ Line' = points[hists[idx - 1]] /\ At' = idx' /\ At = idx
  BY <1>1, EditsShown, PastWhileOpen DEF PastShape
<1>3. idx - 1 \in 1..(Len(hists) - 1)
  BY <1>1, WhileOpen
<1>4. Past[idx - 1] = points[hists[idx - 1]]
  BY <1>3, PastWhileOpen DEF PastShape
<1>5. open' = open
  BY <1>1 DEF Edits
<1>6. At > 1 /\ At' = At - 1 /\ Line' = Past[At - 1] /\ Past' = Past /\ open' = open
  BY <1>1, <1>2, <1>4, <1>5
<1>7. Editor!Older
  BY <1>6 DEF Editor!Older, Past, Line, At
<1> QED
  BY <1>7 DEF Editor!Next

LEMMA ForwardHistoryImplements ==
  ASSUME IInv, open, NEW u, ForwardHistory(u)
  PROVE  Editor!Next
<1> DEFINE line == IF idx' = Len(hists) THEN <<>> ELSE points[hists[idx']]
<1>1. idx < Len(hists) /\ idx' = idx + 1 /\ Edits(line)
  BY ForwardHistoryEdits
<1> HIDE DEF line
<1>2. Past' = Past /\ Line' = line /\ At' = idx' /\ At = idx /\ Len(Past) = Len(hists) - 1
  BY <1>1, EditsShown, PastWhileOpen DEF PastShape
<1>3. Len(hists) \in Nat /\ idx \in Nat
  BY WhileOpen
<1>4. line = IF idx = Len(Past) THEN <<>> ELSE Past[idx + 1]
  <2>1. CASE idx' = Len(hists)
    BY <1>1, <1>2, <1>3, <2>1 DEF line
  <2>2. CASE idx' # Len(hists)
    <3>1. idx + 1 \in 1..(Len(hists) - 1) /\ idx # Len(Past)
      BY <1>1, <1>2, <1>3, <2>2
    <3>2. Past[idx + 1] = points[hists[idx + 1]]
      BY <3>1, PastWhileOpen DEF PastShape
    <3> QED
      BY <1>1, <2>2, <3>1, <3>2 DEF line
  <2> QED
    BY <2>1, <2>2
<1>5. open' = open
  BY <1>1 DEF Edits
<1>6. /\ At <= Len(Past) /\ At' = At + 1 /\ Past' = Past /\ open' = open
      /\ Line' = IF At = Len(Past) THEN <<>> ELSE Past[At + 1]
  BY <1>1, <1>2, <1>3, <1>4, <1>5
<1>7. Editor!Newer
  BY <1>6 DEF Editor!Newer, Past, Line, At
<1> QED
  BY <1>7 DEF Editor!Next

LEMMA WriteImplements ==
  ASSUME IInv, open, NEW u \in Inputs, WriteAsPrintable(u)
  PROVE  Editor!Next \/ UNCHANGED Editor!vars
<1>1. CASE Listens
  BY <1>1, EditorStutters DEF Listens
<1>2. ASSUME NEW units \in Seq(Units), idx' = idx, Edits(Append(Latest, units))
      PROVE  Editor!Next
  <2>1. Past' = Past /\ Line' = Append(Latest, units) /\ At' = idx' /\ Line = Latest /\ At = idx
    BY <1>2, EditsShown, PastWhileOpen DEF PastShape
  <2>2. Latest \in Seq(Seq(Units))
    BY WhileOpen
  <2>3. /\ Len(Append(Latest, units)) = Len(Latest) + 1
        /\ SubSeq(Append(Latest, units), 1, Len(Latest)) = Latest
    <3> DEFINE all == Append(Latest, units)
               pre == SubSeq(all, 1, Len(Latest))
    <3>1. /\ all \in Seq(Seq(Units)) /\ Len(all) = Len(Latest) + 1
          /\ \A i \in 1..Len(Latest) : all[i] = Latest[i]
      BY <2>2
    <3>2. Len(Latest) \in 0..Len(all)
      BY <2>2, <3>1, LenProperties
    <3> HIDE DEF all
    <3>3. /\ pre \in Seq(Seq(Units)) /\ Len(pre) = Len(Latest)
          /\ \A i \in 1..Len(Latest) : pre[i] = all[i]
      BY <3>1, <3>2, SubSeqProperties
    <3> HIDE DEF pre
    <3>4. pre = Latest
      BY <2>2, <3>1, <3>3, SeqEqual
    <3> QED
      BY <3>1, <3>4 DEF all, pre
  <2>4. open' = open
    BY <1>2 DEF Edits
  <2>5. /\ Len(Line') = Len(Line) + 1 /\ SubSeq(Line', 1, Len(Line)) = Line
        /\ Past' = Past /\ At' = At /\ open' = open
    BY <1>2, <2>1, <2>3, <2>4
  <2>6. Editor!Type
    BY <2>5 DEF Editor!Type, Past, Line, At
  <2> QED
    BY <2>6 DEF Editor!Next
<1> QED
  BY <1>1, <1>2, WriteEdits

LEMMA NextImplements == IInv /\ [Next]_vars => [Editor!Next]_(Editor!vars)
<1> SUFFICES ASSUME IInv, [Next]_vars
             PROVE  Editor!Next \/ UNCHANGED Editor!vars
  OBVIOUS
<1>1. CASE Open
  BY <1>1, OpenBegins DEF Editor!Next
<1>2. ASSUME NEW u \in Inputs, Input(u)
      PROVE  Editor!Next \/ UNCHANGED Editor!vars
  <2>0. open
    BY <1>2 DEF Input
  <2>1. CASE Escape(u)
    <3>1. Quits
      BY <2>1 DEF Escape, QuitLoop, Quits
    <3> QED
      BY <2>0, <3>1, QuitsLeaves DEF Editor!Next
  <2>2. CASE Backspace(u)
    BY <2>0, <2>2, BackspaceImplements
  <2>3. CASE BackwardHistory(u)
    BY <2>0, <2>3, BackwardHistoryImplements
  <2>4. CASE ForwardHistory(u)
    BY <2>0, <2>4, ForwardHistoryImplements
  <2>5. CASE Decide(u)
    BY <2>0, <2>5, DecideEnters, EntersEnters DEF Editor!Next
  <2>6. CASE WriteAsPrintable(u)
    BY <2>0, <2>6, WriteImplements
  <2> QED
    BY <1>2, <2>1, <2>2, <2>3, <2>4, <2>5, <2>6 DEF Input
<1>3. ASSUME NEW table \in Tables, Deploy(table)
      PROVE  UNCHANGED Editor!vars
  BY <1>3, DeployStutters
<1>4. CASE UNCHANGED vars
  BY <1>4, EditorStutters DEF vars
<1> QED
  BY <1>1, <1>2, <1>3, <1>4 DEF Next

(* The history of shared entries behaves, for a history and lines of any   *)
(* length, like lines that are copied: no arrow, no erased unit and no     *)
(* line that is left changes a line that was entered (ToCommand, hists_).  *)
THEOREM HistoryIsCopied == Spec => ImplementsEditor
<1>1. Init => Editor!Init
  <2> SUFFICES ASSUME Init
               PROVE  Editor!Init
    OBVIOUS
  <2>1. ~open /\ hists = <<>> /\ Len(hists) = 0 /\ Lines = <<>>
    BY DEF Init, Lines
  <2> QED
    BY <2>1 DEF Init, Editor!Init
<1> QED
  BY <1>1, InvInit, InvNext, NextImplements, PTL DEF Spec, ImplementsEditor, Editor!Spec

=============================================================================
