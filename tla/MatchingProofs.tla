---------------------------- MODULE MatchingProofs ----------------------------
(***************************************************************************)
(* What the operators of Matching and Solving compute, for tables, commands*)
(* and inputs of any length: a stack that grew by StepOf holds the only    *)
(* spelling of what the matcher was fed, and the matchers of a table       *)
(* remember the same.  The proofs about CmdMatcher, MapSolver, CommandLine,*)
(* MapRegistry and EasyClick use it.                                       *)
(***************************************************************************)
EXTENDS Solving, Sublists, TLAPS, SequenceTheorems, WellFoundedInduction

-----------------------------------------------------------------------------
(* Numbers and sequences.                                                  *)

(* A set of numbers has a least one.                                      *)
LEMMA NoLess ==
  ASSUME NEW T, NEW m \in T, T \subseteq Nat,
         \A y \in T : ~(<<y, m>> \in OpToRel(<, Nat))
  PROVE  \A y \in T : ~(y < m)
  BY Zenon DEF OpToRel

LEMMA LeastElement ==
  ASSUME NEW T \in SUBSET Nat, T # {}
  PROVE  \E m \in T : \A y \in T : ~(y < m)
<1>1. PICK m \in T : \A y \in T : ~(<<y, m>> \in OpToRel(<, Nat))
  BY NatLessThanWellFounded, WFMin, Zenon
<1>2. \A y \in T : ~(y < m)
  BY <1>1, NoLess, Zenon
<1> QED
  BY <1>1, <1>2, Zenon

(* A set of numbers up to a bound that holds zero and, with each number    *)
(* below the bound, the next, holds the bound.                             *)
LEMMA InductionUpTo ==
  ASSUME NEW N \in Nat, NEW S, 0 \in S, \A n \in 0..(N - 1) : n \in S => n + 1 \in S
  PROVE  \A n \in 0..N : n \in S
<1> DEFINE T == (0..N) \ S
<1> SUFFICES ASSUME T # {}
             PROVE  FALSE
  OBVIOUS
<1>1. T \in SUBSET Nat
  OBVIOUS
<1>2. PICK m \in T : \A y \in T : ~(y < m)
  <2> HIDE DEF T
  <2> QED
    BY <1>1, LeastElement
<1>3. m \in 1..N /\ m \notin S
  BY <1>2
<1>4. m - 1 \in 0..(N - 1) /\ m - 1 < m /\ m - 1 + 1 = m
  BY <1>3
<1>5. m - 1 \in S
  BY <1>2, <1>4
<1> QED
  BY <1>3, <1>4, <1>5

(* A function that is defined by recursion over the numbers up to a bound. *)
Recursive(f, N, S, base, step) ==
  /\ f \in [0..N -> S]
  /\ f[0] = base
  /\ \A n \in 1..N : f[n] = step[n][f[n - 1]]

LEMMA RecursionUpTo ==
  ASSUME NEW N \in Nat, NEW S, NEW base \in S, NEW step \in [1..N -> [S -> S]]
  PROVE  \E f : Recursive(f, N, S, base, step)
<1> DEFINE Good(f, k) == /\ f[0] = base
                        /\ \A n \in 1..k : f[n] = step[n][f[n - 1]]
           P == {k \in 0..N : \E f \in [0..k -> S] : Good(f, k)}
<1>1. 0 \in P
  <2> DEFINE f0 == [n \in 0..0 |-> base]
  <2>1. f0 \in [0..0 -> S] /\ f0[0] = base /\ 1..0 = {}
    OBVIOUS
  <2> HIDE DEF f0
  <2>2. Good(f0, 0)
    BY <2>1
  <2> QED
    BY <2>1, <2>2
<1>2. ASSUME NEW k \in 0..(N - 1), k \in P
      PROVE  k + 1 \in P
  <2>1. PICK f \in [0..k -> S] : Good(f, k)
    BY <1>2
  <2> DEFINE g == [n \in 0..(k + 1) |-> IF n = k + 1 THEN step[k + 1][f[k]] ELSE f[n]]
  <2>2. step[k + 1] \in [S -> S] /\ f[k] \in S
    OBVIOUS
  <2>3. g \in [0..(k + 1) -> S]
    BY <2>2
  <2>4. g[k + 1] = step[k + 1][f[k]] /\ \A n \in 0..k : g[n] = f[n]
    OBVIOUS
  <2> HIDE DEF g
  <2>5. ASSUME NEW n \in 1..(k + 1)
        PROVE  g[n] = step[n][g[n - 1]]
    <3>1. CASE n = k + 1
      BY <2>4, <3>1
    <3>2. CASE n \in 1..k
      <4>1. n - 1 \in 0..k /\ n \in 0..k
        BY <3>2
      <4> QED
        BY <2>1, <2>4, <3>2, <4>1
    <3> QED
      BY <3>1, <3>2
  <2>6. Good(g, k + 1)
    BY <2>1, <2>4, <2>5
  <2> QED
    BY <2>3, <2>6
<1>3. \A k \in 0..(N - 1) : k \in P => k + 1 \in P
  BY <1>2
<1> HIDE DEF P
<1>4. \A k \in 0..N : k \in P
  BY <1>1, <1>3, InductionUpTo, Zenon
<1>5. N \in P
  BY <1>4
<1> QED
  BY <1>5 DEF P, Recursive

(* A function that follows such a recursion stays in its range...          *)
Follows(f, N, S, base, step) ==
  /\ f[0] = base
  /\ \A n \in 1..N : f[n - 1] \in S => f[n] = step[n][f[n - 1]]

LEMMA FollowsType ==
  ASSUME NEW N \in Nat, NEW S, NEW base \in S, NEW step \in [1..N -> [S -> S]],
         NEW f, Follows(f, N, S, base, step)
  PROVE  \A n \in 0..N : f[n] \in S
<1> DEFINE P == {n \in 0..N : f[n] \in S}
<1>1. 0 \in P
  BY DEF Follows
<1>2. ASSUME NEW n \in 0..(N - 1), n \in P
      PROVE  n + 1 \in P
  <2>1. n + 1 \in 1..N /\ n + 1 - 1 = n /\ f[n] \in S
    BY <1>2
  <2>2. f[n + 1] = step[n + 1][f[n]]
    BY <2>1 DEF Follows
  <2> QED
    BY <2>1, <2>2
<1>3. \A n \in 0..(N - 1) : n \in P => n + 1 \in P
  BY <1>2
<1> HIDE DEF P
<1>4. \A n \in 0..N : n \in P
  BY <1>1, <1>3, InductionUpTo, Zenon
<1> QED
  BY <1>4 DEF P

(* ... and is the only one that does.                                      *)
LEMMA FollowsUnique ==
  ASSUME NEW N \in Nat, NEW S, NEW base \in S, NEW step \in [1..N -> [S -> S]],
         NEW f, Follows(f, N, S, base, step),
         NEW g, Follows(g, N, S, base, step)
  PROVE  \A n \in 0..N : f[n] = g[n]
<1> DEFINE P == {n \in 0..N : f[n] = g[n]}
<1>1. 0 \in P
  BY DEF Follows
<1>2. ASSUME NEW n \in 0..(N - 1), n \in P
      PROVE  n + 1 \in P
  <2>1. n + 1 \in 1..N /\ n + 1 - 1 = n /\ f[n] = g[n] /\ n \in 0..N
    BY <1>2
  <2>2. f[n] \in S
    BY <2>1, FollowsType
  <2>3. f[n + 1] = step[n + 1][f[n]] /\ g[n + 1] = step[n + 1][g[n]]
    BY <2>1, <2>2 DEF Follows
  <2> QED
    BY <2>1, <2>3
<1>3. \A n \in 0..(N - 1) : n \in P => n + 1 \in P
  BY <1>2
<1> HIDE DEF P
<1>4. \A n \in 0..N : n \in P
  BY <1>1, <1>3, InductionUpTo, Zenon
<1> QED
  BY <1>4 DEF P

Beginning(s, n) == SubSeq(s, 1, n)

(* Sequences are built by appending.                                       *)
LEMMA BuiltByAppending ==
  ASSUME NEW T, NEW s \in Seq(T)
  PROVE  /\ Beginning(s, 0) = <<>>
         /\ Beginning(s, Len(s)) = s
         /\ \A n \in 0..(Len(s) - 1) :
              /\ Beginning(s, n) \in Seq(T)
              /\ s[n + 1] \in T
              /\ Beginning(s, n + 1) = Append(Beginning(s, n), s[n + 1])
  BY DEF Beginning

(* The definition of Among as the value that is built up.                  *)
AmongStep(kept, x, set) == IF x \in set THEN Append(kept, x) ELSE kept

AmongFun(s, set, kept) ==
  kept = [n \in 0..Len(s) |-> IF n = 0 THEN <<>> ELSE AmongStep(kept[n - 1], s[n], set)]

LEMMA AmongBuilt ==
  ASSUME NEW T, NEW s \in Seq(T), NEW set
  PROVE  \E kept :
           /\ Among(s, set) = kept[Len(s)]
           /\ kept[0] = <<>>
           /\ \A n \in 1..Len(s) : kept[n] = AmongStep(kept[n - 1], s[n], set)
           /\ \A n \in 0..Len(s) : kept[n] \in Seq(T \cap set)
<1> DEFINE N    == Len(s)
           S    == Seq(T \cap set)
           step == [n \in 1..N |-> [k \in S |-> AmongStep(k, s[n], set)]]
           kept == CHOOSE k : AmongFun(s, set, k)
<1>1. N \in Nat /\ <<>> \in S
  OBVIOUS
<1>2. ASSUME NEW n \in 1..N, NEW k \in S
      PROVE  AmongStep(k, s[n], set) \in S
  BY DEF AmongStep
<1>3. step \in [1..N -> [S -> S]]
  BY <1>2
<1>4. \A n \in 1..N : \A k \in S : step[n][k] = AmongStep(k, s[n], set)
  OBVIOUS
<1> HIDE DEF step, S, N
<1>5. PICK f : Recursive(f, N, S, <<>>, step)
  BY <1>1, <1>3, RecursionUpTo
<1>6. AmongFun(s, set, f)
  <2>1. ASSUME NEW n \in 0..N
        PROVE  f[n] = IF n = 0 THEN <<>> ELSE AmongStep(f[n - 1], s[n], set)
    <3>1. CASE n = 0
      BY <1>5, <3>1 DEF Recursive
    <3>2. CASE n # 0
      <4>1. n \in 1..N /\ n - 1 \in 0..N
        BY <1>1, <3>2
      <4> QED
        BY <1>4, <1>5, <3>2, <4>1 DEF Recursive
    <3> QED
      BY <3>1, <3>2
  <2> QED
    BY <1>5, <2>1 DEF AmongFun, N, Recursive
<1>7. AmongFun(s, set, kept)
  BY <1>6
<1>8. Among(s, set) = kept[N]
  BY DEF Among, AmongFun, AmongStep, N
<1> HIDE DEF kept
<1>9. kept[0] = <<>> /\ \A n \in 1..N : kept[n] = AmongStep(kept[n - 1], s[n], set)
  BY <1>1, <1>7 DEF AmongFun, N
<1>10. Follows(kept, N, S, <<>>, step)
  BY <1>4, <1>9 DEF Follows
<1>11. \A n \in 0..N : kept[n] \in S
  BY <1>1, <1>3, <1>10, FollowsType
<1> QED
  BY <1>8, <1>9, <1>11 DEF N, S

(* Among keeps elements of the sequence that are in the set.               *)
LEMMA AmongType ==
  ASSUME NEW T, NEW s \in Seq(T), NEW set
  PROVE  Among(s, set) \in Seq(T \cap set) /\ Among(s, set) \in Seq(T)
<1>1. PICK kept : /\ Among(s, set) = kept[Len(s)]
                  /\ \A n \in 0..Len(s) : kept[n] \in Seq(T \cap set)
  BY AmongBuilt
<1>2. Len(s) \in 0..Len(s)
  OBVIOUS
<1>3. Among(s, set) \in Seq(T \cap set)
  BY <1>1, <1>2
<1> QED
  BY <1>3

-----------------------------------------------------------------------------
(* The operators of Matching.                                              *)

LEMMA MatchAtType ==
  ASSUME NEW c \in Seq(Units), NEW h \in Nat, NEW u
  PROVE  \/ MatchAt(c, h, u) \in Entry
         \/ MatchAt(c, h, u) = Push(Diverges, h)
<1>1. Len(c) \in Nat
  OBVIOUS
<1>2. Reject(c) \in Entry /\ TakeNum(c, h) \in Entry
  BY <1>1 DEF Reject, TakeNum, Push, Entry, States
<1>3. \A s \in States : Push(s, h) \in Entry
  BY DEF Push, Entry
<1> QED
  BY <1>1, <1>2, <1>3 DEF MatchAt, States

(* An update either never returns or pushes a well-formed entry.           *)
LEMMA StepOfType ==
  ASSUME NEW c \in Seq(Units), NEW t \in Entry, NEW u
  PROVE  \/ StepOf(c, t, u) \in Entry
         \/ StepOf(c, t, u).state = Diverges
<1>1. /\ t.head \in Nat
      /\ t.head + 1 \in Nat
      /\ t.state \in States
      /\ Len(c) \in Nat
  BY DEF Entry
<1>2. Push(Diverges, t.head + 1).state = Diverges
  BY DEF Push
<1>3. \/ MatchAt(c, t.head + 1, u) \in Entry
      \/ MatchAt(c, t.head + 1, u).state = Diverges
  BY <1>1, <1>2, MatchAtType
<1>4. Reject(c) \in Entry /\ TakeNum(c, t.head) \in Entry
  BY <1>1 DEF Reject, TakeNum, Push, Entry, States
<1>5. Push("ANY_ACCEPTED", t.head) \in Entry
  BY <1>1 DEF Push, Entry, States
<1> QED
  BY <1>1, <1>3, <1>4, <1>5 DEF StepOf, States

LEMMA TopType ==
  ASSUME NEW s \in Seq(Entry)
  PROVE  Top(s) \in Entry
<1>1. CASE s = <<>>
  BY <1>1 DEF Top, Push, Entry, States
<1>2. CASE s # <<>>
  <2>1. Len(s) \in 1..Len(s)
    BY <1>2, EmptySeq, LenProperties
  <2> QED
    BY <1>2, <2>1, ElementOfSeq DEF Top
<1> QED
  BY <1>1, <1>2

(* What backward_state(n) leaves is the beginning of the stack.            *)
LEMMA BackwardProperties ==
  ASSUME NEW S, NEW s \in Seq(S), NEW n \in Nat
  PROVE  /\ Backward(s, n) \in Seq(S)
         /\ Len(Backward(s, n)) = IF n < Len(s) THEN Len(s) - n ELSE 0
         /\ \A k \in 1..Len(Backward(s, n)) : Backward(s, n)[k] = s[k]
<1> DEFINE m == IF n < Len(s) THEN Len(s) - n ELSE 0
<1>1. m \in 0..Len(s)
  BY LenProperties
<1>2. /\ SubSeq(s, 1, m) \in Seq(S)
      /\ Len(SubSeq(s, 1, m)) = m
      /\ \A k \in 1..m : SubSeq(s, 1, m)[k] = s[k]
  BY <1>1, SubSeqProperties
<1> QED
  BY <1>2 DEF Backward

-----------------------------------------------------------------------------
(* A step of the matcher is a step of a spelling.                          *)

IsLive(e) == e.state # "REJECTED"

(* The state of an entry says what kind of unit its head points at, and    *)
(* whether that is the last one.                                           *)
EntryFits(c, e) ==
  /\ e \in Entry
  /\ IsLive(e) =>
       /\ e.head \in 1..Len(c)
       /\ (e.state = "ANY_ACCEPTED") <=> IsAny(c[e.head])
       /\ (e.state \in {"ANYNUM_MATCHING", "ANYNUM_ACCEPTED"}) <=> IsNum(c[e.head])
       /\ (e.state \in {"ACCEPTED", "ANYNUM_ACCEPTED"}) => e.head = Len(c)
       /\ (e.state \in {"MATCHING", "ANYNUM_MATCHING"}) => e.head < Len(c)

(* update_matching() at a position goes on exactly when the position       *)
(* exists and covers the input.                                            *)
LEMMA MatchAtFollows ==
  ASSUME NEW c \in Seq(Units), NEW h \in Nat \ {0}, NEW u,
         MatchAt(c, h, u).state # Diverges
  PROVE  /\ IsLive(MatchAt(c, h, u)) <=> (h <= Len(c) /\ Covers(c[h], u))
         /\ IsLive(MatchAt(c, h, u)) => MatchAt(c, h, u).head = h
         /\ EntryFits(c, MatchAt(c, h, u))
<1> USE DEF IsLive, EntryFits, Entry, States, Push, Reject, Diverges
<1>0. Len(c) \in Nat
  OBVIOUS
<1>1. CASE h > Len(c)
  BY <1>0, <1>1 DEF MatchAt
<1>2. CASE h <= Len(c) /\ IsAny(c[h])
  <2>1. MatchAt(c, h, u) = Push("ANY_ACCEPTED", h)
    BY <1>0, <1>2 DEF MatchAt, IsNum, IsAny
  <2> QED
    BY <1>0, <1>2, <2>1 DEF Covers, IsNum, IsAny
<1>3. CASE h <= Len(c) /\ IsNum(c[h])
  <2>1. MatchAt(c, h, u) = IF u \notin TextUnits THEN TakeNum(c, h)
                           ELSE IF h = Len(c) THEN Reject(c)
                           ELSE Push(Diverges, h)
    BY <1>0, <1>3 DEF MatchAt, IsNum, IsAny
  <2>2. ~IsAny(c[h])
    BY <1>3 DEF IsNum, IsAny
  <2>3. CASE u \notin TextUnits
    BY <1>0, <1>3, <2>1, <2>2, <2>3 DEF TakeNum, Covers
  <2>4. CASE u \in TextUnits
    BY <1>0, <1>3, <2>1, <2>2, <2>4 DEF Covers
  <2> QED
    BY <2>3, <2>4
<1>4. CASE h <= Len(c) /\ ~IsAny(c[h]) /\ ~IsNum(c[h])
  <2>1. MatchAt(c, h, u) =
          IF UnitMatches(c[h], u)
          THEN Push(IF h = Len(c) THEN "ACCEPTED" ELSE "MATCHING", h)
          ELSE Reject(c)
    BY <1>0, <1>4 DEF MatchAt
  <2>2. Covers(c[h], u) <=> UnitMatches(c[h], u)
    BY <1>4 DEF Covers
  <2> QED
    BY <1>0, <1>4, <2>1, <2>2
<1> QED
  BY <1>0, <1>1, <1>2, <1>3, <1>4

(* The position a spelling has to take next, after the entry t.            *)
NextHead(c, t, u) == IF Stays(c[t.head], u) THEN t.head ELSE t.head + 1

LEMMA StepFollows ==
  ASSUME NEW c \in Seq(Units), NEW t, EntryFits(c, t), IsLive(t), NEW u,
         StepOf(c, t, u).state # Diverges
  PROVE  LET e == StepOf(c, t, u)
             h == NextHead(c, t, u)
         IN  /\ IsLive(e) <=> (h \in 1..Len(c) /\ Covers(c[h], u))
             /\ IsLive(e) => e.head = h
             /\ EntryFits(c, e)
<1> DEFINE e == StepOf(c, t, u)
           h == NextHead(c, t, u)
<1>0. /\ Len(c) \in Nat
      /\ t.head \in 1..Len(c)
      /\ t.head + 1 \in Nat \ {0}
      /\ t.state \in States \ {"REJECTED"}
  BY DEF EntryFits, IsLive, Entry
<1>1. EntryFits(c, Reject(c)) /\ ~IsLive(Reject(c))
  BY <1>0 DEF EntryFits, IsLive, Entry, States, Reject, Push
<1>2. CASE t.state = "ACCEPTED"
  <2>1. e = Reject(c)
    BY <1>2 DEF StepOf
  <2>2. h = Len(c) + 1
    BY <1>0, <1>2 DEF EntryFits, IsLive, NextHead, Stays
  <2> QED
    BY <1>0, <1>1, <2>1, <2>2
<1>3. CASE t.state = "ANY_ACCEPTED"
  <2>1. e = Push("ANY_ACCEPTED", t.head)
    BY <1>3 DEF StepOf
  <2>2. IsAny(c[t.head]) /\ ~IsNum(c[t.head])
    BY <1>3 DEF EntryFits, IsLive, IsNum, IsAny
  <2>3. h = t.head /\ Covers(c[h], u)
    BY <2>2 DEF NextHead, Stays, Covers
  <2> QED
    BY <1>0, <2>1, <2>2, <2>3 DEF EntryFits, IsLive, Entry, States, Push
<1>4. CASE t.state = "MATCHING"
  <2>1. e = MatchAt(c, t.head + 1, u)
    BY <1>4 DEF StepOf
  <2>2. h = t.head + 1
    BY <1>4 DEF EntryFits, IsLive, NextHead, Stays
  <2> QED
    BY <1>0, <2>1, <2>2, MatchAtFollows
<1>5. CASE t.state \in {"ANYNUM_MATCHING", "ANYNUM_ACCEPTED"}
  <2>1. IsNum(c[t.head]) /\ ~IsAny(c[t.head])
    BY <1>5 DEF EntryFits, IsLive, IsNum, IsAny
  <2>2. CASE u \notin TextUnits
    <3>1. e = TakeNum(c, t.head)
      BY <1>5, <2>2 DEF StepOf
    <3>2. h = t.head /\ Covers(c[h], u)
      BY <2>1, <2>2 DEF NextHead, Stays, Covers
    <3> QED
      BY <1>0, <2>1, <3>1, <3>2
      DEF EntryFits, IsLive, Entry, States, Push, TakeNum
  <2>3. CASE u \in TextUnits /\ t.head = Len(c)
    <3>1. e = Reject(c)
      BY <1>5, <2>3 DEF StepOf
    <3>2. h = Len(c) + 1
      BY <2>1, <2>3 DEF NextHead, Stays
    <3> QED
      BY <1>0, <1>1, <3>1, <3>2
  <2>4. CASE u \in TextUnits /\ t.head # Len(c)
    <3>1. e = MatchAt(c, t.head + 1, u)
      BY <1>5, <2>4 DEF StepOf
    <3>2. h = t.head + 1
      BY <2>1, <2>4 DEF NextHead, Stays
    <3> QED
      BY <1>0, <3>1, <3>2, MatchAtFollows
  <2> QED
    BY <2>2, <2>3, <2>4
<1> QED
  BY <1>0, <1>2, <1>3, <1>4, <1>5 DEF States

(* An update that never returns is one at a <num> that is not the last     *)
(* unit, from an entry that goes on there.                                 *)
LEMMA DivergesAtNumber ==
  ASSUME NEW c \in Seq(Units), NEW t \in Entry, NEW u,
         StepOf(c, t, u).state = Diverges
  PROVE  /\ IsLive(t)
         /\ t.head + 1 \in 1..(Len(c) - 1)
         /\ IsNum(c[t.head + 1])
<1>1. t.head \in Nat /\ t.head + 1 \in Nat \ {0} /\ Len(c) \in Nat /\ t.state \in States
  BY DEF Entry
<1>2. ASSUME MatchAt(c, t.head + 1, u).state = Diverges
      PROVE  t.head + 1 \in 1..(Len(c) - 1) /\ IsNum(c[t.head + 1])
  <2> DEFINE h == t.head + 1
  <2> HIDE DEF h
  <2>1. h \in Nat \ {0} /\ MatchAt(c, h, u).state = Diverges
    BY <1>1, <1>2 DEF h
  <2>2. h <= Len(c) /\ h # Len(c) /\ IsNum(c[h])
    BY <1>1, <2>1 DEF MatchAt, Reject, TakeNum, Push, Diverges, IsNum
  <2> QED
    BY <1>1, <2>1, <2>2 DEF h
<1>3. IsLive(t) /\ MatchAt(c, t.head + 1, u).state = Diverges
  BY <1>1 DEF StepOf, Reject, TakeNum, Push, Diverges, IsLive, States
<1> QED
  BY <1>2, <1>3

-----------------------------------------------------------------------------
(* The heads on a live stack are the only spelling of the history.         *)

Heads(s, k) == [j \in 1..k |-> s[j].head]

SpellsOut(c, s, w) ==
  \A k \in 1..Len(s) :
    /\ EntryFits(c, s[k])
    /\ IsLive(s[k]) => Heads(s, k) \in [1..k -> 1..Len(c)]
    /\ IsLive(s[k]) => Spelling(c, w, k, Heads(s, k))
    /\ \A p \in [1..k -> 1..Len(c)] :
         Spelling(c, w, k, p) => IsLive(s[k]) /\ p = Heads(s, k)

(* Taking inputs back keeps what is left.                                  *)
LEMMA PrefixSpellsOut ==
  ASSUME NEW c, NEW s, NEW w, NEW s2, NEW w2,
         Len(s) \in Nat, Len(s2) \in 0..Len(s),
         \A k \in 1..Len(s2) : s2[k] = s[k],
         \A k \in 1..Len(s2) : w2[k] = w[k],
         SpellsOut(c, s, w)
  PROVE  SpellsOut(c, s2, w2)
<1> SUFFICES ASSUME NEW k \in 1..Len(s2)
             PROVE  /\ EntryFits(c, s2[k])
                    /\ IsLive(s2[k]) => Heads(s2, k) \in [1..k -> 1..Len(c)]
                    /\ IsLive(s2[k]) => Spelling(c, w2, k, Heads(s2, k))
                    /\ \A p \in [1..k -> 1..Len(c)] :
                         Spelling(c, w2, k, p)
                           => IsLive(s2[k]) /\ p = Heads(s2, k)
  BY DEF SpellsOut
<1>1. k \in 1..Len(s) /\ \A j \in 1..k : j \in 1..Len(s2)
  OBVIOUS
<1>2. Heads(s2, k) = Heads(s, k)
  BY <1>1 DEF Heads
<1>3. ASSUME NEW p
      PROVE  Spelling(c, w2, k, p) <=> Spelling(c, w, k, p)
  <2>1. \A j \in 1..k : w2[j] = w[j]
    BY <1>1
  <2>2. \A j \in 1..(k - 1) : w2[j + 1] = w[j + 1]
    BY <1>1
  <2> QED
    BY <2>1, <2>2 DEF Spelling
<1> QED
  BY <1>1, <1>2, <1>3 DEF SpellsOut

(* A spelling of one more input is a spelling of the inputs before it and  *)
(* the position that follows.                                              *)
LEMMA SpellingExtends ==
  ASSUME NEW c, NEW w, NEW k \in Nat,
         NEW p \in [1..(k + 1) -> 1..Len(c)]
  PROVE  Spelling(c, w, k + 1, p) <=>
           /\ Spelling(c, w, k, [j \in 1..k |-> p[j]])
           /\ Covers(c[p[k + 1]], w[k + 1])
           /\ p[k + 1] = IF k = 0 THEN 1
                         ELSE IF Stays(c[p[k]], w[k + 1]) THEN p[k]
                         ELSE p[k] + 1
<1> DEFINE q == [j \in 1..k |-> p[j]]
<1>1. q \in [1..k -> 1..Len(c)] /\ \A j \in 1..k : q[j] = p[j]
  OBVIOUS
<1>2. (\A i \in 1..(k + 1) : Covers(c[p[i]], w[i])) <=>
        (\A i \in 1..k : Covers(c[q[i]], w[i])) /\ Covers(c[p[k + 1]], w[k + 1])
  <2>1. 1..(k + 1) = (1..k) \cup {k + 1}
    OBVIOUS
  <2> QED
    BY <1>1, <2>1
<1>3. CASE k = 0
  BY <1>1, <1>2, <1>3 DEF Spelling
<1>4. CASE k # 0
  <2> DEFINE R(f, i) == f[i + 1] = IF Stays(c[f[i]], w[i + 1]) THEN f[i] ELSE f[i] + 1
  <2>1. (\A i \in 1..k : R(p, i)) <=> (\A i \in 1..(k - 1) : R(p, i)) /\ R(p, k)
    <3>1. 1..k = (1..(k - 1)) \cup {k}
      BY <1>4
    <3> HIDE DEF R
    <3> QED
      BY <3>1
  <2>2. \A i \in 1..(k - 1) : R(p, i) <=> R(q, i)
    <3>1. \A i \in 1..(k - 1) : q[i] = p[i] /\ q[i + 1] = p[i + 1]
      BY <1>1
    <3> QED
      BY <3>1
  <2>3. q[1] = p[1]
    BY <1>1, <1>4
  <2>4. Spelling(c, w, k + 1, p) <=>
          /\ p[1] = 1
          /\ \A i \in 1..(k + 1) : Covers(c[p[i]], w[i])
          /\ \A i \in 1..k : R(p, i)
    <3>1. (k + 1) - 1 = k /\ k + 1 > 0
      OBVIOUS
    <3> QED
      BY <3>1 DEF Spelling
  <2>5. Spelling(c, w, k, q) <=>
          /\ q[1] = 1
          /\ \A i \in 1..k : Covers(c[q[i]], w[i])
          /\ \A i \in 1..(k - 1) : R(q, i)
    <3>1. k > 0
      BY <1>4
    <3> QED
      BY <1>1, <3>1 DEF Spelling
  <2>6. (k = 0) = FALSE
    BY <1>4
  <2>7. R(p, k) <=> p[k + 1] = IF Stays(c[p[k]], w[k + 1]) THEN p[k] ELSE p[k] + 1
    OBVIOUS
  <2> HIDE DEF R, q
  <2>8. (\A i \in 1..k : R(p, i)) <=> (\A i \in 1..(k - 1) : R(q, i)) /\ R(p, k)
    BY <2>1, <2>2
  <2>9. Spelling(c, w, k + 1, p) <=>
          /\ Spelling(c, w, k, q)
          /\ Covers(c[p[k + 1]], w[k + 1])
          /\ R(p, k)
    BY <1>2, <2>3, <2>4, <2>5, <2>8
  <2> QED
    BY <2>6, <2>7, <2>9 DEF q
<1> QED
  BY <1>3, <1>4

(* An update extends the only spelling, or shows that there is none.       *)
LEMMA AppendSpellsOut ==
  ASSUME NEW c \in Seq(Units), NEW s \in Seq(Entry), NEW I, NEW w \in Seq(I),
         Len(s) = Len(w), SpellsOut(c, s, w), NEW u \in I,
         StepOf(c, Top(s), u).state # Diverges
  PROVE  SpellsOut(c, Append(s, StepOf(c, Top(s), u)), Append(w, u))
<1> DEFINE e  == StepOf(c, Top(s), u)
           n  == Len(s)
           s2 == Append(s, e)
           w2 == Append(w, u)
           m  == n + 1
           h  == IF n = 0 THEN 1 ELSE NextHead(c, s[n], u)
<1>1. /\ n \in Nat
      /\ Len(s2) = m /\ s2[m] = e /\ w2[m] = u
      /\ \A k \in 1..n : s2[k] = s[k] /\ w2[k] = w[k]
  OBVIOUS
<1>2. /\ IsLive(e) <=> /\ n = 0 \/ IsLive(s[n])
                       /\ h \in 1..Len(c)
                       /\ Covers(c[h], u)
      /\ IsLive(e) => e.head = h
      /\ EntryFits(c, e)
  <2>1. CASE n = 0
    <3>1. Top(s).state = "MATCHING" /\ Top(s).head = 0
      BY <2>1 DEF Top, Push
    <3>2. e = MatchAt(c, 1, u)
      BY <3>1 DEF StepOf
    <3>3. 1 \in 1..Len(c) <=> 1 <= Len(c)
      OBVIOUS
    <3> QED
      BY <2>1, <3>2, <3>3, MatchAtFollows
  <2>2. CASE n # 0 /\ IsLive(s[n])
    <3>1. Top(s) = s[n] /\ EntryFits(c, s[n])
      BY <1>1, <2>2 DEF Top, SpellsOut
    <3> QED
      BY <2>2, <3>1, StepFollows
  <2>3. CASE n # 0 /\ ~IsLive(s[n])
    <3>1. Top(s) = s[n] /\ s[n].state = "REJECTED"
      BY <1>1, <2>3 DEF Top, IsLive
    <3>2. e = Reject(c)
      BY <3>1 DEF StepOf
    <3>3. ~IsLive(e) /\ e \in Entry
      BY <3>2 DEF Reject, Push, IsLive, Entry, States
    <3> QED
      BY <2>3, <3>3 DEF EntryFits
  <2> QED
    BY <2>1, <2>2, <2>3
<1>3. SpellsOut(c, s, w2)
  <2>1. /\ Len(s) \in Nat /\ Len(s) \in 0..Len(s)
        /\ \A k \in 1..Len(s) : w2[k] = w[k]
    BY <1>1
  <2> HIDE DEF w2
  <2> QED
    BY <2>1, PrefixSpellsOut
<1> HIDE DEF e, h, s2, w2
<1>4. /\ n # 0 /\ IsLive(s[n]) =>
           /\ Heads(s, n) \in [1..n -> 1..Len(c)]
           /\ Spelling(c, w2, n, Heads(s, n))
           /\ Heads(s, n)[n] = s[n].head
      /\ \A p \in [1..n -> 1..Len(c)] :
           n # 0 /\ Spelling(c, w2, n, p) => IsLive(s[n]) /\ p = Heads(s, n)
  <2>1. n # 0 => n \in 1..Len(s)
    BY <1>1
  <2> QED
    BY <1>3, <2>1 DEF SpellsOut, Heads
<1>5. \A f \in [1..0 -> 1..Len(c)] : Spelling(c, w2, 0, f)
  BY DEF Spelling
<1>6. ASSUME IsLive(e)
      PROVE  /\ Heads(s2, m) \in [1..m -> 1..Len(c)]
             /\ Spelling(c, w2, m, Heads(s2, m))
  <2> DEFINE p == Heads(s2, m)
  <2>1. p[m] = h /\ \A j \in 1..n : p[j] = s[j].head
    BY <1>1, <1>2, <1>6 DEF Heads
  <2>2. [j \in 1..n |-> p[j]] = Heads(s, n)
    BY <2>1 DEF Heads
  <2>3. p \in [1..m -> 1..Len(c)]
    <3>1. \A j \in 1..n : s[j].head \in 1..Len(c)
      <4>1. CASE n = 0
        BY <4>1
      <4>2. CASE n # 0
        BY <1>2, <1>4, <1>6, <4>2 DEF Heads
      <4> QED
        BY <4>1, <4>2
    <3>2. \A j \in 1..m : j \in 1..n \/ j = m
      BY <1>1
    <3>3. \A j \in 1..m : p[j] \in 1..Len(c)
      BY <1>2, <1>6, <2>1, <3>1, <3>2
    <3> QED
      BY <3>3 DEF Heads
  <2>4. Spelling(c, w2, n, Heads(s, n))
    <3>1. CASE n = 0
      <4>1. Heads(s, n) \in [1..0 -> 1..Len(c)]
        BY <3>1 DEF Heads
      <4> QED
        BY <1>5, <3>1, <4>1
    <3>2. CASE n # 0
      BY <1>2, <1>4, <1>6, <3>2
    <3> QED
      BY <3>1, <3>2
  <2>5. Covers(c[p[m]], w2[m])
    BY <1>1, <1>2, <1>6, <2>1
  <2>6. p[m] = IF n = 0 THEN 1
               ELSE IF Stays(c[p[n]], w2[m]) THEN p[n] ELSE p[n] + 1
    BY <1>1, <2>1 DEF h, NextHead
  <2> HIDE DEF p
  <2>7. Spelling(c, w2, n + 1, p)
    BY <1>1, <2>2, <2>3, <2>4, <2>5, <2>6, SpellingExtends
  <2> QED
    BY <2>3, <2>7 DEF p
<1>7. ASSUME NEW p \in [1..m -> 1..Len(c)], Spelling(c, w2, m, p)
      PROVE  IsLive(e) /\ p = Heads(s2, m)
  <2> DEFINE q == [j \in 1..n |-> p[j]]
  <2>1. /\ Spelling(c, w2, n, q)
        /\ Covers(c[p[m]], u)
        /\ p[m] = IF n = 0 THEN 1
                  ELSE IF Stays(c[p[n]], u) THEN p[n] ELSE p[n] + 1
    <3>1. /\ n \in Nat /\ w2[n + 1] = u
          /\ p \in [1..(n + 1) -> 1..Len(c)]
          /\ Spelling(c, w2, n + 1, p)
      BY <1>1, <1>7
    <3>2. /\ Spelling(c, w2, n, q)
          /\ Covers(c[p[n + 1]], w2[n + 1])
          /\ p[n + 1] = IF n = 0 THEN 1
                        ELSE IF Stays(c[p[n]], w2[n + 1]) THEN p[n] ELSE p[n] + 1
      BY <3>1, SpellingExtends, Zenon
    <3> QED
      BY <3>1, <3>2
  <2>2. q \in [1..n -> 1..Len(c)] /\ p[m] \in 1..Len(c)
    BY <1>1
  <2>3. n # 0 => IsLive(s[n]) /\ q = Heads(s, n)
    BY <1>4, <2>1, <2>2
  <2>4. n # 0 => p[n] = s[n].head
    <3>1. n # 0 => q[n] = p[n] /\ Heads(s, n)[n] = s[n].head
      BY <1>1 DEF Heads
    <3> QED
      BY <2>3, <3>1
  <2>5. p[m] = h
    BY <2>1, <2>4 DEF h, NextHead
  <2>6. IsLive(e) /\ e.head = p[m]
    BY <1>2, <2>1, <2>2, <2>3, <2>5
  <2>7. \A j \in 1..n : p[j] = s[j].head
    <3>1. ASSUME NEW j \in 1..n
          PROVE  p[j] = s[j].head
      <4>1. n # 0
        BY <1>1
      <4>2. q[j] = p[j] /\ Heads(s, n)[j] = s[j].head
        BY DEF Heads
      <4> QED
        BY <2>3, <4>1, <4>2
    <3> QED
      BY <3>1
  <2>8. \A j \in 1..m : p[j] = s2[j].head
    BY <1>1, <2>6, <2>7
  <2> QED
    BY <2>6, <2>8 DEF Heads
<1>8. ASSUME NEW k \in 1..n
      PROVE  s2[k] = s[k] /\ Heads(s2, k) = Heads(s, k)
  <2>1. \A j \in 1..k : s2[j] = s[j]
    BY <1>1
  <2> QED
    BY <1>1, <2>1 DEF Heads
<1>9. \A k \in 1..m : k \in 1..n \/ k = m
  BY <1>1
<1>10. ASSUME NEW k \in 1..m
       PROVE  /\ EntryFits(c, s2[k])
              /\ IsLive(s2[k]) => Heads(s2, k) \in [1..k -> 1..Len(c)]
              /\ IsLive(s2[k]) => Spelling(c, w2, k, Heads(s2, k))
              /\ \A p \in [1..k -> 1..Len(c)] :
                   Spelling(c, w2, k, p) => IsLive(s2[k]) /\ p = Heads(s2, k)
  <2>1. CASE k = m
    BY <1>1, <1>2, <1>6, <1>7, <2>1
  <2>2. CASE k \in 1..n
    <3>1. k \in 1..Len(s) /\ s2[k] = s[k] /\ Heads(s2, k) = Heads(s, k)
      BY <1>8, <2>2
    <3> QED
      BY <1>3, <3>1, Zenon DEF SpellsOut
  <2> QED
    BY <1>9, <2>1, <2>2
<1>11. SpellsOut(c, s2, w2)
  BY <1>1, <1>10 DEF SpellsOut
<1> QED
  BY <1>11 DEF e, s2, w2

-----------------------------------------------------------------------------
(* A live top is the end of the only spelling, and no spelling is left     *)
(* when the top is a rejection.                                            *)
LEMMA VerdictOfSpelling ==
  ASSUME NEW cmd \in Seq(Units), NEW stack \in Seq(Entry), NEW word,
         Len(stack) = Len(word), SpellsOut(cmd, stack, word)
  PROVE  /\ IsAccepted(stack) <=> Spells(cmd, word, Len(word))
         /\ IsRejected(stack) <=> ~Begins(cmd, word, Len(word))
<1> DEFINE n == Len(word)
<1>1. /\ n \in Nat
      /\ Len(stack) = n
      /\ cmd \in Seq(Units)
      /\ stack \in Seq(Entry)
  OBVIOUS
<1>2. CASE n = 0
  <2>1. stack = <<>>
    BY <1>1, <1>2, EmptySeq
  <2>2. [j \in 1..0 |-> 1] \in [1..0 -> 1..Len(cmd)]
    OBVIOUS
  <2>3. Begins(cmd, word, 0)
    <3>1. \A f \in [1..0 -> 1..Len(cmd)] : Spelling(cmd, word, 0, f)
      BY DEF Spelling
    <3> QED
      BY <2>2, <3>1 DEF Begins
  <2> QED
    BY <1>2, <2>1, <2>3 DEF IsAccepted, IsRejected, Spells
<1>3. CASE n # 0
  <2> DEFINE t == stack[n]
             f == Heads(stack, n)
  <2>1. n \in 1..Len(stack) /\ n > 0
    BY <1>1, <1>3
  <2>2. /\ EntryFits(cmd, t)
        /\ IsLive(t) => f \in [1..n -> 1..Len(cmd)] /\ Spelling(cmd, word, n, f)
        /\ \A p \in [1..n -> 1..Len(cmd)] :
             Spelling(cmd, word, n, p) => IsLive(t) /\ p = f
    BY <2>1 DEF SpellsOut
  <2>3. Top(stack) = t /\ stack # <<>>
    BY <1>1, <1>3, EmptySeq DEF Top
  <2>4. f[n] = t.head
    BY <2>1 DEF Heads
  <2> HIDE DEF f, t
  <2>5. Begins(cmd, word, n) <=> IsLive(t)
    BY <2>2 DEF Begins
  <2>6. Spells(cmd, word, n)
          <=> IsLive(t) /\ (t.head = Len(cmd) \/ IsAny(cmd[t.head]))
    BY <2>1, <2>2, <2>4 DEF Spells
  <2>7. IsAccepted(stack)
          <=> IsLive(t) /\ (t.head = Len(cmd) \/ IsAny(cmd[t.head]))
    <3>1. IsAccepted(stack) <=>
            t.state \in {"ACCEPTED", "ANY_ACCEPTED", "ANYNUM_ACCEPTED"}
      BY <2>3 DEF IsAccepted
    <3>2. CASE ~IsLive(t)
      BY <3>1, <3>2 DEF IsLive
    <3>3. CASE IsLive(t)
      <4>1. /\ t.state \in States \ {"REJECTED"}
            /\ t.head \in 1..Len(cmd)
            /\ Len(cmd) \in Nat
        BY <1>1, <2>2, <3>3 DEF EntryFits, Entry, IsLive
      <4> QED
        BY <2>2, <3>1, <3>3, <4>1 DEF EntryFits, States, IsLive
    <3> QED
      BY <3>2, <3>3
  <2> QED
    BY <2>3, <2>5, <2>6, <2>7 DEF IsRejected, IsLive
<1> QED
  BY <1>2, <1>3

-----------------------------------------------------------------------------
(* A stack that remembers a word: it is the one that the inputs of the     *)
(* word lead to, and holds their only spelling.                            *)

LeadsTo(c, s, w) ==
  /\ Len(s) = Len(w)
  /\ \A k \in 1..Len(s) : s[k] = StepOf(c, Below(s, k), w[k])

Remembers(c, s, w) == s \in Seq(Entry) /\ LeadsTo(c, s, w) /\ SpellsOut(c, s, w)

LEMMA NothingRemembered ==
  ASSUME NEW c
  PROVE  Remembers(c, <<>>, <<>>)
<1>1. <<>> \in Seq(Entry) /\ Len(<<>>) = 0
  OBVIOUS
<1>2. 1..0 = {}
  OBVIOUS
<1> QED
  BY <1>1, <1>2 DEF Remembers, LeadsTo, SpellsOut

(* update_state() pushes what the new input leads to.                      *)
LEMMA UpdateRemembered ==
  ASSUME NEW c \in Seq(Units), NEW s, NEW I, NEW w \in Seq(I), NEW u \in I,
         Remembers(c, s, w),
         StepOf(c, Top(s), u).state # Diverges
  PROVE  Remembers(c, Append(s, StepOf(c, Top(s), u)), Append(w, u))
<1> DEFINE e == StepOf(c, Top(s), u)
           n == Len(s)
           s2 == Append(s, e)
           w2 == Append(w, u)
<1>1. s \in Seq(Entry) /\ Len(s) = Len(w) /\ n \in Nat
  BY DEF Remembers, LeadsTo
<1>2. e \in Entry
  BY <1>1, TopType, StepOfType
<1>3. /\ s2 \in Seq(Entry)
      /\ Len(s2) = n + 1 /\ Len(w2) = n + 1
      /\ \A k \in 1..n : s2[k] = s[k] /\ w2[k] = w[k]
      /\ s2[n + 1] = e /\ w2[n + 1] = u
  BY <1>1, <1>2
<1>4. SpellsOut(c, s2, w2)
  BY <1>1, AppendSpellsOut DEF Remembers
<1> HIDE DEF e, s2, w2
<1>5. Below(s2, n + 1) = Top(s)
  <2>1. CASE n = 0
    <3>1. s = <<>>
      BY <1>1, <2>1, EmptySeq
    <3> QED
      BY <2>1, <3>1 DEF Below, Top
  <2>2. CASE n # 0
    <3>1. n \in 1..n /\ n + 1 # 1 /\ n + 1 - 1 = n /\ s # <<>>
      BY <1>1, <2>2, EmptySeq
    <3> QED
      BY <1>3, <3>1 DEF Below, Top
  <2> QED
    BY <2>1, <2>2
<1>6. ASSUME NEW k \in 1..(n + 1)
      PROVE  s2[k] = StepOf(c, Below(s2, k), w2[k])
  <2>1. CASE k = n + 1
    BY <1>3, <1>5, <2>1 DEF e
  <2>2. CASE k \in 1..n
    <3>1. Below(s2, k) = Below(s, k)
      BY <1>1, <1>3, <2>2 DEF Below
    <3>2. s[k] = StepOf(c, Below(s, k), w[k])
      BY <2>2 DEF Remembers, LeadsTo
    <3> QED
      BY <1>3, <2>2, <3>1, <3>2
  <2> QED
    BY <1>1, <2>1, <2>2
<1> QED
  BY <1>3, <1>4, <1>6 DEF Remembers, LeadsTo, e, s2, w2

(* backward_state() leaves what the inputs that are left lead to.          *)
LEMMA BackwardRemembered ==
  ASSUME NEW c, NEW s, NEW I, NEW w \in Seq(I), NEW n \in Nat,
         Remembers(c, s, w)
  PROVE  Remembers(c, Backward(s, n), Backward(w, n))
<1> DEFINE s2 == Backward(s, n)
           w2 == Backward(w, n)
<1>1. s \in Seq(Entry) /\ Len(s) = Len(w) /\ Len(s) \in Nat /\ SpellsOut(c, s, w)
  BY DEF Remembers, LeadsTo
<1>2. /\ s2 \in Seq(Entry)
      /\ Len(s2) = IF n < Len(s) THEN Len(s) - n ELSE 0
      /\ Len(w2) = Len(s2)
      /\ \A k \in 1..Len(s2) : s2[k] = s[k]
      /\ \A k \in 1..Len(s2) : w2[k] = w[k]
  BY <1>1, BackwardProperties
<1> HIDE DEF s2, w2
<1>3. Len(s2) \in 0..Len(s) /\ \A k \in 1..Len(s2) : k \in 1..Len(s)
  BY <1>1, <1>2
<1>4. SpellsOut(c, s2, w2)
  BY <1>1, <1>2, <1>3, PrefixSpellsOut
<1>5. ASSUME NEW k \in 1..Len(s2)
      PROVE  s2[k] = StepOf(c, Below(s2, k), w2[k])
  <2>1. Below(s2, k) = Below(s, k)
    BY <1>2, <1>3 DEF Below
  <2>2. s[k] = StepOf(c, Below(s, k), w[k])
    BY <1>3 DEF Remembers, LeadsTo
  <2> QED
    BY <1>2, <2>1, <2>2
<1> QED
  BY <1>2, <1>4, <1>5 DEF Remembers, LeadsTo, s2, w2

(* Taking back the input that was just pushed leaves everything as it was. *)
LEMMA BackwardOfAppend ==
  ASSUME NEW S, NEW s \in Seq(S), NEW e \in S
  PROVE  Backward(Append(s, e), 1) = s
<1> DEFINE s2 == Append(s, e)
           t  == Backward(s2, 1)
<1>1. /\ s2 \in Seq(S) /\ Len(s2) = Len(s) + 1 /\ Len(s) \in Nat
      /\ \A k \in 1..Len(s) : s2[k] = s[k]
  OBVIOUS
<1> HIDE DEF s2
<1>2. /\ t \in Seq(S)
      /\ Len(t) = IF 1 < Len(s2) THEN Len(s2) - 1 ELSE 0
      /\ \A k \in 1..Len(t) : t[k] = s2[k]
  BY <1>1, BackwardProperties
<1> HIDE DEF t
<1>3. Len(t) = Len(s) /\ \A k \in 1..Len(s) : t[k] = s[k]
  BY <1>1, <1>2
<1> QED
  BY <1>2, <1>3, SeqEqual DEF t, s2

-----------------------------------------------------------------------------
(* The operators of Solving.                                               *)

(* A table of maps with well-formed triggers.                              *)
IsTable(maps) ==
  Len(maps) \in Nat /\ \A i \in 1..Len(maps) : maps[i].trigger \in Seq(Units)

StacksOf(t) == [1..Len(t) -> Seq(Entry)]

LEMMA UpdatedType ==
  ASSUME NEW t, IsTable(t), NEW ss \in StacksOf(t), NEW u, ~SolverDiverges(t, ss, u)
  PROVE  /\ Updated(t, ss, u) \in StacksOf(t)
         /\ [i \in 1..Len(t) |-> Backward(Updated(t, ss, u)[i], 1)] \in StacksOf(t)
<1> DEFINE up == Updated(t, ss, u)
<1>1. ASSUME NEW i \in 1..Len(t)
      PROVE  up[i] \in Seq(Entry)
  <2> DEFINE c == t[i].trigger
             e == Top(ss[i])
  <2>1. c \in Seq(Units) /\ ss[i] \in Seq(Entry)
    BY DEF IsTable, StacksOf
  <2>2. e \in Entry
    BY <2>1, TopType
  <2>3. StepOf(c, e, u).state # Diverges
    BY DEF SolverDiverges
  <2>4. up[i] = Append(ss[i], StepOf(c, e, u))
    BY DEF Updated
  <2> HIDE DEF c, e, up
  <2>5. StepOf(c, e, u) \in Entry
    BY <2>1, <2>2, <2>3, StepOfType
  <2> QED
    BY <2>1, <2>4, <2>5
<1>2. up = [i \in 1..Len(t) |-> up[i]]
  BY DEF Updated
<1> HIDE DEF up
<1>3. \A i \in 1..Len(t) : Backward(up[i], 1) \in Seq(Entry)
  BY <1>1, BackwardProperties
<1>4. up \in StacksOf(t) /\ [i \in 1..Len(t) |-> Backward(up[i], 1)] \in StacksOf(t)
  BY <1>1, <1>2, <1>3 DEF StacksOf
<1> QED
  BY <1>4 DEF up

(* Only a unit that shows a text can be one too many for a <num>.          *)
LEMMA SilentUnitsReturn ==
  ASSUME NEW t, IsTable(t), NEW ss \in StacksOf(t), NEW u, u \notin TextUnits
  PROVE  ~SolverDiverges(t, ss, u)
<1> SUFFICES ASSUME NEW i \in 1..Len(t),
                    StepOf(t[i].trigger, Top(ss[i]), u).state = Diverges
             PROVE  FALSE
  BY DEF SolverDiverges
<1> DEFINE c == t[i].trigger
           e == Top(ss[i])
<1>1. c \in Seq(Units) /\ e \in Entry
  BY TopType DEF IsTable, StacksOf
<1>2. StepOf(c, e, u).state = Diverges
  OBVIOUS
<1> HIDE DEF c, e
<1>3. e.head + 1 \in Nat /\ e.state \in States /\ Len(c) \in Nat
  BY <1>1 DEF Entry
<1>4. MatchAt(c, e.head + 1, u).state # Diverges
  BY <1>3 DEF MatchAt, Reject, TakeNum, Push, Diverges
<1> QED
  BY <1>2, <1>3, <1>4 DEF StepOf, Reject, TakeNum, Push, Diverges, States

(* Every matcher remembers the word.                                       *)
AllRemember(maps, ss, w) ==
  /\ ss = [i \in 1..Len(maps) |-> ss[i]]
  /\ \A i \in 1..Len(maps) : Remembers(maps[i].trigger, ss[i], w)

LEMMA FreshRemembers ==
  ASSUME NEW maps
  PROVE  AllRemember(maps, Fresh(maps), <<>>)
  BY NothingRemembered DEF AllRemember, Fresh

LEMMA UpdatedRemembers ==
  ASSUME NEW maps, IsTable(maps), NEW ss, NEW I, NEW w \in Seq(I), NEW u \in I,
         AllRemember(maps, ss, w), ~SolverDiverges(maps, ss, u)
  PROVE  AllRemember(maps, Updated(maps, ss, u), Append(w, u))
<1> DEFINE up == Updated(maps, ss, u)
<1>1. \A i \in 1..Len(maps) :
        up[i] = Append(ss[i], StepOf(maps[i].trigger, Top(ss[i]), u))
  BY DEF Updated
<1>2. up = [i \in 1..Len(maps) |-> up[i]]
  BY DEF Updated
<1> HIDE DEF up
<1>3. ASSUME NEW i \in 1..Len(maps)
      PROVE  Remembers(maps[i].trigger, up[i], Append(w, u))
  <2> DEFINE c == maps[i].trigger
  <2> HIDE DEF c
  <2>1. c \in Seq(Units)
    BY DEF IsTable, c
  <2>2. Remembers(c, ss[i], w)
    BY DEF AllRemember, c
  <2>3. StepOf(c, Top(ss[i]), u).state # Diverges
    BY DEF SolverDiverges, c
  <2>4. Remembers(c, Append(ss[i], StepOf(c, Top(ss[i]), u)), Append(w, u))
    BY <2>1, <2>2, <2>3, UpdateRemembered
  <2> QED
    BY <1>1, <2>4 DEF c
<1> QED
  BY <1>2, <1>3 DEF AllRemember, up

(* Unwinding what was just fed                                             *)
LEMMA UnwoundIsOld ==
  ASSUME NEW maps, IsTable(maps), NEW ss, NEW I, NEW w \in Seq(I), NEW u \in I,
         AllRemember(maps, ss, w), ~SolverDiverges(maps, ss, u)
  PROVE  [i \in 1..Len(maps) |-> Backward(Updated(maps, ss, u)[i], 1)] = ss
<1>1. ASSUME NEW i \in 1..Len(maps)
      PROVE  Backward(Updated(maps, ss, u)[i], 1) = ss[i]
  <2> DEFINE c == maps[i].trigger
             e == StepOf(c, Top(ss[i]), u)
  <2>1. ss[i] \in Seq(Entry)
    BY DEF AllRemember, Remembers
  <2>2. c \in Seq(Units) /\ e.state # Diverges
    BY DEF IsTable, SolverDiverges
  <2>3. e \in Entry
    BY <2>1, <2>2, TopType, StepOfType
  <2>4. Updated(maps, ss, u)[i] = Append(ss[i], e)
    BY DEF Updated
  <2> HIDE DEF e
  <2> QED
    BY <2>1, <2>3, <2>4, BackwardOfAppend
<1> QED
  BY <1>1 DEF AllRemember

(* The verdicts of the matchers are those of the line.                     *)
LEMMA Verdicts ==
  ASSUME NEW maps, IsTable(maps), NEW ss, NEW w, AllRemember(maps, ss, w)
  PROVE  /\ DOMAIN ss = 1..Len(maps)
         /\ \A i \in 1..Len(maps) :
              /\ IsAccepted(ss[i]) <=> Spells(maps[i].trigger, w, Len(w))
              /\ IsRejected(ss[i]) <=> ~Begins(maps[i].trigger, w, Len(w))
<1>1. DOMAIN ss = 1..Len(maps)
  BY DEF AllRemember
<1>2. ASSUME NEW i \in 1..Len(maps)
      PROVE  /\ IsAccepted(ss[i]) <=> Spells(maps[i].trigger, w, Len(w))
             /\ IsRejected(ss[i]) <=> ~Begins(maps[i].trigger, w, Len(w))
  <2>1. maps[i].trigger \in Seq(Units)
    BY DEF IsTable
  <2>2. ss[i] \in Seq(Entry) /\ Len(ss[i]) = Len(w) /\ SpellsOut(maps[i].trigger, ss[i], w)
    BY DEF AllRemember, Remembers, LeadsTo
  <2> QED
    BY <2>1, <2>2, VerdictOfSpelling
<1> QED
  BY <1>1, <1>2

(* max_element() picks the first of the maps that accept.                  *)
LEMMA ChosenIsFirst ==
  ASSUME NEW N \in Nat, NEW ss, DOMAIN ss = 1..N, NEW u
  PROVE  LET accepted == {i \in 1..N : IsAccepted(ss[i])}
         IN  /\ Chosen(ss, u) \in 0..N
             /\ Chosen(ss, u) = 0 <=> (accepted = {} \/ u = {})
             /\ Chosen(ss, u) # 0 =>
                  /\ Chosen(ss, u) \in accepted
                  /\ \A j \in accepted : Chosen(ss, u) <= j
<1> DEFINE accepted == {i \in 1..N : IsAccepted(ss[i])}
<1>1. CASE accepted = {} \/ u = {}
  BY <1>1 DEF Chosen
<1>2. CASE accepted # {} /\ u # {}
  <2>1. \E i \in accepted : \A j \in accepted : i <= j
    <3>1. accepted \in SUBSET Nat /\ accepted # {}
      BY <1>2
    <3> HIDE DEF accepted
    <3>2. PICK m \in accepted : \A y \in accepted : ~(y < m)
      BY <3>1, LeastElement
    <3> QED
      BY <3>1, <3>2
  <2>2. Chosen(ss, u) = CHOOSE i \in accepted : \A j \in accepted : i <= j
    BY <1>2 DEF Chosen
  <2> HIDE DEF accepted
  <2>3. Chosen(ss, u) \in accepted /\ \A j \in accepted : Chosen(ss, u) <= j
    BY <2>1, <2>2
  <2>4. Chosen(ss, u) \in 1..N
    BY <2>3 DEF accepted
  <2> QED
    BY <1>2, <2>3, <2>4 DEF accepted
<1> QED
  BY <1>1, <1>2

=============================================================================
