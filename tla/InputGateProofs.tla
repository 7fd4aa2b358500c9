--------------------------- MODULE InputGateProofs ---------------------------
(***************************************************************************)
(* Proofs about InputGate: whichever keys there are and however they are   *)
(* mapped, in every interleaving of the hook with the system thread, a     *)
(* function that waited or failed leaves the keyboard absorbed as the mode *)
(* wants it, and no port stays open behind a step that is still to come.   *)
(***************************************************************************)
EXTENDS InputGate, TLAPS, SequenceTheorems, WellFoundedInduction

-----------------------------------------------------------------------------
(* Induction over the natural numbers, with a set for the property.        *)

LEMMA NoLess ==
  ASSUME NEW T, NEW m \in T, T \subseteq Nat,
         \A y \in T : ~(<<y, m>> \in OpToRel(<, Nat))
  PROVE  \A y \in T : ~(y < m)
  BY Zenon DEF OpToRel

LEMMA LeastElement ==
  ASSUME NEW T \in SUBSET Nat, T # {}
  PROVE  \E m \in T : \A y \in T : ~(y < m)
<1>1. PICK m \in T : \A y \in T : ~(<<y, m>> \in OpToRel(<, Nat))
  BY NatLessThanWellFounded, WFMin, Zenon
<1>2. \A y \in T : ~(y < m)
  BY <1>1, NoLess, Zenon
<1> QED
  BY <1>1, <1>2, Zenon

(* A set of numbers up to a bound that holds zero and, with each number    *)
(* below the bound, the next, holds the bound.                             *)
LEMMA InductionUpTo ==
  ASSUME NEW N \in Nat, NEW S, 0 \in S, \A n \in 0..(N - 1) : n \in S => n + 1 \in S
  PROVE  \A n \in 0..N : n \in S
<1> DEFINE T == (0..N) \ S
<1> SUFFICES ASSUME T # {}
             PROVE  FALSE
  OBVIOUS
<1>1. T \in SUBSET Nat
  OBVIOUS
<1>2. PICK m \in T : \A y \in T : ~(y < m)
  <2> HIDE DEF T
  <2> QED
    BY <1>1, LeastElement
<1>3. m \in 1..N /\ m \notin S
  BY <1>2
<1>4. m - 1 \in 0..(N - 1) /\ m - 1 < m /\ m - 1 + 1 = m
  BY <1>3
<1>5. m - 1 \in S
  BY <1>2, <1>4
<1> QED
  BY <1>3, <1>4, <1>5

-----------------------------------------------------------------------------
(* The elements of a sequence that are in a set: what Among keeps.         *)

AmongStep(seq, set, kept, n) ==
  IF n = 0 THEN <<>>
  ELSE IF seq[n] \in set THEN Append(kept[n - 1], seq[n])
  ELSE kept[n - 1]

AmongUpTo(seq, set, N, kept) ==
  kept = [n \in 0..N |-> AmongStep(seq, set, kept, n)]

LEMMA AmongExists ==
  ASSUME NEW seq, NEW set, NEW N \in Nat
  PROVE  \E kept : AmongUpTo(seq, set, N, kept)
<1> DEFINE P == {n \in 0..N : \E kept : AmongUpTo(seq, set, n, kept)}
<1>1. 0 \in P
  <2> DEFINE k0 == [n \in 0..0 |-> <<>>]
  <2>1. \A n \in 0..0 : AmongStep(seq, set, k0, n) = <<>>
    BY DEF AmongStep
  <2>2. AmongUpTo(seq, set, 0, k0)
    BY <2>1 DEF AmongUpTo
  <2> QED
    BY <2>2
<1>2. ASSUME NEW n \in 0..(N - 1), n \in P
      PROVE  n + 1 \in P
  <2>1. PICK k1 : AmongUpTo(seq, set, n, k1)
    BY <1>2
  <2> DEFINE k2 == [m \in 0..(n + 1) |-> IF m = n + 1 THEN AmongStep(seq, set, k1, n + 1)
                                         ELSE k1[m]]
  <2>2. \A m \in 0..n : k1[m] = AmongStep(seq, set, k1, m)
    BY <2>1 DEF AmongUpTo
  <2>3. \A m \in 0..n : k2[m] = k1[m]
    OBVIOUS
  <2>4. k2[n + 1] = AmongStep(seq, set, k1, n + 1)
    OBVIOUS
  <2>5. k2 = [m \in 0..(n + 1) |-> k2[m]]
    OBVIOUS
  <2> HIDE DEF k2
  <2>6. \A m \in 0..(n + 1) : AmongStep(seq, set, k2, m) = AmongStep(seq, set, k1, m)
    <3> SUFFICES ASSUME NEW m \in 0..(n + 1), m # 0
                 PROVE  k2[m - 1] = k1[m - 1]
      BY DEF AmongStep
    <3> QED
      BY <2>3
  <2>7. \A m \in 0..(n + 1) : k2[m] = AmongStep(seq, set, k2, m)
    <3> SUFFICES ASSUME NEW m \in 0..(n + 1)
                 PROVE  k2[m] = AmongStep(seq, set, k2, m)
      OBVIOUS
    <3>1. m = n + 1 \/ m \in 0..n
      OBVIOUS
    <3> QED
      BY <3>1, <2>2, <2>3, <2>4, <2>6
  <2>8. AmongUpTo(seq, set, n + 1, k2)
    BY <2>5, <2>7 DEF AmongUpTo
  <2> QED
    BY <2>8
<1>3. \A n \in 0..(N - 1) : n \in P => n + 1 \in P
  BY <1>2
<1> HIDE DEF P
<1>4. \A n \in 0..N : n \in P
  BY <1>1, <1>3, InductionUpTo, Zenon
<1>5. N \in P
  BY <1>4
<1> QED
  BY <1>5 DEF P

Keeps(seq, set, N, kept) == \A n \in 0..N : kept[n] = AmongStep(seq, set, kept, n)
Agree(s1, s2, N) == \A n \in 1..N : s1[n] = s2[n]

(* The definition of Among as the value that is built up.                  *)
LEMMA AmongBuilt ==
  ASSUME NEW T, NEW seq \in Seq(T), NEW set
  PROVE  \E kept : /\ Among(seq, set) = kept[Len(seq)]
                   /\ Keeps(seq, set, Len(seq), kept)
<1> DEFINE kept == CHOOSE k : AmongUpTo(seq, set, Len(seq), k)
<1>1. Len(seq) \in Nat
  OBVIOUS
<1>2. AmongUpTo(seq, set, Len(seq), kept)
  BY <1>1, AmongExists
<1>3. Among(seq, set) = kept[Len(seq)]
  BY DEF Among, AmongUpTo, AmongStep
<1> HIDE DEF kept
<1>4. Keeps(seq, set, Len(seq), kept)
  BY <1>2 DEF AmongUpTo, Keeps
<1> QED
  BY <1>3, <1>4

(* Two sequences with a common beginning keep the same of it.              *)
LEMMA AmongSame ==
  ASSUME NEW s1, NEW s2, NEW set, NEW k1, NEW k2, NEW N \in Nat,
         Agree(s1, s2, N), Keeps(s1, set, N, k1), Keeps(s2, set, N, k2)
  PROVE  k1[N] = k2[N]
<1> DEFINE P == {n \in 0..N : k1[n] = k2[n]}
<1>1. 0 \in P
  BY DEF AmongStep, Keeps
<1>2. ASSUME NEW n \in 0..(N - 1), n \in P
      PROVE  n + 1 \in P
  <2>1. k1[n] = k2[n] /\ s1[n + 1] = s2[n + 1] /\ n + 1 \in 0..N /\ n + 1 # 0
        /\ n + 1 - 1 = n
    BY <1>2 DEF Agree
  <2>2. k1[n + 1] = k2[n + 1]
    BY <2>1 DEF AmongStep, Keeps
  <2> QED
    BY <2>1, <2>2
<1>3. \A n \in 0..(N - 1) : n \in P => n + 1 \in P
  BY <1>2
<1> HIDE DEF P
<1>4. \A n \in 0..N : n \in P
  BY <1>1, <1>3, InductionUpTo, Zenon
<1>5. N \in P
  BY <1>4
<1> QED
  BY <1>5 DEF P

LEMMA AmongEmpty ==
  ASSUME NEW set
  PROVE  Among(<<>>, set) = <<>>
<1>1. <<>> \in Seq({}) /\ Len(<<>>) = 0
  OBVIOUS
<1>2. PICK kept : /\ Among(<<>>, set) = kept[Len(<<>>)]
                  /\ Keeps(<<>>, set, Len(<<>>), kept)
  BY <1>1, AmongBuilt
<1> QED
  BY <1>1, <1>2 DEF AmongStep, Keeps

LEMMA AmongAppend ==
  ASSUME NEW T, NEW s \in Seq(T), NEW x \in T, NEW set
  PROVE  /\ x \in set => Among(Append(s, x), set) = Append(Among(s, set), x)
         /\ x \notin set => Among(Append(s, x), set) = Among(s, set)
<1> DEFINE t == Append(s, x)
           N == Len(s)
<1>1. N \in Nat /\ t \in Seq(T) /\ Len(t) = N + 1 /\ t[N + 1] = x
      /\ \A n \in 1..N : t[n] = s[n]
  OBVIOUS
<1> HIDE DEF t, N
<1>2. PICK k1 : Among(s, set) = k1[N] /\ Keeps(s, set, N, k1)
  BY AmongBuilt DEF N
<1>3. PICK k2 : Among(t, set) = k2[Len(t)] /\ Keeps(t, set, Len(t), k2)
  BY <1>1, AmongBuilt
<1>4. Keeps(t, set, N, k2)
  BY <1>1, <1>3 DEF Keeps
<1>5. k2[N] = k1[N]
  <2>1. N \in Nat /\ Agree(t, s, N)
    BY <1>1 DEF Agree
  <2> QED
    BY <1>2, <1>4, <2>1, AmongSame
<1>6. N + 1 \in 0..Len(t) /\ N + 1 # 0 /\ N + 1 - 1 = N
  BY <1>1
<1>7. k2[N + 1] = AmongStep(t, set, k2, N + 1)
  BY <1>3, <1>6 DEF Keeps
<1>8. k2[N + 1] = IF x \in set THEN Append(k1[N], x) ELSE k1[N]
  BY <1>1, <1>5, <1>6, <1>7 DEF AmongStep
<1>9. Among(t, set) = k2[N + 1]
  BY <1>1, <1>3
<1>10. /\ x \in set => Among(t, set) = Append(Among(s, set), x)
       /\ x \notin set => Among(t, set) = Among(s, set)
  BY <1>2, <1>8, <1>9
<1> QED
  BY <1>10 DEF t

Beginning(s, n) == SubSeq(s, 1, n)

(* Sequences are built by appending.                                       *)
LEMMA BuiltByAppending ==
  ASSUME NEW T, NEW s \in Seq(T)
  PROVE  /\ Beginning(s, 0) = <<>>
         /\ Beginning(s, Len(s)) = s
         /\ \A n \in 0..(Len(s) - 1) :
              /\ Beginning(s, n) \in Seq(T)
              /\ s[n + 1] \in T
              /\ Beginning(s, n + 1) = Append(Beginning(s, n), s[n + 1])
  BY DEF Beginning

(* Among keeps elements of the sequence that are in the set.               *)
LEMMA AmongProperties ==
  ASSUME NEW T, NEW s \in Seq(T), NEW set
  PROVE  /\ Among(s, set) \in Seq(T \cap set)
         /\ Among(s, set) \in Seq(T)
<1> DEFINE P == {n \in 0..Len(s) : Among(Beginning(s, n), set) \in Seq(T \cap set)}
<1>1. 0 \in P
  BY AmongEmpty, BuiltByAppending
<1>2. ASSUME NEW n \in 0..(Len(s) - 1), n \in P
      PROVE  n + 1 \in P
  <2> DEFINE u == Beginning(s, n)
             x == s[n + 1]
  <2>1. u \in Seq(T) /\ x \in T /\ Beginning(s, n + 1) = Append(u, x)
    BY BuiltByAppending
  <2>2. Among(u, set) \in Seq(T \cap set)
    BY <1>2
  <2> HIDE DEF u, x
  <2>3. /\ x \in set => Among(Append(u, x), set) = Append(Among(u, set), x)
        /\ x \notin set => Among(Append(u, x), set) = Among(u, set)
    BY <2>1, AmongAppend, Zenon
  <2>4. x \in set => Append(Among(u, set), x) \in Seq(T \cap set)
    BY <2>1, <2>2
  <2>5. Among(Beginning(s, n + 1), set) \in Seq(T \cap set)
    BY <2>1, <2>2, <2>3, <2>4, Zenon
  <2> QED
    BY <2>5
<1>3. \A n \in 0..(Len(s) - 1) : n \in P => n + 1 \in P
  BY <1>2
<1>4. Len(s) \in Nat
  OBVIOUS
<1> HIDE DEF P
<1>5. \A n \in 0..Len(s) : n \in P
  BY <1>1, <1>3, <1>4, InductionUpTo, Zenon
<1>6. Among(Beginning(s, Len(s)), set) \in Seq(T \cap set)
  BY <1>4, <1>5 DEF P
<1>7. Among(s, set) \in Seq(T \cap set)
  BY <1>6, BuiltByAppending, Zenon
<1> QED
  BY <1>7

AppendsLast(a, b, x) == Append(a \o b, x) = a \o Append(b, x)

LEMMA AppendConcat ==
  ASSUME NEW T, NEW a \in Seq(T), NEW b \in Seq(T), NEW x \in T
  PROVE  AppendsLast(a, b, x)
  BY DEF AppendsLast

Distributes(s, t, set) == Among(s \o t, set) = Among(s, set) \o Among(t, set)

LEMMA AmongConcat ==
  ASSUME NEW T, NEW s \in Seq(T), NEW t \in Seq(T), NEW set
  PROVE  Distributes(s, t, set)
<1> DEFINE Both(r) == Among(s \o r, set) = Among(s, set) \o Among(r, set)
           P == {n \in 0..Len(t) : Both(Beginning(t, n))}
<1>0. Among(s, set) \in Seq(T)
  BY AmongProperties, Zenon
<1>1. Both(<<>>)
  <2>1. s \o <<>> = s /\ Among(s, set) \o <<>> = Among(s, set)
    BY <1>0
  <2> QED
    BY <2>1, AmongEmpty, Zenon
<1>2. ASSUME NEW u \in Seq(T), NEW x \in T, Both(u)
      PROVE  Both(Append(u, x))
  <2>1. s \o u \in Seq(T) /\ s \o Append(u, x) = Append(s \o u, x)
    BY AppendConcat DEF AppendsLast
  <2>2. /\ x \in set => Among(Append(s \o u, x), set) = Append(Among(s \o u, set), x)
        /\ x \notin set => Among(Append(s \o u, x), set) = Among(s \o u, set)
    BY <2>1, AmongAppend, Zenon
  <2>3. /\ x \in set => Among(Append(u, x), set) = Append(Among(u, set), x)
        /\ x \notin set => Among(Append(u, x), set) = Among(u, set)
    BY AmongAppend, Zenon
  <2>4. Append(Among(s, set) \o Among(u, set), x) = Among(s, set) \o Append(Among(u, set), x)
    <3>1. Among(u, set) \in Seq(T)
      BY AmongProperties, Zenon
    <3>2. AppendsLast(Among(s, set), Among(u, set), x)
      BY <1>0, <3>1, AppendConcat, Zenon
    <3> QED
      BY <3>2 DEF AppendsLast
  <2> QED
    BY <1>2, <2>1, <2>2, <2>3, <2>4, Zenon
<1> HIDE DEF Both
<1>3. 0 \in P
  BY <1>1, BuiltByAppending
<1>4. ASSUME NEW n \in 0..(Len(t) - 1), n \in P
      PROVE  n + 1 \in P
  <2>1. Beginning(t, n) \in Seq(T) /\ t[n + 1] \in T
        /\ Beginning(t, n + 1) = Append(Beginning(t, n), t[n + 1])
    BY BuiltByAppending
  <2>2. Both(Beginning(t, n))
    BY <1>4
  <2>3. Both(Beginning(t, n + 1))
    BY <1>2, <2>1, <2>2, Zenon
  <2> QED
    BY <2>3
<1>5. \A n \in 0..(Len(t) - 1) : n \in P => n + 1 \in P
  BY <1>4
<1>6. Len(t) \in Nat
  OBVIOUS
<1> HIDE DEF P
<1>7. \A n \in 0..Len(t) : n \in P
  BY <1>3, <1>5, <1>6, InductionUpTo, Zenon
<1>8. Both(Beginning(t, Len(t)))
  BY <1>6, <1>7 DEF P
<1>9. Both(t)
  BY <1>8, BuiltByAppending, Zenon
<1> QED
  BY <1>9 DEF Both, Distributes

LEMMA AmongTwice ==
  ASSUME NEW T, NEW s \in Seq(T), NEW A, NEW B
  PROVE  Among(Among(s, A), B) = Among(s, A \cap B)
<1> DEFINE Same(r) == Among(Among(r, A), B) = Among(r, A \cap B)
           P == {n \in 0..Len(s) : Same(Beginning(s, n))}
<1>1. Same(<<>>)
  BY AmongEmpty, Zenon
<1>2. ASSUME NEW u \in Seq(T), NEW x \in T, Same(u)
      PROVE  Same(Append(u, x))
  <2>1. Among(u, A) \in Seq(T)
    BY AmongProperties, Zenon
  <2>2. /\ x \in A => Among(Append(u, x), A) = Append(Among(u, A), x)
        /\ x \notin A => Among(Append(u, x), A) = Among(u, A)
    BY AmongAppend, Zenon
  <2>3. /\ x \in A \cap B =>
             Among(Append(u, x), A \cap B) = Append(Among(u, A \cap B), x)
        /\ x \notin A \cap B => Among(Append(u, x), A \cap B) = Among(u, A \cap B)
    <3> DEFINE C == A \cap B
    <3> HIDE DEF C
    <3>1. /\ x \in C => Among(Append(u, x), C) = Append(Among(u, C), x)
          /\ x \notin C => Among(Append(u, x), C) = Among(u, C)
      BY AmongAppend, Zenon
    <3> QED
      BY <3>1, Zenon DEF C
  <2>4. /\ x \in B => Among(Append(Among(u, A), x), B) = Append(Among(Among(u, A), B), x)
        /\ x \notin B => Among(Append(Among(u, A), x), B) = Among(Among(u, A), B)
    BY <2>1, AmongAppend, Zenon
  <2>5. x \in A \cap B <=> x \in A /\ x \in B
    OBVIOUS
  <2> QED
    BY <1>2, <2>2, <2>3, <2>4, <2>5, Zenon
<1> HIDE DEF Same
<1>3. 0 \in P
  BY <1>1, BuiltByAppending
<1>4. ASSUME NEW n \in 0..(Len(s) - 1), n \in P
      PROVE  n + 1 \in P
  <2>1. Beginning(s, n) \in Seq(T) /\ s[n + 1] \in T
        /\ Beginning(s, n + 1) = Append(Beginning(s, n), s[n + 1])
    BY BuiltByAppending
  <2>2. Same(Beginning(s, n))
    BY <1>4
  <2>3. Same(Beginning(s, n + 1))
    BY <1>2, <2>1, <2>2, Zenon
  <2> QED
    BY <2>3
<1>5. \A n \in 0..(Len(s) - 1) : n \in P => n + 1 \in P
  BY <1>4
<1>6. Len(s) \in Nat
  OBVIOUS
<1> HIDE DEF P
<1>7. \A n \in 0..Len(s) : n \in P
  BY <1>3, <1>5, <1>6, InductionUpTo, Zenon
<1>8. Same(Beginning(s, Len(s)))
  BY <1>6, <1>7 DEF P
<1>9. Same(s)
  BY <1>8, BuiltByAppending, Zenon
<1> QED
  BY <1>9 DEF Same

LEMMA AmongNone ==
  ASSUME NEW T, NEW s \in Seq(T), NEW set, \A i \in DOMAIN s : s[i] \notin set
  PROVE  Among(s, set) = <<>>
<1> DEFINE P == {n \in 0..Len(s) : Among(Beginning(s, n), set) = <<>>}
<1>1. 0 \in P
  BY AmongEmpty, BuiltByAppending
<1>2. ASSUME NEW n \in 0..(Len(s) - 1), n \in P
      PROVE  n + 1 \in P
  <2>1. /\ Beginning(s, n) \in Seq(T) /\ s[n + 1] \in T
        /\ Beginning(s, n + 1) = Append(Beginning(s, n), s[n + 1])
    BY BuiltByAppending
  <2>2. s[n + 1] \notin set
    OBVIOUS
  <2>3. Among(Beginning(s, n), set) = <<>>
    BY <1>2
  <2>4. Among(Append(Beginning(s, n), s[n + 1]), set) = Among(Beginning(s, n), set)
    BY <2>1, <2>2, AmongAppend, Zenon
  <2>5. Among(Beginning(s, n + 1), set) = <<>>
    BY <2>1, <2>3, <2>4, Zenon
  <2> QED
    BY <2>5
<1>3. \A n \in 0..(Len(s) - 1) : n \in P => n + 1 \in P
  BY <1>2
<1>4. Len(s) \in Nat
  OBVIOUS
<1> HIDE DEF P
<1>5. \A n \in 0..Len(s) : n \in P
  BY <1>1, <1>3, <1>4, InductionUpTo, Zenon
<1>6. Among(Beginning(s, Len(s)), set) = <<>>
  BY <1>4, <1>5 DEF P
<1> QED
  BY <1>6, BuiltByAppending, Zenon

LEMMA AmongOne ==
  ASSUME NEW T, NEW x \in T, NEW set
  PROVE  /\ x \in set => Among(<<x>>, set) = <<x>>
         /\ x \notin set => Among(<<x>>, set) = <<>>
<1>1. <<>> \in Seq(T) /\ <<x>> = Append(<<>>, x)
  OBVIOUS
<1>2. /\ x \in set => Among(Append(<<>>, x), set) = Append(Among(<<>>, set), x)
      /\ x \notin set => Among(Append(<<>>, x), set) = Among(<<>>, set)
  BY <1>1, AmongAppend, Zenon
<1> QED
  BY <1>1, <1>2, AmongEmpty, Zenon

(* The first element is kept or it is not.                                 *)
LEMMA AmongTail ==
  ASSUME NEW T, NEW s \in Seq(T), s # <<>>, NEW set
  PROVE  /\ Head(s) \in set => Among(s, set) = <<Head(s)>> \o Among(Tail(s), set)
         /\ Head(s) \notin set => Among(s, set) = Among(Tail(s), set)
<1>1. /\ <<Head(s)>> \in Seq(T) /\ Tail(s) \in Seq(T) /\ Head(s) \in T
      /\ s = <<Head(s)>> \o Tail(s)
  OBVIOUS
<1>2. Among(s, set) = Among(<<Head(s)>>, set) \o Among(Tail(s), set)
  <2>1. Distributes(<<Head(s)>>, Tail(s), set)
    BY <1>1, AmongConcat, Zenon
  <2> QED
    BY <1>1, <2>1, Zenon DEF Distributes
<1>3. Among(Tail(s), set) \in Seq(T)
  BY <1>1, AmongProperties, Zenon
<1>4. <<>> \o Among(Tail(s), set) = Among(Tail(s), set)
  BY <1>3
<1>5. /\ Head(s) \in set => Among(<<Head(s)>>, set) = <<Head(s)>>
      /\ Head(s) \notin set => Among(<<Head(s)>>, set) = <<>>
  BY <1>1, AmongOne, Zenon
<1> QED
  BY <1>2, <1>4, <1>5, Zenon

-----------------------------------------------------------------------------
(* Lists of steps.                                                         *)

Of(ops) == {x \in Steps : x.op \in ops}

GateOps == {"absorb", "restore", "mode"}
Gates == Of(GateOps)

(* Each of some steps is followed by another kind of step, before any that *)
(* may not come in between.                                                *)
Followed(S, opens, shuts, bars) ==
  \A i \in DOMAIN S :
    S[i] \in opens =>
      \E j \in (i + 1)..Len(S) : S[j] \in shuts /\ \A k \in i..j : S[k] \notin bars

(* Such a step comes before any that may not come first.                   *)
Reaches(S, shuts, bars) ==
  \E j \in DOMAIN S : S[j] \in shuts /\ \A k \in 1..j : S[k] \notin bars

Lacks(S, set) == \A i \in DOMAIN S : S[i] \notin set

LEMMA LacksConcat ==
  ASSUME NEW T, NEW Q \in Seq(T), NEW S \in Seq(T), NEW set, Lacks(Q, set), Lacks(S, set)
  PROVE  Lacks(Q \o S, set)
<1> SUFFICES ASSUME NEW i \in DOMAIN (Q \o S)
             PROVE  (Q \o S)[i] \notin set
  BY DEF Lacks
<1>1. CASE i <= Len(Q)
  BY <1>1 DEF Lacks
<1>2. CASE i > Len(Q)
  <2>1. i - Len(Q) \in DOMAIN S /\ (Q \o S)[i] = S[i - Len(Q)]
    BY <1>2
  <2> QED
    BY <2>1 DEF Lacks
<1> QED
  BY <1>1, <1>2

LEMMA FollowedFree ==
  ASSUME NEW S, NEW opens, NEW shuts, NEW bars, Lacks(S, opens)
  PROVE  Followed(S, opens, shuts, bars)
  BY DEF Followed, Lacks

LEMMA FollowedConcat ==
  ASSUME NEW T, NEW Q \in Seq(T), NEW S \in Seq(T), NEW opens, NEW shuts, NEW bars,
         Followed(Q, opens, shuts, bars), Followed(S, opens, shuts, bars)
  PROVE  Followed(Q \o S, opens, shuts, bars)
<1> DEFINE R == Q \o S
           m == Len(Q)
<1>1. /\ m \in Nat /\ Len(S) \in Nat /\ Len(R) = m + Len(S) /\ DOMAIN R = 1..(m + Len(S))
      /\ \A i \in 1..m : R[i] = Q[i]
      /\ \A i \in 1..Len(S) : R[m + i] = S[i]
      /\ DOMAIN Q = 1..m /\ DOMAIN S = 1..Len(S)
  OBVIOUS
<1> HIDE DEF R, m
<1> SUFFICES ASSUME NEW i \in DOMAIN R, R[i] \in opens
             PROVE  \E j \in (i + 1)..Len(R) : R[j] \in shuts /\ \A k \in i..j : R[k] \notin bars
  BY DEF Followed, R
<1>2. CASE i \in 1..m
  <2>1. PICK j \in (i + 1)..m : Q[j] \in shuts /\ \A k \in i..j : Q[k] \notin bars
    BY <1>1, <1>2 DEF Followed, m
  <2>2. j \in (i + 1)..Len(R) /\ R[j] \in shuts /\ \A k \in i..j : R[k] \notin bars
    BY <1>1, <1>2, <2>1
  <2> QED
    BY <2>2
<1>3. CASE i \notin 1..m
  <2> DEFINE n == i - m
  <2>1. n \in DOMAIN S /\ S[n] \in opens /\ i = m + n
    BY <1>1, <1>3
  <2>2. PICK j \in (n + 1)..Len(S) : S[j] \in shuts /\ \A k \in n..j : S[k] \notin bars
    BY <2>1 DEF Followed
  <2>3. m + j \in (i + 1)..Len(R) /\ R[m + j] \in shuts
    BY <1>1, <2>1, <2>2
  <2>4. ASSUME NEW k \in i..(m + j)
        PROVE  R[k] \notin bars
    <3>1. k - m \in n..j /\ k - m \in 1..Len(S) /\ k = m + (k - m)
      BY <1>1, <2>1, <2>2
    <3>2. R[k] = S[k - m]
      BY <1>1, <3>1
    <3> QED
      BY <2>2, <3>1, <3>2
  <2> QED
    BY <2>3, <2>4
<1> QED
  BY <1>2, <1>3

LEMMA ReachesConcat ==
  ASSUME NEW T, NEW Q \in Seq(T), NEW S \in Seq(T), NEW shuts, NEW bars,
         Lacks(Q, bars), Reaches(S, shuts, bars)
  PROVE  Reaches(Q \o S, shuts, bars)
<1> DEFINE R == Q \o S
           m == Len(Q)
<1>1. /\ m \in Nat /\ Len(S) \in Nat /\ DOMAIN R = 1..(m + Len(S))
      /\ \A i \in 1..m : R[i] = Q[i]
      /\ \A i \in 1..Len(S) : R[m + i] = S[i]
      /\ DOMAIN Q = 1..m /\ DOMAIN S = 1..Len(S)
  OBVIOUS
<1> HIDE DEF R, m
<1>2. PICK j \in 1..Len(S) : S[j] \in shuts /\ \A k \in 1..j : S[k] \notin bars
  BY <1>1 DEF Reaches
<1>3. m + j \in DOMAIN R /\ R[m + j] \in shuts
  BY <1>1, <1>2
<1>4. ASSUME NEW k \in 1..(m + j)
      PROVE  R[k] \notin bars
  <2>1. CASE k \in 1..m
    BY <1>1, <2>1 DEF Lacks
  <2>2. CASE k \notin 1..m
    <3>1. k - m \in 1..j /\ k - m \in 1..Len(S) /\ k = m + (k - m)
      BY <1>1, <1>2, <2>2
    <3>2. R[k] = S[k - m]
      BY <1>1, <3>1
    <3> QED
      BY <1>2, <3>1, <3>2
  <2> QED
    BY <2>1, <2>2
<1>5. Reaches(R, shuts, bars)
  BY <1>3, <1>4 DEF Reaches
<1> QED
  BY <1>5 DEF R

(* Steps that open, in front of a list that shuts in time.                 *)
LEMMA FollowedBefore ==
  ASSUME NEW T, NEW Q \in Seq(T), NEW S \in Seq(T), NEW opens, NEW shuts, NEW bars,
         Lacks(Q, bars), Followed(S, opens, shuts, bars), Reaches(S, shuts, bars)
  PROVE  Followed(Q \o S, opens, shuts, bars)
<1> DEFINE R == Q \o S
           m == Len(Q)
<1>1. /\ m \in Nat /\ Len(S) \in Nat /\ Len(R) = m + Len(S) /\ DOMAIN R = 1..(m + Len(S))
      /\ \A i \in 1..m : R[i] = Q[i]
      /\ \A i \in 1..Len(S) : R[m + i] = S[i]
      /\ DOMAIN Q = 1..m /\ DOMAIN S = 1..Len(S)
  OBVIOUS
<1> HIDE DEF R, m
<1> SUFFICES ASSUME NEW i \in DOMAIN R, R[i] \in opens
             PROVE  \E j \in (i + 1)..Len(R) : R[j] \in shuts /\ \A k \in i..j : R[k] \notin bars
  BY DEF Followed, R
<1>2. CASE i \in 1..m
  <2>1. PICK j \in 1..Len(S) : S[j] \in shuts /\ \A k \in 1..j : S[k] \notin bars
    BY <1>1 DEF Reaches
  <2>2. m + j \in (i + 1)..Len(R) /\ R[m + j] \in shuts
    BY <1>1, <1>2, <2>1
  <2>3. ASSUME NEW k \in i..(m + j)
        PROVE  R[k] \notin bars
    <3>1. CASE k \in 1..m
      BY <1>1, <3>1 DEF Lacks
    <3>2. CASE k \notin 1..m
      <4>1. k - m \in 1..j /\ k - m \in 1..Len(S) /\ k = m + (k - m)
        BY <1>1, <1>2, <2>1, <3>2
      <4>2. R[k] = S[k - m]
        BY <1>1, <4>1
      <4> QED
        BY <2>1, <4>1, <4>2
    <3> QED
      BY <3>1, <3>2
  <2> QED
    BY <2>2, <2>3
<1>3. CASE i \notin 1..m
  <2> DEFINE n == i - m
  <2>1. n \in DOMAIN S /\ S[n] \in opens /\ i = m + n
    BY <1>1, <1>3
  <2>2. PICK j \in (n + 1)..Len(S) : S[j] \in shuts /\ \A k \in n..j : S[k] \notin bars
    BY <2>1 DEF Followed
  <2>3. m + j \in (i + 1)..Len(R) /\ R[m + j] \in shuts
    BY <1>1, <2>1, <2>2
  <2>4. ASSUME NEW k \in i..(m + j)
        PROVE  R[k] \notin bars
    <3>1. k - m \in n..j /\ k - m \in 1..Len(S) /\ k = m + (k - m)
      BY <1>1, <2>1, <2>2
    <3>2. R[k] = S[k - m]
      BY <1>1, <3>1
    <3> QED
      BY <2>2, <3>1, <3>2
  <2> QED
    BY <2>3, <2>4
<1> QED
  BY <1>2, <1>3

(* What remains of a list once its first steps are done.                   *)
LEMMA Remains ==
  ASSUME NEW T, NEW S \in Seq(T), NEW n \in 0..Len(S)
  PROVE  LET R == SubSeq(S, n + 1, Len(S))
         IN  /\ R \in Seq(T) /\ Len(R) = Len(S) - n
             /\ DOMAIN R = 1..(Len(S) - n) /\ Len(S) \in Nat /\ DOMAIN S = 1..Len(S)
             /\ \A i \in 1..(Len(S) - n) : R[i] = S[n + i]
  OBVIOUS

LEMMA FollowedRemains ==
  ASSUME NEW T, NEW S \in Seq(T), NEW n \in 0..Len(S), NEW opens, NEW shuts, NEW bars,
         Followed(S, opens, shuts, bars)
  PROVE  Followed(SubSeq(S, n + 1, Len(S)), opens, shuts, bars)
<1> DEFINE R == SubSeq(S, n + 1, Len(S))
<1>1. /\ R \in Seq(T) /\ Len(R) = Len(S) - n
      /\ DOMAIN R = 1..(Len(S) - n) /\ Len(S) \in Nat /\ DOMAIN S = 1..Len(S)
      /\ \A i \in 1..(Len(S) - n) : R[i] = S[n + i]
  BY Remains
<1> HIDE DEF R
<1> SUFFICES ASSUME NEW i \in DOMAIN R, R[i] \in opens
             PROVE  \E j \in (i + 1)..Len(R) : R[j] \in shuts /\ \A k \in i..j : R[k] \notin bars
  BY DEF Followed, R
<1>2. n + i \in DOMAIN S /\ S[n + i] \in opens
  BY <1>1
<1>3. PICK j \in (n + i + 1)..Len(S) : S[j] \in shuts /\ \A k \in (n + i)..j : S[k] \notin bars
  BY <1>2 DEF Followed
<1>4. j - n \in (i + 1)..Len(R) /\ R[j - n] = S[j]
  BY <1>1, <1>3
<1>5. \A k \in i..(j - n) : n + k \in (n + i)..j /\ R[k] = S[n + k]
  BY <1>1, <1>3
<1>6. \A k \in i..(j - n) : R[k] \notin bars
  BY <1>3, <1>5
<1> QED
  BY <1>3, <1>4, <1>6

LEMMA TailRemains ==
  ASSUME NEW T, NEW S \in Seq(T), S # <<>>
  PROVE  /\ 1 \in 0..Len(S) /\ Tail(S) = SubSeq(S, 1 + 1, Len(S))
         /\ Tail(S) \in Seq(T) /\ Head(S) \in T /\ Head(S) = S[1]
         /\ Len(S) \in Nat \ {0} /\ DOMAIN S = 1..Len(S)
         /\ Len(Tail(S)) = Len(S) - 1 /\ DOMAIN Tail(S) = 1..(Len(S) - 1)
         /\ \A i \in 1..(Len(S) - 1) : Tail(S)[i] = S[i + 1]
  OBVIOUS

LEMMA FollowedTail ==
  ASSUME NEW T, NEW S \in Seq(T), S # <<>>, NEW opens, NEW shuts, NEW bars,
         Followed(S, opens, shuts, bars)
  PROVE  /\ Followed(Tail(S), opens, shuts, bars)
         /\ Head(S) \in opens => Reaches(Tail(S), shuts, bars)
<1>1. /\ 1 \in 0..Len(S) /\ Tail(S) = SubSeq(S, 1 + 1, Len(S)) /\ Head(S) = S[1]
      /\ Len(S) \in Nat \ {0} /\ DOMAIN S = 1..Len(S)
      /\ Len(Tail(S)) = Len(S) - 1 /\ DOMAIN Tail(S) = 1..(Len(S) - 1)
      /\ \A i \in 1..(Len(S) - 1) : Tail(S)[i] = S[i + 1]
  BY TailRemains
<1>2. Followed(Tail(S), opens, shuts, bars)
  BY <1>1, FollowedRemains, Zenon
<1>3. ASSUME Head(S) \in opens
      PROVE  Reaches(Tail(S), shuts, bars)
  <2>1. PICK j \in (1 + 1)..Len(S) : S[j] \in shuts /\ \A k \in 1..j : S[k] \notin bars
    BY <1>1, <1>3 DEF Followed
  <2>2. j - 1 \in DOMAIN Tail(S) /\ Tail(S)[j - 1] = S[j]
    BY <1>1, <2>1
  <2>3. \A k \in 1..(j - 1) : Tail(S)[k] = S[k + 1] /\ k + 1 \in 1..j
    BY <1>1, <2>1
  <2>4. \A k \in 1..(j - 1) : Tail(S)[k] \notin bars
    BY <2>1, <2>3
  <2> QED
    BY <2>1, <2>2, <2>4 DEF Reaches
<1> QED
  BY <1>2, <1>3

LEMMA ReachesTail ==
  ASSUME NEW T, NEW S \in Seq(T), S # <<>>, NEW shuts, NEW bars,
         Reaches(S, shuts, bars)
  PROVE  /\ Head(S) \notin bars
         /\ Head(S) \notin shuts => Reaches(Tail(S), shuts, bars)
<1>1. /\ Head(S) = S[1]
      /\ Len(S) \in Nat \ {0} /\ DOMAIN S = 1..Len(S)
      /\ DOMAIN Tail(S) = 1..(Len(S) - 1)
      /\ \A i \in 1..(Len(S) - 1) : Tail(S)[i] = S[i + 1]
  BY TailRemains
<1>2. PICK j \in 1..Len(S) : S[j] \in shuts /\ \A k \in 1..j : S[k] \notin bars
  BY <1>1 DEF Reaches
<1>3. Head(S) \notin bars
  BY <1>1, <1>2
<1>4. ASSUME Head(S) \notin shuts
      PROVE  Reaches(Tail(S), shuts, bars)
  <2>1. j # 1
    BY <1>1, <1>2, <1>4
  <2>2. j - 1 \in DOMAIN Tail(S) /\ Tail(S)[j - 1] = S[j]
    BY <1>1, <1>2, <2>1
  <2>3. \A k \in 1..(j - 1) : Tail(S)[k] = S[k + 1] /\ k + 1 \in 1..j
    BY <1>1, <1>2, <2>1
  <2>4. \A k \in 1..(j - 1) : Tail(S)[k] \notin bars
    BY <1>2, <2>3
  <2> QED
    BY <1>2, <2>2, <2>4 DEF Reaches
<1> QED
  BY <1>3, <1>4

-----------------------------------------------------------------------------
(* What the lists of the threads have in common.                           *)

(* What may leave the port of key p open; what closes it; and what waits   *)
(* for something, so that the port has to be closed before.                *)
Opening(p)  == {x \in Steps : x.op \in {"open", "refresh"} /\ p \in x.keys}
Shutting(p) == {x \in Steps : x.op = "close_all" \/ (x.op = "close" /\ p \in x.keys)}
Barriers    == Of({"wait", "verify"})

(* A SendInput() whose failure is caught, and where one goes on then.      *)
Resending == Of({"unpress", "resend"})
Closing   == Of({"close_all"})

(* A function waits for its arrows and pushes up these keys and <tab>.     *)
Odd ==
  {x \in Steps : \/ x.op = "wait" /\ ~(x.keys \subseteq Arrows)
                 \/ x.op = "push" /\ ~(x.keys \subseteq Arrows \cup {KEYCODE_TAB})}

PortsClosed(S) ==
  \A p \in Keys \ LeftOpen : Followed(S, Opening(p), Shutting(p), Barriers)
FailuresCaught(S) == Followed(S, Resending, Closing, Gates)
Paired(S) == \A i \in DOMAIN S : S[i].op = "mode" /\ i > 1 => S[i - 1].op = "absorb"

Listed(S) ==
  /\ S \in Seq(Steps) /\ Lacks(S, Odd)
  /\ FailuresCaught(S) /\ PortsClosed(S) /\ Paired(S)

(* What a step may put in front of the list it is taken from.              *)
Harmless(Q) ==
  /\ Q \in Seq(Steps) /\ Lacks(Q, Odd)
  /\ FailuresCaught(Q) /\ PortsClosed(Q)
  /\ Lacks(Q, Gates) /\ Lacks(Q, Barriers)

QuietOps == Ops \ (GateOps \cup {"wait", "verify", "unpress", "resend", "open", "refresh", "push"})

LEMMA StepType ==
  ASSUME NEW op \in Ops, NEW keys \in SUBSET Keys, NEW down \in BOOLEAN
  PROVE  /\ Step(op, keys, down) \in Steps
         /\ Step(op, keys, down).op = op
         /\ Step(op, keys, down).keys = keys
         /\ Step(op, keys, down).down = down
  BY DEF Step, Steps

(* Steps whose flag is not set, such as a waiting one                      *)
LEMMA PlainStepType ==
  ASSUME NEW op \in Ops, NEW keys \in SUBSET Keys
  PROVE  /\ Step(op, keys, FALSE) \in Steps
         /\ Step(op, keys, FALSE).op = op
         /\ Step(op, keys, FALSE).keys = keys
<1>1. FALSE \in BOOLEAN
  OBVIOUS
<1> QED
  BY <1>1, StepType, Zenon

LEMMA WaitingSteps ==
  ASSUME NEW keys \in SUBSET Keys
  PROVE  /\ Push(keys) \in Steps /\ Push(keys).op = "push" /\ Push(keys).keys = keys
         /\ Wait(keys) \in Steps /\ Wait(keys).op = "wait" /\ Wait(keys).keys = keys
<1>1. "push" \in Ops /\ "wait" \in Ops
  BY DEF Ops
<1>2. /\ Push(keys) = Step("push", keys, TRUE)
      /\ Wait(keys) = Step("wait", keys, FALSE)
  BY DEF Push, Wait
<1>3. /\ Step("push", keys, TRUE) \in Steps
      /\ Step("push", keys, TRUE).op = "push"
      /\ Step("push", keys, TRUE).keys = keys
  <2>1. TRUE \in BOOLEAN
    OBVIOUS
  <2> QED
    BY <1>1, <2>1, StepType, Zenon
<1>4. /\ Step("wait", keys, FALSE) \in Steps
      /\ Step("wait", keys, FALSE).op = "wait"
      /\ Step("wait", keys, FALSE).keys = keys
  BY <1>1, PlainStepType, Zenon
<1> QED
  BY <1>2, <1>3, <1>4, Zenon

LEMMA NamedSteps ==
  ASSUME NEW keys \in SUBSET Keys
  PROVE  /\ Open(keys) \in Steps /\ Open(keys).op = "open" /\ Open(keys).keys = keys
         /\ Close(keys) \in Steps /\ Close(keys).op = "close" /\ Close(keys).keys = keys
         /\ \A down \in BOOLEAN :
              /\ Send(keys, down) \in Steps /\ Send(keys, down).op = "send"
              /\ Virtual(keys, down) \in Steps /\ Virtual(keys, down).op = "virtual"
  BY DEF Open, Close, Send, Virtual, Step, Steps, Ops

LEMMA FourSteps ==
  ASSUME NEW a \in Steps, NEW b \in Steps, NEW c \in Steps, NEW d \in Steps
  PROVE  <<a>> \o <<b, c>> \o <<d>> = <<a, b, c, d>>
<1> DEFINE L == <<a>> \o <<b, c>> \o <<d>>
           R == <<a, b, c, d>>
<1>1. L \in Seq(Steps) /\ Len(L) = 4 /\ L[1] = a /\ L[2] = b /\ L[3] = c /\ L[4] = d
  OBVIOUS
<1>2. R \in Seq(Steps) /\ Len(R) = 4 /\ R[1] = a /\ R[2] = b /\ R[3] = c /\ R[4] = d
  OBVIOUS
<1> HIDE DEF L, R
<1>3. \A i \in 1..4 : L[i] = R[i]
  BY <1>1, <1>2
<1>4. L = R
  BY <1>1, <1>2, <1>3
<1> QED
  BY <1>4 DEF L, R

LEMMA QuietHarmless ==
  ASSUME NEW Q \in Seq(Steps), \A i \in DOMAIN Q : Q[i].op \in QuietOps
  PROVE  Harmless(Q)
<1>1. /\ Lacks(Q, Odd) /\ Lacks(Q, Gates) /\ Lacks(Q, Barriers) /\ Lacks(Q, Resending)
  BY DEF Lacks, Odd, Gates, Barriers, Resending, Of, GateOps, QuietOps
<1>2. \A p \in Keys \ LeftOpen : Lacks(Q, Opening(p))
  BY DEF Lacks, Opening, QuietOps
<1>3. PortsClosed(Q)
  BY <1>2, FollowedFree DEF PortsClosed
<1>4. FailuresCaught(Q)
  BY <1>1, FollowedFree DEF FailuresCaught
<1> QED
  BY <1>1, <1>3, <1>4 DEF Harmless

LEMMA HarmlessConcat ==
  ASSUME NEW Q, NEW R, Harmless(Q), Harmless(R)
  PROVE  Harmless(Q \o R)
<1>1. Q \in Seq(Steps) /\ R \in Seq(Steps)
  BY DEF Harmless
<1>2. Q \o R \in Seq(Steps)
  BY <1>1
<1>3. Lacks(Q \o R, Odd) /\ Lacks(Q \o R, Gates) /\ Lacks(Q \o R, Barriers)
  BY <1>1, LacksConcat, Zenon DEF Harmless
<1>4. FailuresCaught(Q \o R)
  BY <1>1, FollowedConcat, Zenon DEF Harmless, FailuresCaught
<1>5. PortsClosed(Q \o R)
  BY <1>1, FollowedConcat, Zenon DEF Harmless, PortsClosed
<1> QED
  BY <1>2, <1>3, <1>4, <1>5 DEF Harmless

(* A list that ends by closing all ports.                                  *)
LEMMA ClosedHarmless ==
  ASSUME NEW Q \in Seq(Steps), Lacks(Q, Odd), Lacks(Q, Gates), Lacks(Q, Barriers)
  PROVE  Harmless(Q \o <<CloseAll>>)
<1> DEFINE C == <<CloseAll>>
<1>1. CloseAll \in Steps /\ CloseAll.op = "close_all" /\ CloseAll.op \in QuietOps
  <2>1. "close_all" \in Ops /\ "close_all" \in QuietOps /\ {} \in SUBSET Keys
    BY DEF QuietOps, Ops, GateOps
  <2> QED
    BY <2>1, StepType, Zenon DEF CloseAll
<1>2. C \in Seq(Steps) /\ DOMAIN C = {1} /\ C[1] = CloseAll /\ 1..1 = {1}
  BY <1>1
<1>3. Harmless(C)
  BY <1>1, <1>2, QuietHarmless
<1>4. CloseAll \in Closing /\ CloseAll \notin Gates /\ CloseAll \notin Barriers
      /\ \A p : CloseAll \in Shutting(p)
  BY <1>1 DEF Closing, Gates, Barriers, Shutting, Of, GateOps
<1>5. Reaches(C, Closing, Gates) /\ \A p : Reaches(C, Shutting(p), Barriers)
  BY <1>2, <1>4 DEF Reaches
<1> HIDE DEF C
<1>6. Q \o C \in Seq(Steps)
  BY <1>2
<1>7. Lacks(Q \o C, Odd) /\ Lacks(Q \o C, Gates) /\ Lacks(Q \o C, Barriers)
  BY <1>2, <1>3, LacksConcat, Zenon DEF Harmless
<1>8. FailuresCaught(Q \o C)
  BY <1>2, <1>3, <1>5, FollowedBefore, Zenon DEF Harmless, FailuresCaught
<1>9. PortsClosed(Q \o C)
  BY <1>2, <1>3, <1>5, FollowedBefore, Zenon DEF Harmless, PortsClosed
<1>10. Harmless(Q \o C)
  BY <1>6, <1>7, <1>8, <1>9 DEF Harmless
<1> QED
  BY <1>10 DEF C

-----------------------------------------------------------------------------
(* The lists that functions are made of.                                   *)

LEMMA ForEachType ==
  ASSUME NEW op \in Ops, NEW keys
  PROVE  /\ ForEach(op, keys) \in Seq(Steps)
         /\ \A i \in DOMAIN ForEach(op, keys) :
              /\ ForEach(op, keys)[i].op = op
              /\ \E k \in Keys \cap keys : ForEach(op, keys)[i].keys = {k}
<1> DEFINE O == Ordered(keys)
<1>1. O \in Seq(Keys \cap keys)
  BY GateAssumption, AmongProperties DEF Ordered
<1> HIDE DEF O
<1>2. ForEach(op, keys) = [i \in 1..Len(O) |-> Step(op, {O[i]}, FALSE)]
  BY <1>1 DEF ForEach, O
<1>3. Len(O) \in Nat /\ \A i \in 1..Len(O) : O[i] \in Keys \cap keys
  BY <1>1
<1>4. \A i \in 1..Len(O) : /\ Step(op, {O[i]}, FALSE) \in Steps
                           /\ Step(op, {O[i]}, FALSE).op = op
                           /\ Step(op, {O[i]}, FALSE).keys = {O[i]}
  <2> SUFFICES ASSUME NEW i \in 1..Len(O)
               PROVE  /\ Step(op, {O[i]}, FALSE) \in Steps
                      /\ Step(op, {O[i]}, FALSE).op = op
                      /\ Step(op, {O[i]}, FALSE).keys = {O[i]}
    OBVIOUS
  <2>1. {O[i]} \in SUBSET Keys
    BY <1>3
  <2> QED
    BY <2>1, PlainStepType, Zenon
<1> DEFINE F == ForEach(op, keys)
<1>5. F \in Seq(Steps) /\ DOMAIN F = 1..Len(O)
  <2>1. F \in [1..Len(O) -> Steps]
    BY <1>2, <1>4
  <2> HIDE DEF F
  <2> QED
    BY <1>3, <2>1
<1>6. \A i \in 1..Len(O) : F[i] = Step(op, {O[i]}, FALSE)
  BY <1>2
<1> HIDE DEF F
<1>7. \A i \in DOMAIN F : F[i].op = op /\ \E k \in Keys \cap keys : F[i].keys = {k}
  <2> SUFFICES ASSUME NEW i \in 1..Len(O)
               PROVE  F[i].op = op /\ F[i].keys = {O[i]}
    BY <1>3, <1>5
  <2> QED
    BY <1>4, <1>6, Zenon
<1> QED
  BY <1>5, <1>7 DEF F

LEMMA ForEachQuiet ==
  ASSUME NEW op \in QuietOps, NEW keys
  PROVE  Harmless(ForEach(op, keys))
<1>1. op \in Ops
  BY DEF QuietOps
<1> QED
  BY <1>1, ForEachType, QuietHarmless

LEMMA ForEachLacks ==
  ASSUME NEW op \in {"refresh", "unpress", "toggle"}, NEW keys
  PROVE  /\ ForEach(op, keys) \in Seq(Steps)
         /\ Lacks(ForEach(op, keys), Odd)
         /\ Lacks(ForEach(op, keys), Gates)
         /\ Lacks(ForEach(op, keys), Barriers)
<1>1. op \in Ops
  BY DEF Ops
<1>2. \A i \in DOMAIN ForEach(op, keys) : ForEach(op, keys)[i].op = op
  BY <1>1, ForEachType
<1> QED
  BY <1>1, <1>2, ForEachType DEF Lacks, Odd, Gates, Barriers, Of, GateOps

LEMMA NothingHarmless == Harmless(<<>>)
<1>1. <<>> \in Seq(Steps) /\ DOMAIN <<>> = {}
  OBVIOUS
<1> QED
  BY <1>1, QuietHarmless

LEMMA KeyStateHarmless ==
  ASSUME NEW keys \in SUBSET Keys, NEW down \in BOOLEAN
  PROVE  Harmless(KeyState(keys, down))
<1>1. {"send", "virtual"} \subseteq Ops \cap QuietOps
  BY DEF Ops, QuietOps, GateOps
<1>2. /\ Send(keys, down) \in Steps /\ Send(keys, down).op \in QuietOps
      /\ Virtual(keys, down) \in Steps /\ Virtual(keys, down).op \in QuietOps
  BY <1>1, StepType DEF Send, Virtual
<1> DEFINE K == <<Send(keys, down), Virtual(keys, down)>>
<1>3. K \in Seq(Steps) /\ \A i \in DOMAIN K : K[i].op \in QuietOps
  BY <1>2
<1> HIDE DEF K
<1>4. Harmless(K)
  BY <1>3, QuietHarmless
<1> QED
  BY <1>4 DEF KeyState, K

LEMMA MapSyncStateHarmless ==
  ASSUME NEW target \in SUBSET Keys, NEW down \in BOOLEAN
  PROVE  Harmless(MapSyncState(target, down))
<1> DEFINE o == Open(target)
           d == Send(target, down)
           v == Virtual(target, down)
           c == Close(target)
           M == <<o, d, v, c>>
<1>1. /\ o \in Steps /\ o.op = "open" /\ o.keys = target
      /\ d \in Steps /\ d.op = "send"
      /\ v \in Steps /\ v.op = "virtual"
      /\ c \in Steps /\ c.op = "close" /\ c.keys = target
  BY NamedSteps
<1>2. MapSyncState(target, down) = IF target = {} THEN <<>> ELSE <<o>> \o <<d, v>> \o <<c>>
  BY Zenon DEF MapSyncState, KeyState
<1> HIDE DEF o, d, v, c
<1>0. <<o>> \o <<d, v>> \o <<c>> = M
  <2>1. o \in Steps /\ d \in Steps /\ v \in Steps /\ c \in Steps
    BY <1>1
  <2> QED
    BY <2>1, FourSteps
<1>3. M \in Seq(Steps) /\ DOMAIN M = 1..4 /\ Len(M) = 4
      /\ M[1] = o /\ M[2] = d /\ M[3] = v /\ M[4] = c
  BY <1>1
<1> HIDE DEF M
<1>4. Lacks(M, Odd) /\ Lacks(M, Gates) /\ Lacks(M, Barriers) /\ Lacks(M, Resending)
  <2>1. \A i \in DOMAIN M : M[i] \in {o, d, v, c}
    BY <1>3
  <2>2. \A x \in {o, d, v, c} :
          x \notin Odd /\ x \notin Gates /\ x \notin Barriers /\ x \notin Resending
    BY <1>1 DEF Odd, Gates, Barriers, Resending, Of, GateOps
  <2> QED
    BY <2>1, <2>2 DEF Lacks
<1>5. FailuresCaught(M)
  BY <1>4, FollowedFree DEF FailuresCaught
<1>6. ASSUME NEW p \in Keys \ LeftOpen
      PROVE  Followed(M, Opening(p), Shutting(p), Barriers)
  <2> SUFFICES ASSUME NEW i \in DOMAIN M, M[i] \in Opening(p)
               PROVE  \E j \in (i + 1)..Len(M) :
                        M[j] \in Shutting(p) /\ \A k \in i..j : M[k] \notin Barriers
    BY DEF Followed
  <2>1. i = 1 /\ p \in target
    BY <1>1, <1>3 DEF Opening
  <2>2. M[4] \in Shutting(p) /\ 4 \in (i + 1)..Len(M)
    BY <1>1, <1>3, <2>1 DEF Shutting
  <2>3. \A k \in i..4 : M[k] \notin Barriers
    BY <1>3, <1>4, <2>1 DEF Lacks
  <2> QED
    BY <2>2, <2>3
<1>7. Harmless(M)
  BY <1>3, <1>4, <1>5, <1>6 DEF Harmless, PortsClosed
<1> QED
  BY <1>0, <1>2, <1>7, NothingHarmless

(* The keys that pushup() is given, and the ports it closes.               *)
Closable(keys) == \A k \in keys : PhysOf[k] = k \/ PhysOf[k] \in LeftOpen

LEMMA PushUpHarmless ==
  ASSUME NEW caller \in {"stroke", "external"}, NEW keys \in SUBSET Keys,
         NEW pre \in SUBSET Keys, Closable(keys)
  PROVE  Harmless(PushUp(caller, keys, pre))
<1> DEFINE o == Open({PhysOf[k] : k \in keys})
           d == Step(caller, keys, TRUE)
           c == Close(keys)
           v == Virtual(pre, TRUE)
           M == <<o, d, c, v>>
<1>0. {PhysOf[k] : k \in keys} \in SUBSET Keys
  BY GateAssumption
<1>1. /\ o \in Steps /\ o.op = "open" /\ o.keys = {PhysOf[k] : k \in keys}
      /\ d \in Steps /\ d.op = caller
      /\ c \in Steps /\ c.op = "close" /\ c.keys = keys
      /\ v \in Steps /\ v.op = "virtual"
  <2>1. caller \in Ops /\ TRUE \in BOOLEAN
    BY DEF Ops
  <2>2. d \in Steps /\ d.op = caller
    BY <2>1, StepType, Zenon
  <2> QED
    BY <1>0, <2>2, NamedSteps
<1>2. PushUp(caller, keys, pre) = ForEach("lift", pre) \o M
  BY DEF PushUp
<1> HIDE DEF o, d, v, c
<1>3. M \in Seq(Steps) /\ DOMAIN M = 1..4 /\ Len(M) = 4
      /\ M[1] = o /\ M[2] = d /\ M[3] = c /\ M[4] = v
  BY <1>1
<1> HIDE DEF M
<1>4. Lacks(M, Odd) /\ Lacks(M, Gates) /\ Lacks(M, Barriers) /\ Lacks(M, Resending)
  <2>1. \A i \in DOMAIN M : M[i] \in {o, d, v, c}
    BY <1>3
  <2>2. \A x \in {o, d, v, c} :
          x \notin Odd /\ x \notin Gates /\ x \notin Barriers /\ x \notin Resending
    BY <1>1 DEF Odd, Gates, Barriers, Resending, Of, GateOps
  <2> QED
    BY <2>1, <2>2 DEF Lacks
<1>5. FailuresCaught(M)
  BY <1>4, FollowedFree DEF FailuresCaught
<1>6. ASSUME NEW p \in Keys \ LeftOpen
      PROVE  Followed(M, Opening(p), Shutting(p), Barriers)
  <2> SUFFICES ASSUME NEW i \in DOMAIN M, M[i] \in Opening(p)
               PROVE  \E j \in (i + 1)..Len(M) :
                        M[j] \in Shutting(p) /\ \A k \in i..j : M[k] \notin Barriers
    BY DEF Followed
  <2>1. i = 1 /\ p \in {PhysOf[k] : k \in keys}
    BY <1>1, <1>3 DEF Opening
  <2>2. p \in keys
    BY <2>1 DEF Closable
  <2>3. M[3] \in Shutting(p) /\ 3 \in (i + 1)..Len(M)
    BY <1>1, <1>3, <2>1, <2>2 DEF Shutting
  <2>4. \A k \in i..3 : M[k] \notin Barriers
    BY <1>3, <1>4, <2>1 DEF Lacks
  <2> QED
    BY <2>3, <2>4
<1>7. Harmless(M)
  BY <1>3, <1>4, <1>5, <1>6 DEF Harmless, PortsClosed
<1>8. Harmless(ForEach("lift", pre))
  <2>1. "lift" \in QuietOps
    BY DEF QuietOps, Ops, GateOps
  <2> QED
    BY <2>1, ForEachQuiet
<1> QED
  BY <1>2, <1>7, <1>8, HarmlessConcat

-----------------------------------------------------------------------------
(* One list in front of another, and what is left of one.                  *)

Plain(S) == Listed(S) /\ Lacks(S, Gates)

LEMMA HarmlessPlain ==
  ASSUME NEW Q, Harmless(Q)
  PROVE  Plain(Q)
<1>1. Paired(Q)
  <2>1. \A i \in DOMAIN Q : Q[i] \in Steps /\ Q[i] \notin Gates
    BY DEF Harmless, Lacks
  <2> QED
    BY <2>1 DEF Paired, Gates, Of, GateOps
<1> QED
  BY <1>1 DEF Plain, Listed, Harmless

(* Two lists of which the second does not begin with a mode.               *)
LEMMA ListedConcat ==
  ASSUME NEW Q, NEW R, Listed(Q), Listed(R),
         \/ Q = <<>>
         \/ R = <<>>
         \/ R[1].op # "mode"
  PROVE  Listed(Q \o R)
<1>1. Q \in Seq(Steps) /\ R \in Seq(Steps)
  BY DEF Listed
<1>2. Q \o R \in Seq(Steps)
  BY <1>1
<1>3. Lacks(Q \o R, Odd)
  BY <1>1, LacksConcat, Zenon DEF Listed
<1>4. FailuresCaught(Q \o R)
  BY <1>1, FollowedConcat, Zenon DEF Listed, FailuresCaught
<1>5. PortsClosed(Q \o R)
  BY <1>1, FollowedConcat, Zenon DEF Listed, PortsClosed
<1>6. Paired(Q \o R)
  <2> SUFFICES ASSUME NEW i \in DOMAIN (Q \o R), (Q \o R)[i].op = "mode", i > 1
               PROVE  (Q \o R)[i - 1].op = "absorb"
    BY DEF Paired
  <2>1. CASE i <= Len(Q)
    <3>1. /\ i \in DOMAIN Q /\ Q[i] = (Q \o R)[i] /\ Q[i - 1] = (Q \o R)[i - 1]
      BY <1>1, <2>1
    <3> QED
      BY <3>1 DEF Listed, Paired
  <2>2. CASE i > Len(Q)
    <3> DEFINE n == i - Len(Q)
    <3>1. n \in DOMAIN R /\ R[n] = (Q \o R)[i]
      BY <1>1, <2>2
    <3>2. CASE n = 1
      <4>1. Q = <<>> /\ Len(Q) = 0
        BY <1>1, <3>1, <3>2
      <4> QED
        BY <3>2, <4>1
    <3>3. CASE n > 1
      <4>1. R[n - 1] = (Q \o R)[i - 1]
        BY <1>1, <2>2, <3>3
      <4>2. R[n - 1].op = "absorb"
        BY <3>1, <3>3 DEF Listed, Paired
      <4> QED
        BY <4>1, <4>2
    <3> QED
      BY <1>1, <3>1, <3>2, <3>3
  <2> QED
    BY <1>1, <2>1, <2>2
<1> QED
  BY <1>2, <1>3, <1>4, <1>5, <1>6 DEF Listed

LEMMA PlainConcat ==
  ASSUME NEW Q, NEW R, Plain(Q), Plain(R)
  PROVE  Plain(Q \o R)
<1>1. Q \in Seq(Steps) /\ R \in Seq(Steps)
  BY DEF Plain, Listed
<1>2. R = <<>> \/ R[1].op # "mode"
  <2> SUFFICES ASSUME R # <<>>
               PROVE  R[1].op # "mode"
    OBVIOUS
  <2>1. 1 \in DOMAIN R /\ R[1] \in Steps
    BY <1>1
  <2>2. R[1] \notin Gates
    BY <2>1 DEF Plain, Lacks
  <2> QED
    BY <2>1, <2>2 DEF Gates, Of, GateOps
<1>3. Listed(Q \o R)
  BY <1>2, ListedConcat DEF Plain
<1>4. Lacks(Q \o R, Gates)
  BY <1>1, LacksConcat, Zenon DEF Plain
<1> QED
  BY <1>3, <1>4 DEF Plain

(* A single step that opens nothing and sends nothing that is caught.      *)
LEMMA OneListed ==
  ASSUME NEW x \in Steps, x \notin Odd,
         x.op \notin {"unpress", "resend", "open", "refresh"}
  PROVE  Listed(<<x>>) /\ (x.op \notin GateOps => Plain(<<x>>))
<1> DEFINE S == <<x>>
<1>1. S \in Seq(Steps) /\ DOMAIN S = {1} /\ S[1] = x
  OBVIOUS
<1> HIDE DEF S
<1>2. Lacks(S, Odd) /\ Lacks(S, Resending) /\ \A p : Lacks(S, Opening(p))
  BY <1>1 DEF Lacks, Resending, Opening, Of
<1>3. FailuresCaught(S) /\ PortsClosed(S)
  BY <1>2, FollowedFree DEF FailuresCaught, PortsClosed
<1>4. Paired(S)
  BY <1>1 DEF Paired
<1>5. Listed(S)
  BY <1>1, <1>2, <1>3, <1>4 DEF Listed
<1>6. x.op \notin GateOps => Lacks(S, Gates)
  BY <1>1 DEF Lacks, Gates, Of
<1> QED
  BY <1>5, <1>6 DEF Plain, S

LEMMA ListedRemains ==
  ASSUME NEW S, Listed(S), NEW n \in 0..Len(S)
  PROVE  Listed(SubSeq(S, n + 1, Len(S)))
<1> DEFINE R == SubSeq(S, n + 1, Len(S))
<1>0. S \in Seq(Steps)
  BY DEF Listed
<1>1. /\ R \in Seq(Steps) /\ Len(R) = Len(S) - n
      /\ DOMAIN R = 1..(Len(S) - n) /\ Len(S) \in Nat /\ DOMAIN S = 1..Len(S)
      /\ \A i \in 1..(Len(S) - n) : R[i] = S[n + i]
  BY <1>0, Remains
<1>2. FailuresCaught(R)
  BY <1>0, FollowedRemains DEF Listed, FailuresCaught
<1>3. PortsClosed(R)
  BY <1>0, FollowedRemains DEF Listed, PortsClosed
<1> HIDE DEF R
<1>4. \A i \in DOMAIN R : n + i \in DOMAIN S /\ R[i] = S[n + i]
  BY <1>1
<1>5. Lacks(R, Odd)
  BY <1>4 DEF Lacks, Listed
<1>6. Paired(R)
  <2> SUFFICES ASSUME NEW i \in DOMAIN R, R[i].op = "mode", i > 1
               PROVE  R[i - 1].op = "absorb"
    BY DEF Paired
  <2>1. PICK m \in DOMAIN S : m = n + i
    BY <1>4
  <2>2. i - 1 \in DOMAIN R /\ m > 1 /\ m - 1 = n + (i - 1) /\ S[m].op = "mode"
    <3>1. R[i] = S[m]
      BY <1>4, <2>1
    <3>2. i - 1 \in DOMAIN R /\ m > 1 /\ m - 1 = n + (i - 1)
      BY <1>1, <2>1
    <3> QED
      BY <3>1, <3>2
  <2>3. \A k \in DOMAIN S : S[k].op = "mode" /\ k > 1 => S[k - 1].op = "absorb"
    BY DEF Listed, Paired
  <2>4. S[m - 1].op = "absorb"
    BY <2>2, <2>3
  <2> QED
    BY <1>4, <2>2, <2>4
<1> QED
  BY <1>1, <1>2, <1>3, <1>5, <1>6 DEF Listed, R

(* What a step may be replaced by once it is done.                         *)
Replaces(x, Q) ==
  \/ Q = <<>>
  \/ /\ x \notin Gates
     /\ Q \in Seq(Steps) /\ Lacks(Q, Odd) /\ Lacks(Q, Gates) /\ Lacks(Q, Barriers)
     /\ x \in Resending \/ FailuresCaught(Q)
     /\ \A p \in Keys \ LeftOpen :
          x \in Opening(p) \/ Followed(Q, Opening(p), Shutting(p), Barriers)

LEMMA HarmlessReplaces ==
  ASSUME NEW x, x \notin Gates, NEW Q, Harmless(Q)
  PROVE  Replaces(x, Q)
  BY DEF Replaces, Harmless, PortsClosed

LEMMA Replaced ==
  ASSUME NEW S, Listed(S), S # <<>>, NEW Q, Replaces(Head(S), Q)
  PROVE  Listed(Q \o Tail(S))
<1> DEFINE R == Tail(S)
<1>0. S \in Seq(Steps)
  BY DEF Listed
<1>1. /\ 1 \in 0..Len(S) /\ R = SubSeq(S, 1 + 1, Len(S)) /\ Head(S) = S[1]
      /\ R \in Seq(Steps) /\ Len(S) \in Nat \ {0} /\ DOMAIN S = 1..Len(S)
      /\ Len(R) = Len(S) - 1 /\ \A i \in 1..(Len(S) - 1) : R[i] = S[i + 1]
  BY <1>0, TailRemains
<1>2. Listed(R)
  BY <1>1, ListedRemains, Zenon
<1>3. /\ Head(S) \in Resending => Reaches(R, Closing, Gates)
      /\ \A p \in Keys \ LeftOpen : Head(S) \in Opening(p) => Reaches(R, Shutting(p), Barriers)
  BY <1>0, FollowedTail, Zenon DEF Listed, FailuresCaught, PortsClosed
<1> HIDE DEF R
<1>4. CASE Q = <<>>
  <2>1. Q \o R = R
    BY <1>1, <1>4
  <2> QED
    BY <1>2, <2>1 DEF R
<1>5. CASE Q # <<>>
  <2>1. /\ Head(S) \notin Gates
        /\ Q \in Seq(Steps) /\ Lacks(Q, Odd) /\ Lacks(Q, Gates) /\ Lacks(Q, Barriers)
        /\ Head(S) \in Resending \/ FailuresCaught(Q)
        /\ \A p \in Keys \ LeftOpen :
             Head(S) \in Opening(p) \/ Followed(Q, Opening(p), Shutting(p), Barriers)
    BY <1>5 DEF Replaces
  <2>2. Q \o R \in Seq(Steps)
    BY <1>1, <2>1
  <2>3. Lacks(Q \o R, Odd)
    BY <1>1, <1>2, <2>1, LacksConcat, Zenon DEF Listed
  <2>4. FailuresCaught(Q \o R)
    <3>1. CASE Head(S) \in Resending
      BY <1>1, <1>2, <1>3, <2>1, <3>1, FollowedBefore, Zenon DEF Listed, FailuresCaught
    <3>2. CASE FailuresCaught(Q)
      BY <1>1, <1>2, <2>1, <3>2, FollowedConcat, Zenon DEF Listed, FailuresCaught
    <3> QED
      BY <2>1, <3>1, <3>2
  <2>5. PortsClosed(Q \o R)
    <3> SUFFICES ASSUME NEW p \in Keys \ LeftOpen
                 PROVE  Followed(Q \o R, Opening(p), Shutting(p), Barriers)
      BY DEF PortsClosed
    <3>0. Followed(R, Opening(p), Shutting(p), Barriers)
      BY <1>2 DEF Listed, PortsClosed
    <3>1. CASE Head(S) \in Opening(p)
      BY <1>1, <1>3, <2>1, <3>0, <3>1, FollowedBefore, Zenon
    <3>2. CASE Followed(Q, Opening(p), Shutting(p), Barriers)
      BY <1>1, <2>1, <3>0, <3>2, FollowedConcat, Zenon
    <3> QED
      BY <2>1, <3>1, <3>2
  <2>6. Paired(Q \o R)
    <3>1. R = <<>> \/ R[1].op # "mode"
      <4> SUFFICES ASSUME R # <<>>, R[1].op = "mode"
                   PROVE  FALSE
        OBVIOUS
      <4>1. 2 \in DOMAIN S /\ S[2] = R[1]
        BY <1>1
      <4>2. S[1].op = "absorb"
        <5>1. \A i \in DOMAIN S : S[i].op = "mode" /\ i > 1 => S[i - 1].op = "absorb"
          BY Zenon DEF Listed, Paired
        <5>2. S[2].op = "mode" /\ 2 - 1 = 1 /\ 2 > 1
          BY <4>1
        <5> QED
          BY <4>1, <5>1, <5>2
      <4>3. S[1] \in Steps
        BY <1>0, <1>1
      <4> QED
        BY <1>1, <2>1, <4>2, <4>3 DEF Gates, Of, GateOps
    <3> SUFFICES ASSUME NEW i \in DOMAIN (Q \o R), (Q \o R)[i].op = "mode", i > 1
                 PROVE  (Q \o R)[i - 1].op = "absorb"
      BY DEF Paired
    <3>2. i > Len(Q)
      <4> SUFFICES ASSUME i <= Len(Q)
                   PROVE  FALSE
        BY <2>1
      <4>1. i \in DOMAIN Q /\ Q[i] = (Q \o R)[i] /\ Q[i] \in Steps
        BY <1>1, <2>1
      <4> QED
        BY <2>1, <4>1 DEF Lacks, Gates, Of, GateOps
    <3> DEFINE n == i - Len(Q)
    <3>3. n \in DOMAIN R /\ R[n] = (Q \o R)[i]
      BY <1>1, <2>1, <3>2
    <3>4. n # 1
      BY <3>1, <3>3
    <3>5. n > 1 /\ R[n - 1] = (Q \o R)[i - 1]
      <4>0. /\ i \in Int /\ Len(Q) \in Nat /\ Len(R) \in Nat
            /\ n \in 1..Len(R) /\ i = Len(Q) + n
        <5>1. DOMAIN R = 1..Len(R) /\ Len(R) \in Nat /\ Len(Q) \in Nat
          BY <1>1, <2>1
        <5>2. DOMAIN (Q \o R) \subseteq Int
          BY <1>1, <2>1
        <5>3. i \in Int /\ n \in DOMAIN R
          BY <3>3, <5>2
        <5> QED
          BY <5>1, <5>3
      <4> HIDE DEF n
      <4>1. n \in 2..Len(R) /\ i - 1 = Len(Q) + (n - 1) /\ n - 1 \in 1..Len(R)
        BY <3>4, <4>0
      <4>2. \A k \in 1..Len(R) : (Q \o R)[Len(Q) + k] = R[k]
        BY <1>1, <2>1
      <4> QED
        BY <4>1, <4>2
    <3>6. R[n - 1].op = "absorb"
      <4>1. \A k \in DOMAIN R : R[k].op = "mode" /\ k > 1 => R[k - 1].op = "absorb"
        BY <1>2 DEF Listed, Paired
      <4> QED
        BY <3>3, <3>5, <4>1
    <3> QED
      BY <3>5, <3>6
  <2> QED
    BY <2>2, <2>3, <2>4, <2>5, <2>6 DEF Listed, R
<1> QED
  BY <1>4, <1>5

(* A port is closed in time whatever replaces the first step.              *)
LEMMA PortStaysClosable ==
  ASSUME NEW S, Listed(S), S # <<>>, NEW Q, Replaces(Head(S), Q), NEW p \in Keys \ LeftOpen,
         \/ Head(S) \in Opening(p)
         \/ Reaches(S, Shutting(p), Barriers) /\ Head(S) \notin Shutting(p)
  PROVE  Reaches(Q \o Tail(S), Shutting(p), Barriers)
<1>0. S \in Seq(Steps) /\ Tail(S) \in Seq(Steps)
  BY DEF Listed
<1>1. Reaches(Tail(S), Shutting(p), Barriers)
  <2>1. CASE Head(S) \in Opening(p)
    BY <1>0, <2>1, FollowedTail, Zenon DEF Listed, PortsClosed
  <2>2. CASE Reaches(S, Shutting(p), Barriers) /\ Head(S) \notin Shutting(p)
    BY <1>0, <2>2, ReachesTail, Zenon
  <2> QED
    BY <2>1, <2>2
<1>2. Q \in Seq(Steps) /\ Lacks(Q, Barriers)
  <2>1. <<>> \in Seq(Steps) /\ DOMAIN <<>> = {}
    OBVIOUS
  <2> QED
    BY <2>1 DEF Replaces, Lacks
<1> QED
  BY <1>0, <1>1, <1>2, ReachesConcat, Zenon

LEMMA OneQuiet ==
  ASSUME NEW x \in Steps, x.op \in QuietOps
  PROVE  Harmless(<<x>>)
<1> DEFINE S == <<x>>
<1>1. S \in Seq(Steps) /\ DOMAIN S = {1} /\ S[1] = x
  OBVIOUS
<1> HIDE DEF S
<1>2. Harmless(S)
  BY <1>1, QuietHarmless
<1> QED
  BY <1>2 DEF S

LEMMA CloseAllWithRefreshHarmless == Harmless(CloseAllWithRefresh)
  BY ForEachLacks, ClosedHarmless DEF CloseAllWithRefresh

(* Some steps that neither wait nor concern the absorption, and are not    *)
(* what a function does on demand.                                         *)
LEMMA OneLacks ==
  ASSUME NEW x \in Steps, x.op \in {"open", "send", "resend", "virtual"}
  PROVE  /\ <<x>> \in Seq(Steps) /\ Lacks(<<x>>, Odd)
         /\ Lacks(<<x>>, Gates) /\ Lacks(<<x>>, Barriers)
<1> DEFINE S == <<x>>
<1>1. S \in Seq(Steps) /\ DOMAIN S = {1} /\ S[1] = x
  OBVIOUS
<1> HIDE DEF S
<1>2. Lacks(S, Odd) /\ Lacks(S, Gates) /\ Lacks(S, Barriers)
  BY <1>1 DEF Lacks, Odd, Gates, Barriers, Of, GateOps
<1> QED
  BY <1>1, <1>2 DEF S

LEMMA TwoSteps ==
  ASSUME NEW a \in Steps, NEW b \in Steps
  PROVE  <<a>> \o <<b>> = <<a, b>>
<1> DEFINE L == <<a>> \o <<b>>
           R == <<a, b>>
<1>1. L \in Seq(Steps) /\ Len(L) = 2 /\ L[1] = a /\ L[2] = b
  OBVIOUS
<1>2. R \in Seq(Steps) /\ Len(R) = 2 /\ R[1] = a /\ R[2] = b
  OBVIOUS
<1> HIDE DEF L, R
<1>3. \A i \in 1..2 : L[i] = R[i]
  BY <1>1, <1>2
<1>4. L = R
  BY <1>1, <1>2, <1>3
<1> QED
  BY <1>4 DEF L, R

LEMMA ThreeSteps ==
  ASSUME NEW a \in Steps, NEW b \in Steps, NEW c \in Steps
  PROVE  <<a, b>> \o <<c>> = <<a, b, c>>
<1> DEFINE L == <<a, b>> \o <<c>>
           R == <<a, b, c>>
<1>1. L \in Seq(Steps) /\ Len(L) = 3 /\ L[1] = a /\ L[2] = b /\ L[3] = c
  OBVIOUS
<1>2. R \in Seq(Steps) /\ Len(R) = 3 /\ R[1] = a /\ R[2] = b /\ R[3] = c
  OBVIOUS
<1> HIDE DEF L, R
<1>3. \A i \in 1..3 : L[i] = R[i]
  BY <1>1, <1>2
<1>4. L = R
  BY <1>1, <1>2, <1>3
<1> QED
  BY <1>4 DEF L, R

LEMMA TwoLack ==
  ASSUME NEW a \in Steps, NEW b \in Steps,
         a.op \in {"open", "send", "resend", "virtual"},
         b.op \in {"open", "send", "resend", "virtual"}
  PROVE  /\ <<a, b>> \in Seq(Steps) /\ Lacks(<<a, b>>, Odd)
         /\ Lacks(<<a, b>>, Gates) /\ Lacks(<<a, b>>, Barriers)
<1> DEFINE S == <<a>> \o <<b>>
<1>1. <<a>> \in Seq(Steps) /\ <<b>> \in Seq(Steps)
  OBVIOUS
<1>2. S \in Seq(Steps)
  BY <1>1
<1>3. Lacks(S, Odd) /\ Lacks(S, Gates) /\ Lacks(S, Barriers)
  BY <1>1, OneLacks, LacksConcat, Zenon
<1>4. S = <<a, b>>
  BY TwoSteps
<1> HIDE DEF S
<1> QED
  BY <1>2, <1>3, <1>4

LEMMA SendTypes ==
  ASSUME NEW keys \in SUBSET Keys
  PROVE  /\ Step("resend", keys, FALSE) \in Steps
         /\ Step("resend", keys, FALSE).op = "resend"
         /\ Step("release", keys, FALSE) \in Steps
         /\ Step("release", keys, FALSE).op = "release"
         /\ Step("forget", keys, FALSE) \in Steps
         /\ Step("forget", keys, FALSE).op = "forget"
  BY DEF Step, Steps, Ops

(* What the steps that look at the state may be replaced by.               *)
LEMMA RefreshReplaced ==
  ASSUME NEW x \in Steps, x.op = "refresh"
  PROVE  Replaces(x, <<Open(x.keys)>> \o KeyState(x.keys, FALSE))
<1> DEFINE o == <<Open(x.keys)>>
           k == KeyState(x.keys, FALSE)
<1>0. x.keys \in SUBSET Keys
  BY DEF Steps
<1>1. /\ Open(x.keys) \in Steps /\ Open(x.keys).op = "open" /\ Open(x.keys).keys = x.keys
  BY <1>0, NamedSteps
<1>2. /\ o \in Seq(Steps) /\ Lacks(o, Odd) /\ Lacks(o, Gates) /\ Lacks(o, Barriers)
      /\ DOMAIN o = {1} /\ o[1] = Open(x.keys)
  BY <1>1, OneLacks
<1>3. Harmless(k)
  BY <1>0, KeyStateHarmless
<1> HIDE DEF o, k
<1>4. k \in Seq(Steps)
  BY <1>3 DEF Harmless
<1>5. o \o k \in Seq(Steps)
  BY <1>2, <1>4
<1>6. Lacks(o \o k, Odd) /\ Lacks(o \o k, Gates) /\ Lacks(o \o k, Barriers)
  BY <1>2, <1>3, <1>4, LacksConcat, Zenon DEF Harmless
<1>7. FailuresCaught(o \o k)
  <2>1. Lacks(o, Resending)
    BY <1>1, <1>2 DEF Lacks, Resending, Of
  <2>2. Followed(o, Resending, Closing, Gates)
    BY <2>1, FollowedFree
  <2> QED
    BY <1>2, <1>3, <1>4, <2>2, FollowedConcat, Zenon DEF Harmless, FailuresCaught
<1>8. ASSUME NEW p \in Keys \ LeftOpen, p \notin x.keys
      PROVE  Followed(o \o k, Opening(p), Shutting(p), Barriers)
  <2>1. Lacks(o, Opening(p))
    BY <1>1, <1>2, <1>8 DEF Lacks, Opening
  <2>2. Followed(o, Opening(p), Shutting(p), Barriers)
    BY <2>1, FollowedFree
  <2> QED
    BY <1>2, <1>3, <1>4, <2>2, FollowedConcat, Zenon DEF Harmless, PortsClosed
<1>9. x \notin Gates /\ \A p \in x.keys : x \in Opening(p)
  BY DEF Gates, Of, GateOps, Opening
<1>10. Replaces(x, o \o k)
  BY <1>5, <1>6, <1>7, <1>8, <1>9 DEF Replaces
<1> QED
  BY <1>10 DEF o, k

LEMMA UnpressReplaced ==
  ASSUME NEW x \in Steps, x.op = "unpress"
  PROVE  Replaces(x, <<Step("resend", x.keys, FALSE), Virtual(x.keys, FALSE)>>)
<1> DEFINE a == Step("resend", x.keys, FALSE)
           b == Virtual(x.keys, FALSE)
           Q == <<a, b>>
<1>0. x.keys \in SUBSET Keys
  BY DEF Steps
<1>1. a \in Steps /\ a.op = "resend" /\ b \in Steps /\ b.op = "virtual"
  BY <1>0, SendTypes, NamedSteps
<1> HIDE DEF a, b
<1>2. /\ Q \in Seq(Steps) /\ Lacks(Q, Odd) /\ Lacks(Q, Gates) /\ Lacks(Q, Barriers)
      /\ \A i \in DOMAIN Q : Q[i] \in {a, b}
  BY <1>1, TwoLack
<1> HIDE DEF Q
<1>3. \A p : Lacks(Q, Opening(p))
  BY <1>1, <1>2 DEF Lacks, Opening
<1>4. \A p \in Keys \ LeftOpen : Followed(Q, Opening(p), Shutting(p), Barriers)
  BY <1>3, FollowedFree
<1>5. x \notin Gates /\ x \in Resending
  BY DEF Gates, Resending, Of, GateOps
<1>6. Replaces(x, Q)
  BY <1>2, <1>4, <1>5 DEF Replaces
<1> QED
  BY <1>6 DEF Q, a, b

LEMMA ClosedTwo ==
  ASSUME NEW a \in Steps, NEW b \in Steps,
         a.op \in {"open", "send", "resend", "virtual"},
         b.op \in {"open", "send", "resend", "virtual"}
  PROVE  Harmless(<<a, b, CloseAll>>)
<1> DEFINE c == CloseAll
<1>1. c \in Steps
  BY DEF CloseAll, Step, Steps, Ops
<1>2. Harmless(<<a, b>> \o <<CloseAll>>)
  BY TwoLack, ClosedHarmless
<1>3. <<a, b>> \o <<c>> = <<a, b, c>>
  <2> HIDE DEF c
  <2> QED
    BY <1>1, ThreeSteps
<1> QED
  BY <1>2, <1>3

LEMMA ScopeHarmless ==
  ASSUME NEW keys \in SUBSET Keys
  PROVE  Harmless(<<Open(keys), Step("resend", keys, FALSE), CloseAll>>)
  BY SendTypes, NamedSteps, ClosedTwo

(* calibrate_absorber_state() leaves no port open, whatever fails in it.   *)
LEMMA CalibrateHarmless ==
  ASSUME state \in SUBSET Keys
  PROVE  Harmless(Calibrate)
<1> DEFINE o == IF absorb THEN <<Open(state)>> ELSE <<>>
           u == ForEach("unpress", state)
<1>1. o \in Seq(Steps) /\ Lacks(o, Odd) /\ Lacks(o, Gates) /\ Lacks(o, Barriers)
  <2>1. CASE absorb
    BY <2>1, NamedSteps, OneLacks
  <2>2. CASE ~absorb
    BY <2>2, NothingHarmless DEF Harmless
  <2> QED
    BY <2>1, <2>2
<1>2. u \in Seq(Steps) /\ Lacks(u, Odd) /\ Lacks(u, Gates) /\ Lacks(u, Barriers)
  BY ForEachLacks
<1> HIDE DEF o, u
<1>3. /\ o \o u \in Seq(Steps)
      /\ Lacks(o \o u, Odd) /\ Lacks(o \o u, Gates) /\ Lacks(o \o u, Barriers)
  <2>1. o \o u \in Seq(Steps)
    BY <1>1, <1>2
  <2> QED
    BY <1>1, <1>2, <2>1, LacksConcat, Zenon
<1>4. Harmless((o \o u) \o <<CloseAll>>)
  BY <1>3, ClosedHarmless
<1>5. Calibrate = IF state = {} THEN <<>> ELSE (o \o u) \o <<CloseAll>>
  BY DEF Calibrate, o, u
<1> QED
  BY <1>4, <1>5, NothingHarmless

LEMMA TargetType ==
  ASSUME NEW m \in Modes, NEW k \in Keys
  PROVE  Target(m, k) \in SUBSET Keys
  BY GateAssumption DEF Target, Identity

LEMMA ReleaseToggleHarmless ==
  ASSUME NEW k \in Keys
  PROVE  Harmless(ReleaseToggle(k))
<1>1. \A m \in Modes : Harmless(MapSyncState(Target(m, k), FALSE))
  BY TargetType, MapSyncStateHarmless
<1>2. Harmless(KeyState({k}, FALSE))
  BY KeyStateHarmless
<1>3. Harmless(<<Step("forget", {k}, FALSE)>>)
  <2>1. "forget" \in QuietOps
    BY DEF QuietOps, Ops, GateOps
  <2>2. /\ Step("forget", {k}, FALSE) \in Steps
        /\ Step("forget", {k}, FALSE).op \in QuietOps
    BY <2>1, SendTypes
  <2> QED
    BY <2>2, OneQuiet
<1>4. "insert" \in Modes /\ "normal" \in Modes
  BY DEF Modes
<1> QED
  BY <1>1, <1>2, <1>3, <1>4, HarmlessConcat, Zenon DEF ReleaseToggle

-----------------------------------------------------------------------------
(* The steps of a list that concern the absorption.                        *)

Pending(S) == Only(S, GateOps)

AbsorbStep(b) == Step("absorb", {}, b)
ModeStep(b)   == Step("mode", {}, b)
RestoreStep   == Step("restore", {}, FALSE)

LEMMA GateSteps ==
  /\ \A b \in BOOLEAN :
       /\ AbsorbStep(b) \in Steps /\ AbsorbStep(b).op = "absorb" /\ AbsorbStep(b).down = b
       /\ ModeStep(b) \in Steps /\ ModeStep(b).op = "mode" /\ ModeStep(b).down = b
       /\ AbsorbStep(b) \in Gates /\ ModeStep(b) \in Gates
  /\ RestoreStep \in Steps /\ RestoreStep.op = "restore" /\ RestoreStep.down = FALSE
  /\ RestoreStep \in Gates
  BY DEF AbsorbStep, ModeStep, RestoreStep, Step, Steps, Ops, Gates, Of, GateOps

LEMMA PendingIsAmong ==
  ASSUME NEW S
  PROVE  Pending(S) = Among(S, Gates)
  BY DEF Pending, Only, Gates, Of

LEMMA PendingType ==
  ASSUME NEW S \in Seq(Steps)
  PROVE  Pending(S) \in Seq(Steps)
  BY AmongProperties, PendingIsAmong, Zenon

LEMMA PendingConcat ==
  ASSUME NEW Q \in Seq(Steps), NEW R \in Seq(Steps)
  PROVE  Pending(Q \o R) = Pending(Q) \o Pending(R)
<1>1. Distributes(Q, R, Gates)
  BY AmongConcat, Zenon
<1> QED
  BY <1>1, PendingIsAmong, Zenon DEF Distributes

LEMMA PendingNone ==
  ASSUME NEW Q \in Seq(Steps), Lacks(Q, Gates)
  PROVE  Pending(Q) = <<>>
  BY AmongNone, PendingIsAmong, Zenon DEF Lacks

LEMMA PlainPending ==
  ASSUME NEW Q, Plain(Q)
  PROVE  Q \in Seq(Steps) /\ Pending(Q) = <<>>
  BY PendingNone DEF Plain, Listed

LEMMA PlainBehind ==
  ASSUME NEW S \in Seq(Steps), NEW Q, Plain(Q)
  PROVE  Pending(S \o Q) = Pending(S)
<1>1. Q \in Seq(Steps) /\ Pending(Q) = <<>>
  BY PlainPending
<1>2. Pending(S) \in Seq(Steps)
  BY PendingType
<1>3. Pending(S) \o <<>> = Pending(S)
  BY <1>2
<1> QED
  BY <1>1, <1>3, PendingConcat, Zenon

LEMMA PlainBefore ==
  ASSUME NEW S \in Seq(Steps), NEW Q, Plain(Q)
  PROVE  Pending(Q \o S) = Pending(S)
<1>1. Q \in Seq(Steps) /\ Pending(Q) = <<>>
  BY PlainPending
<1>2. Pending(S) \in Seq(Steps)
  BY PendingType
<1>3. <<>> \o Pending(S) = Pending(S)
  BY <1>2
<1> QED
  BY <1>1, <1>3, PendingConcat, Zenon

LEMMA PendingOne ==
  ASSUME NEW x \in Gates
  PROVE  Pending(<<x>>) = <<x>>
<1>1. x \in Steps
  BY DEF Gates, Of
<1> QED
  BY <1>1, AmongOne, PendingIsAmong, Zenon

LEMMA PendingTail ==
  ASSUME NEW S \in Seq(Steps), S # <<>>
  PROVE  /\ Head(S) \in Gates => Pending(S) = <<Head(S)>> \o Pending(Tail(S))
         /\ Head(S) \notin Gates => Pending(S) = Pending(Tail(S))
  BY AmongTail, PendingIsAmong, Zenon

LEMMA PendingReplaced ==
  ASSUME NEW S \in Seq(Steps), S # <<>>, Head(S) \notin Gates, NEW Q, Replaces(Head(S), Q)
  PROVE  Pending(Q \o Tail(S)) = Pending(S)
<1>1. <<>> \in Seq(Steps) /\ DOMAIN <<>> = {}
  OBVIOUS
<1>2. Q \in Seq(Steps) /\ Lacks(Q, Gates)
  BY <1>1 DEF Replaces, Lacks
<1>3. Pending(Q) = <<>>
  BY <1>2, PendingNone, Zenon
<1>4. Tail(S) \in Seq(Steps)
  OBVIOUS
<1>5. <<>> \o Pending(Tail(S)) = Pending(Tail(S))
  BY <1>4, PendingType
<1>6. Pending(Q \o Tail(S)) = Pending(Q) \o Pending(Tail(S))
  BY <1>2, <1>4, PendingConcat, Zenon
<1> QED
  BY <1>3, <1>5, <1>6, PendingTail, Zenon

-----------------------------------------------------------------------------
(* The functions.                                                          *)

LEMMA CorrectedListed ==
  ASSUME NEW f, NEW S, Listed(S), NEW L \in Corrected(f, S)
  PROVE  Listed(L) /\ Pending(L) = Pending(S)
<1> DEFINE x == Step("correct", {}, FALSE)
           c == <<x>>
<1>1. "correct" \in Ops /\ "correct" \in QuietOps
  BY DEF Ops, QuietOps, GateOps
<1>2. x \in Steps /\ x.op = "correct"
  <2>1. {} \in SUBSET Keys
    OBVIOUS
  <2> QED
    BY <1>1, <2>1, PlainStepType, Zenon
<1>3. Harmless(c)
  <2> HIDE DEF x
  <2> QED
    BY <1>1, <1>2, OneQuiet
<1>4. L = S \/ L = S \o c
  BY DEF Corrected
<1>5. c[1] = x
  OBVIOUS
<1> HIDE DEF x, c
<1>6. Plain(c)
  BY <1>3, HarmlessPlain
<1>7. Listed(S \o c)
  BY <1>2, <1>5, <1>6, ListedConcat DEF Plain
<1>8. Pending(S \o c) = Pending(S)
  BY <1>6, PlainBehind DEF Listed
<1> QED
  BY <1>4, <1>7, <1>8

LEMMA AbsorbAndMode ==
  ASSUME NEW b \in BOOLEAN
  PROVE  /\ Listed(<<AbsorbStep(b), ModeStep(b)>>)
         /\ Pending(<<AbsorbStep(b), ModeStep(b)>>) = <<AbsorbStep(b), ModeStep(b)>>
<1> DEFINE a == AbsorbStep(b)
           m == ModeStep(b)
           S == <<a, m>>
<1>1. /\ a \in Steps /\ a.op = "absorb" /\ a \in Gates
      /\ m \in Steps /\ m.op = "mode" /\ m \in Gates
  BY GateSteps
<1> HIDE DEF a, m
<1>2. S \in Seq(Steps) /\ DOMAIN S = {1, 2} /\ S[1] = a /\ S[2] = m
  BY <1>1
<1>3. <<a>> \in Seq(Steps) /\ <<m>> \in Seq(Steps) /\ <<a>> \o <<m>> = S
  BY <1>1, TwoSteps
<1>4. Pending(S) = <<a>> \o <<m>>
  BY <1>1, <1>3, PendingConcat, PendingOne, Zenon
<1> HIDE DEF S
<1>5. /\ Lacks(S, Odd) /\ Lacks(S, Resending) /\ \A p : Lacks(S, Opening(p))
  BY <1>1, <1>2 DEF Lacks, Odd, Resending, Opening, Of
<1>6. FailuresCaught(S) /\ PortsClosed(S)
  BY <1>5, FollowedFree DEF FailuresCaught, PortsClosed
<1>7. Paired(S)
  BY <1>1, <1>2 DEF Paired
<1>8. Listed(S)
  BY <1>2, <1>5, <1>6, <1>7 DEF Listed
<1> QED
  BY <1>3, <1>4, <1>8 DEF S, a, m

LEMMA ModesListed ==
  ASSUME NEW Q, Harmless(Q), NEW b \in BOOLEAN
  PROVE  LET S == Q \o <<AbsorbStep(b), ModeStep(b)>>
         IN  Listed(S) /\ Pending(S) = <<AbsorbStep(b), ModeStep(b)>>
<1> DEFINE g == <<AbsorbStep(b), ModeStep(b)>>
<1>1. Listed(g) /\ Pending(g) = g /\ g[1].op # "mode"
  BY AbsorbAndMode, GateSteps
<1>2. Plain(Q)
  BY HarmlessPlain
<1> HIDE DEF g
<1>3. Listed(Q \o g)
  BY <1>1, <1>2, ListedConcat DEF Plain
<1>4. Pending(Q \o g) = g
  BY <1>1, <1>2, PlainBefore DEF Listed
<1> QED
  BY <1>3, <1>4 DEF g

LEMMA OnePlain ==
  ASSUME NEW x \in Steps, x \notin Odd,
         x.op \notin GateOps \cup {"unpress", "resend", "open", "refresh"}
  PROVE  Plain(<<x>>)
  BY OneListed

LEMMA TwoPlain ==
  ASSUME NEW x, NEW y, x \in Steps, y \in Steps, Plain(<<x>>), Plain(<<y>>)
  PROVE  Plain(<<x, y>>)
<1>1. <<x>> \o <<y>> = <<x, y>>
  BY TwoSteps
<1> QED
  BY <1>1, PlainConcat, Zenon

LEMMA OneAndTwoSteps ==
  ASSUME NEW a \in Steps, NEW b \in Steps, NEW c \in Steps
  PROVE  <<a>> \o <<b, c>> = <<a, b, c>>
<1> DEFINE L == <<a>> \o <<b, c>>
           R == <<a, b, c>>
<1>1. L \in Seq(Steps) /\ Len(L) = 3 /\ L[1] = a /\ L[2] = b /\ L[3] = c
  OBVIOUS
<1>2. R \in Seq(Steps) /\ Len(R) = 3 /\ R[1] = a /\ R[2] = b /\ R[3] = c
  OBVIOUS
<1> HIDE DEF L, R
<1>3. \A i \in 1..3 : L[i] = R[i]
  BY <1>1, <1>2
<1>4. L = R
  BY <1>1, <1>2, <1>3
<1> QED
  BY <1>4 DEF L, R

(* A function that absorbs the keyboard restores it if it was not.         *)
LEMMA AbsorbingListed ==
  ASSUME NEW S, Plain(S)
  PROVE  /\ Listed(Absorbing(S))
         /\ absorb => Pending(Absorbing(S)) = <<AbsorbStep(TRUE)>>
         /\ ~absorb => Pending(Absorbing(S)) = <<AbsorbStep(TRUE), RestoreStep>>
<1> DEFINE c == CloseAllWithRefresh
           x == AbsorbStep(TRUE)
           y == RestoreStep
           a == <<x>>
           r == <<y>>
<1>1. /\ x \in Steps /\ x.op = "absorb" /\ x \in Gates
      /\ y \in Steps /\ y.op = "restore" /\ y \in Gates
  BY GateSteps
<1>2. Plain(c)
  BY CloseAllWithRefreshHarmless, HarmlessPlain
<1>3. Absorbing(S) = c \o a \o S \o (IF absorb THEN <<>> ELSE r)
  BY DEF Absorbing, AbsorbStep, RestoreStep
<1>4. a[1] = x /\ r[1] = y
  OBVIOUS
<1> HIDE DEF c, x, y
<1>5. Listed(a) /\ Listed(r) /\ Pending(a) = a /\ Pending(r) = r /\ a \o r = <<x, y>>
  BY <1>1, OneListed, PendingOne, TwoSteps DEF Odd
<1> HIDE DEF a, r
<1>6. Listed(c \o a) /\ Pending(c \o a) = a
  BY <1>1, <1>2, <1>4, <1>5, ListedConcat, PlainBefore DEF Plain, Listed
<1>7. Listed(c \o a \o S) /\ Pending(c \o a \o S) = a
  <2>1. S = <<>> \/ S[1].op # "mode"
    <3> SUFFICES ASSUME S # <<>>
                 PROVE  S[1].op # "mode"
      OBVIOUS
    <3>1. S \in Seq(Steps) /\ 1 \in DOMAIN S /\ S[1] \in Steps
      BY DEF Plain, Listed
    <3> QED
      BY <3>1 DEF Plain, Lacks, Gates, Of, GateOps
  <2>2. Listed(c \o a \o S)
    BY <1>6, <2>1, ListedConcat DEF Plain
  <2>3. Pending(c \o a \o S) = Pending(c \o a)
    BY <1>6, PlainBehind DEF Listed
  <2> QED
    BY <1>6, <2>2, <2>3
<1>8. CASE absorb
  <2>1. (c \o a \o S) \o <<>> = c \o a \o S
    BY <1>7 DEF Listed
  <2> QED
    BY <1>3, <1>7, <1>8, <2>1 DEF a, x
<1>9. CASE ~absorb
  <2>1. Listed(c \o a \o S \o r)
    BY <1>1, <1>4, <1>5, <1>7, ListedConcat
  <2>2. Pending(c \o a \o S \o r) = <<x, y>>
    BY <1>5, <1>7, PendingConcat, Zenon DEF Listed
  <2> QED
    BY <1>3, <1>9, <2>1, <2>2 DEF x, y
<1> QED
  BY <1>8, <1>9

LEMMA KeyTypes ==
  /\ Arrows \in SUBSET Keys /\ EndKeys \in SUBSET Keys
  /\ {KEYCODE_LALT} \in SUBSET Keys /\ {KEYCODE_TAB} \in SUBSET Keys
  BY GateAssumption

LEMMA ResizeWindowPlain == Plain(<<Wait({}), Virtual(EndKeys, FALSE)>>)
<1> DEFINE x == Wait({})
           y == Virtual(EndKeys, FALSE)
<1>1. /\ x \in Steps /\ x.op = "wait" /\ x.keys = {}
      /\ y \in Steps /\ y.op = "virtual"
  BY KeyTypes, NamedSteps DEF Wait, Step, Steps, Ops
<1> HIDE DEF x, y
<1>2. Plain(<<x>>) /\ Plain(<<y>>)
  <2>1. x \notin Odd /\ y \notin Odd
    BY <1>1 DEF Odd
  <2> QED
    BY <1>1, <2>1, OnePlain DEF GateOps
<1> QED
  BY <1>1, <1>2, TwoPlain DEF x, y

LEMMA ScopedPlain ==
  ASSUME NEW k, {k} \in SUBSET Keys, NEW down \in BOOLEAN
  PROVE  Plain(Scoped(k, down))
<1> DEFINE a == Open({k})
           b == Send({k}, down)
           c == CloseAll
           d == Step("verify", {k}, down)
<1>1. /\ a \in Steps /\ a.op = "open" /\ b \in Steps /\ b.op = "send"
      /\ c \in Steps /\ d \in Steps /\ d.op = "verify"
  <2>1. "verify" \in Ops
    BY DEF Ops
  <2>2. c \in Steps
    BY DEF CloseAll, Step, Steps, Ops
  <2> QED
    BY <2>1, <2>2, NamedSteps, StepType
<1>2. Scoped(k, down) = <<a, b, c, d>>
  BY DEF Scoped
<1>3. Plain(<<a, b, c>>)
  BY <1>1, ClosedTwo, HarmlessPlain
<1> HIDE DEF a, b, c, d
<1>4. Plain(<<d>>)
  <2>1. d \notin Odd
    BY <1>1 DEF Odd
  <2> QED
    BY <1>1, <2>1, OnePlain DEF GateOps
<1>5. <<a, b, c>> \o <<d>> = <<a, b, c, d>>
  <2>1. <<a>> \o <<b, c>> = <<a, b, c>>
    BY <1>1, OneAndTwoSteps
  <2>2. <<a>> \o <<b, c>> \o <<d>> = <<a, b, c, d>>
    BY <1>1, FourSteps
  <2> QED
    BY <2>1, <2>2, Zenon
<1> QED
  BY <1>2, <1>3, <1>4, <1>5, PlainConcat, Zenon

LEMMA SwitchWindowPlain ==
  Plain(Scoped(KEYCODE_LALT, TRUE)
          \o <<Virtual({KEYCODE_LALT}, FALSE), Push({KEYCODE_TAB}),
               Wait(Arrows), Virtual(EndKeys, FALSE)>>
          \o Scoped(KEYCODE_LALT, FALSE)
          \o <<Step("scope", {KEYCODE_LALT}, FALSE)>>)
<1> DEFINE a == Virtual({KEYCODE_LALT}, FALSE)
           b == Push({KEYCODE_TAB})
           c == Wait(Arrows)
           d == Virtual(EndKeys, FALSE)
           e == Step("scope", {KEYCODE_LALT}, FALSE)
<1>1. /\ a \in Steps /\ a.op = "virtual"
      /\ b \in Steps /\ b.op = "push" /\ b.keys = {KEYCODE_TAB}
      /\ c \in Steps /\ c.op = "wait" /\ c.keys = Arrows
      /\ d \in Steps /\ d.op = "virtual"
      /\ e \in Steps /\ e.op = "scope"
  <2>1. "scope" \in Ops
    BY DEF Ops
  <2>2. a \in Steps /\ a.op = "virtual" /\ d \in Steps /\ d.op = "virtual"
    BY KeyTypes, NamedSteps
  <2>3. b \in Steps /\ b.op = "push" /\ b.keys = {KEYCODE_TAB}
    BY KeyTypes, WaitingSteps, Zenon
  <2>4. c \in Steps /\ c.op = "wait" /\ c.keys = Arrows
    BY KeyTypes, WaitingSteps, Zenon
  <2>5. e \in Steps /\ e.op = "scope"
    BY <2>1, KeyTypes, PlainStepType, Zenon
  <2> HIDE DEF a, b, c, d, e
  <2> QED
    BY <2>2, <2>3, <2>4, <2>5
<1> DEFINE f == <<a, b, c, d>>
           g == <<e>>
           s == Scoped(KEYCODE_LALT, TRUE)
           t == Scoped(KEYCODE_LALT, FALSE)
<1>2. Plain(s) /\ Plain(t)
  BY KeyTypes, ScopedPlain
<1> HIDE DEF a, b, c, d, e, s, t
<1>3. Plain(<<a>>) /\ Plain(<<b>>) /\ Plain(<<c>>) /\ Plain(<<d>>) /\ Plain(g)
  <2>1. a \notin Odd /\ b \notin Odd /\ c \notin Odd /\ d \notin Odd /\ e \notin Odd
    BY <1>1 DEF Odd
  <2> QED
    BY <1>1, <2>1, OnePlain DEF GateOps
<1>4. Plain(f)
  <2>1. Plain(<<b, c>>)
    BY <1>1, <1>3, TwoPlain
  <2>2. Plain(<<a>> \o <<b, c>> \o <<d>>)
    BY <1>3, <2>1, PlainConcat, Zenon
  <2>3. <<a>> \o <<b, c>> \o <<d>> = f
    BY <1>1, FourSteps
  <2> QED
    BY <2>2, <2>3
<1> HIDE DEF f, g
<1>5. Plain(s \o f \o t \o g)
  BY <1>2, <1>3, <1>4, PlainConcat, Zenon
<1> QED
  BY <1>5 DEF a, b, c, d, e, f, g, s, t

-----------------------------------------------------------------------------
(* Exceptions.                                                             *)

(* Where the keyboard is absorbed or not, a, in mode m, it is as the mode   *)
(* wants it, or the steps that are still to come will see to it.           *)
Agrees(a, m) == a <=> m = "normal"

Settles(S, a, m) ==
  \/ Pending(S) = <<>> /\ Agrees(a, m)
  \/ \E b \in BOOLEAN : Pending(S) = <<AbsorbStep(b), ModeStep(b)>> /\ Agrees(a, m)
  \/ \E b \in BOOLEAN : Pending(S) = <<ModeStep(b)>> /\ a = b
  \/ Pending(S) = <<AbsorbStep(TRUE)>> /\ Agrees(a, m) /\ a
  \/ Pending(S) = <<AbsorbStep(TRUE), RestoreStep>> /\ Agrees(a, m) /\ ~a
  \/ Pending(S) = <<RestoreStep>> /\ a /\ m = "insert"

LEMMA OnlyIsAmong ==
  ASSUME NEW S, NEW ops
  PROVE  Only(S, ops) = Among(S, Of(ops))
  BY DEF Only, Of

LEMMA OnlyType ==
  ASSUME NEW S \in Seq(Steps), NEW ops
  PROVE  /\ Only(S, ops) \in Seq(Steps)
         /\ \A i \in DOMAIN Only(S, ops) : Only(S, ops)[i].op \in ops
<1>1. Only(S, ops) \in Seq(Steps \cap Of(ops)) /\ Only(S, ops) \in Seq(Steps)
  BY AmongProperties, OnlyIsAmong, Zenon
<1>2. \A i \in DOMAIN Only(S, ops) : Only(S, ops)[i] \in Of(ops)
  BY <1>1
<1> QED
  BY <1>1, <1>2 DEF Of

(* What an exception leaves opens no port, and does not itself absorb.     *)
LEMMA MildListed ==
  ASSUME NEW Q \in Seq(Steps),
         \A i \in DOMAIN Q : Q[i].op \in {"scope", "restore", "recover", "correct"}
  PROVE  Listed(Q) /\ (Q # <<>> => Q[1].op # "mode")
<1>1. /\ Lacks(Q, Odd) /\ Lacks(Q, Resending) /\ \A p : Lacks(Q, Opening(p))
  BY DEF Lacks, Odd, Resending, Opening, Of
<1>2. FailuresCaught(Q) /\ PortsClosed(Q)
  BY <1>1, FollowedFree DEF FailuresCaught, PortsClosed
<1>3. Paired(Q)
  BY DEF Paired
<1>4. Q # <<>> => Q[1].op # "mode"
  OBVIOUS
<1> QED
  BY <1>1, <1>2, <1>3, <1>4 DEF Listed

LEMMA ThrownListed ==
  ASSUME NEW R \in Seq(Steps)
  PROVE  \/ Thrown(R) = <<Step("end", {}, FALSE)>>
         \/ /\ Listed(Thrown(R))
            /\ Only(R, {"absorb"}) = <<>> => Pending(Thrown(R)) = Only(R, {"restore"})
            /\ Only(R, {"absorb"}) # <<>> => Pending(Thrown(R)) = <<>>
<1> DEFINE ops == IF Only(R, {"absorb"}) = <<>> THEN {"scope", "restore"} ELSE {}
           running == Only(R, {"wait", "forget", "external"})
           x == Step("recover", {}, FALSE)
           a == Only(R, ops)
           b == <<x>>
           c == Only(R, {"correct"})
<1>1. Thrown(R) = IF running # <<>> /\ Last(running).op \in {"forget", "external"}
                  THEN <<Step("end", {}, FALSE)>> ELSE a \o b \o c
  BY DEF Thrown
<1>2. x \in Steps /\ x.op = "recover"
  BY DEF Step, Steps, Ops
<1>3. Listed(a) /\ a \in Seq(Steps)
  <2>1. a \in Seq(Steps) /\ \A i \in DOMAIN a : a[i].op \in ops
    BY OnlyType
  <2> HIDE DEF a
  <2> QED
    BY <2>1, MildListed
<1>4. Plain(c)
  <2>1. c \in Seq(Steps) /\ \A i \in DOMAIN c : c[i].op \in {"correct"}
    BY OnlyType
  <2> HIDE DEF c
  <2>2. Listed(c)
    BY <2>1, MildListed
  <2> QED
    BY <2>1, <2>2 DEF Plain, Lacks, Gates, Of, GateOps
<1>5. Plain(b)
  <2> HIDE DEF x
  <2>1. x \notin Odd
    BY <1>2 DEF Odd
  <2> QED
    BY <1>2, <2>1, OnePlain DEF GateOps
<1>6. /\ Only(R, {"absorb"}) = <<>> => Pending(a) = Only(R, {"restore"})
      /\ Only(R, {"absorb"}) # <<>> => Pending(a) = <<>>
  <2>1. Pending(a) = Among(R, Of(ops) \cap Gates)
    <3> HIDE DEF ops
    <3>1. a = Among(R, Of(ops)) /\ Pending(a) = Among(a, Gates)
      BY OnlyIsAmong, PendingIsAmong, Zenon
    <3>2. Among(Among(R, Of(ops)), Gates) = Among(R, Of(ops) \cap Gates)
      BY AmongTwice
    <3> HIDE DEF a
    <3> QED
      BY <3>1, <3>2, Zenon
  <2>2. ASSUME Only(R, {"absorb"}) = <<>>
        PROVE  Pending(a) = Only(R, {"restore"})
    <3>1. ops = {"scope", "restore"}
      BY <2>2
    <3> HIDE DEF ops, a
    <3>2. Of(ops) \cap Gates = Of({"restore"})
      BY <3>1 DEF Gates, Of, GateOps
    <3> QED
      BY <2>1, <3>2, OnlyIsAmong, Zenon
  <2>3. ASSUME Only(R, {"absorb"}) # <<>>
        PROVE  Pending(a) = <<>>
    <3>1. ops = {}
      BY <2>3
    <3> HIDE DEF ops, a
    <3>2. \A i \in DOMAIN R : R[i] \notin Of(ops) \cap Gates
      BY <3>1 DEF Of
    <3> QED
      BY <2>1, <3>2, AmongNone, Zenon
  <2> QED
    BY <2>2, <2>3
<1> HIDE DEF a, b, c, x
<1>7. Plain(b \o c)
  BY <1>4, <1>5, PlainConcat, Zenon
<1>8. b \in Seq(Steps) /\ c \in Seq(Steps) /\ b \o c \in Seq(Steps)
  BY <1>4, <1>5, <1>7 DEF Plain, Listed
<1>9. a \o b \o c = a \o (b \o c)
  BY <1>3, <1>8
<1> DEFINE d == b \o c
<1> HIDE DEF d
<1>10. d = <<>> \/ d[1].op # "mode"
  <2> SUFFICES ASSUME d # <<>>
               PROVE  d[1].op # "mode"
    OBVIOUS
  <2>1. d \in Seq(Steps) /\ 1 \in DOMAIN d /\ d[1] \in Steps
    BY <1>8 DEF d
  <2> QED
    BY <1>7, <2>1 DEF Plain, Lacks, Gates, Of, GateOps, d
<1>11. Listed(a \o d) /\ Pending(a \o d) = Pending(a)
  <2>1. Plain(d)
    BY <1>7 DEF d
  <2> QED
    BY <1>3, <1>10, <2>1, ListedConcat, PlainBehind DEF Plain
<1>12. a \o b \o c = a \o d
  BY <1>9 DEF d
<1> QED
  BY <1>1, <1>6, <1>11, <1>12, Zenon

(* A list is its first steps followed by the others.                       *)
LEMMA SplitAt ==
  ASSUME NEW T, NEW S \in Seq(T), NEW i \in 1..Len(S)
  PROVE  LET u == SubSeq(S, 1, i)
             v == SubSeq(S, i + 1, Len(S))
         IN  /\ u \in Seq(T) /\ Len(u) = i /\ \A k \in 1..i : u[k] = S[k]
             /\ v \in Seq(T)
             /\ u \o v = S
<1> DEFINE u == SubSeq(S, 1, i)
           v == SubSeq(S, i + 1, Len(S))
           w == u \o v
<1>1. /\ Len(S) \in Nat /\ i \in 1..Len(S)
      /\ u \in Seq(T) /\ Len(u) = i /\ \A k \in 1..i : u[k] = S[k]
      /\ v \in Seq(T) /\ Len(v) = Len(S) - i /\ \A k \in 1..(Len(S) - i) : v[k] = S[i + k]
  OBVIOUS
<1> HIDE DEF u, v
<1>2. /\ w \in Seq(T) /\ Len(w) = Len(S)
      /\ \A k \in 1..i : w[k] = u[k]
      /\ \A k \in (i + 1)..Len(S) : w[k] = v[k - i]
  <2>1. u \in Seq(T) /\ v \in Seq(T) /\ Len(u) = i /\ Len(v) = Len(S) - i /\ Len(S) \in Nat
    BY <1>1
  <2>2. w \in Seq(T) /\ Len(w) = Len(u) + Len(v)
    BY <2>1
  <2>3. \A k \in 1..Len(u) : w[k] = u[k]
    BY <2>1
  <2>4. \A k \in (Len(u) + 1)..(Len(u) + Len(v)) : w[k] = v[k - Len(u)]
    BY <2>1
  <2> HIDE DEF w
  <2> QED
    BY <2>1, <2>2, <2>3, <2>4
<1> HIDE DEF w
<1>3. \A k \in (i + 1)..Len(S) : w[k] = S[k]
  <2> SUFFICES ASSUME NEW k \in (i + 1)..Len(S)
               PROVE  w[k] = S[k]
    OBVIOUS
  <2>1. k - i \in 1..(Len(S) - i) /\ i + (k - i) = k
    BY <1>1
  <2> QED
    BY <1>1, <1>2, <2>1
<1>4. \A k \in 1..Len(S) : w[k] = S[k]
  BY <1>1, <1>2, <1>3
<1>5. w = S
  <2>1. /\ w \in Seq(T) /\ S \in Seq(T) /\ Len(w) = Len(S)
        /\ \A k \in 1..Len(S) : w[k] = S[k]
    BY <1>2, <1>4
  <2> QED
    BY <2>1
<1> QED
  BY <1>1, <1>5 DEF u, v, w

LEMMA AmongNothing ==
  ASSUME NEW T, NEW S \in Seq(T), NEW set, Among(S, set) = <<>>
  PROVE  Lacks(S, set)
<1> SUFFICES ASSUME NEW i \in DOMAIN S, S[i] \in set
             PROVE  FALSE
  BY DEF Lacks
<1> DEFINE w == SubSeq(S, 1, i)
           v == SubSeq(S, i + 1, Len(S))
           u == SubSeq(w, 1, i - 1)
           x == S[i]
<1>1. i \in 1..Len(S) /\ x \in T /\ x \in set
  OBVIOUS
<1>2. /\ w \in Seq(T) /\ Len(w) = i /\ \A k \in 1..i : w[k] = S[k]
      /\ v \in Seq(T) /\ w \o v = S
  BY <1>1, SplitAt
<1> HIDE DEF w, v, x
<1>3. u \in Seq(T) /\ w = Append(u, x)
  BY <1>1, <1>2 DEF x
<1> HIDE DEF u
<1>4. Among(w, set) = Append(Among(u, set), x)
  <2>1. Among(Append(u, x), set) = Append(Among(u, set), x)
    BY <1>1, <1>3, AmongAppend, SMT
  <2> QED
    BY <1>3, <2>1, Zenon
<1>5. Among(u, set) \in Seq(T) /\ Among(v, set) \in Seq(T)
  BY <1>2, <1>3, AmongProperties, Zenon
<1>6. Distributes(w, v, set)
  BY <1>2, AmongConcat, Zenon
<1>7. Append(Among(u, set), x) \o Among(v, set) = <<>>
  BY <1>2, <1>4, <1>6, Zenon DEF Distributes
<1>8. \A a \in Seq(T), b \in Seq(T) : Append(a, x) \o b # <<>>
  <2> SUFFICES ASSUME NEW a \in Seq(T), NEW b \in Seq(T)
               PROVE  Len(Append(a, x) \o b) # 0
    OBVIOUS
  <2> QED
    BY <1>1
<1> QED
  BY <1>5, <1>7, <1>8, Zenon

LEMMA OnlyOfPending ==
  ASSUME NEW S \in Seq(Steps), NEW op \in GateOps
  PROVE  Only(S, {op}) = Among(Pending(S), Of({op}))
<1>1. Gates \cap Of({op}) = Of({op})
  BY DEF Gates, Of
<1>2. Among(Among(S, Gates), Of({op})) = Among(S, Gates \cap Of({op}))
  <2> DEFINE A == Gates
             B == Of({op})
  <2> HIDE DEF A, B
  <2>1. Among(Among(S, A), B) = Among(S, A \cap B)
    BY AmongTwice
  <2> QED
    BY <2>1 DEF A, B
<1> QED
  BY <1>1, <1>2, OnlyIsAmong, PendingIsAmong, Zenon

LEMMA AmongTwo ==
  ASSUME NEW T, NEW x \in T, NEW y \in T, NEW set
  PROVE  Among(<<x, y>>, set) = Among(<<x>>, set) \o Among(<<y>>, set)
<1> DEFINE L == <<x>> \o <<y>>
           R == <<x, y>>
<1>1. <<x>> \in Seq(T) /\ <<y>> \in Seq(T)
  OBVIOUS
<1>2. Distributes(<<x>>, <<y>>, set)
  BY <1>1, AmongConcat, Zenon
<1>3. L = R
  <2>1. L \in Seq(T) /\ Len(L) = 2 /\ L[1] = x /\ L[2] = y
    OBVIOUS
  <2>2. R \in Seq(T) /\ Len(R) = 2 /\ R[1] = x /\ R[2] = y
    OBVIOUS
  <2> HIDE DEF L, R
  <2>3. \A i \in 1..2 : L[i] = R[i]
    BY <2>1, <2>2
  <2> QED
    BY <2>1, <2>2, <2>3
<1> QED
  BY <1>2, <1>3, Zenon DEF Distributes

(* The absorption that is still to come, in the six cases.                 *)
LEMMA PendingOnly ==
  ASSUME NEW S \in Seq(Steps)
  PROVE  /\ Pending(S) = <<>> => Only(S, {"absorb"}) = <<>> /\ Only(S, {"restore"}) = <<>>
         /\ \A b \in BOOLEAN :
              /\ Pending(S) = <<AbsorbStep(b), ModeStep(b)>> => Only(S, {"absorb"}) # <<>>
              /\ Pending(S) = <<ModeStep(b)>> =>
                   Only(S, {"absorb"}) = <<>> /\ Only(S, {"mode"}) # <<>>
         /\ Pending(S) = <<AbsorbStep(TRUE)>> => Only(S, {"absorb"}) # <<>>
         /\ Pending(S) = <<AbsorbStep(TRUE), RestoreStep>> => Only(S, {"absorb"}) # <<>>
         /\ Pending(S) = <<RestoreStep>> =>
              Only(S, {"absorb"}) = <<>> /\ Only(S, {"restore"}) = <<RestoreStep>>
<1> DEFINE A == Of({"absorb"})
           M == Of({"mode"})
           R == Of({"restore"})
<1>1. /\ Only(S, {"absorb"}) = Among(Pending(S), A)
      /\ Only(S, {"mode"}) = Among(Pending(S), M)
      /\ Only(S, {"restore"}) = Among(Pending(S), R)
  BY OnlyOfPending DEF GateOps
<1>2. \A b \in BOOLEAN : /\ AbsorbStep(b) \in Steps /\ ModeStep(b) \in Steps
                         /\ AbsorbStep(b) \in A
                         /\ ModeStep(b) \in M /\ ModeStep(b) \notin A
  BY GateSteps DEF Of
<1>3. RestoreStep \in Steps /\ RestoreStep \in R /\ RestoreStep \notin A
  BY GateSteps DEF Of
<1> HIDE DEF A, M, R
<1>4. \A x \in Steps, set \in {A, M, R} :
        /\ x \in set => Among(<<x>>, set) = <<x>>
        /\ x \notin set => Among(<<x>>, set) = <<>>
  BY AmongOne, Zenon
<1>5. \A x, y \in Steps : x \in A => Among(<<x, y>>, A) # <<>>
  <2> SUFFICES ASSUME NEW x \in Steps, NEW y \in Steps, x \in A
               PROVE  Among(<<x, y>>, A) # <<>>
    OBVIOUS
  <2>1. Among(<<x, y>>, A) = Among(<<x>>, A) \o Among(<<y>>, A)
    BY AmongTwo, Zenon
  <2>2. Among(<<x>>, A) = <<x>>
    BY <1>4
  <2>3. <<y>> \in Seq(Steps)
    OBVIOUS
  <2>4. Among(<<y>>, A) \in Seq(Steps)
    BY <2>3, AmongProperties, Zenon
  <2>5. \A q \in Seq(Steps) : <<x>> \o q # <<>>
    OBVIOUS
  <2> QED
    BY <2>1, <2>2, <2>4, <2>5, Zenon
<1>6. \A x : <<x>> # <<>>
  OBVIOUS
<1>7. \A set : Among(<<>>, set) = <<>>
  BY AmongEmpty, Zenon
<1>8. TRUE \in BOOLEAN
  OBVIOUS
<1>9. A \in {A, M, R} /\ M \in {A, M, R} /\ R \in {A, M, R}
  OBVIOUS
<1>10. ASSUME Pending(S) = <<>>
       PROVE  Only(S, {"absorb"}) = <<>> /\ Only(S, {"restore"}) = <<>>
  BY <1>1, <1>7, <1>10, Zenon
<1>11. ASSUME NEW b \in BOOLEAN
       PROVE  /\ Pending(S) = <<AbsorbStep(b), ModeStep(b)>> => Only(S, {"absorb"}) # <<>>
              /\ Pending(S) = <<ModeStep(b)>> =>
                   Only(S, {"absorb"}) = <<>> /\ Only(S, {"mode"}) # <<>>
  <2>1. /\ AbsorbStep(b) \in Steps /\ ModeStep(b) \in Steps /\ AbsorbStep(b) \in A
        /\ ModeStep(b) \in M /\ ModeStep(b) \notin A
    BY <1>2
  <2>2. Among(<<AbsorbStep(b), ModeStep(b)>>, A) # <<>>
    BY <1>5, <2>1, Zenon
  <2>3. Among(<<ModeStep(b)>>, A) = <<>> /\ Among(<<ModeStep(b)>>, M) = <<ModeStep(b)>>
    BY <1>4, <1>9, <2>1, Zenon
  <2> QED
    BY <1>1, <1>6, <2>2, <2>3, Zenon
<1>12. ASSUME Pending(S) = <<AbsorbStep(TRUE)>>
       PROVE  Only(S, {"absorb"}) # <<>>
  <2>1. Among(<<AbsorbStep(TRUE)>>, A) = <<AbsorbStep(TRUE)>>
    BY <1>2, <1>4, <1>8, <1>9, Zenon
  <2> QED
    BY <1>1, <1>6, <1>12, <2>1, Zenon
<1>13. ASSUME Pending(S) = <<AbsorbStep(TRUE), RestoreStep>>
       PROVE  Only(S, {"absorb"}) # <<>>
  <2>1. Among(<<AbsorbStep(TRUE), RestoreStep>>, A) # <<>>
    BY <1>2, <1>3, <1>5, <1>8, Zenon
  <2> QED
    BY <1>1, <1>13, <2>1, Zenon
<1>14. ASSUME Pending(S) = <<RestoreStep>>
       PROVE  Only(S, {"absorb"}) = <<>> /\ Only(S, {"restore"}) = <<RestoreStep>>
  <2>1. Among(<<RestoreStep>>, A) = <<>> /\ Among(<<RestoreStep>>, R) = <<RestoreStep>>
    BY <1>3, <1>4, <1>9, Zenon
  <2> QED
    BY <1>1, <1>14, <2>1, Zenon
<1> QED
  BY <1>10, <1>11, <1>12, <1>13, <1>14

(* The mode is not set without the absorption: an exception comes before   *)
(* both of them or after both.                                             *)
LEMMA ModeIsPaired ==
  ASSUME NEW S, Listed(S), S # <<>>, Head(S) \notin Gates, Only(S, {"absorb"}) = <<>>
  PROVE  Only(S, {"mode"}) = <<>>
<1>0. S \in Seq(Steps) /\ Head(S) = S[1] /\ DOMAIN S = 1..Len(S) /\ Len(S) \in Nat
  BY DEF Listed
<1>1. Lacks(S, Of({"absorb"}))
  BY <1>0, AmongNothing, OnlyIsAmong, Zenon
<1>2. \A i \in DOMAIN S : S[i] \in Steps
  BY <1>0
<1>3. ASSUME NEW i \in DOMAIN S
      PROVE  S[i] \notin Of({"mode"})
  <2> SUFFICES ASSUME S[i].op = "mode"
               PROVE  FALSE
    BY DEF Of
  <2>1. i # 1
    BY <1>0, <1>2 DEF Gates, Of, GateOps
  <2>2. i > 1 /\ i - 1 \in DOMAIN S
    BY <1>0, <2>1
  <2>3. S[i - 1].op = "absorb"
    BY <2>2 DEF Listed, Paired
  <2> QED
    BY <1>1, <1>2, <2>2, <2>3 DEF Lacks, Of
<1>4. Among(S, Of({"mode"})) = <<>>
  BY <1>0, <1>3, AmongNone, Zenon
<1> QED
  BY <1>4, OnlyIsAmong, Zenon

LEMMA ThrownSettles ==
  ASSUME NEW S, Listed(S), S # <<>>, Head(S) \notin Gates,
         NEW a, NEW m, Settles(S, a, m)
  PROVE  \/ Thrown(S) = <<Step("end", {}, FALSE)>>
         \/ Listed(Thrown(S)) /\ Settles(Thrown(S), a, m)
<1> DEFINE ab == Only(S, {"absorb"})
           re == Only(S, {"restore"})
<1>1. S \in Seq(Steps)
  BY DEF Listed
<1> SUFFICES ASSUME Thrown(S) # <<Step("end", {}, FALSE)>>
             PROVE  Listed(Thrown(S)) /\ Settles(Thrown(S), a, m)
  OBVIOUS
<1>2. /\ Listed(Thrown(S))
      /\ ab = <<>> => Pending(Thrown(S)) = re
      /\ ab # <<>> => Pending(Thrown(S)) = <<>>
  BY <1>1, ThrownListed, Zenon
<1>3. Settles(Thrown(S), a, m)
  <2>1. CASE Pending(S) = <<>> /\ Agrees(a, m)
    BY <1>1, <1>2, <2>1, PendingOnly, Zenon DEF Settles
  <2>2. ASSUME NEW b \in BOOLEAN, Pending(S) = <<AbsorbStep(b), ModeStep(b)>> /\ Agrees(a, m)
        PROVE  Settles(Thrown(S), a, m)
    BY <1>1, <1>2, <2>2, PendingOnly, Zenon DEF Settles
  <2>3. ASSUME NEW b \in BOOLEAN, Pending(S) = <<ModeStep(b)>> /\ a = b
        PROVE  FALSE
    <3>1. ab = <<>> /\ Only(S, {"mode"}) # <<>>
      BY <1>1, <2>3, PendingOnly, Zenon
    <3> QED
      BY <3>1, ModeIsPaired
  <2>4. CASE Pending(S) = <<AbsorbStep(TRUE)>> /\ Agrees(a, m) /\ a
    BY <1>1, <1>2, <2>4, PendingOnly, Zenon DEF Settles
  <2>5. CASE Pending(S) = <<AbsorbStep(TRUE), RestoreStep>> /\ Agrees(a, m) /\ ~a
    BY <1>1, <1>2, <2>5, PendingOnly, Zenon DEF Settles
  <2>6. CASE Pending(S) = <<RestoreStep>> /\ a /\ m = "insert"
    BY <1>1, <1>2, <2>6, PendingOnly, Zenon DEF Settles
  <2> QED
    BY <2>1, <2>2, <2>3, <2>4, <2>5, <2>6 DEF Settles
<1> QED
  BY <1>2, <1>3

(* A failure that is caught: what is left out does not concern the         *)
(* absorption.                                                             *)
LEMMA CaughtListed ==
  ASSUME NEW R, Listed(R), Reaches(R, Closing, Gates)
  PROVE  Listed(Caught(R)) /\ Pending(Caught(R)) = Pending(R)
<1> DEFINE IsFirst(i) == R[i].op = "close_all" /\ \A j \in 1..(i - 1) : R[j].op # "close_all"
           i == CHOOSE i \in DOMAIN R : IsFirst(i)
<1>0. R \in Seq(Steps) /\ DOMAIN R = 1..Len(R) /\ Len(R) \in Nat
  BY DEF Listed
<1>1. PICK j \in 1..Len(R) : R[j].op = "close_all" /\ \A k \in 1..j : R[k] \notin Gates
  BY <1>0 DEF Reaches, Closing, Of
<1>2. i \in 1..Len(R) /\ R[i].op = "close_all" /\ i <= j
  <2> DEFINE T == {n \in 1..Len(R) : R[n].op = "close_all"}
  <2>1. T \in SUBSET Nat /\ j \in T /\ T # {}
    BY <1>1
  <2>2. PICK m \in T : \A n \in T : ~(n < m)
    <3> HIDE DEF T
    <3> QED
      BY <2>1, LeastElement
  <2>3. m \in DOMAIN R /\ IsFirst(m)
    BY <1>0, <2>2
  <2>4. i \in DOMAIN R /\ IsFirst(i)
    BY <2>3
  <2> HIDE DEF i
  <2>5. i <= j
    BY <1>0, <1>1, <2>4
  <2> QED
    BY <1>0, <2>4, <2>5
<1>3. Caught(R) = SubSeq(R, i + 1, Len(R))
  BY DEF Caught
<1> HIDE DEF i
<1>4. Listed(Caught(R))
  BY <1>0, <1>2, <1>3, ListedRemains
<1> DEFINE u == SubSeq(R, 1, i)
           v == SubSeq(R, i + 1, Len(R))
<1>5. /\ u \in Seq(Steps) /\ Len(u) = i /\ \A k \in 1..i : u[k] = R[k]
      /\ v \in Seq(Steps)
  BY <1>0, <1>2, SplitAt
<1>6. u \o v = R
  BY <1>0, <1>2, SplitAt
<1> HIDE DEF u, v
<1>7. Lacks(u, Gates)
  BY <1>0, <1>1, <1>2, <1>5 DEF Lacks
<1>8. Pending(u) = <<>>
  BY <1>5, <1>7, PendingNone, Zenon
<1>9. Pending(R) = <<>> \o Pending(v)
  BY <1>5, <1>6, <1>8, PendingConcat, Zenon
<1>10. <<>> \o Pending(v) = Pending(v)
  BY <1>5, PendingType
<1> QED
  BY <1>3, <1>4, <1>9, <1>10 DEF v

-----------------------------------------------------------------------------
(* The inductive invariant.                                                *)

HookOps == {"decide", "open", "close", "send", "virtual"}
LastLists == {<<Step("end", {}, FALSE)>>, <<Step("ended", {}, FALSE)>>}

(* The hook decides about a key or maps it, and does not do both.          *)
HookList(S) ==
  \A i \in DOMAIN S : S[i].op \in HookOps /\ (S[i].op = "decide" => Len(S) = 1)

Lists ==
  /\ todo \in [Threads -> Seq(Steps)]
  /\ \A t \in Threads : Listed(todo[t])
  /\ HookList(todo["hook"])

Settled == todo["system"] \in LastLists \/ Settles(todo["system"], absorb, mode)

(* An open port is closed again by one of the threads before it waits.     *)
PortsWillClose ==
  ~fails =>
    \A p \in (Keys \ LeftOpen) \cap port :
      \E t \in Threads : Reaches(todo[t], Shutting(p), Barriers)

IInv == TypeOK /\ Lists /\ Settled /\ PortsWillClose

LEMMA TheThreads == Threads = {"hook", "system"} /\ "hook" # "system"
  BY DEF Threads

LEMMA FirstStep ==
  ASSUME Lists, NEW t \in Threads, ~Idle(t)
  PROVE  /\ todo[t] \in Seq(Steps) /\ todo[t] # <<>> /\ First(t) = Head(todo[t])
         /\ First(t) \in Steps /\ First(t) \notin Odd
         /\ First(t) = todo[t][1] /\ DOMAIN todo[t] = 1..Len(todo[t])
         /\ Len(todo[t]) \in Nat \ {0}
         /\ t = "hook" => First(t).op \in HookOps
<1> DEFINE S == todo[t]
<1>1. S \in Seq(Steps) /\ S # <<>> /\ Listed(S) /\ (t = "hook" => HookList(S))
  BY DEF Lists, Idle
<1>2. First(t) = Head(S)
  BY DEF First
<1> HIDE DEF S
<1>3. Head(S) \in Steps /\ Head(S) = S[1] /\ 1 \in DOMAIN S /\ DOMAIN S = 1..Len(S)
      /\ Len(S) \in Nat \ {0}
  BY <1>1
<1>4. Head(S) \notin Odd
  BY <1>1, <1>3 DEF Listed, Lacks
<1>5. t = "hook" => Head(S).op \in HookOps
  BY <1>1, <1>3 DEF HookList
<1> QED
  BY <1>1, <1>2, <1>3, <1>4, <1>5 DEF S

(* A thread is done with its first step, or replaces it.                   *)
LEMMA Continues ==
  ASSUME Lists, PortsWillClose, NEW t \in Threads, ~Idle(t), NEW Q, Replaces(First(t), Q),
         Continue(t, Q), t = "hook" => Q = <<>>, UNCHANGED fails,
         \A p \in Keys \cap port' : \/ First(t) \in Opening(p)
                                    \/ p \in port /\ First(t) \notin Shutting(p)
  PROVE  /\ Lists' /\ PortsWillClose'
         /\ todo'[t] = Q \o Tail(todo[t]) /\ \A u \in Threads \ {t} : todo'[u] = todo[u]
<1>1. /\ todo[t] \in Seq(Steps) /\ todo[t] # <<>> /\ First(t) = Head(todo[t])
      /\ Listed(todo[t])
  BY FirstStep DEF Lists
<1>2. /\ todo'[t] = Q \o Tail(todo[t]) /\ \A u \in Threads \ {t} : todo'[u] = todo[u]
      /\ todo' = [todo EXCEPT ![t] = Q \o Tail(todo[t])]
  BY DEF Continue, Lists
<1>3. Listed(Q \o Tail(todo[t]))
  BY <1>1, Replaced
<1>4. todo' \in [Threads -> Seq(Steps)]
  BY <1>2, <1>3 DEF Lists, Listed
<1>5. \A u \in Threads : Listed(todo'[u])
  BY <1>2, <1>3 DEF Lists
<1>6. HookList(todo'["hook"])
  <2>1. CASE t # "hook"
    BY <1>2, <2>1, TheThreads DEF Lists
  <2>2. CASE t = "hook"
    <3> DEFINE S == todo[t]
               R == todo'[t]
    <3>0. HookList(S)
      BY <2>2 DEF Lists
    <3>1. R = <<>> \o Tail(S)
      BY <1>2, <2>2
    <3>2. S \in Seq(Steps) /\ S # <<>>
      BY <1>1
    <3> HIDE DEF S, R
    <3>3. R = Tail(S)
      BY <3>1, <3>2
    <3>4. /\ Len(S) \in Nat \ {0} /\ DOMAIN S = 1..Len(S)
          /\ Len(R) = Len(S) - 1 /\ DOMAIN R = 1..(Len(S) - 1)
          /\ \A i \in 1..(Len(S) - 1) : R[i] = S[i + 1]
      BY <3>2, <3>3, TailRemains
    <3>5. ASSUME NEW i \in DOMAIN R
          PROVE  R[i].op \in HookOps /\ R[i].op # "decide"
      <4>1. i + 1 \in DOMAIN S /\ R[i] = S[i + 1] /\ Len(S) # 1
        BY <3>4
      <4> QED
        BY <3>0, <4>1 DEF HookList
    <3> QED
      BY <2>2, <3>5 DEF HookList, R
  <2> QED
    BY <2>1, <2>2
<1>7. PortsWillClose'
  <2> SUFFICES ASSUME ~fails, NEW p \in Keys \ LeftOpen, p \in port'
               PROVE  \E u \in Threads : Reaches(todo'[u], Shutting(p), Barriers)
    BY DEF PortsWillClose
  <2>1. CASE \/ First(t) \in Opening(p)
             \/ Reaches(todo[t], Shutting(p), Barriers) /\ First(t) \notin Shutting(p)
    <3>1. Reaches(Q \o Tail(todo[t]), Shutting(p), Barriers)
      BY <1>1, <2>1, PortStaysClosable
    <3> QED
      BY <1>2, <3>1
  <2>2. CASE /\ First(t) \notin Opening(p)
             /\ ~Reaches(todo[t], Shutting(p), Barriers)
    <3>1. p \in port
      BY <2>2
    <3>2. PICK u \in Threads : Reaches(todo[u], Shutting(p), Barriers)
      BY <3>1 DEF PortsWillClose
    <3>3. u # t
      BY <2>2, <3>2
    <3> QED
      BY <1>2, <3>2, <3>3
  <2> QED
    BY <2>1, <2>2
<1> QED
  BY <1>2, <1>4, <1>5, <1>6, <1>7 DEF Lists

(* A step that does not concern the absorption.                            *)
LEMMA StaysSettled ==
  ASSUME Lists, Settled, NEW t \in Threads, ~Idle(t), NEW Q, Replaces(First(t), Q),
         First(t) \notin Gates, First(t).op \notin {"end", "ended"},
         todo'[t] = Q \o Tail(todo[t]), \A u \in Threads \ {t} : todo'[u] = todo[u],
         UNCHANGED <<absorb, mode>>
  PROVE  Settled'
<1>1. CASE t = "hook"
  <2>1. todo'["system"] = todo["system"]
    BY <1>1, TheThreads
  <2> QED
    BY <2>1 DEF Settled, LastLists
<1>2. CASE t = "system"
  <2> DEFINE S == todo["system"]
  <2>1. S \in Seq(Steps) /\ S # <<>> /\ First("system") = Head(S) /\ Head(S) = S[1]
    BY <1>2, FirstStep
  <2>2. S \notin LastLists
    BY <1>2, <2>1 DEF LastLists, Step
  <2>3. Settles(S, absorb, mode)
    BY <2>2 DEF Settled
  <2> HIDE DEF S
  <2>4. Pending(Q \o Tail(S)) = Pending(S)
    BY <1>2, <2>1, PendingReplaced
  <2>5. Settles(Q \o Tail(S), absorb, mode)
    BY <2>3, <2>4, Zenon DEF Settles
  <2>6. todo'["system"] = Q \o Tail(S)
    BY <1>2 DEF S
  <2> QED
    BY <2>5, <2>6 DEF Settled
<1> QED
  BY <1>1, <1>2, TheThreads

(* A port that is open while a thread waits, or has nothing to do, is      *)
(* closed by the other one.                                                *)
LEMMA Stopped ==
  ASSUME NEW S \in Seq(Steps), S = <<>> \/ Head(S) \in Barriers, NEW shuts
  PROVE  ~Reaches(S, shuts, Barriers)
<1>1. CASE S = <<>>
  <2>1. DOMAIN S = {}
    BY <1>1
  <2> QED
    BY <2>1 DEF Reaches
<1>2. CASE S # <<>>
  BY <1>2, ReachesTail
<1> QED
  BY <1>1, <1>2

(* The system thread turns to another list.                                *)
LEMMA Starts ==
  ASSUME Lists, PortsWillClose, NEW L, Listed(L),
         todo' = [todo EXCEPT !["system"] = L], UNCHANGED <<port, fails>>,
         \/ fails
         \/ Idle("system")
         \/ First("system") \in Barriers
  PROVE  Lists' /\ PortsWillClose' /\ todo'["system"] = L
<1>1. todo'["system"] = L /\ todo'["hook"] = todo["hook"]
  BY TheThreads DEF Lists
<1>2. Lists'
  <2>1. todo' \in [Threads -> Seq(Steps)]
    BY DEF Lists, Listed
  <2>2. \A t \in Threads : Listed(todo'[t])
    BY <1>1, TheThreads DEF Lists
  <2>3. HookList(todo'["hook"])
    BY <1>1 DEF Lists
  <2> QED
    BY <2>1, <2>2, <2>3 DEF Lists
<1>3. PortsWillClose'
  <2> SUFFICES ASSUME ~fails, NEW p \in Keys \ LeftOpen, p \in port
               PROVE  \E u \in Threads : Reaches(todo'[u], Shutting(p), Barriers)
    BY DEF PortsWillClose
  <2>1. PICK u \in Threads : Reaches(todo[u], Shutting(p), Barriers)
    BY DEF PortsWillClose
  <2>2. u # "system"
    <3>1. todo["system"] \in Seq(Steps)
      BY TheThreads DEF Lists
    <3>2. todo["system"] = <<>> \/ Head(todo["system"]) \in Barriers
      BY DEF Idle, First
    <3> QED
      BY <2>1, <3>1, <3>2, Stopped
  <2> QED
    BY <1>1, <2>1, <2>2, TheThreads
<1> QED
  BY <1>1, <1>2, <1>3

(* The hook, which has nothing to do, gets a list.                         *)
LEMMA HookStarts ==
  ASSUME Lists, PortsWillClose, Idle("hook"), NEW L, Listed(L), HookList(L),
         todo' = [todo EXCEPT !["hook"] = L], UNCHANGED <<port, fails>>
  PROVE  Lists' /\ PortsWillClose' /\ todo'["system"] = todo["system"]
<1>1. todo'["hook"] = L /\ todo'["system"] = todo["system"]
  BY TheThreads DEF Lists
<1>2. Lists'
  <2>1. todo' \in [Threads -> Seq(Steps)]
    BY DEF Lists, Listed
  <2>2. \A t \in Threads : Listed(todo'[t])
    BY <1>1, TheThreads DEF Lists
  <2>3. HookList(todo'["hook"])
    BY <1>1
  <2> QED
    BY <2>1, <2>2, <2>3 DEF Lists
<1>3. PortsWillClose'
  <2> SUFFICES ASSUME ~fails, NEW p \in Keys \ LeftOpen, p \in port
               PROVE  \E u \in Threads : Reaches(todo'[u], Shutting(p), Barriers)
    BY DEF PortsWillClose
  <2>1. PICK u \in Threads : Reaches(todo[u], Shutting(p), Barriers)
    BY DEF PortsWillClose
  <2>2. u # "hook"
    <3>1. todo["hook"] \in Seq(Steps) /\ todo["hook"] = <<>>
      BY TheThreads DEF Lists, Idle
    <3> QED
      BY <2>1, <3>1, Stopped
  <2> QED
    BY <1>1, <2>1, <2>2, TheThreads
<1> QED
  BY <1>1, <1>2, <1>3

LEMMA NothingListed == Plain(<<>>) /\ Pending(<<>>) = <<>> /\ HookList(<<>>)
<1>1. Plain(<<>>) /\ Pending(<<>>) = <<>>
  BY NothingHarmless, HarmlessPlain, PlainPending
<1>2. DOMAIN <<>> = {}
  OBVIOUS
<1> QED
  BY <1>1, <1>2 DEF HookList

LEMMA InvInit == Init => IInv
<1> SUFFICES ASSUME Init
             PROVE  IInv
  OBVIOUS
<1> USE DEF Init
<1>1. todo \in [Threads -> Seq(Steps)] /\ \A t \in Threads : todo[t] = <<>>
  OBVIOUS
<1>2. TypeOK
  BY <1>1, GateAssumption DEF TypeOK, Modes
<1>3. Lists
  BY <1>1, NothingListed, TheThreads DEF Lists, Plain
<1>4. Settled
  <2>1. todo["system"] = <<>> /\ Agrees(absorb, mode)
    BY <1>1, TheThreads DEF Agrees
  <2> QED
    BY <2>1, NothingListed DEF Settled, Settles
<1>5. PortsWillClose
  BY DEF PortsWillClose
<1> QED
  BY <1>2, <1>3, <1>4, <1>5 DEF IInv

(* When the system thread has nothing to do, the keyboard is absorbed as   *)
(* the mode wants it.                                                      *)
LEMMA IdleAgrees ==
  ASSUME Settled, Idle("system")
  PROVE  Agrees(absorb, mode)
<1>1. todo["system"] = <<>> /\ Pending(<<>>) = <<>>
  BY NothingListed DEF Idle
<1>2. \A x : <<x>> # <<>>
  OBVIOUS
<1>3. \A x, y : <<x, y>> # <<>>
  OBVIOUS
<1>4. <<>> \notin LastLists
  BY <1>2 DEF LastLists
<1>5. Settles(<<>>, absorb, mode)
  BY <1>1, <1>4 DEF Settled
<1> QED
  BY <1>1, <1>2, <1>3, <1>5, Zenon DEF Settles

-----------------------------------------------------------------------------
(* The keyboard.                                                           *)

LEMMA KeysOfUser ==
  ASSUME TypeOK, NEW k \in physical
  PROVE  k \in Keys /\ Named(k) \subseteq Keys
  BY GateAssumption DEF TypeOK, Named

LEMMA MapSyncStateHook ==
  ASSUME NEW target \in SUBSET Keys, NEW down \in BOOLEAN
  PROVE  HookList(MapSyncState(target, down))
<1> DEFINE o == Open(target)
           d == Send(target, down)
           v == Virtual(target, down)
           c == Close(target)
           M == <<o, d, v, c>>
<1>1. /\ o \in Steps /\ o.op = "open"
      /\ d \in Steps /\ d.op = "send"
      /\ v \in Steps /\ v.op = "virtual"
      /\ c \in Steps /\ c.op = "close"
  BY NamedSteps
<1>2. MapSyncState(target, down) = IF target = {} THEN <<>> ELSE <<o>> \o <<d, v>> \o <<c>>
  BY Zenon DEF MapSyncState, KeyState
<1> HIDE DEF o, d, v, c
<1>3. <<o>> \o <<d, v>> \o <<c>> = M
  <2>1. o \in Steps /\ d \in Steps /\ v \in Steps /\ c \in Steps
    BY <1>1
  <2> QED
    BY <2>1, FourSteps
<1>4. \A i \in DOMAIN M : M[i] \in {o, d, v, c}
  BY <1>1
<1> HIDE DEF M
<1>5. HookList(M)
  BY <1>1, <1>4 DEF HookList, HookOps
<1> QED
  BY <1>2, <1>3, <1>5, NothingListed

LEMMA KeyMessageKeeps ==
  ASSUME IInv, NEW k \in physical, NEW down \in BOOLEAN, KeyMessage(k, down)
  PROVE  IInv'
<1> DEFINE L == IF Target(mode, k) # {} THEN MapSyncState(Target(mode, k), down)
                ELSE <<Step("decide", {k}, down)>>
<1>1. k \in Keys /\ Named(k) \subseteq Keys /\ mode \in Modes
  BY KeysOfUser DEF IInv, TypeOK
<1>2. Listed(L) /\ HookList(L)
  <2>1. CASE Target(mode, k) # {}
    <3>1. Target(mode, k) \in SUBSET Keys
      BY <1>1, TargetType
    <3> QED
      BY <2>1, <3>1, MapSyncStateHarmless, MapSyncStateHook, HarmlessPlain DEF Plain
  <2>2. CASE Target(mode, k) = {}
    <3> DEFINE x == Step("decide", {k}, down)
               S == <<x>>
    <3>1. "decide" \in QuietOps /\ "decide" \in Ops /\ "decide" \in HookOps
      BY DEF QuietOps, Ops, GateOps, HookOps
    <3>2. x \in Steps /\ x.op = "decide"
      BY <1>1, <3>1, StepType
    <3> HIDE DEF x
    <3>3. Len(S) = 1 /\ \A i \in DOMAIN S : S[i] = x
      BY <3>2
    <3>4. Harmless(S)
      BY <3>1, <3>2, OneQuiet
    <3> HIDE DEF S
    <3>5. Listed(S) /\ HookList(S)
      BY <3>1, <3>2, <3>3, <3>4, HarmlessPlain DEF HookList, Plain
    <3> QED
      BY <2>2, <3>5 DEF S, x
  <2> QED
    BY <2>1, <2>2
<1>3. /\ todo' = [todo EXCEPT !["hook"] = L] /\ Idle("hook")
      /\ UNCHANGED <<port, fails, absorb, mode>>
  BY DEF KeyMessage, gates
<1> HIDE DEF L
<1>4. Lists' /\ PortsWillClose' /\ todo'["system"] = todo["system"]
  BY <1>2, <1>3, HookStarts DEF IInv
<1>5. Settled'
  BY <1>3, <1>4 DEF IInv, Settled, LastLists
<1>6. TypeOK'
  <2>1. held' \subseteq physical /\ low' \subseteq Toggles
    BY DEF KeyMessage, IInv, TypeOK, Put
  <2>2. real' \in SUBSET Keys /\ state' \in SUBSET Keys
    BY <1>1 DEF KeyMessage, IInv, TypeOK, Put
  <2>3. app' = app /\ port' = port /\ absorb' = absorb /\ fails' = fails /\ mode' = mode
        /\ physical' = physical
    BY DEF KeyMessage, gates
  <2>4. todo' \in [Threads -> Seq(Steps)]
    BY <1>4 DEF Lists
  <2> QED
    BY <2>1, <2>2, <2>3, <2>4 DEF IInv, TypeOK
<1> QED
  BY <1>4, <1>5, <1>6 DEF IInv

LEMMA ListsUnchanged ==
  ASSUME IInv, UNCHANGED <<gates, todo>>
  PROVE  Lists' /\ Settled' /\ PortsWillClose'
  BY DEF IInv, Lists, Settled, LastLists, PortsWillClose, gates

LEMMA UnhookedKeyKeeps ==
  ASSUME IInv, NEW k \in physical, NEW down \in BOOLEAN, UnhookedKey(k, down)
  PROVE  IInv'
<1>1. k \in Keys
  BY KeysOfUser DEF IInv
<1>2. TypeOK'
  BY <1>1 DEF UnhookedKey, IInv, TypeOK, Put, gates, states
<1>3. UNCHANGED <<gates, todo>>
  BY DEF UnhookedKey
<1> QED
  BY <1>2, <1>3, ListsUnchanged DEF IInv

LEMMA ToggleComesUpKeeps ==
  ASSUME IInv, ToggleComesUp
  PROVE  IInv'
<1>1. TypeOK'
  BY DEF ToggleComesUp, IInv, TypeOK, gates, states
<1>2. UNCHANGED <<gates, todo>>
  BY DEF ToggleComesUp
<1> QED
  BY <1>1, <1>2, ListsUnchanged DEF IInv

LEMMA StutteringKeeps ==
  ASSUME IInv, UNCHANGED vars
  PROVE  IInv'
<1>1. TypeOK'
  BY DEF IInv, TypeOK, vars, gates, states
<1>2. UNCHANGED <<gates, todo>>
  BY DEF vars
<1> QED
  BY <1>1, <1>2, ListsUnchanged DEF IInv

-----------------------------------------------------------------------------
(* The functions.                                                          *)

LEMMA ExecuteKeeps ==
  ASSUME IInv, NEW L, Execute(L), Listed(L), L \in LastLists \/ Settles(L, absorb, mode)
  PROVE  IInv'
<1>1. /\ Idle("system") /\ todo' = [todo EXCEPT !["system"] = L]
      /\ UNCHANGED <<port, fails, absorb, mode>>
  BY DEF Execute, gates
<1>2. Lists' /\ PortsWillClose' /\ todo'["system"] = L
  BY <1>1, Starts DEF IInv
<1>3. Settled'
  BY <1>1, <1>2 DEF Settled, LastLists
<1>4. TypeOK'
  <2>1. todo' \in [Threads -> Seq(Steps)]
    BY <1>2 DEF Lists
  <2> QED
    BY <2>1 DEF Execute, IInv, TypeOK, gates, states
<1> QED
  BY <1>2, <1>3, <1>4 DEF IInv

LEMMA ToNormalKeeps ==
  ASSUME IInv, ToNormal
  PROVE  IInv'
<1> DEFINE g == <<Step("absorb", {}, TRUE), Step("mode", {}, TRUE)>>
           S == CloseAllWithRefresh \o g
<1>1. PICK L \in Corrected("normal", S) : Execute(L)
  BY DEF ToNormal
<1>2. g = <<AbsorbStep(TRUE), ModeStep(TRUE)>>
  BY DEF AbsorbStep, ModeStep
<1>3. Listed(S) /\ Pending(S) = <<AbsorbStep(TRUE), ModeStep(TRUE)>>
  <2> HIDE DEF g
  <2> QED
    BY <1>2, CloseAllWithRefreshHarmless, ModesListed
<1> HIDE DEF S
<1>4. Listed(L) /\ Pending(L) = Pending(S)
  BY <1>3, CorrectedListed
<1>5. Agrees(absorb, mode)
  BY <1>1, IdleAgrees DEF IInv, Execute
<1>6. Settles(L, absorb, mode)
  BY <1>3, <1>4, <1>5 DEF Settles
<1> QED
  BY <1>1, <1>4, <1>6, ExecuteKeeps

LEMMA ToInsertKeeps ==
  ASSUME IInv, ToInsert
  PROVE  IInv'
<1> DEFINE c == CloseAll
           a == AbsorbStep(FALSE)
           m == ModeStep(FALSE)
           S == <<c, a, m>>
<1>1. PICK L \in Corrected("insert", S) : Execute(L)
  BY DEF ToInsert, AbsorbStep, ModeStep
<1>2. c \in Steps /\ c.op = "close_all" /\ a \in Steps /\ m \in Steps
  BY GateSteps DEF CloseAll, Step, Steps, Ops
<1>3. Harmless(<<c>>)
  <2> HIDE DEF c
  <2> QED
    BY <1>2, OneQuiet DEF QuietOps, Ops, GateOps
<1>4. <<c>> \o <<a, m>> = S
  <2> HIDE DEF c, a, m
  <2> QED
    BY <1>2, OneAndTwoSteps
<1>5. Listed(S) /\ Pending(S) = <<AbsorbStep(FALSE), ModeStep(FALSE)>>
  BY <1>3, <1>4, ModesListed
<1> HIDE DEF S
<1>6. Listed(L) /\ Pending(L) = Pending(S)
  BY <1>5, CorrectedListed
<1>7. Agrees(absorb, mode)
  BY <1>1, IdleAgrees DEF IInv, Execute
<1>8. Settles(L, absorb, mode)
  BY <1>5, <1>6, <1>7 DEF Settles
<1> QED
  BY <1>1, <1>6, <1>8, ExecuteKeeps

LEMMA PushUpKeeps ==
  ASSUME IInv, NEW caller \in {"stroke", "external"}, NEW keys \in Strokes,
         NEW L \in Corrected(caller, PushUp(caller, keys, state)), Execute(L)
  PROVE  IInv'
<1> DEFINE S == PushUp(caller, keys, state)
<1>1. L \in Corrected(caller, S)
  OBVIOUS
<1>2. Closable(keys) /\ keys \in SUBSET Keys /\ state \in SUBSET Keys
  BY GateAssumption DEF Closable, LeftOpen, IInv, TypeOK
<1>3. Plain(S)
  BY <1>2, PushUpHarmless, HarmlessPlain
<1> HIDE DEF S
<1>4. Listed(L) /\ Pending(L) = <<>>
  BY <1>1, <1>3, CorrectedListed, PlainPending DEF Plain
<1>5. Agrees(absorb, mode)
  BY IdleAgrees DEF IInv, Execute
<1>6. Settles(L, absorb, mode)
  BY <1>4, <1>5 DEF Settles
<1> QED
  BY <1>4, <1>6, ExecuteKeeps

LEMMA StrokeKeeps ==
  ASSUME IInv, NEW keys \in Strokes, Stroke(keys) \/ SendExternal(keys)
  PROVE  IInv'
<1>1. CASE Stroke(keys)
  BY <1>1, PushUpKeeps DEF Stroke
<1>2. CASE SendExternal(keys)
  BY <1>2, PushUpKeeps DEF SendExternal
<1> QED
  BY <1>1, <1>2

(* A function with an InstantKeyAbsorber.                                  *)
LEMMA AbsorbingKeeps ==
  ASSUME IInv, NEW S, Plain(S), NEW f, NEW L \in Corrected(f, Absorbing(S)), Execute(L)
  PROVE  IInv'
<1>1. /\ Listed(L)
      /\ absorb => Pending(L) = <<AbsorbStep(TRUE)>>
      /\ ~absorb => Pending(L) = <<AbsorbStep(TRUE), RestoreStep>>
  <2> DEFINE A == Absorbing(S)
  <2>1. /\ Listed(A)
        /\ absorb => Pending(A) = <<AbsorbStep(TRUE)>>
        /\ ~absorb => Pending(A) = <<AbsorbStep(TRUE), RestoreStep>>
    BY AbsorbingListed
  <2> HIDE DEF A
  <2>2. Listed(L) /\ Pending(L) = Pending(A)
    BY <2>1, CorrectedListed DEF A
  <2> QED
    BY <2>1, <2>2
<1>2. Agrees(absorb, mode)
  BY IdleAgrees DEF IInv, Execute
<1>3. Settles(L, absorb, mode)
  BY <1>1, <1>2, Zenon DEF Settles
<1> QED
  BY <1>1, <1>3, ExecuteKeeps

LEMMA ResizeWindowKeeps ==
  ASSUME IInv, ResizeWindow
  PROVE  IInv'
<1> DEFINE S == <<Wait({}), Virtual(EndKeys, FALSE)>>
<1>1. PICK L \in Corrected("resize", Absorbing(S)) : Execute(L)
  BY DEF ResizeWindow
<1>2. Plain(S)
  BY ResizeWindowPlain
<1> HIDE DEF S
<1> QED
  BY <1>1, <1>2, AbsorbingKeeps

LEMMA SwitchWindowKeeps ==
  ASSUME IInv, SwitchWindow
  PROVE  IInv'
<1> DEFINE S == Scoped(KEYCODE_LALT, TRUE)
                  \o <<Virtual({KEYCODE_LALT}, FALSE), Push({KEYCODE_TAB}),
                       Wait(Arrows), Virtual(EndKeys, FALSE)>>
                  \o Scoped(KEYCODE_LALT, FALSE)
                  \o <<Step("scope", {KEYCODE_LALT}, FALSE)>>
<1>1. PICK L \in Corrected("switch", Absorbing(S)) : Execute(L)
  BY DEF SwitchWindow
<1>2. Plain(S)
  BY SwitchWindowPlain
<1> HIDE DEF S
<1> QED
  BY <1>1, <1>2, AbsorbingKeeps

LEMMA TerminateKeeps ==
  ASSUME IInv, Terminate
  PROVE  IInv'
<1> DEFINE x == Step("end", {}, FALSE)
           S == <<x>>
<1>1. Execute(S) /\ S \in LastLists
  BY DEF Terminate, LastLists
<1>2. x \in Steps /\ x.op = "end"
  BY DEF Step, Steps, Ops
<1>3. Listed(S)
  <2> HIDE DEF x
  <2>1. x \notin Odd
    BY <1>2 DEF Odd
  <2> QED
    BY <1>2, <2>1, OneListed
<1> HIDE DEF S
<1> QED
  BY <1>1, <1>3, ExecuteKeeps

(* While a function waits, what is put in front of its list.               *)
LEMMA WaitingList ==
  ASSUME Lists, Idle("system") \/ Waiting
  PROVE  LET S == todo["system"]
         IN  /\ S \in Seq(Steps) /\ Listed(S)
             /\ S = <<>> \/ S[1].op # "mode"
             /\ S \notin LastLists
             /\ Idle("system") \/ First("system") \in Barriers
<1> DEFINE S == todo["system"]
<1>1. S \in Seq(Steps) /\ Listed(S) /\ "system" \in Threads
  BY TheThreads DEF Lists
<1>2. CASE Idle("system")
  <2>1. S = <<>> /\ \A x : S # <<x>>
    BY <1>2 DEF Idle
  <2> QED
    BY <1>1, <1>2, <2>1 DEF LastLists
<1>3. CASE Waiting /\ ~Idle("system")
  <2>1. S # <<>> /\ First("system") = S[1] /\ S[1] \in Steps /\ S[1].op = "wait"
    BY <1>1, <1>3, FirstStep DEF Waiting, Doing
  <2>2. S \notin LastLists
    BY <2>1 DEF LastLists, Step
  <2>3. First("system") \in Barriers
    BY <2>1 DEF Barriers, Of
  <2> HIDE DEF S
  <2>4. /\ S \in Seq(Steps) /\ Listed(S) /\ (S = <<>> \/ S[1].op # "mode") /\ S \notin LastLists
        /\ First("system") \in Barriers
    BY <1>1, <2>1, <2>2, <2>3
  <2> QED
    BY <2>4 DEF S
<1> QED
  BY <1>2, <1>3

LEMMA PrefixKeeps ==
  ASSUME IInv, Idle("system") \/ Waiting, NEW Q, Plain(Q),
         todo' = [todo EXCEPT !["system"] = Q \o @],
         UNCHANGED <<held, app, states, gates>>
  PROVE  IInv'
<1> DEFINE S == todo["system"]
<1>1. /\ S \in Seq(Steps) /\ Listed(S)
      /\ S = <<>> \/ S[1].op # "mode"
      /\ S \notin LastLists
      /\ Idle("system") \/ First("system") \in Barriers
  BY WaitingList DEF IInv
<1>2. todo' = [todo EXCEPT !["system"] = Q \o S] /\ Settled
  BY DEF IInv, Lists
<1>3. Settles(S, absorb, mode)
  BY <1>1, <1>2 DEF Settled
<1> HIDE DEF S
<1>4. Listed(Q \o S)
  BY <1>1, ListedConcat DEF Plain
<1>5. Pending(Q \o S) = Pending(S)
  BY <1>1, PlainBefore, Zenon
<1>6. Settles(Q \o S, absorb, mode)
  BY <1>3, <1>5, Zenon DEF Settles
<1>7. UNCHANGED <<port, fails, absorb, mode>>
  BY DEF gates
<1>8. Lists' /\ PortsWillClose' /\ todo'["system"] = Q \o S
  BY <1>1, <1>2, <1>4, <1>7, Starts DEF IInv
<1>9. Settled'
  BY <1>6, <1>7, <1>8 DEF Settled
<1>10. TypeOK'
  <2>1. todo' \in [Threads -> Seq(Steps)]
    BY <1>8 DEF Lists
  <2> QED
    BY <2>1 DEF IInv, TypeOK, gates, states
<1> QED
  BY <1>8, <1>9, <1>10 DEF IInv

LEMMA RefreshToggleStateKeeps ==
  ASSUME IInv, RefreshToggleState
  PROVE  IInv'
<1> DEFINE Q == ForEach("toggle", Toggles)
<1>1. Plain(Q)
  <2>1. "toggle" \in QuietOps
    BY DEF QuietOps, Ops, GateOps
  <2> QED
    BY <2>1, ForEachQuiet, HarmlessPlain
<1>2. /\ Idle("system") \/ Waiting
      /\ todo' = [todo EXCEPT !["system"] = Q \o @]
      /\ UNCHANGED <<held, app, states, gates>>
  BY DEF RefreshToggleState
<1> HIDE DEF Q
<1> QED
  BY <1>1, <1>2, PrefixKeeps

-----------------------------------------------------------------------------
(* The steps.                                                              *)

LEMMA StepKeeps ==
  ASSUME IInv, NEW t \in Threads, ~Idle(t), NEW Q, Replaces(First(t), Q), Continue(t, Q),
         t = "hook" => Q = <<>>, First(t).op \notin GateOps \cup {"end", "ended"},
         UNCHANGED <<absorb, mode, fails>>,
         \A p \in Keys \cap port' : \/ First(t) \in Opening(p)
                                    \/ p \in port /\ First(t) \notin Shutting(p)
  PROVE  Lists' /\ Settled' /\ PortsWillClose'
<1>1. /\ Lists' /\ PortsWillClose'
      /\ todo'[t] = Q \o Tail(todo[t]) /\ \A u \in Threads \ {t} : todo'[u] = todo[u]
  BY Continues DEF IInv
<1>2. First(t) \notin Gates
  BY DEF Gates, Of
<1>3. Settled'
  BY <1>1, <1>2, StaysSettled DEF IInv
<1> QED
  BY <1>1, <1>3

(* A step that leaves the ports as they are.                               *)
LEMMA PortsStay ==
  ASSUME NEW x, x.op \notin {"close", "close_all"}, UNCHANGED port
  PROVE  \A p \in Keys \cap port' : x \in Opening(p) \/ (p \in port /\ x \notin Shutting(p))
  BY DEF Shutting

LEMMA NothingReplaces ==
  ASSUME NEW x
  PROVE  Replaces(x, <<>>)
  BY DEF Replaces

LEMMA FirstKeys ==
  ASSUME IInv, NEW t \in Threads, ~Idle(t)
  PROVE  First(t).keys \in SUBSET Keys /\ First(t).down \in BOOLEAN
  BY FirstStep DEF IInv, Steps

LEMMA DoDecideKeeps ==
  ASSUME IInv, NEW t \in Threads, DoDecide(t)
  PROVE  IInv'
<1>1. /\ ~Idle(t) /\ First(t).op = "decide" /\ Continue(t, <<>>)
      /\ UNCHANGED <<port, fails, absorb, mode>>
  BY DEF DoDecide, Doing, gates
<1>2. \A p \in Keys \cap port' : \/ First(t) \in Opening(p)
                                 \/ p \in port /\ First(t) \notin Shutting(p)
  BY <1>1, PortsStay
<1>3. Lists' /\ Settled' /\ PortsWillClose'
  BY <1>1, <1>2, NothingReplaces, StepKeeps DEF GateOps
<1>4. TypeOK'
  <2>1. todo' \in [Threads -> Seq(Steps)]
    BY <1>3 DEF Lists
  <2>2. app' \in SUBSET Keys
    BY <1>1, FirstKeys DEF DoDecide, Put, IInv, TypeOK
  <2> QED
    BY <2>1, <2>2 DEF DoDecide, IInv, TypeOK, gates, states
<1> QED
  BY <1>3, <1>4 DEF IInv

LEMMA DoPortsKeeps ==
  ASSUME IInv, NEW t \in Threads, DoPorts(t)
  PROVE  IInv'
<1>1. /\ ~Idle(t) /\ First(t).op \in {"open", "close", "close_all"} /\ Continue(t, <<>>)
      /\ UNCHANGED <<fails, absorb, mode>>
  BY DEF DoPorts, Doing
<1>2. First(t) \in Steps /\ First(t).keys \in SUBSET Keys
  BY <1>1, FirstStep, FirstKeys DEF IInv
<1>3. \/ First(t).op = "open" /\ port' = port \cup First(t).keys
      \/ First(t).op = "close" /\ port' = port \ First(t).keys
      \/ First(t).op = "close_all" /\ port' = {}
  BY DEF DoPorts, Doing
<1>4. ASSUME NEW p \in Keys \cap port'
      PROVE  \/ First(t) \in Opening(p)
             \/ p \in port /\ First(t) \notin Shutting(p)
  BY <1>2, <1>3 DEF Opening, Shutting
<1>5. Lists' /\ Settled' /\ PortsWillClose'
  BY <1>1, <1>4, NothingReplaces, StepKeeps DEF GateOps
<1>6. TypeOK'
  <2>1. todo' \in [Threads -> Seq(Steps)]
    BY <1>5 DEF Lists
  <2>2. port' \in SUBSET Keys
    BY <1>2, <1>3 DEF IInv, TypeOK
  <2> QED
    BY <2>1, <2>2 DEF DoPorts, IInv, TypeOK, states
<1> QED
  BY <1>5, <1>6 DEF IInv

LEMMA DoSendKeeps ==
  ASSUME IInv, NEW t \in Threads, DoSend(t)
  PROVE  IInv'
<1>1. /\ ~Idle(t) /\ First(t).op \in {"send", "resend", "stroke", "external"} /\ Continue(t, <<>>)
      /\ UNCHANGED <<port, fails, absorb, mode>>
  BY DEF DoSend, Doing, gates
<1>2. \A p \in Keys \cap port' : \/ First(t) \in Opening(p)
                                 \/ p \in port /\ First(t) \notin Shutting(p)
  BY <1>1, PortsStay
<1>3. Lists' /\ Settled' /\ PortsWillClose'
  BY <1>1, <1>2, NothingReplaces, StepKeeps DEF GateOps
<1>4. TypeOK'
  <2>1. todo' \in [Threads -> Seq(Steps)]
    BY <1>3 DEF Lists
  <2>2. Reached(First(t).keys) \in SUBSET Keys
    BY <1>1, FirstKeys, GateAssumption DEF Reached
  <2>3. app' \in SUBSET Keys
    BY <2>2 DEF DoSend, Put, IInv, TypeOK
  <2> QED
    BY <2>1, <2>3 DEF DoSend, IInv, TypeOK, gates, states
<1> QED
  BY <1>3, <1>4 DEF IInv

LEMMA DoVirtualKeeps ==
  ASSUME IInv, NEW t \in Threads, DoVirtual(t)
  PROVE  IInv'
<1>1. /\ ~Idle(t) /\ First(t).op \in {"virtual", "release"} /\ Continue(t, <<>>)
      /\ UNCHANGED <<port, fails, absorb, mode>>
  BY DEF DoVirtual, Doing, gates
<1>2. \A p \in Keys \cap port' : \/ First(t) \in Opening(p)
                                 \/ p \in port /\ First(t) \notin Shutting(p)
  BY <1>1, PortsStay
<1>3. Lists' /\ Settled' /\ PortsWillClose'
  BY <1>1, <1>2, NothingReplaces, StepKeeps DEF GateOps
<1>4. TypeOK'
  <2>1. todo' \in [Threads -> Seq(Steps)]
    BY <1>3 DEF Lists
  <2>2. state' \in SUBSET Keys
    BY <1>1, FirstKeys DEF DoVirtual, Put, IInv, TypeOK
  <2> QED
    BY <2>1, <2>2 DEF DoVirtual, IInv, TypeOK, gates
<1> QED
  BY <1>3, <1>4 DEF IInv

(* What the steps that look at the state put in their place.               *)
LookOps ==
  {"refresh", "lift", "correct", "check", "push", "scope", "recover", "unpress", "toggle"}

LEMMA QuietReplaces ==
  ASSUME NEW x, x.op \in LookOps, NEW Q, Harmless(Q)
  PROVE  Replaces(x, Q)
<1>1. x \notin Gates
  BY DEF Gates, Of, GateOps, LookOps
<1> QED
  BY <1>1, HarmlessReplaces

LEMMA LookReplaces ==
  ASSUME IInv, NEW t \in Threads, DoLook(t)
  PROVE  /\ ~Idle(t) /\ First(t).op \in LookOps
         /\ \E Q : Replaces(First(t), Q) /\ Continue(t, Q)
<1> DEFINE x == First(t)
<1>1. ~Idle(t) /\ x.op \in LookOps
  BY DEF DoLook, Doing, LookOps
<1>2. x \in Steps /\ x \notin Odd /\ x.keys \in SUBSET Keys
  BY <1>1, FirstStep, FirstKeys DEF IInv
<1>3. state \in SUBSET Keys
  BY DEF IInv, TypeOK
<1>4. CASE Doing(t, "refresh")
  <2>1. PICK Q \in {<<Open(x.keys)>> \o KeyState(x.keys, FALSE), <<>>} : Continue(t, Q)
    BY <1>4 DEF DoLook, Doing
  <2>2. Replaces(x, Q)
    BY <1>2, <1>4, RefreshReplaced, NothingReplaces DEF Doing
  <2> QED
    BY <1>1, <2>1, <2>2
<1>5. CASE Doing(t, "lift")
  <2>1. PICK Q \in {KeyState(x.keys, FALSE), <<Virtual(x.keys, FALSE)>>} : Continue(t, Q)
    BY <1>5 DEF DoLook, Doing
  <2>2. Harmless(<<Virtual(x.keys, FALSE)>>)
    <3>1. "virtual" \in QuietOps
      BY DEF QuietOps, Ops, GateOps
    <3>2. Virtual(x.keys, FALSE) \in Steps /\ Virtual(x.keys, FALSE).op \in QuietOps
      BY <1>2, <3>1, NamedSteps
    <3> QED
      BY <3>2, OneQuiet
  <2>3. Harmless(Q)
    BY <1>2, <2>2, KeyStateHarmless
  <2> QED
    BY <1>1, <2>1, <2>3, QuietReplaces
<1>6. CASE Doing(t, "correct")
  <2>1. Continue(t, ForEach("check", state))
    BY <1>6 DEF DoLook, Doing
  <2>2. Harmless(ForEach("check", state))
    <3>1. "check" \in QuietOps
      BY DEF QuietOps, Ops, GateOps
    <3> QED
      BY <3>1, ForEachQuiet
  <2> QED
    BY <1>1, <2>1, <2>2, QuietReplaces
<1>7. CASE Doing(t, "check")
  <2>1. PICK Q \in {<<>>, <<Step("release", x.keys, FALSE)>>} : Continue(t, Q)
    BY <1>7 DEF DoLook, Doing
  <2>2. Harmless(<<Step("release", x.keys, FALSE)>>)
    <3>1. "release" \in QuietOps
      BY DEF QuietOps, Ops, GateOps
    <3>2. /\ Step("release", x.keys, FALSE) \in Steps
          /\ Step("release", x.keys, FALSE).op \in QuietOps
      BY <1>2, <3>1, SendTypes
    <3> QED
      BY <3>2, OneQuiet
  <2>3. Harmless(Q)
    BY <2>2, NothingHarmless
  <2> QED
    BY <1>1, <2>1, <2>3, QuietReplaces
<1>8. CASE Doing(t, "push")
  <2>1. Continue(t, PushUp("stroke", x.keys, state))
    BY <1>8 DEF DoLook, Doing
  <2>2. Closable(x.keys)
    <3>1. x.keys \subseteq Arrows \cup {KEYCODE_TAB}
      BY <1>2, <1>8 DEF Odd, Doing
    <3> QED
      BY <3>1, GateAssumption DEF Closable, LeftOpen
  <2>3. Harmless(PushUp("stroke", x.keys, state))
    BY <1>2, <1>3, <2>2, PushUpHarmless
  <2> QED
    BY <1>1, <2>1, <2>3, QuietReplaces
<1>9. CASE Doing(t, "scope")
  <2>1. Continue(t, <<Open(x.keys), Step("resend", x.keys, FALSE), CloseAll>>)
    BY <1>9 DEF DoLook, Doing
  <2>2. Harmless(<<Open(x.keys), Step("resend", x.keys, FALSE), CloseAll>>)
    BY <1>2, ScopeHarmless
  <2> QED
    BY <1>1, <2>1, <2>2, QuietReplaces
<1>10. CASE Doing(t, "recover")
  <2>1. Continue(t, Calibrate)
    BY <1>10 DEF DoLook, Doing
  <2>2. Harmless(Calibrate)
    BY <1>3, CalibrateHarmless
  <2> QED
    BY <1>1, <2>1, <2>2, QuietReplaces
<1>11. CASE Doing(t, "unpress")
  <2>1. Continue(t, <<Step("resend", x.keys, FALSE), Virtual(x.keys, FALSE)>>)
    BY <1>11 DEF DoLook, Doing
  <2>2. Replaces(x, <<Step("resend", x.keys, FALSE), Virtual(x.keys, FALSE)>>)
    BY <1>2, <1>11, UnpressReplaced DEF Doing
  <2> QED
    BY <1>1, <2>1, <2>2
<1>12. CASE Doing(t, "toggle")
  <2>1. PICK k \in x.keys : \/ Continue(t, ReleaseToggle(k))
                            \/ Continue(t, <<>>)
    BY <1>12 DEF DoLook, Doing
  <2>2. Harmless(ReleaseToggle(k)) /\ Harmless(<<>>)
    BY <1>2, ReleaseToggleHarmless, NothingHarmless
  <2> QED
    BY <1>1, <2>1, <2>2, QuietReplaces
<1> QED
  BY <1>4, <1>5, <1>6, <1>7, <1>8, <1>9, <1>10, <1>11, <1>12 DEF DoLook

LEMMA DoLookKeeps ==
  ASSUME IInv, NEW t \in Threads, DoLook(t)
  PROVE  IInv'
<1>1. PICK Q : ~Idle(t) /\ First(t).op \in LookOps /\ Replaces(First(t), Q) /\ Continue(t, Q)
  BY LookReplaces
<1>2. UNCHANGED <<port, fails, absorb, mode>>
  BY DEF DoLook, gates
<1>3. t # "hook"
  BY <1>1, FirstStep DEF IInv, LookOps, HookOps
<1>4. \A p \in Keys \cap port' : \/ First(t) \in Opening(p)
                                 \/ p \in port /\ First(t) \notin Shutting(p)
  <2>1. First(t).op \notin {"close", "close_all"}
    BY <1>1 DEF LookOps
  <2> QED
    BY <1>2, <2>1, PortsStay
<1>5. First(t).op \notin GateOps \cup {"end", "ended"}
  BY <1>1 DEF LookOps, GateOps
<1>6. Lists' /\ Settled' /\ PortsWillClose'
  BY <1>1, <1>2, <1>3, <1>4, <1>5, StepKeeps
<1>7. TypeOK'
  <2>1. todo' \in [Threads -> Seq(Steps)]
    BY <1>6 DEF Lists
  <2> QED
    BY <2>1 DEF DoLook, IInv, TypeOK, gates, states
<1> QED
  BY <1>6, <1>7 DEF IInv

LEMMA DoForgetKeeps ==
  ASSUME IInv, DoForget
  PROVE  IInv'
<1> DEFINE t == "system"
<1>0. t \in Threads /\ t # "hook"
  BY TheThreads
<1>1. /\ ~Idle(t) /\ First(t).op = "forget" /\ Continue(t, <<>>)
      /\ UNCHANGED <<port, fails, absorb, mode>>
  BY DEF DoForget, Doing, gates
<1>2. \A p \in Keys \cap port' : \/ First(t) \in Opening(p)
                                 \/ p \in port /\ First(t) \notin Shutting(p)
  BY <1>1, PortsStay
<1>3. Lists' /\ Settled' /\ PortsWillClose'
  BY <1>0, <1>1, <1>2, NothingReplaces, StepKeeps DEF GateOps
<1>4. TypeOK'
  <2>1. todo' \in [Threads -> Seq(Steps)]
    BY <1>3 DEF Lists
  <2> QED
    BY <2>1 DEF DoForget, IInv, TypeOK, gates
<1> QED
  BY <1>3, <1>4 DEF IInv

LEMMA DoWaitKeeps ==
  ASSUME IInv, DoWait
  PROVE  IInv'
<1> DEFINE t == "system"
<1>0. t \in Threads /\ t # "hook"
  BY TheThreads
<1>1. /\ Waiting /\ ~Idle(t) /\ First(t).op = "wait"
      /\ UNCHANGED <<held, app, states, gates>>
  BY DEF DoWait, Waiting, Doing
<1>2. First(t) \in Steps /\ First(t).keys \subseteq Arrows
  BY <1>0, <1>1, FirstStep DEF IInv, Odd
<1>3. ASSUME NEW k \in First(t).keys, todo' = [todo EXCEPT ![t] = <<Push({k})>> \o @]
      PROVE  IInv'
  <2> DEFINE x == Push({k})
             Q == <<x>>
  <2>1. x \in Steps /\ x.op = "push" /\ x.keys = {k}
    <3>1. {k} \in SUBSET Keys
      BY <1>2, <1>3, GateAssumption
    <3> QED
      BY <3>1, WaitingSteps, Zenon
  <2>2. todo' = [todo EXCEPT !["system"] = Q \o @]
    BY <1>3
  <2>3. Plain(Q)
    <3> HIDE DEF x
    <3>1. x \notin Odd
      BY <1>2, <1>3, <2>1 DEF Odd
    <3> QED
      BY <2>1, <3>1, OnePlain DEF GateOps
  <2> HIDE DEF Q
  <2> QED
    BY <1>1, <2>2, <2>3, PrefixKeeps
<1>4. ASSUME Continue(t, <<>>)
      PROVE  IInv'
  <2>1. UNCHANGED <<port, fails, absorb, mode>>
    BY <1>1 DEF gates
  <2>2. \A p \in Keys \cap port' : \/ First(t) \in Opening(p)
                                   \/ p \in port /\ First(t) \notin Shutting(p)
    BY <1>1, <2>1, PortsStay
  <2>3. Lists' /\ Settled' /\ PortsWillClose'
    BY <1>0, <1>1, <1>4, <2>1, <2>2, NothingReplaces, StepKeeps DEF GateOps
  <2>4. TypeOK'
    <3>1. todo' \in [Threads -> Seq(Steps)]
      BY <2>3 DEF Lists
    <3> QED
      BY <1>1, <3>1 DEF IInv, TypeOK, gates, states
  <2> QED
    BY <2>3, <2>4 DEF IInv
<1> QED
  BY <1>3, <1>4 DEF DoWait

(* An exception, where it may come from.                                   *)
LEMMA ThrowKeeps ==
  ASSUME IInv, ~Idle("system"), First("system").op \in {"send", "stroke", "external", "verify"},
         fails \/ First("system").op = "verify",
         Throw, UNCHANGED <<held, app, states, gates>>
  PROVE  IInv'
<1> DEFINE S == todo["system"]
           L == Thrown(S)
<1>1. /\ S \in Seq(Steps) /\ S # <<>> /\ Listed(S) /\ First("system") = Head(S)
      /\ Head(S) = S[1] /\ S[1] \in Steps
  BY TheThreads, FirstStep DEF IInv, Lists
<1>2. S \notin LastLists /\ Head(S) \notin Gates
  BY <1>1 DEF LastLists, Step, Gates, Of, GateOps
<1>3. Settles(S, absorb, mode)
  BY <1>2 DEF IInv, Settled
<1>4. todo' = [todo EXCEPT !["system"] = L]
  BY DEF Throw, IInv, Lists
<1>5. L = <<Step("end", {}, FALSE)>> \/ (Listed(L) /\ Settles(L, absorb, mode))
  <2> HIDE DEF S
  <2> QED
    BY <1>1, <1>2, <1>3, ThrownSettles
<1>6. fails \/ First("system") \in Barriers
  BY <1>1 DEF Barriers, Of
<1>7. UNCHANGED <<port, fails, absorb, mode>>
  BY DEF gates
<1> HIDE DEF L
<1>8. Listed(L)
  <2> DEFINE x == Step("end", {}, FALSE)
  <2>1. x \in Steps /\ x.op = "end"
    BY DEF Step, Steps, Ops
  <2> HIDE DEF x
  <2>2. x \notin Odd
    BY <2>1 DEF Odd
  <2>3. Listed(<<x>>)
    BY <2>1, <2>2, OneListed
  <2> QED
    BY <1>5, <2>3 DEF x
<1>9. Lists' /\ PortsWillClose' /\ todo'["system"] = L
  BY <1>4, <1>6, <1>7, <1>8, Starts DEF IInv
<1>10. Settled'
  BY <1>5, <1>7, <1>9 DEF Settled, LastLists
<1>11. TypeOK'
  <2>1. todo' \in [Threads -> Seq(Steps)]
    BY <1>9 DEF Lists
  <2> QED
    BY <2>1 DEF IInv, TypeOK, gates, states
<1> QED
  BY <1>9, <1>10, <1>11 DEF IInv

LEMMA DoVerifyKeeps ==
  ASSUME IInv, DoVerify
  PROVE  IInv'
<1> DEFINE t == "system"
<1>0. t \in Threads /\ t # "hook"
  BY TheThreads
<1>1. /\ ~Idle(t) /\ First(t).op = "verify" /\ UNCHANGED <<held, app, states, gates>>
      /\ Continue(t, <<>>) \/ Throw
  BY DEF DoVerify, Doing
<1>2. CASE Throw
  BY <1>1, <1>2, ThrowKeeps
<1>3. CASE Continue(t, <<>>)
  <2>1. UNCHANGED <<port, fails, absorb, mode>>
    BY <1>1 DEF gates
  <2>2. \A p \in Keys \cap port' : \/ First(t) \in Opening(p)
                                   \/ p \in port /\ First(t) \notin Shutting(p)
    BY <1>1, <2>1, PortsStay
  <2>3. Lists' /\ Settled' /\ PortsWillClose'
    BY <1>0, <1>1, <1>3, <2>1, <2>2, NothingReplaces, StepKeeps DEF GateOps
  <2>4. TypeOK'
    <3>1. todo' \in [Threads -> Seq(Steps)]
      BY <2>3 DEF Lists
    <3> QED
      BY <1>1, <3>1 DEF IInv, TypeOK, gates, states
  <2> QED
    BY <2>3, <2>4 DEF IInv
<1> QED
  BY <1>1, <1>2, <1>3

LEMMA SendFailsKeeps ==
  ASSUME IInv, SendFails
  PROVE  IInv'
<1>1. fails /\ UNCHANGED <<held, app, states, gates>>
  BY DEF SendFails
<1>2. CASE /\ Doing("system", "send") \/ Doing("system", "stroke") \/ Doing("system", "external")
           /\ Throw
  BY <1>1, <1>2, ThrowKeeps DEF Doing
<1>3. CASE /\ Doing("system", "resend")
           /\ todo' = [todo EXCEPT !["system"] = Caught(Tail(@))]
  <2> DEFINE S == todo["system"]
             L == Caught(Tail(S))
  <2>1. /\ S \in Seq(Steps) /\ S # <<>> /\ Listed(S) /\ First("system") = Head(S)
        /\ Head(S) = S[1] /\ S[1] \in Steps /\ S[1].op = "resend"
    BY <1>3, TheThreads, FirstStep DEF IInv, Lists, Doing
  <2>2. S \notin LastLists /\ Head(S) \notin Gates /\ Head(S) \in Resending
    BY <2>1 DEF LastLists, Step, Gates, Resending, Of, GateOps
  <2>3. Settles(S, absorb, mode)
    BY <2>2 DEF IInv, Settled
  <2>4. todo' = [todo EXCEPT !["system"] = L]
    BY <1>3 DEF IInv, Lists
  <2> HIDE DEF S
  <2>5. Listed(Tail(S)) /\ Reaches(Tail(S), Closing, Gates)
    <3>1. 1 \in 0..Len(S) /\ Tail(S) = SubSeq(S, 1 + 1, Len(S))
      BY <2>1, TailRemains
    <3>2. Listed(Tail(S))
      BY <2>1, <3>1, ListedRemains, Zenon
    <3>3. Reaches(Tail(S), Closing, Gates)
      BY <2>1, <2>2, FollowedTail, Zenon DEF Listed, FailuresCaught
    <3> QED
      BY <3>2, <3>3
  <2>6. Listed(L) /\ Pending(L) = Pending(Tail(S))
    BY <2>5, CaughtListed
  <2>7. Pending(L) = Pending(S)
    BY <2>1, <2>2, <2>6, PendingTail, Zenon
  <2> HIDE DEF L
  <2>8. Settles(L, absorb, mode)
    BY <2>3, <2>7, Zenon DEF Settles
  <2>9. UNCHANGED <<port, fails, absorb, mode>>
    BY <1>1 DEF gates
  <2>10. Lists' /\ PortsWillClose' /\ todo'["system"] = L
    BY <1>1, <2>4, <2>6, <2>9, Starts DEF IInv
  <2>11. Settled'
    BY <2>8, <2>9, <2>10 DEF Settled
  <2>12. TypeOK'
    <3>1. todo' \in [Threads -> Seq(Steps)]
      BY <2>10 DEF Lists
    <3> QED
      BY <1>1, <3>1 DEF IInv, TypeOK, gates, states
  <2> QED
    BY <2>10, <2>11, <2>12 DEF IInv
<1> QED
  BY <1>2, <1>3 DEF SendFails

LEMMA UninstallKeeps ==
  ASSUME IInv, Uninstall
  PROVE  IInv'
<1> DEFINE S == todo["system"]
           y == Step("ended", {}, FALSE)
           Q == <<y>>
<1>0. "system" \in Threads /\ "system" # "hook"
  BY TheThreads
<1>1. /\ ~Idle("system") /\ First("system").op = "end" /\ Continue("system", Q)
      /\ UNCHANGED <<fails, absorb, mode>> /\ port' = {}
  BY DEF Uninstall, Doing
<1>2. /\ S \in Seq(Steps) /\ S # <<>> /\ First("system") = Head(S) /\ Head(S) \in Steps
  BY <1>0, <1>1, FirstStep DEF IInv
<1>3. y \in Steps /\ y.op = "ended"
  BY DEF Step, Steps, Ops
<1>4. Replaces(First("system"), Q)
  <2>1. y.op \in QuietOps
    BY <1>3 DEF QuietOps, Ops, GateOps
  <2> HIDE DEF y
  <2>2. Harmless(Q)
    BY <1>3, <2>1, OneQuiet
  <2>3. First("system") \notin Gates
    BY <1>1 DEF Gates, Of, GateOps
  <2> HIDE DEF Q
  <2> QED
    BY <2>2, <2>3, HarmlessReplaces
<1> HIDE DEF Q, S
<1>5. /\ Lists' /\ PortsWillClose' /\ todo'["system"] = Q \o Tail(todo["system"])
  BY <1>0, <1>1, <1>4, Continues DEF IInv
<1>6. todo'["system"] = Q \o Tail(S)
  BY <1>5 DEF S
<1>7. Settled'
  <2>1. CASE S \in LastLists
    <3>1. Q \o Tail(S) = Q
      <4>1. PICK a : S = <<a>>
        BY <2>1 DEF LastLists
      <4>2. Len(S) = 1
        BY <4>1
      <4> DEFINE T == Tail(S)
      <4>3. T \in Seq(Steps) /\ Len(T) = 0
        BY <1>2, <4>2
      <4>4. Q \in Seq(Steps)
        <5> HIDE DEF y
        <5> QED
          BY <1>3 DEF Q
      <4> HIDE DEF T
      <4>5. Q \o T = Q
        BY <4>3, <4>4
      <4> QED
        BY <4>5 DEF T
    <3>2. Q \in LastLists
      BY DEF Q, LastLists
    <3> QED
      BY <1>6, <3>1, <3>2 DEF Settled, LastLists
  <2>2. CASE S \notin LastLists
    <3>1. Settles(S, absorb, mode)
      BY <2>2 DEF IInv, Settled, S
    <3>2. Head(S) \notin Gates
      BY <1>1, <1>2 DEF Gates, Of, GateOps
    <3>3. Pending(Q \o Tail(S)) = Pending(S)
      BY <1>2, <1>4, <3>2, PendingReplaced
    <3>4. Settles(Q \o Tail(S), absorb, mode)
      BY <3>1, <3>3, Zenon DEF Settles
    <3> QED
      BY <1>1, <1>6, <3>4 DEF Settled
  <2> QED
    BY <2>1, <2>2
<1>8. TypeOK'
  <2>1. todo' \in [Threads -> Seq(Steps)]
    BY <1>5 DEF Lists
  <2> QED
    BY <2>1 DEF Uninstall, IInv, TypeOK
<1> QED
  BY <1>5, <1>7, <1>8 DEF IInv

(* A step of the absorption: what is left of it is that much shorter.      *)
LEMMA GateSettles ==
  ASSUME NEW S \in Seq(Steps), S # <<>>, Head(S) \in Gates,
         NEW a \in BOOLEAN, NEW m \in Modes, Settles(S, a, m),
         NEW a2, NEW m2,
         \/ /\ Head(S).op \in {"absorb", "restore"}
            /\ a2 = Head(S).down /\ m2 = m
         \/ /\ Head(S).op = "mode"
            /\ m2 = (IF Head(S).down THEN "normal" ELSE "insert") /\ a2 = a
  PROVE  Settles(Tail(S), a2, m2)
<1> DEFINE x == Head(S)
           P == Pending(S)
           R == Pending(Tail(S))
<1>1. P = <<x>> \o R
  BY PendingTail, Zenon
<1>2. R \in Seq(Steps) /\ x \in Steps
  <2>1. Tail(S) \in Seq(Steps) /\ x \in Steps
    OBVIOUS
  <2> QED
    BY <2>1, PendingType
<1>3. /\ \A b \in BOOLEAN :
           /\ AbsorbStep(b) \in Steps /\ AbsorbStep(b).op = "absorb" /\ AbsorbStep(b).down = b
           /\ ModeStep(b) \in Steps /\ ModeStep(b).op = "mode" /\ ModeStep(b).down = b
      /\ RestoreStep \in Steps /\ RestoreStep.op = "restore" /\ RestoreStep.down = FALSE
  BY GateSteps
<1>4. /\ x.op \in {"absorb", "restore"} => a2 = x.down /\ m2 = m
      /\ x.op = "mode" => m2 = (IF x.down THEN "normal" ELSE "insert") /\ a2 = a
  OBVIOUS
<1> HIDE DEF x, R
<1>5. P # <<>>
  BY <1>1, <1>2
<1>6. \A y \in Steps : P = <<y>> => x = y /\ R = <<>>
  BY <1>1, <1>2
<1>7. \A y, z \in Steps : P = <<y, z>> => x = y /\ R = <<z>>
  <2> SUFFICES ASSUME NEW y \in Steps, NEW z \in Steps, P = <<y, z>>
               PROVE  x = y /\ R = <<z>>
    OBVIOUS
  <2> DEFINE T == <<y, z>>
  <2>1. T \in Seq(Steps) /\ Len(T) = 2 /\ T[1] = y /\ T[2] = z
    OBVIOUS
  <2> HIDE DEF T
  <2>2. T = <<x>> \o R
    BY <1>1 DEF T
  <2>3. Len(R) = 1 /\ x = y /\ R[1] = z
    BY <1>2, <2>1, <2>2
  <2>4. R = <<z>>
    BY <1>2, <2>3
  <2> QED
    BY <2>3, <2>4
<1>8. R = Pending(Tail(S))
  BY DEF R
<1>9. /\ P = <<>> => Settles(Tail(S), a2, m2)
  BY <1>5
<1> HIDE DEF P
<1>10. ASSUME NEW b \in BOOLEAN, P = <<AbsorbStep(b), ModeStep(b)>>, Agrees(a, m)
       PROVE  Settles(Tail(S), a2, m2)
  <2>1. x = AbsorbStep(b) /\ R = <<ModeStep(b)>>
    BY <1>3, <1>7, <1>10
  <2>2. a2 = b
    BY <1>3, <1>4, <2>1
  <2> QED
    BY <1>8, <2>1, <2>2 DEF Settles
<1>11. ASSUME NEW b \in BOOLEAN, P = <<ModeStep(b)>>, a = b
       PROVE  Settles(Tail(S), a2, m2)
  <2>1. x = ModeStep(b) /\ R = <<>>
    BY <1>3, <1>6, <1>11
  <2>2. Agrees(a2, m2)
    BY <1>3, <1>4, <1>11, <2>1 DEF Agrees
  <2> QED
    BY <1>8, <2>1, <2>2 DEF Settles
<1>12. ASSUME P = <<AbsorbStep(TRUE)>>, Agrees(a, m), a
       PROVE  Settles(Tail(S), a2, m2)
  <2>1. x = AbsorbStep(TRUE) /\ R = <<>>
    BY <1>3, <1>6, <1>12
  <2>2. Agrees(a2, m2)
    BY <1>3, <1>4, <1>12, <2>1 DEF Agrees
  <2> QED
    BY <1>8, <2>1, <2>2 DEF Settles
<1>13. ASSUME P = <<AbsorbStep(TRUE), RestoreStep>>, Agrees(a, m), ~a
       PROVE  Settles(Tail(S), a2, m2)
  <2>1. x = AbsorbStep(TRUE) /\ R = <<RestoreStep>>
    BY <1>3, <1>7, <1>13
  <2>2. a2 /\ m2 = "insert"
    BY <1>3, <1>4, <1>13, <2>1 DEF Agrees, Modes
  <2> QED
    BY <1>8, <2>1, <2>2 DEF Settles
<1>14. ASSUME P = <<RestoreStep>>, a, m = "insert"
       PROVE  Settles(Tail(S), a2, m2)
  <2>1. x = RestoreStep /\ R = <<>>
    BY <1>3, <1>6, <1>14
  <2>2. Agrees(a2, m2)
    BY <1>3, <1>4, <1>14, <2>1 DEF Agrees
  <2> QED
    BY <1>8, <2>1, <2>2 DEF Settles
<1>15. Settles(S, a, m) /\ P = Pending(S)
  BY DEF P
<1> QED
  BY <1>5, <1>10, <1>11, <1>12, <1>13, <1>14, <1>15, Zenon DEF Settles

LEMMA DoGateKeeps ==
  ASSUME IInv, NEW t \in Threads, DoGate(t)
  PROVE  IInv'
<1> DEFINE S == todo["system"]
<1>1. /\ ~Idle(t) /\ First(t).op \in GateOps /\ Continue(t, <<>>)
      /\ UNCHANGED <<held, app, states, port, physical, fails>>
  BY DEF DoGate, Doing, GateOps
<1>2. t = "system"
  BY <1>1, FirstStep, TheThreads DEF IInv, GateOps, HookOps
<1>3. /\ S \in Seq(Steps) /\ S # <<>> /\ First(t) = Head(S) /\ Head(S) = S[1] /\ S[1] \in Steps
  BY <1>1, <1>2, FirstStep DEF IInv
<1>4. S \notin LastLists /\ Head(S) \in Gates
  BY <1>1, <1>3 DEF LastLists, Step, Gates, Of, GateOps
<1>5. Settles(S, absorb, mode)
  BY <1>4 DEF IInv, Settled
<1>6. \/ /\ First(t).op \in {"absorb", "restore"}
         /\ absorb' = First(t).down /\ mode' = mode
      \/ /\ First(t).op = "mode"
         /\ mode' = (IF First(t).down THEN "normal" ELSE "insert") /\ absorb' = absorb
  BY DEF DoGate, Doing
<1>7. \A p \in Keys \cap port' : \/ First(t) \in Opening(p)
                                 \/ p \in port /\ First(t) \notin Shutting(p)
  <2>1. First(t).op \notin {"close", "close_all"}
    BY <1>1 DEF GateOps
  <2> QED
    BY <1>1, <2>1, PortsStay
<1>8. Lists' /\ PortsWillClose' /\ todo'["system"] = <<>> \o Tail(todo["system"])
  BY <1>1, <1>2, <1>7, NothingReplaces, Continues DEF IInv
<1>9. Settled'
  <2>1. absorb \in BOOLEAN /\ mode \in Modes
    BY DEF IInv, TypeOK
  <2>2. todo'["system"] = <<>> \o Tail(S)
    BY <1>8
  <2> HIDE DEF S
  <2>3. Settles(Tail(S), absorb', mode')
    BY <1>3, <1>4, <1>5, <1>6, <2>1, GateSettles
  <2>4. <<>> \o Tail(S) = Tail(S)
    BY <1>3
  <2> QED
    BY <2>2, <2>3, <2>4 DEF Settled
<1>10. TypeOK'
  <2>1. todo' \in [Threads -> Seq(Steps)]
    BY <1>8 DEF Lists
  <2>2. First(t).down \in BOOLEAN
    BY <1>1, FirstKeys
  <2>3. absorb' \in BOOLEAN /\ mode' \in Modes
    BY <1>6, <2>2 DEF IInv, TypeOK, Modes
  <2> QED
    BY <1>1, <2>1, <2>3 DEF IInv, TypeOK, states
<1> QED
  BY <1>8, <1>9, <1>10 DEF IInv

LEMMA InvNext == IInv /\ [Next]_vars => IInv'
<1> SUFFICES ASSUME IInv, [Next]_vars
             PROVE  IInv'
  OBVIOUS
<1>1. CASE UNCHANGED vars
  BY <1>1, StutteringKeeps
<1>2. CASE \E k \in physical, down \in BOOLEAN : KeyMessage(k, down) \/ UnhookedKey(k, down)
  BY <1>2, KeyMessageKeeps, UnhookedKeyKeeps
<1>3. CASE ToggleComesUp \/ ToNormal \/ ToInsert \/ ResizeWindow \/ SwitchWindow
           \/ (\E keys \in Strokes : Stroke(keys) \/ SendExternal(keys)) \/ RefreshToggleState \/ Terminate
  BY <1>3, ToggleComesUpKeeps, ToNormalKeeps, ToInsertKeeps, ResizeWindowKeeps,
     SwitchWindowKeeps, StrokeKeeps, RefreshToggleStateKeeps, TerminateKeeps
<1>4. CASE \E t \in Threads :
             \/ DoDecide(t) \/ DoPorts(t) \/ DoSend(t)
             \/ DoVirtual(t) \/ DoLook(t) \/ DoGate(t)
  BY <1>4, DoDecideKeeps, DoPortsKeeps, DoSendKeeps, DoVirtualKeeps, DoLookKeeps, DoGateKeeps
<1>5. CASE DoForget \/ DoWait \/ DoVerify \/ SendFails \/ Uninstall
  BY <1>5, DoForgetKeeps, DoWaitKeeps, DoVerifyKeeps, SendFailsKeeps, UninstallKeeps
<1> QED
  BY <1>1, <1>2, <1>3, <1>4, <1>5 DEF Next

LEMMA Invariant == Spec => []IInv
  BY InvInit, InvNext, PTL DEF Spec

-----------------------------------------------------------------------------
(* The theorems.                                                           *)

(* The variables have their types, and each list of what is still to do    *)
(* consists of steps that concern keys of the keyboard.                    *)
THEOREM TypeCorrect == Spec => []TypeOK
<1>1. IInv => TypeOK
  BY DEF IInv
<1> QED
  BY <1>1, Invariant, PTL

(* Whichever function waited or failed, and wherever it did, the keyboard  *)
(* is absorbed afterwards as the mode wants it (~ScopedKey,                *)
(* ~InstantKeyAbsorber, BindedFunc::process): at every moment the steps    *)
(* that are still to come, or the destructors of those that an exception   *)
(* skips, lead there.                                                      *)
THEOREM AbsorptionSettles == Spec => []AbsorptionUnwinds
<1>1. IInv => AbsorptionUnwinds
  BY IdleAgrees, TheThreads DEF IInv, AbsorptionUnwinds, AllIdle, Agrees
<1> QED
  BY <1>1, Invariant, PTL

(* While the keyboard is absorbed and no function is being executed but    *)
(* one that waits, what the user strikes reaches no program (hook_proc):   *)
(* an open port is closed again before the thread that opened it waits,    *)
(* whatever the two threads do in between, and the hook does not decide    *)
(* about a key while it has a port open itself.  The ports of physical keys*)
(* that pushup() leaves open are excepted (LeftOpen), and so is the time   *)
(* after a SendInput() that failed.                                        *)
THEOREM PortsAreClosedInTime == Spec => BlocksKeyMessages
<1>1. ASSUME IInv, DoDecide("hook"), absorb, ~fails, Idle("system") \/ Waiting,
             app' # app
      PROVE  \E k \in First("hook").keys : Identity(mode, k) \/ k \in LeftOpen
  <2> DEFINE H == todo["hook"]
  <2>0. Lists /\ PortsWillClose /\ "hook" \in Threads /\ "system" \in Threads
    BY <1>1, TheThreads DEF IInv
  <2>1. ~Idle("hook") /\ First("hook").op = "decide"
    BY <1>1 DEF DoDecide, Doing
  <2>2. /\ H \in Seq(Steps) /\ First("hook") \in Steps
        /\ First("hook") = H[1] /\ DOMAIN H = 1..Len(H) /\ Len(H) \in Nat \ {0}
    BY <2>0, <2>1, FirstStep
  <2>3. First("hook").keys \in SUBSET Keys
    BY <1>1, <2>0, <2>1, FirstKeys
  <2>4. Len(H) = 1
    BY <2>0, <2>1, <2>2 DEF Lists, HookList
  <2>5. PICK k \in First("hook").keys : Passes(k)
    <3>1. \A k \in First("hook").keys : Passes(k)
      BY <1>1 DEF DoDecide
    <3>2. First("hook").keys # {}
      BY <1>1 DEF DoDecide, Put
    <3> QED
      BY <3>1, <3>2
  <2>6. ASSUME k \in port, k \notin LeftOpen
        PROVE  FALSE
    <3>1. PICK t \in Threads : Reaches(todo[t], Shutting(k), Barriers)
      BY <1>1, <2>0, <2>3, <2>6 DEF PortsWillClose
    <3>2. ~Reaches(H, Shutting(k), Barriers)
      <4>1. H[1] \notin Shutting(k)
        BY <2>1, <2>2 DEF Shutting
      <4> QED
        BY <2>2, <2>4, <4>1 DEF Reaches
    <3>3. ~Reaches(todo["system"], Shutting(k), Barriers)
      <4>1. todo["system"] \in Seq(Steps) /\ (Idle("system") \/ First("system") \in Barriers)
        BY <1>1, <2>0, WaitingList
      <4>2. todo["system"] = <<>> \/ Head(todo["system"]) \in Barriers
        BY <4>1 DEF Idle, First
      <4> QED
        BY <4>1, <4>2, Stopped
    <3> QED
      BY <3>1, <3>2, <3>3, TheThreads
  <2> QED
    BY <1>1, <2>5, <2>6 DEF Passes
<1> DEFINE Blocked ==
      DoDecide("hook") /\ absorb /\ ~fails /\ (Idle("system") \/ Waiting) =>
        \/ app' = app
        \/ \E k \in First("hook").keys : Identity(mode, k) \/ k \in LeftOpen
<1>2. IInv /\ [Next]_vars => [Blocked]_vars
  BY <1>1
<1> HIDE DEF Blocked
<1>3. Spec => [][Blocked]_vars
  BY <1>2, Invariant, PTL DEF Spec
<1> QED
  BY <1>3 DEF Blocked, BlocksKeyMessages

=============================================================================
