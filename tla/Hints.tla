------------------------------- MODULE Hints -------------------------------
(***************************************************************************)
(* The labels of EasyClick (src/src/bind/easyclick/easyclickhint.cpp):     *)
(* words of at most three letters.  Letters that begin a short word begin  *)
(* no longer one.                                                          *)
(***************************************************************************)
EXTENDS Integers, Sequences

CONSTANT Labels \* gcx_labels

L == Len(Labels)

ASSUME LabelsAssumption ==
  /\ L \in Nat \ {0}
  /\ \A i, j \in 1..L : Labels[i] = Labels[j] => i = j

(* The k-th word of the given length, from 0, when words are counted with  *)
(* the letters as digits and the first one starts with the letter first.   *)
Letter(k) == Labels[k + 1]
Word1(first, k) == <<Letter(first + k)>>
Word2(first, k) == <<Letter(first + k \div L), Letter(k % L)>>
Word3(k) == <<Letter(k \div (L * L)), Letter((k \div L) % L), Letter(k % L)>>

NonNegative(x) == IF x > 0 THEN x ELSE 0

(* Mutant: as many letters begin long words as are filled with them.       *)
AssignRoundingDown(count) ==
  CASE count <= L -> [i \in 1..count |-> Word1(0, i - 1)]
    [] count > L /\ count <= L * L ->
         LET l2 == count \div L
             short == NonNegative(L - l2)
         IN  [i \in 1..count |-> IF i <= short THEN Word1(l2, i - 1)
                                 ELSE Word2(0, (i - 1 - short) % (L * L))]
    [] count > L * L ->
         LET l3 == count \div (L * L)
             short == NonNegative(L - l3) * L
         IN  [i \in 1..(IF count < L * L * L THEN count ELSE L * L * L) |->
                IF i <= short THEN Word2(l3, i - 1) ELSE Word3(i - 1 - short)]

(* assign_identifier_hints(): hints.at() ends the loop over the long words *)
(* when all hints are filled.                                              *)
Assign(count) ==
  CASE count <= L -> [i \in 1..count |-> Word1(0, i - 1)]
    [] count > L /\ count <= L * L ->
         LET l2 == count \div L + 1
             short == NonNegative(L - l2)
         IN  [i \in 1..count |-> IF i <= short THEN Word1(l2, i - 1)
                                 ELSE Word2(0, i - 1 - short)]
    [] count > L * L ->
         LET l3 == count \div (L * L) + 1
             short == NonNegative(L - l3) * L
         IN  [i \in 1..(IF count < L * L * L THEN count ELSE L * L * L) |->
                IF i <= short THEN Word2(l3, i - 1) ELSE Word3(i - 1 - short)]

IsPrefixOf(v, w) == Len(v) <= Len(w) /\ SubSeq(w, 1, Len(v)) = v

(* Whatever number of positions was found, up to three letters for each,   *)
(* typing the letters of a label chooses its position and no other: no     *)
(* label is empty or the beginning of another one (assign_identifier_hints)*)
HintsAreDistinct ==
  \A count \in 1..(L * L * L + 1) :
    LET hints == Assign(count)
    IN  /\ Len(hints) = IF count < L * L * L THEN count ELSE L * L * L
        /\ \A i, j \in DOMAIN hints :
             hints[i] # <<>> /\ (IsPrefixOf(hints[i], hints[j]) => i = j)

=============================================================================
