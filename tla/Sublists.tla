------------------------------ MODULE Sublists ------------------------------
(* What is left of a sequence when some of its elements go away.           *)
EXTENDS Integers, Sequences

(* The elements of a sequence that are in a set, in their order.           *)
Among(seq, set) ==
  LET upTo[n \in 0..Len(seq)] ==
        IF n = 0 THEN <<>>
        ELSE IF seq[n] \in set THEN Append(upTo[n - 1], seq[n])
        ELSE upTo[n - 1]
  IN  upTo[Len(seq)]

=============================================================================
