----------------------------- MODULE LineEditor -----------------------------
(***************************************************************************)
(* What the user of a command line expects, without entries that are       *)
(* shared by pointers: a line that is edited, the lines entered before it, *)
(* which nothing ever changes, and a position that <up> and <down> move    *)
(* among them.                                                             *)
(***************************************************************************)
EXTENDS Integers, Sequences

VARIABLES
  past,     \* the lines that were entered, the latest one last
  line,     \* the line that is edited
  at,       \* the position that is shown: Len(past) + 1 is the line itself
  editing

vars == <<past, line, at, editing>>

Init == past = <<>> /\ line = <<>> /\ at = 1 /\ editing = FALSE

Begin ==
  /\ ~editing
  /\ editing' = TRUE /\ line' = <<>> /\ at' = Len(past) + 1
  /\ past' = past

Type ==
  /\ editing
  /\ Len(line') = Len(line) + 1
  /\ SubSeq(line', 1, Len(line)) = line
  /\ UNCHANGED <<past, at, editing>>

Erase ==
  /\ editing /\ line # <<>>
  /\ line' = SubSeq(line, 1, Len(line) - 1)
  /\ UNCHANGED <<past, at, editing>>

(* A line from the past is edited as a copy of it.                         *)
Older ==
  /\ editing /\ at > 1
  /\ at' = at - 1 /\ line' = past[at - 1]
  /\ UNCHANGED <<past, editing>>

Newer ==
  /\ editing /\ at <= Len(past)
  /\ at' = at + 1
  /\ line' = IF at = Len(past) THEN <<>> ELSE past[at + 1]
  /\ UNCHANGED <<past, editing>>

End ==
  /\ editing
  /\ editing' = FALSE /\ line' = <<>> /\ at' = Len(past') + 1

Leave == End /\ past' = past
Enter == End /\ past' = Append(past, line)

Next == Begin \/ Type \/ Erase \/ Older \/ Newer \/ Leave \/ Enter

Spec == Init /\ [][Next]_vars

=============================================================================
