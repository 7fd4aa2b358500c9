----------------------------- MODULE HintChoice -----------------------------
(***************************************************************************)
(* What the user of EasyClick expects of the labels that are shown: they   *)
(* are narrowed down letter by letter, <bs> takes a letter back, and what  *)
(* is clicked is what the letters spell.                                   *)
(***************************************************************************)
EXTENDS Integers, Sequences

VARIABLES
  labels,     \* what is offered, a word for each position
  candidates, \* the labels that are still to choose from
  typed,      \* the letters so far
  open,       \* the labels are offered
  choice,     \* the position that was clicked last, 0 if none
  failed      \* the function failed, and the program ends

vars == <<labels, candidates, typed, open, choice, failed>>

(* The letters so far are the beginning of no label.                       *)
Astray == <<"astray">>

Init ==
  /\ labels = <<>> /\ candidates = {} /\ typed = <<>>
  /\ open = FALSE /\ choice = 0 /\ failed = FALSE

Beginning(word) ==
  {i \in DOMAIN labels :
     /\ Len(word) <= Len(labels[i])
     /\ SubSeq(labels[i], 1, Len(word)) = word}

Offer ==
  /\ ~open /\ ~failed
  /\ open' = TRUE /\ typed' = <<>> /\ candidates' = DOMAIN labels'
  /\ choice' = 0 /\ failed' = failed

Spelled == {i \in DOMAIN labels : typed = labels[i]}

Narrow ==
  /\ open /\ typed # Astray /\ Spelled = {}
  /\ typed' # Astray /\ Len(typed') = Len(typed) + 1
  /\ SubSeq(typed', 1, Len(typed)) = typed
  /\ candidates' = Beginning(typed') /\ candidates' # {}
  /\ UNCHANGED <<labels, open, choice, failed>>

GoAstray ==
  /\ open /\ Spelled = {}
  /\ typed' = Astray /\ candidates' = {}
  /\ UNCHANGED <<labels, open, choice, failed>>

TakeBack ==
  /\ open /\ typed \notin {<<>>, Astray} /\ Spelled = {}
  /\ typed' = SubSeq(typed, 1, Len(typed) - 1)
  /\ candidates' = Beginning(typed')
  /\ UNCHANGED <<labels, open, choice, failed>>

Choose ==
  /\ open
  /\ open' = FALSE /\ choice' \in Spelled
  /\ UNCHANGED <<labels, candidates, typed, failed>>

Leave ==
  /\ open /\ Spelled = {}
  /\ open' = FALSE
  /\ UNCHANGED <<labels, candidates, typed, choice, failed>>

Fail ==
  /\ open
  /\ open' = FALSE /\ failed' = TRUE
  /\ UNCHANGED <<labels, candidates, typed, choice>>

Next == Offer \/ Narrow \/ GoAstray \/ TakeBack \/ Choose \/ Leave \/ Fail

Spec == Init /\ [][Next]_vars

=============================================================================
