---------------------------- MODULE TriggerLine ----------------------------
(***************************************************************************)
(* What a MapSolver promises its callers, without matchers: a line of      *)
(* inputs grows until it spells a trigger or can no longer become one.     *)
(* A unit of system keys alone that leads nowhere is ignored, so that      *)
(* <s-f><s-f> can be typed with the <shift> released in between            *)
(* (the comment in map_command_from, src/src/core/mapsolver.cpp).          *)
(***************************************************************************)
EXTENDS Matching

CONSTANT Inputs, MaxHistory

VARIABLES
  deployed,  \* the maps
  word,      \* the line
  fired,     \* the map that fired at the last input, 0 for none
  alive

vars == <<deployed, word, fired, alive>>

Init ==
  /\ word = <<>>
  /\ fired = 0
  /\ alive = TRUE

Dead(w) == \A i \in 1..Len(deployed) : ~Begins(deployed[i].trigger, w, Len(w))

(* The triggers that the line is with its new unit u.  The empty unit, a   *)
(* bound function on its way through the queues, fires nothing.            *)
Spelled(u) ==
  LET w == Append(word, u)
  IN  IF u = {} THEN {}
      ELSE {i \in 1..Len(deployed) : Spells(deployed[i].trigger, w, Len(w))}

(* The line goes on, or is started anew when the caller says so.           *)
Continue(u) == word' = Append(word, u)
EndLine(u, autoReset) == IF autoReset THEN word' = <<>> ELSE Continue(u)

(* The unit is one that no line can go on with, but may be held down.      *)
Ignore(u) ==
  /\ u \subseteq SystemKeys
  /\ fired' = 0
  /\ word' = word
  /\ Dead(Append(word, u))

Abandon(u, autoReset) ==
  /\ ~(u \subseteq SystemKeys)
  /\ fired' = 0
  /\ EndLine(u, autoReset)
  /\ Dead(Append(word, u))

Wait(u) ==
  /\ fired' = 0
  /\ Continue(u)
  /\ ~Dead(Append(word, u))
  /\ Spelled(u) = {}

Fire(u, autoReset) ==
  /\ fired' # 0
  /\ EndLine(u, autoReset)
  /\ fired' \in Spelled(u)
  /\ \A i \in Spelled(u) : fired' <= i

Feed(u, autoReset) ==
  /\ Ignore(u) \/ Abandon(u, autoReset) \/ Wait(u) \/ Fire(u, autoReset)
  /\ UNCHANGED <<deployed, alive>>

TakeBack(n) ==
  /\ word' = SubSeq(word, 1, Len(word) - n)
  /\ fired' = 0
  /\ UNCHANGED <<deployed, alive>>

(* The one thing that can go wrong: a call that does not return.           *)
Overflow ==
  /\ alive
  /\ alive' = FALSE
  /\ fired' = 0
  /\ UNCHANGED <<deployed, word>>

Next ==
  \/ \E u \in Inputs, autoReset \in BOOLEAN : Feed(u, autoReset)
  \/ \E n \in 0..Len(word) : TakeBack(n)
  \/ Overflow

Spec == Init /\ [][Next]_vars

=============================================================================
