------------------------------- MODULE Typing -------------------------------
(***************************************************************************)
(* From the keys that are down to the units that are typed                 *)
(* (src/src/core/typeemu.cpp, lowlevel_to_typing).                         *)
(***************************************************************************)
EXTENDS CmdUnits

(* What a poll returns: a unit, or a null pointer when nothing was typed.  *)
Nothing == <<>>
Just(u) == <<u>>
UnitOf(t) == IF t = Nothing THEN {} ELSE t[1]

SystemPart(u) == u \cap SystemKeys
TextPart(u) == u \ SystemKeys

(* Mutant: the plain difference, without the merge.                        *)
DifferenceOnly(raw, prev) ==
  IF TextPart(raw) = {} /\ raw \ prev # {} THEN raw ELSE raw \ prev

(* What a change from prev to raw types: the keys that are new, with the   *)
(* system keys that are held; and system keys alone in full.               *)
Difference(raw, prev) ==
  IF TextPart(raw) = {} THEN IF raw \subseteq prev THEN {} ELSE raw
  ELSE (raw \ prev) \cup SystemPart(raw)

(* Mutant: a release is typed, as a unit without keys.                     *)
TypedEmptyToo(raw, prev, passed) ==
  IF raw = {} THEN Nothing
  ELSE IF raw = prev THEN IF passed THEN Just(raw) ELSE Nothing
  ELSE Just(Difference(raw, prev))

(* The unit of a poll that sees raw after a poll that saw prev.  passed is *)
(* the answer of the KeyStrokeRepeater, which is asked only when nothing   *)
(* changed.                                                                *)
Typed(raw, prev, passed) ==
  IF raw = {} THEN Nothing
  ELSE IF raw = prev THEN IF passed THEN Just(raw) ELSE Nothing
  ELSE IF Difference(raw, prev) = {} THEN Nothing
  ELSE Just(Difference(raw, prev))

=============================================================================
