-------------------------- MODULE MCTypingEmulator --------------------------
(* Instances of TypingEmulator.                                            *)
EXTENDS TypingEmulator

CONSTANTS shift, ctrl, f, g, h, any, num, none

MCKeys == {shift, ctrl, f, g, h, any, num}
MCRepOf == [k \in MCKeys |-> none]
MCTextUnits == {u \in SUBSET MCKeys : {f, g, h} \cap u # {}}

=============================================================================
