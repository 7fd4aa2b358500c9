---------------------------- MODULE MCEasyClick ----------------------------
(* An instance of EasyClick.                                               *)
EXTENDS EasyClick

CONSTANTS a, s, d, esc, bs, any, num1, none

MCLabels == <<a, s, d>>
MCKeys == {a, s, d, esc, bs, any, num1}
MCRepOf == [k \in MCKeys |-> none]
MCTextUnits == {u \in SUBSET MCKeys : {a, s, d} \cap u # {}}
MCInputs == {{}, {a}, {s}, {d}, {a, s}, {esc, a}, {bs}}

=============================================================================
