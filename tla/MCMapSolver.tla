---------------------------- MODULE MCMapSolver ----------------------------
(* Instances of MapSolver.                                                 *)
EXTENDS MapSolver

CONSTANTS shift, one, f, g, any, num, none

MCKeys == {shift, one, f, g, any, num}
MCRepOf == [k \in MCKeys |-> none]
MCTextUnits == {u \in SUBSET MCKeys : {f, g} \cap u # {} \/ {shift, one} \subseteq u}
MCInputs == {{shift}, {one}, {f}, {g}, {shift, f}, {}}

Map(trigger) == [trigger |-> trigger, target |-> <<{f}>>]

(* Shared prefixes, a trigger that is the beginning of another one, the    *)
(* shifted pair of the comment, and the two keywords.                      *)
MCDeployments ==
  { <<>>,
    <<Map(<<{f}, {f}>>), Map(<<{f}, {g}>>), Map(<<{g}>>)>>,
    <<Map(<<{g}, {f}>>), Map(<<{g}>>)>>,
    <<Map(<<{g}, {g}, {f}>>), Map(<<{g}, {any}>>)>>,
    <<Map(<<{shift, f}, {shift, f}>>), Map(<<{f}, {g}>>)>>,
    <<Map(<<{f}, {num}, {g}>>), Map(<<{num}>>)>>,
    <<Map(<<{g}>>), Map(<<{f}, {num}>>), Map(<<{f}, {one}>>)>> }

=============================================================================
