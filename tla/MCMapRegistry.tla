--------------------------- MODULE MCMapRegistry ---------------------------
(* Instances of MapRegistry.                                               *)
EXTENDS MapRegistry

CONSTANTS a, b, c, space, any, num, none, click, insert

MCKeys == {a, b, c, space, any, num}
MCRepOf == [k \in MCKeys |-> none]
MCTextUnits == {u \in SUBSET MCKeys : {a, b, c} \cap u # {}}

Key(k) == [keys |-> {k}, does |-> Plain]
Ext(k) == [keys |-> {k}, does |-> External]
Fun(f) == [keys |-> {}, does |-> f]
Default(trigger, f) == [trigger |-> trigger, target |-> <<Fun(f)>>]

(* One default table with a trigger of two units and one with a function   *)
(* that changes the mode.                                                  *)
MCDefaults ==
  { <<Default(<<{a}>>, click), Default(<<{b}, {b}>>, insert)>>,
    <<Default(<<{b}>>, insert)>> }

MCTriggers == {<<{a}>>, <<{b}>>}

(* One name, which is a key of the targets above, defined in two ways.     *)
MCCommands == { [trigger |-> <<{c}>>, target |-> <<Key(a)>>],
                [trigger |-> <<{c}>>, target |-> <<Fun(click), Key(b)>>] }

LoopTriggers == {<<{a}>>, <<{b}>>, <<{c}>>}

MCTargets == { <<Key(a)>>, <<Key(b)>>, <<Key(c), Key(b)>>,
               <<Ext(b)>>, <<Fun(click), Key(a), Ext(a)>> }

(* Chains and loops of single keys, with and without a default behind.     *)
LoopTargets == {<<Key(a)>>, <<Key(b)>>, <<Key(c)>>}

=============================================================================
