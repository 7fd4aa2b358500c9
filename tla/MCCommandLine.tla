--------------------------- MODULE MCCommandLine ---------------------------
(* Instances of CommandLine.                                               *)
EXTENDS CommandLine

CONSTANTS e, d, shift, esc, bs, upkey, downkey, enter, any, num, none, edit, delete, exit

MCControls == {esc, bs, upkey, downkey, enter}
MCSystemKeys == MCControls \cup {shift, any, num}
MCKeys == MCSystemKeys \cup {e, d}
MCRepOf == [k \in MCKeys |-> none]
MCTextUnits == {u \in SUBSET MCKeys : {e, d} \cap u # {}}

Key(x) == [keys |-> {x}, does |-> Plain]
Fun(f) == [keys |-> {}, does |-> f]
Bind(trigger, target) == [trigger |-> trigger, target |-> target]

(* :e, with and without arguments, and :de; d mapped to something that is  *)
(* written, and :ee.                                                       *)
Commands == << Bind(<<{e}>>, <<Fun(edit)>>),
               Bind(<<{d}, {e}>>, <<Fun(exit)>>),
               Bind(<<{e}, {any}>>, <<Fun(delete)>>) >>
Mapped == << Bind(<<{d}>>, <<Key(e), Key(d)>>),
             Bind(<<{e}, {e}>>, <<Fun(edit), Key(d)>>) >>

MCTables == {Commands, Mapped}
MCInputs ==
  {{}, {e}, {d}, {shift}, {esc}, {bs}, {upkey}, {downkey}, {enter}, {upkey, enter}}

=============================================================================
