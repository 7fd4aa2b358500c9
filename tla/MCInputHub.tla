----------------------------- MODULE MCInputHub -----------------------------
(* Instances of InputHub.                                                  *)
EXTENDS InputHub

CONSTANTS g, j, t, k, one, zero, any, num, none, top, down, insert

MCKeys == {g, j, t, k, one, zero, any, num}
MCRepOf == [x \in MCKeys |-> none]
MCTextUnits == {u \in SUBSET MCKeys : {g, j, t, k} \cap u # {}}
MCDigitsOf ==
  [u \in SUBSET MCKeys |->
     (IF zero \in u THEN <<0>> ELSE <<>>) \o (IF one \in u THEN <<1>> ELSE <<>>)]

Key(x) == [keys |-> {x}, does |-> Plain]
Fun(f) == [keys |-> {}, does |-> f]
Bind(trigger, target) == [trigger |-> trigger, target |-> target]

Default == << Bind(<<{g}, {g}>>, <<Fun(top)>>), Bind(<<{j}>>, <<Fun(down)>>) >>

(* t moves twice, then begins gg; k changes the mode and moves on in the   *)
(* other one.                                                              *)
Normal == [ default  |-> Default,
            noremaps |-> <<>>,
            maps     |-> << Bind(<<{t}>>, <<Key(j), Key(j), Key(g)>>),
                            Bind(<<{k}>>, <<Fun(insert), Key(j)>>) >> ]

(* inoremap of a key that is not bound                                     *)
Insert == [ default |-> <<>>,
            noremaps |-> << Bind(<<{j}>>, <<Key(k)>>) >>,
            maps |-> <<>> ]

MCRegistries == {Normal, Insert}

(* The digits go down together: 1 the first time, since a zero does not    *)
(* begin a count, 101 the second.  k is typed by a request.                *)
MCRaws == {{}, {g}, {t}, {zero, one}}
MCRequests == {<<Fun(down), Key(k)>>}

=============================================================================
