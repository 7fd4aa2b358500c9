--------------------------- MODULE MCCmdMatcher ---------------------------
(* Instances of CmdMatcher.                                                *)
EXTENDS CmdMatcher

CONSTANTS shift, lshift, one, f, any, num, none

MCKeys == {shift, lshift, one, f, any, num}
MCRepOf == [k \in MCKeys |-> IF k = lshift THEN shift ELSE none]

(* shift-1 shows a '!', and f is no digit.                                 *)
MCTextUnits == {u \in SUBSET MCKeys : f \in u \/ {shift, one} \subseteq u}

MCInputs == {{shift}, {one}, {f}, {shift, f}, {lshift, f}, {shift, one}}

(* Triggers without a <num> before the last unit.                          *)
Plain == { <<>>, <<{f}>>, <<{shift, f}, {shift, f}>>, <<{lshift, f}, {one}>>,
           <<{f}, {any}>>, <<{one}, {any}, {f}>>, <<{num}>>, <<{f}, {num}>> }

(* One <num>, with units to follow.                                        *)
Numbered == { <<{f}, {num}, {f}>>, <<{num}, {shift, f}, {any}>>,
              <<{num}, {one}>> }

PlainAndNumbered == Plain \cup Numbered

=============================================================================
