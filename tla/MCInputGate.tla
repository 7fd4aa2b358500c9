----------------------------- MODULE MCInputGate -----------------------------
(* Instances of InputGate.  LCTRL is a key of its own; CTRL stands for it  *)
(* and for the other one, and is sent as it.                               *)
EXTENDS InputGate

CONSTANTS ctrl, lctrl, lalt, caps, esc, tab, down, f5, none

MCKeys == {ctrl, lctrl, lalt, caps, esc, tab, down, f5}
MCOrder == <<tab, ctrl, caps, esc, down, f5, lctrl, lalt>>
MCRepOf == [k \in MCKeys |-> IF k = lctrl THEN ctrl ELSE none]
MCPhysOf == [k \in MCKeys |-> IF k = ctrl THEN lctrl ELSE k]

(* In normal mode <capslock> is <esc>, and <f5> is let through.            *)
(* The stroke <ctrl-esc> of the configuration opens and closes the port of *)
(* <esc>, as the hotkey does in the hook.                                  *)
MCHotkeys ==
  [m \in Modes |-> [k \in MCKeys |->
     IF m = "insert" THEN {}
     ELSE IF k = caps THEN {esc} ELSE IF k = f5 THEN {f5} ELSE {}]]

=============================================================================
