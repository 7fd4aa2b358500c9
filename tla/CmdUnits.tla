------------------------------ MODULE CmdUnits ------------------------------
(***************************************************************************)
(* Key codes and command units (src/src/core/keycode.cpp, cmdunit.cpp).    *)
(*                                                                         *)
(* A command unit is the set of keys that are held together: <ctrl-b> is   *)
(* the unit {ctrl, b}.  A command is a sequence of units.  What the        *)
(* matchers tell apart about a key is kept in the constants below; the     *)
(* numeric codes, the names and the keyboard layout are abstracted.        *)
(***************************************************************************)
EXTENDS FiniteSets, Sequences, Integers

CONSTANTS
  Keys,        \* the key codes of the instance
  SystemKeys,  \* is_major_system(): the keys known by a name (<shift>, <esc>)
  UnrealKeys,  \* is_unreal(): keys no keyboard sends (<shift>, <any>, <num>)
  RepOf,       \* to_representative(): <lshift> |-> <shift>, else NoKey
  NoKey,       \* the empty key code
  OPTIONAL,    \* KEYCODE_OPTIONAL, written <any>
  OPTNUMBER,   \* KEYCODE_OPTNUMBER, written <num>
  TextUnits    \* the units in which some ordinary key shows a non-digit

Units == SUBSET Keys

ASSUME KeysAssumption ==
  /\ NoKey \notin Keys
  /\ {OPTIONAL, OPTNUMBER} \subseteq SystemKeys \cap UnrealKeys
  /\ SystemKeys \subseteq Keys
  /\ UnrealKeys \subseteq Keys
  /\ RepOf \in [Keys -> UnrealKeys \cup {NoKey}]
  /\ \A k \in UnrealKeys : RepOf[k] = NoKey
  \* keycode_to_unicode() shows nothing for a system key.
  /\ TextUnits \subseteq {u \in Units : u \ SystemKeys # {}}

IsSystemOnly(u) == u \subseteq SystemKeys

(* A key of a trigger answers to an input key: the same key, or one is the *)
(* representative of the other.                                            *)
AnswersTo(k, in) ==
  \/ k = in
  \/ IF in \in UnrealKeys THEN RepOf[k] = in ELSE k = RepOf[in]

(* Every input key is answered by the unit, every key of the unit is hit.  *)
UnitMatches(unit, u) ==
  /\ \A in \in u : \E k \in unit : AnswersTo(k, in)
  /\ \A k \in unit : \E in \in u : AnswersTo(k, in)

(* <any> covers every input from its position on; <num> covers an input    *)
(* that shows no text; an ordinary unit covers the inputs it matches.      *)
IsAny(unit) == OPTIONAL \in unit
IsNum(unit) == OPTIONAL \notin unit /\ OPTNUMBER \in unit
Covers(unit, u) ==
  \/ IsAny(unit)
  \/ IsNum(unit) /\ u \notin TextUnits
  \/ ~IsAny(unit) /\ ~IsNum(unit) /\ UnitMatches(unit, u)

=============================================================================
