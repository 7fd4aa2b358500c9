--------------------------- MODULE CommandParser ---------------------------
(***************************************************************************)
(* parse_command() of src/src/core/cmdparser.cpp: the units that a text    *)
(* consists of, where each of them begins and what it does.  The keys of a *)
(* unit are left out.  Every character is one that a key can type.         *)
(***************************************************************************)
EXTENDS Integers, Sequences

CONSTANTS
  FunctionNames,  \* what search_func() finds
  ExitNames,      \* those of them that return TERMINATE
  KeyNames        \* what parse_combined_command() takes for keys: <ctrl-x>

UnitKinds == {
  "function",  \* <click_left>
  "exit",      \* <exit>
  "key",       \* j, a key for win-vind
  "external",  \* j in {ij}, a key for the other programs
  "bad"        \* what parse_command() throws at
}

ParsedUnits == [at : Nat, kind : UnitKinds]

(* find_first_of(): where c is in the text, from i on, or 0                *)
FindFrom(text, c, i) ==
  LET found == {n \in i..Len(text) : text[n] = c}
  IN  IF found = {} THEN 0 ELSE CHOOSE n \in found : \A k \in found : n <= k

(* The scope that begins at i: where its first and last units may begin,   *)
(* where the next one does, and whether its keys are for other programs.   *)
ScopeFrom(text, i) ==
  LET brace == IF text[i] = "{" THEN i ELSE FindFrom(text, "{", i + 1)
      end == IF brace = 0 THEN 0 ELSE FindFrom(text, "}", brace + 1)
  IN  IF end = 0
      THEN [from |-> i, to |-> Len(text), next |-> Len(text) + 1, external |-> FALSE]
      ELSE IF brace = i
      THEN [from |-> i + 1, to |-> end - 1, next |-> end + 1, external |-> TRUE]
      ELSE [from |-> i, to |-> brace - 1, next |-> brace, external |-> FALSE]

(* Where the unit that begins at i ends: a name, wherever the scope does.  *)
UnitEnd(text, i) ==
  LET gt == FindFrom(text, ">", i + 1)
  IN  IF text[i] # "<" THEN i ELSE IF gt = 0 THEN Len(text) ELSE gt

UnitKind(text, i, external) ==
  LET gt == FindFrom(text, ">", i + 1)
      name == SubSeq(text, i + 1, gt - 1)
      keys == IF external THEN "external" ELSE "key"
  IN  CASE text[i] # "<" -> keys
        [] text[i] = "<" /\ gt = 0 -> "bad"
        [] text[i] = "<" /\ gt # 0 /\ name \in ExitNames -> "exit"
        [] text[i] = "<" /\ gt # 0 /\ name \in FunctionNames \ ExitNames -> "function"
        [] text[i] = "<" /\ gt # 0 /\ name \in KeyNames \ FunctionNames -> keys
        [] OTHER -> "bad"

(* The character at i is read: a scope may begin, and in it a unit.  A     *)
(* name that goes beyond its scope is read again in the next one.          *)
ReadAt(text, reader, i) ==
  LET begins == i = reader.scope.next
      scope == IF begins THEN ScopeFrom(text, i) ELSE reader.scope
      at == IF begins THEN scope.from ELSE reader.at
  IN  IF i = at /\ i <= scope.to
      THEN [scope |-> scope, at |-> UnitEnd(text, i) + 1,
            units |-> Append(reader.units,
                             [at |-> i, kind |-> UnitKind(text, i, scope.external)])]
      ELSE [scope |-> scope, at |-> at, units |-> reader.units]

Unread ==
  [scope |-> [from |-> 1, to |-> 0, next |-> 1, external |-> FALSE],
   at |-> 1, units |-> <<>>]

ParseCommand(text) ==
  LET read[n \in 0..Len(text)] ==
        IF n = 0 THEN Unread ELSE ReadAt(text, read[n - 1], n)
  IN  read[Len(text)].units

=============================================================================
