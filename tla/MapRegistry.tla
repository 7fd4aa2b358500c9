---------------------------- MODULE MapRegistry ----------------------------
(***************************************************************************)
(* The tables of a MapSolver (src/src/core/mapsolver.cpp) and the commands *)
(* that edit them: what is registered, and what deploy() makes of it.      *)
(***************************************************************************)
EXTENDS Remapping

CONSTANTS
  Defaults,  \* the default maps of the instance, one table per mode
  Triggers,  \* the triggers the user maps
  Targets,   \* what the user maps them to
  Commands,  \* the commands the user defines, as maps
  SPACE,     \* the key between a command and its arguments
  MaxMaps,   \* bound on the maps of the user
  MaxEdits   \* bound on the edits between two deploys

(* A default table maps triggers, each listed once, to functions: it is    *)
(* what add_default() makes of the bindings in mapdefault.cpp.             *)
IsDefault(table) ==
  /\ table \in Seq(Map)
  /\ \A i \in 1..Len(table) :
       /\ table[i].trigger \in Seq(Units \ {{}})
       /\ table[i].target # <<>>
       /\ \A j \in 1..Len(table[i].target) : table[i].target[j].does \in Functions
  /\ \A i, j \in 1..Len(table) : table[i].trigger = table[j].trigger => i = j

ASSUME RegistryAssumption ==
  /\ \A table \in Defaults : IsDefault(table)
  /\ Triggers \subseteq Seq(Units) \ {<<>>}
  /\ Targets \subseteq Seq(TargetUnit)
  /\ Commands \subseteq Map
  /\ SPACE \in Keys
  /\ MaxMaps \in Nat
  /\ MaxEdits \in Nat

VARIABLES
  default,             \* default_, what deploy_default() made of the table
  registered_noremap,  \* registered_noremap_
  registered_map,      \* registered_map_
  deployed,            \* deployed_: trigger and target
  hotkeys,             \* k2ks_map_ and identity_map_ of the mode
  edits,               \* the edits since deploy(), all there is to forget
  alive                \* FALSE once deploy() recurses without end

vars ==
  <<default, registered_noremap, registered_map, deployed, hotkeys, edits, alive>>

UserMaps == registered_noremap \o registered_map

(* Mutant: the keys the hook rewrites are not cleared first.               *)
DeployTableKeepingHotkeys ==
  LET maps == SolvedMaps(default, registered_noremap, registered_map)
  IN  /\ deployed' = Among(maps, {m \in Map : ~IsHotkey(m)})
      /\ hotkeys' = hotkeys \cup {x \in Range(maps) : IsHotkey(x)}

(* deploy() of a table that it can solve                                   *)
DeployTable ==
  LET maps == SolvedMaps(default, registered_noremap, registered_map)
  IN  /\ deployed' = Among(maps, {m \in Map : ~IsHotkey(m)})
      /\ hotkeys' = {x \in Range(maps) : IsHotkey(x)}

(* The constructor of InputHub: the default targets are functions, which   *)
(* no default trigger matches, so deploy_default() solves to the table.    *)
Init ==
  /\ default \in Defaults
  /\ registered_noremap = <<>>
  /\ registered_map = <<>>
  /\ deployed = SolvedNoremaps(default, <<>>)
  /\ hotkeys = {}
  /\ edits = 0
  /\ alive = TRUE

Names == {m.trigger : m \in Commands}

(* The trigger of a command that is given arguments.                       *)
WithArguments(name) == name \o << {SPACE}, {OPTIONAL} >>

(* A command counts once, with its arguments.                              *)
Counted(maps) == SelectSeq(maps, LAMBDA m : Last(m.trigger) # {OPTIONAL})

(* What the edits share: nothing is solved before the next deploy().       *)
Edit ==
  /\ alive
  /\ edits < MaxEdits
  /\ edits' = edits + 1
  /\ Len(Counted(UserMaps')) <= MaxMaps
  /\ UNCHANGED <<default, deployed, hotkeys, alive>>

(* Mutant: a noremap of the same trigger stays.                            *)
AddMapKeepingNoremap(m) ==
  /\ registered_map' = Put(registered_map, m)
  /\ UNCHANGED registered_noremap
  /\ Edit

(* add_map(trigger, target)                                                *)
AddMap(m) ==
  /\ registered_map' = Put(registered_map, m)
  /\ registered_noremap' = RemoveTriggered(registered_noremap, m.trigger)
  /\ Edit

(* add_noremap(trigger, target)                                            *)
AddNoremap(m) ==
  /\ registered_map' = RemoveTriggered(registered_map, m.trigger)
  /\ registered_noremap' = Put(registered_noremap, m)
  /\ Edit

(* Mutant: a command that is defined again keeps its arguments.            *)
DefineCommandOnce(m) ==
  LET args == [m EXCEPT !.trigger = WithArguments(@)]
      known == args.trigger \in {x.trigger : x \in Range(registered_noremap)}
  IN  /\ registered_map' = RemoveTriggered(registered_map, m.trigger)
      /\ registered_noremap' =
           IF known THEN Put(registered_noremap, m)
           ELSE Put(Put(registered_noremap, m), args)
      /\ Edit

(* Command::sprocess(): the command without arguments, then the one that   *)
(* takes some.  (delcommand is RemoveMap, comclear is Clear.)              *)
DefineCommand(m) ==
  LET args == [m EXCEPT !.trigger = WithArguments(@)]
  IN  /\ registered_map' =
           RemoveTriggered(RemoveTriggered(registered_map, m.trigger), args.trigger)
      /\ registered_noremap' = Put(Put(registered_noremap, m), args)
      /\ Edit

(* remove(trigger): the second table is not looked at when the first had   *)
(* the trigger.                                                            *)
RemoveMap(trigger) ==
  /\ registered_map' = RemoveTriggered(registered_map, trigger)
  /\ registered_noremap' =
       IF registered_map' # registered_map THEN registered_noremap
       ELSE RemoveTriggered(registered_noremap, trigger)
  /\ Edit

(* clear()                                                                 *)
Clear ==
  /\ registered_map' = <<>>
  /\ registered_noremap' = <<>>
  /\ Edit

(* deploy(mode), for a mode that is not UNDEFINED: the only use in src/    *)
Deploy ==
  /\ alive
  /\ IF DeployReturns(default, registered_noremap, registered_map)
     THEN DeployTable /\ alive' = alive
     ELSE alive' = FALSE /\ UNCHANGED <<deployed, hotkeys>>
  /\ edits' = 0
  /\ UNCHANGED <<default, registered_noremap, registered_map>>

Next ==
  \/ \E t \in Triggers, g \in Targets :
       \/ AddMap([trigger |-> t, target |-> g])
       \/ AddNoremap([trigger |-> t, target |-> g])
  \/ \E m \in Commands : DefineCommand(m)
  \/ \E t \in Triggers \cup Names : RemoveMap(t)
  \/ Clear
  \/ Deploy

Spec == Init /\ [][Next]_vars

-----------------------------------------------------------------------------

(* Types; and no map is deployed that expands to nothing, which the callers*)
(* of map_command_from() could not tell from a unit that nobody matched.   *)
TypeOK ==
  /\ default \in Defaults
  /\ registered_noremap \in Seq(Map)
  /\ registered_map \in Seq(Map)
  /\ deployed \in Seq(Map)
  /\ \A i \in DOMAIN deployed : deployed[i].target # <<>>
  /\ hotkeys \subseteq Map
  /\ edits \in 0..MaxEdits
  /\ alive \in BOOLEAN

(* A trigger has one meaning: "noremap and map are disjoint" (the comment  *)
(* in deploy()), no table lists a trigger twice, and no key that the hook  *)
(* rewrites is also waited for by a matcher.                               *)
OneMeaning ==
  /\ IsInjective([i \in DOMAIN UserMaps |-> UserMaps[i].trigger])
  /\ IsInjective([i \in DOMAIN deployed |-> deployed[i].trigger])
  /\ \A h \in hotkeys : h.trigger \notin {m.trigger : m \in Range(deployed)}

Solvable(noremaps, maps) == DeployReturns(default, noremaps, maps)

(* What a key means is decided by the maps, not by the order the .vindrc   *)
(* lists them in: deploy() solves every map against the whole table.       *)
OrderIrrelevant ==
  \A n \in SetToSeqs(Range(registered_noremap)),
     m \in SetToSeqs(Range(registered_map)) :
    Solvable(registered_noremap, registered_map) =>
      Range(SolvedMaps(default, n, m)) =
        Range(SolvedMaps(default, registered_noremap, registered_map))

(* "the mapping destination is always interpreted as the default binding": *)
(* no other map of the user shows in the target of a deployed noremap      *)
(* (docs/usage/index.md, deploy()).                                        *)
NoremapAlone ==
  \A i \in DOMAIN registered_noremap :
    LET n == registered_noremap[i]
        TargetIn(solved) == {m.target : m \in {x \in Range(solved) : x.trigger = n.trigger}}
    IN  Solvable(registered_noremap, registered_map) =>
          TargetIn(SolvedMaps(default, registered_noremap, registered_map)) =
            TargetIn(SolvedMaps(default, <<n>>, <<>>))

(* A default binding is deployed unless the user mapped its trigger, and a *)
(* map that solves to nothing leaves it in place: no step of deploy()      *)
(* drops a trigger that nobody asked to change.                            *)
DefaultsSurvive ==
  [][Deploy /\ alive' =>
       \A i \in DOMAIN default :
         LET d == default[i]
         IN  \/ d \in Range(deployed')
             \/ d.trigger \in {m.trigger : m \in Range(registered_noremap)}
             \/ /\ d.trigger \in {m.trigger : m \in Range(registered_map)}
                /\ d.trigger \in {m.trigger : m \in Range(deployed') \cup hotkeys'}
    ]_vars

(* Unmapping leaves no trace: once the user has no maps, deploy() brings   *)
(* back the default bindings, and the hook rewrites nothing any more,      *)
(* whatever had been mapped, deployed and removed before.                  *)
NoTraceOfRemoved ==
  [][Deploy /\ UserMaps = <<>> =>
       /\ Range(deployed') = Range(default)
       /\ hotkeys' = {}]_vars

(* A command means with arguments what it means without, however often it  *)
(* was defined anew, deleted and deployed; one that is mapped to itself is *)
(* left to its default (Command::sprocess, deploy()).                      *)
CommandsTakeArguments ==
  [][Deploy /\ alive' =>
       \A m \in Range(deployed') \cup hotkeys' :
         m.trigger \in Names /\ m \notin Range(default) =>
           [m EXCEPT !.trigger = WithArguments(@)] \in Range(deployed')]_vars

(* deploy() returns: "If this is allowed to happen, the loop will spin     *)
(* indefinitely and crash" (the comment in solve_mapping_recursive_impl).  *)
DeployTerminates == alive

(* What a trigger means is said once, by a map that has a target, in every *)
(* table and among the hotkeys (add_map, add_noremap, remove, deploy).     *)
TablesAgree == TypeOK /\ OneMeaning

=============================================================================
