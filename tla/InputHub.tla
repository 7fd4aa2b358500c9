------------------------------ MODULE InputHub ------------------------------
(***************************************************************************)
(* The InputHub (src/src/core/inputhub.cpp): where the units that are      *)
(* typed, requested by another process or produced by a map come together, *)
(* are mapped, counted and handed to the loop of the system thread.        *)
(*                                                                         *)
(* It composes the solver of every mode (Solving), deployed from its       *)
(* registry (Remapping), with one typing emulator (Typing).                *)
(***************************************************************************)
EXTENDS Remapping, Typing

CONSTANTS
  Modes,
  Registries,   \* the tables of a mode: [default, noremaps, maps]
  Raws,         \* what may be down on the keyboard: a set of units
  Requests,     \* the commands of other processes: a set of targets
  DigitsOf,     \* the digits that a unit shows, sorted
  IntRange,     \* 2^31: std::stoi() throws from here on
  CountRange,   \* 2^16: the range of a count
  MaxWaiting    \* bound on the queue, for maps that never come to an end

ASSUME HubAssumption ==
  /\ Registries \subseteq [default : Seq(Map), noremaps : Seq(Map), maps : Seq(Map)]
  /\ \A r \in Registries : DeployReturns(r.default, r.noremaps, r.maps)
  /\ Raws \subseteq Units
  /\ Requests \subseteq Seq(TargetUnit)
  /\ DigitsOf \in [Units -> Seq(0..9)]
  /\ {IntRange, CountRange, MaxWaiting} \subseteq Nat
  /\ CountRange > 1

VARIABLES
  registry,  \* what each solver was deployed from
  solvers,   \* deployed_ of each solver
  stacks,    \* the matchers of each solver
  mode,      \* get_global_mode()
  raw,       \* InputGate::pressed_list()
  prev,      \* prev_cmdunit_ of typeemu_
  count,     \* count_, as a sequence of digits
  typing,    \* typing_queue_
  waiting,   \* waiting_queue_
  got,       \* what the last call returned: the inputs, with their counts
  running,   \* FALSE once an exception or a recursion ends the process
  fired,     \* history variable: the maps the last call expanded
  line       \* history variable: what each solver was given since it began anew

mappings == <<registry, solvers, stacks, line>>
queues   == <<typing, waiting>>
hubVars == <<mappings, mode, raw, prev, count, queues, got, running, fired>>

(* An input is a unit with its count.                                      *)
Input(unit, n) == [unit |-> unit, count |-> n]
Typeable(u) == [keys |-> u, does |-> Plain]

DeployedFrom(r) ==
  Among(SolvedMaps(r.default, r.noremaps, r.maps), {m \in Map : ~IsHotkey(m)})

(* What deploy() makes of each registry.                                   *)
Deployment == [r \in Registries |-> DeployedFrom(r)]

(* The constructor, and the deploy() of the first reconstruct().           *)
HubInit ==
  /\ registry \in [Modes -> Registries]
  /\ solvers = [m \in Modes |-> Deployment[registry[m]]]
  /\ stacks = [m \in Modes |-> Fresh(solvers[m])]
  /\ line = [m \in Modes |-> <<>>]
  /\ mode \in Modes
  /\ raw = {} /\ prev = {} /\ count = <<>>
  /\ typing = <<>> /\ waiting = <<>>
  /\ got = <<>> /\ fired = <<>>
  /\ running = TRUE

-----------------------------------------------------------------------------
(* enqueue_mapped(), on the record of what it reads and writes: the stacks *)
(* of the solver, out, which is added to waiting_queue_, and the history.  *)

(* What a solver remembers is forgotten by each line that nobody wants or  *)
(* that is matched; system keys that nobody wants are forgotten alone.     *)
LineAfter(maps, hub, u) ==
  LET dead == AllRejected(Updated(maps, hub.stacks, u))
      matched == MapCommandFrom(maps, hub.stacks, u, TRUE).fired # 0
  IN  IF dead /\ IsSystemOnly(u) THEN hub.line
      ELSE IF dead \/ matched THEN <<>>
      ELSE Append(hub.line, u)

(* map_command_from(), of the solver                                       *)
MapCommand(maps, hub, u) ==
  IF SolverDiverges(maps, hub.stacks, u) THEN [hub EXCEPT !.returns = FALSE]
  ELSE [hub EXCEPT !.stacks = MapCommandFrom(maps, hub.stacks, u, TRUE).stacks,
                   !.line = LineAfter(maps, hub, u)]

(* The solver is moved on by the target, and what it answers is dropped.   *)
FeedAll(maps, hub, target) ==
  LET fed[n \in 0..Len(target)] ==
        IF n = 0 THEN hub
        ELSE IF target[n].keys = {} THEN fed[n - 1]
        ELSE MapCommand(maps, fed[n - 1], target[n].keys)
  IN  fed[Len(target)]

Repeated(seq, n) ==
  LET times[i \in 0..n] == IF i = 0 THEN <<>> ELSE times[i - 1] \o seq
  IN  times[n]

(* Mutant: the counter and the repetition are both used.                   *)
ExpansionTwice(target, n) ==
  Repeated([k \in 1..Len(target) |-> Input(target[k], n)], n)

(* One unit is repeated by its counter, several by repetition.             *)
Expansion(target, n) ==
  IF Len(target) = 1 THEN <<Input(target[1], n)>>
  ELSE Repeated([k \in 1..Len(target) |-> Input(target[k], 1)], n)

EnqueueMapped(maps, hub, e) ==
  LET u == e.unit.keys
      m == maps[MapCommandFrom(maps, hub.stacks, u, TRUE).fired]
      firing == [map |-> m, input |-> e, line |-> Append(hub.line, u)]
      moved == MapCommand(maps, hub, u)
  IN  IF \/ SolverDiverges(maps, hub.stacks, u)
         \/ MapCommandFrom(maps, hub.stacks, u, TRUE).fired = 0
      THEN moved
      ELSE [FeedAll(maps, moved, m.target) EXCEPT
              !.out = @ \o Expansion(m.target, e.count), !.fired = Append(@, firing)]

EnqueueAll(maps, hub, inputs) ==
  LET mapped[n \in 0..Len(inputs)] ==
        IF n = 0 THEN hub ELSE EnqueueMapped(maps, mapped[n - 1], inputs[n])
  IN  mapped[Len(inputs)]

Calling(ss, word) ==
  [stacks |-> ss, line |-> word, out |-> <<>>, fired |-> <<>>, returns |-> TRUE]

(* The inputs are returned; a pull also maps them, in the current mode,    *)
(* with left what remains in the waiting queue.                            *)
Pulled(inputs, left) ==
  \E hub \in {EnqueueAll(solvers[mode], Calling(stacks[mode], line[mode]), inputs)} :
    /\ Len(left) + Len(hub.out) <= MaxWaiting
    /\ stacks' = [stacks EXCEPT ![mode] = hub.stacks]
    /\ line' = [line EXCEPT ![mode] = hub.line]
    /\ waiting' = left \o hub.out
    /\ got' = inputs
    /\ fired' = hub.fired
    /\ running' = hub.returns

Fetched(inputs, left) ==
  /\ waiting' = left
  /\ got' = inputs
  /\ fired' = <<>>
  /\ UNCHANGED <<stacks, line, running>>

Return(inputs, left, mapped) ==
  /\ IF mapped THEN Pulled(inputs, left) ELSE Fetched(inputs, left)
  /\ UNCHANGED <<registry, solvers, mode, raw>>

-----------------------------------------------------------------------------
(* get_typed_input()                                                       *)

(* extract_numbers(): a zero does not begin a count.                       *)
NewDigits(u) ==
  IF count # <<>> THEN DigitsOf[u] ELSE Among(DigitsOf[u], 1..9)

Number(digits) ==
  LET value[n \in 0..Len(digits)] ==
        IF n = 0 THEN 0 ELSE 10 * value[n - 1] + digits[n]
  IN  value[Len(digits)]

TypeNothing ==
  /\ got' = <<>> /\ fired' = <<>>
  /\ UNCHANGED <<mappings, mode, raw, queues, running>>

(* A count that std::stoi() cannot take is kept as it is: more digits make *)
(* it no shorter.                                                          *)
TypeDigits(digits) ==
  /\ count' = IF Number(count) < IntRange THEN count \o digits ELSE count
  /\ TypeNothing

(* std::stoi() throws out_of_range, which nobody on the way catches: the   *)
(* system thread ends, and the process with it.                            *)
CountTooLong ==
  /\ Number(count) >= IntRange
  /\ running' = FALSE
  /\ got' = <<>> /\ fired' = <<>>
  /\ UNCHANGED <<mappings, mode, raw, count, queues>>

CountOf(digits) == IF digits = <<>> THEN 1 ELSE Number(digits) % CountRange

TypeUnit(u, mapped) ==
  LET n == CountOf(count)
  IN  /\ Number(count) < IntRange
      /\ count' = <<>>
      /\ Return(<<Input(Typeable(u), n)>>, <<>>, mapped)
      /\ typing' = typing

GetTypedInput(passed, mapped, parseCount) ==
  LET answer == Typed(raw, prev, passed)
      digits == IF parseCount /\ ~IsMatchingAny(stacks[mode])
                THEN NewDigits(UnitOf(answer)) ELSE <<>>
  IN  /\ prev' = raw
      /\ \/ answer = Nothing /\ TypeNothing /\ UNCHANGED count
         \/ answer # Nothing /\ digits # <<>> /\ TypeDigits(digits)
         \/ answer # Nothing /\ digits = <<>> /\ CountTooLong
         \/ answer # Nothing /\ digits = <<>> /\ TypeUnit(UnitOf(answer), mapped)

-----------------------------------------------------------------------------
(* Mutant: the last element stays.                                         *)
DequeuedButLast(queue) == IF Len(queue) = 1 THEN queue ELSE Tail(queue)

(* What InputQueue::dequeue() leaves.                                      *)
Dequeued(queue) == Tail(queue)

(* fetch_input() and pull_input(), the latter with mapped = TRUE: first    *)
(* what is waiting, then what was requested, then the keyboard.            *)
FetchInput(passed, mapped, parseCount) ==
  /\ running
  /\ \/ /\ waiting # <<>>
        /\ Return(<<Head(waiting)>>, Dequeued(waiting), mapped)
        /\ UNCHANGED <<typing, prev, count>>
     \/ /\ waiting = <<>> /\ typing # <<>>
        /\ Return(<<Head(typing)>>, <<>>, mapped)
        /\ typing' = Dequeued(typing)
        /\ UNCHANGED <<prev, count>>
     \/ /\ waiting = <<>> /\ typing = <<>>
        /\ GetTypedInput(passed, mapped, parseCount)

PullInput(passed) == FetchInput(passed, TRUE, TRUE)

(* pull_all_inputs()                                                       *)
PullAllInputs(passed) ==
  /\ running
  /\ \/ /\ waiting \o typing # <<>>
        /\ Return(waiting \o typing, <<>>, TRUE)
        /\ typing' = <<>>
        /\ UNCHANGED <<prev, count>>
     \/ /\ waiting \o typing = <<>>
        /\ GetTypedInput(passed, TRUE, TRUE)

(* do_typing() of each unit of a command that another process asked for,   *)
(* which has no use for a function.  VindEntry::update() looks for a       *)
(* request when both queues are empty.                                     *)
Typeables(request) == Among(request, {unit \in TargetUnit : unit.keys # {}})

DoTyping(request) ==
  /\ running
  /\ waiting = <<>> /\ typing = <<>>
  /\ typing' = [i \in DOMAIN Typeables(request) |->
                  Input(Typeables(request)[i], 1)]
  /\ got' = <<>> /\ fired' = <<>>
  /\ UNCHANGED <<mappings, mode, raw, prev, count, waiting, running>>

(* apply_mapping() after a map command: every solver is deployed anew.     *)
ApplyMapping(m, r) ==
  /\ running
  /\ registry' = [registry EXCEPT ![m] = r]
  /\ solvers' = [solvers EXCEPT ![m] = Deployment[r]]
  /\ stacks' = [i \in Modes |-> Fresh(solvers'[i])]
  /\ line' = [i \in Modes |-> <<>>]
  /\ got' = <<>> /\ fired' = <<>>
  /\ UNCHANGED <<mode, raw, prev, count, queues, running>>

(* The mode changes under the hub: a bound function, or an option that     *)
(* follows the foreground window.                                          *)
ChangeMode(m) ==
  /\ running
  /\ mode' = m
  /\ got' = <<>> /\ fired' = <<>>
  /\ UNCHANGED <<mappings, raw, prev, count, queues, running>>

(* The user, through the keyboard hook.                                    *)
Keyboard ==
  /\ raw' \in Raws
  /\ got' = <<>> /\ fired' = <<>>
  /\ UNCHANGED <<mappings, mode, prev, count, queues, running>>

Pull == \E passed \in BOOLEAN : PullInput(passed)

HubNext ==
  \/ Pull
  \/ \E passed, parseCount \in BOOLEAN : FetchInput(passed, FALSE, parseCount)
  \/ \E passed \in BOOLEAN : PullAllInputs(passed)
  \/ \E request \in Requests : DoTyping(request)
  \/ \E m \in Modes, r \in Registries : ApplyMapping(m, r)
  \/ \E m \in Modes : ChangeMode(m)
  \/ Keyboard

Poll == waiting \o typing = <<>> /\ Pull

(* The system thread calls update() for ever, and update() pulls: what is  *)
(* queued is pulled.  update() looks for a request no more than once in a  *)
(* listen_interval, and without one its first pull is from the keyboard:   *)
(* keys that stay other than they were seen are looked at, if only the     *)
(* queues are empty again and again; keys that are let go in time need not *)
(* be.  (What enables the actions is written out: TLC needs minutes to     *)
(* find it by itself.)                                                     *)
Queued   == running /\ waiting \o typing # <<>>
Readable == running /\ waiting \o typing = <<>> /\ raw # prev

HubFairness ==
  /\ []<>~Queued \/ []<><<Pull>>_hubVars
  /\ []<>(raw = prev) \/ <>[]~Readable \/ []<><<Poll>>_hubVars

HubSpec == HubInit /\ [][HubNext]_hubVars /\ HubFairness

-----------------------------------------------------------------------------

Inputs == [unit : TargetUnit, count : 0..(CountRange - 1)]

HubTypeOK ==
  /\ registry \in [Modes -> Registries]
  /\ \A m \in Modes : stacks[m] \in [1..Len(solvers[m]) -> Seq(Entry)]
  /\ mode \in Modes
  /\ raw \in Units /\ prev \in Units
  /\ count \in Seq(0..9)
  /\ {typing, waiting, got} \subseteq Seq(Inputs)
  /\ running \in BOOLEAN

(* No unit of a trigger is hit by a unit without keys: there is no <any>   *)
(* and no <num> in it.                                                     *)
IgnoresFunctions(maps) ==
  \A i \in DOMAIN maps : \A k \in DOMAIN maps[i].trigger :
    ~Covers(maps[i].trigger[k], {})

(* A bound function on its way through the queues is fed to the solver as  *)
(* a unit without keys; that must not disturb a trigger that is half       *)
(* typed (enqueue_mapped(), and the unwinding in map_command_from()).  An  *)
(* <any> or a <num> takes it for an input.                                 *)
FunctionsLeaveNoTrace ==
  [][Len(got') = 1 /\ got'[1].unit.does \in Functions
       /\ IgnoresFunctions(solvers[mode]) => stacks' = stacks]_hubVars

Total(numbers) ==
  LET sum[n \in 0..Len(numbers)] == IF n = 0 THEN 0 ELSE sum[n - 1] + numbers[n]
  IN  sum[Len(numbers)]

(* How often function f is to be executed by what is in a queue, and how   *)
(* often by the maps that were expanded, each for its input's count.       *)
Pending(f, queue) ==
  Total([i \in 1..Len(queue) |-> IF queue[i].unit.does = f THEN queue[i].count ELSE 0])
Occurrences(f, target) ==
  Total([i \in 1..Len(target) |-> IF target[i].does = f THEN 1 ELSE 0])
Promised(f, firings) ==
  Total([i \in 1..Len(firings) |->
           firings[i].input.count * Occurrences(f, firings[i].map.target)])
OutOf(queue, inputs) ==
  SubSeq(inputs, 1, IF Len(queue) < Len(inputs) THEN Len(queue) ELSE Len(inputs))

(* Counting is exact: whichever way an expansion is repeated, by a counter *)
(* or unit by unit, every function of it is executed count times for each  *)
(* time it occurs, and an input leaves the queue once (enqueue_mapped()).  *)
CountsAreExact ==
  [][running' =>
       \A f \in Functions :
         Pending(f, waiting') + Pending(f, OutOf(waiting, got')) =
           Pending(f, waiting) + Promised(f, fired')]_hubVars

(* The first map of a table whose trigger a line spells is m.              *)
IsSpelled(maps, m, word) ==
  \E i \in 1..Len(maps) :
    /\ m = maps[i]
    /\ Spells(maps[i].trigger, word, Len(word))
    /\ \A j \in 1..(i - 1) : ~Spells(maps[j].trigger, word, Len(word))

(* A map is expanded when what its solver was given since it began anew,   *)
(* the targets that it was moved on by among it, spells its trigger and no *)
(* earlier one: whatever was pulled in between in another mode, fetched    *)
(* without mapping, or answered and dropped, no matcher is out of step.    *)
FiresWhatIsSpelled ==
  \A i \in DOMAIN fired : IsSpelled(solvers[mode], fired[i].map, fired[i].line)

(* Every update() comes to an end: the queue it empties is empty at last   *)
(* (VindEntry::update, the loop while the queues are not empty).           *)
QueuesAreEmptied == (waiting # <<>>) ~> (waiting = <<>> \/ ~running)

(* Whatever is queued, the system thread gets to look at the keyboard.     *)
KeyboardIsRead == (raw # prev) ~> (raw = prev \/ ~running)

(* Whatever is queued, counted and mapped stays within the widths of the   *)
(* code, and each map fires by what was given to it (enqueue_mapped).      *)
MapsFireInTurn == HubTypeOK /\ FiresWhatIsSpelled

=============================================================================
