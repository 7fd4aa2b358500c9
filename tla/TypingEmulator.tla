--------------------------- MODULE TypingEmulator ---------------------------
(***************************************************************************)
(* A TypingEmulator (src/src/core/typeemu.cpp) with its KeyStrokeRepeater  *)
(* (src/src/util/keystroke_repeater.cpp), polled while keys go down and up *)
(* and time passes.                                                        *)
(***************************************************************************)
EXTENDS Typing

CONSTANTS
  WaitTime,  \* wait_time_ of the KeyStrokeRepeater, in ticks of the clock
  MaxKeys    \* bound on the keys that are down at a time

ASSUME EmulatorAssumption ==
  /\ WaitTime \in Nat
  /\ MaxKeys \in Nat

VARIABLES
  raw,    \* the keys that are down (InputGate::pressed_list())
  prev,   \* prev_cmdunit_
  since,  \* ticks since start_time_ of ksr_, which stops at WaitTime
  typed,  \* what the last poll returned
  seen,   \* history variable: the keys the last poll saw
  still   \* history variable: ticks since a poll saw the keys change

vars == <<raw, prev, since, typed, seen, still>>

Elapsed(t) == IF t < WaitTime THEN t + 1 ELSE t

Init ==
  /\ raw = {}
  /\ prev = {}
  /\ since = 0
  /\ typed = Nothing
  /\ seen = {}
  /\ still = 0

(* The user, through the keyboard hook.                                    *)
Keyboard ==
  /\ \E u \in SUBSET (Keys \ {OPTIONAL, OPTNUMBER}) :
       raw' = u /\ Cardinality(u) <= MaxKeys
  /\ UNCHANGED <<prev, since, typed, seen, still>>

Tick ==
  /\ since' = Elapsed(since)
  /\ still' = Elapsed(still)
  /\ UNCHANGED <<raw, prev, typed, seen>>

(* KeyStrokeRepeater::is_passed(): never before the wait is over; after it *)
(* the sampling timer and the random velocity decide.                      *)
MayPass(passed) == passed => since = WaitTime

(* Mutant: the repeater is not reset by an input that differs.             *)
PollKeepingTimer(passed) ==
  /\ MayPass(passed)
  /\ typed' = Typed(raw, prev, passed)
  /\ prev' = raw
  /\ since' = IF raw = {} THEN 0 ELSE since
  /\ seen' = raw
  /\ still' = IF raw = seen THEN still ELSE 0
  /\ raw' = raw

(* Mutant: the release of all keys is not remembered.                      *)
PollForgettingRelease(passed) ==
  /\ MayPass(passed)
  /\ typed' = Typed(raw, prev, passed)
  /\ prev' = IF raw = {} THEN prev ELSE raw
  /\ since' = IF raw = {} \/ raw # prev THEN 0 ELSE since
  /\ seen' = raw
  /\ still' = IF raw = seen THEN still ELSE 0
  /\ raw' = raw

(* lowlevel_to_typing(raw)                                                 *)
Poll(passed) ==
  /\ MayPass(passed)
  /\ typed' = Typed(raw, prev, passed)
  /\ prev' = raw
  /\ since' = IF raw = {} \/ raw # prev THEN 0 ELSE since
  /\ seen' = raw
  /\ still' = IF raw = seen THEN still ELSE 0
  /\ raw' = raw

Next ==
  \/ Keyboard
  \/ Tick
  \/ \E passed \in BOOLEAN : Poll(passed)

Spec == Init /\ [][Next]_vars

-----------------------------------------------------------------------------

TypeOK ==
  /\ raw \in Units
  /\ prev \in Units
  /\ since \in 0..WaitTime
  /\ typed \in {Nothing} \cup {Just(u) : u \in Units \ {{}}}
  /\ seen \in Units
  /\ still \in 0..WaitTime

Polled == \E passed \in BOOLEAN : Poll(passed)

(* No press is lost: the keys that went down between two polls are in the  *)
(* unit the second one returns, also when a key was released and pressed   *)
(* again (typeemu.cpp, tests typeemu_test.cpp gg and <ctrl><ctrl>).        *)
PressesAreTyped == [][Polled => raw \ seen \subseteq UnitOf(typed')]_vars

(* No press is typed twice: a key that shows text and was already down is  *)
(* typed again only by the auto-repeat, WaitTime after the keys last       *)
(* changed (typeemu.cpp, KeyStrokeRepeater).                               *)
NoPressTwice ==
  [][Polled /\ TextPart(UnitOf(typed')) \cap seen # {} =>
       raw = seen /\ still = WaitTime]_vars

(* What is typed with a system key held carries it: <s-b><s-h> with the    *)
(* <shift> never released is not <s-b>h (the comment in typeemu.cpp).      *)
ModifiersAreKept ==
  [][Polled /\ TextPart(UnitOf(typed')) # {} =>
       SystemPart(raw) \subseteq UnitOf(typed')]_vars

=============================================================================
