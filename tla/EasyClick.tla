----------------------------- MODULE EasyClick -----------------------------
(***************************************************************************)
(* EasyClick (src/src/bind/easyclick/): one thread matches the keys that   *)
(* are typed with the labels (inputhinter.cpp), while the system thread    *)
(* paints them (easyclickcore.cpp, disphinter.cpp) and clicks in the end.  *)
(*                                                                         *)
(* The number and the counts that the painting thread reads are returned   *)
(* as references: the mutex protects nothing but the access to them.  The  *)
(* letters of a count that is read outside of the vector are arbitrary.    *)
(* The absorption of the keyboard meanwhile is in ModeControl.             *)
(***************************************************************************)
EXTENDS Solving, Hints

CONSTANTS
  Targets,    \* how many positions a window may have
  Inputs,     \* the units that fetch_input() may return
  ESC, BKSPACE

ASSUME ClickAssumption ==
  /\ Targets \subseteq Nat \ {0}
  /\ Inputs \subseteq Units
  /\ {ESC, BKSPACE} \subseteq SystemKeys
  \* The labels are letters, keys that a keyboard sends as themselves.
  /\ \A i \in 1..L : /\ Labels[i] \in Keys \ (SystemKeys \cup UnrealKeys)
                    /\ RepOf[Labels[i]] = NoKey
  \* "astray" is no key, but a word for the user who typed nonsense.
  /\ "astray" \notin Keys

VARIABLES
  size,     \* positions_.size()
  hints,    \* hints_
  counts,   \* matched_counts_
  drawable, \* drawable_hints_num_
  cancel,   \* cancel_running_
  mpc,      \* what the matching thread does next
  stacks,   \* its matchers
  next,     \* the matcher it looks at
  result,   \* what is in the future: a position, 0 or Thrown
  ppc,      \* what the painting thread does next
  num,      \* draw_num
  prev_num, \* prev_draw_num
  at,       \* the hint it paints
  screen,   \* the number of letters that are weak on each hint, or Hidden
  clicked   \* the position that was clicked last, 0 if none

shared   == <<counts, drawable, cancel>>
matching == <<mpc, stacks, next, result>>
painting == <<ppc, num, prev_num, at, screen, clicked>>

clickVars == <<size, hints, shared, matching, painting>>

Hidden == -1
Thrown == -1
Unpainted(n) == [i \in 1..n |-> Hidden]

(* The matchers of the hints, as those of maps (Solving).                  *)
Triggers == [i \in DOMAIN hints |->
               [trigger |-> [k \in DOMAIN hints[i] |-> {hints[i][k]}]]]
NewMatchers(n) == [i \in 1..n |-> <<>>]

ClickInit ==
  /\ size = 0 /\ hints = <<>>
  /\ counts = <<>> /\ drawable = 0 /\ cancel = FALSE
  /\ mpc = "done" /\ stacks = <<>> /\ next = 1 /\ result = 0
  /\ ppc = "idle" /\ num = 0 /\ prev_num = 0 /\ at = 1
  /\ screen = <<>> /\ clicked = 0

(* scan_ui_objects() and the start of create_matching_loop()               *)
Start(n) ==
  /\ ppc = "idle"
  /\ size' = n /\ hints' = Assign(n)
  /\ mpc' = "launched" /\ stacks' = NewMatchers(Len(hints'))
  /\ next' = 1 /\ result' = 0
  /\ ppc' = "begin" /\ screen' = Unpainted(n) /\ clicked' = 0
  /\ UNCHANGED <<shared, num, prev_num, at>>

-----------------------------------------------------------------------------
(* The matching thread.                                                    *)

Reset ==
  /\ mpc = "launched"
  /\ mpc' = "test"
  /\ counts' = [i \in 1..size |-> 0] /\ drawable' = size /\ cancel' = FALSE
  /\ UNCHANGED <<size, hints, stacks, next, result, painting>>

(* Mutant: the loop never asks.                                            *)
TestNothing ==
  /\ mpc = "test"
  /\ mpc' = "fetch"
  /\ UNCHANGED <<size, hints, shared, stacks, next, result, painting>>

(* The loop asks whether it is cancelled.                                  *)
Test ==
  /\ mpc = "test"
  /\ IF cancel THEN mpc' = "done" /\ result' = 0
     ELSE mpc' = "fetch" /\ UNCHANGED result
  /\ UNCHANGED <<size, hints, shared, stacks, next, painting>>

NoInput ==
  /\ mpc = "fetch"
  /\ mpc' = "test"
  /\ UNCHANGED <<size, hints, shared, stacks, next, result, painting>>

(* <F8> and <F9> together: what Background::update() throws is kept in the  *)
(* future.                                                                 *)
Terminate ==
  /\ mpc = "fetch"
  /\ mpc' = "done" /\ result' = Thrown
  /\ UNCHANGED <<size, hints, shared, stacks, next, painting>>

Letters(u) == u \ SystemKeys

(* The matchers are updated one by one, under the lock; only what they     *)
(* publish is shared.                                                      *)
TakeAll(new) ==
  /\ stacks' = new
  /\ mpc' = "publish" /\ next' = 1 /\ drawable' = 0
  /\ UNCHANGED <<counts, cancel, result>>

(* Mutant: <bs> passes over the matchers that rejected.                    *)
FetchSkipping(u) ==
  /\ mpc = "fetch"
  /\ IF BKSPACE \in u
     THEN TakeAll([i \in DOMAIN stacks |->
                     IF IsRejected(stacks[i]) THEN stacks[i]
                     ELSE Backward(stacks[i], 1)])
     ELSE /\ {BKSPACE, ESC} \cap u = {} /\ Letters(u) # {}
          /\ TakeAll(Updated(Triggers, stacks, Letters(u)))
  /\ UNCHANGED <<size, hints, painting>>

Fetch(u) ==
  /\ mpc = "fetch"
  /\ \/ /\ BKSPACE \in u
        /\ TakeAll([i \in DOMAIN stacks |-> Backward(stacks[i], 1)])
     \/ /\ BKSPACE \notin u /\ ESC \in u
        /\ mpc' = "done" /\ result' = 0
        /\ UNCHANGED <<shared, stacks, next>>
     \/ /\ {BKSPACE, ESC} \cap u = {} /\ Letters(u) = {}
        /\ mpc' = "test"
        /\ UNCHANGED <<shared, stacks, next, result>>
     \/ /\ {BKSPACE, ESC} \cap u = {} /\ Letters(u) # {}
        /\ TakeAll(Updated(Triggers, stacks, Letters(u)))
  /\ UNCHANGED <<size, hints, painting>>

(* One turn of the loop over the matchers, which ends with the first one   *)
(* that accepts.  After <bs> none of them does, and not all reject.        *)
Publish ==
  /\ mpc = "publish"
  /\ LET stack == stacks[next]
         last  == next = Len(stacks)
     IN  IF IsAccepted(stack)
         THEN mpc' = "done" /\ result' = next /\ next' = 1 /\ UNCHANGED shared
         ELSE /\ counts' = [counts EXCEPT ![next] =
                              IF IsRejected(stack) THEN 0 ELSE Len(stack)]
              /\ drawable' = IF IsRejected(stack) THEN drawable ELSE drawable + 1
              /\ next' = IF last THEN 1 ELSE next + 1
              /\ mpc' = CASE ~last -> "publish"
                          [] last /\ AllRejected(stacks) -> "done"
                          [] OTHER -> "test"
              /\ result' = 0 /\ UNCHANGED cancel
  /\ UNCHANGED <<size, hints, stacks, painting>>

Match == Reset \/ Test \/ NoInput \/ Publish

-----------------------------------------------------------------------------
(* The painting thread.  What it reads it reads without the lock, which it *)
(* only has while it gets the reference.                                   *)
Locked == mpc = "publish"

GoTo(step) == ppc' = step
Paints == UNCHANGED <<size, hints, shared, matching>>

ReadPrev ==
  /\ ppc = "begin" /\ GoTo("wait")
  /\ prev_num' = drawable
  /\ Paints /\ UNCHANGED <<num, at, screen, clicked>>

(* wait_for(): 50 ms have passed, or the loop of the matching has ended.   *)
Wait ==
  /\ ppc = "wait" /\ GoTo(IF mpc = "done" THEN "finish" ELSE "number")
  /\ Paints /\ UNCHANGED <<num, prev_num, at, screen, clicked>>

RefNumber ==
  /\ ppc = "number" /\ ~Locked /\ GoTo("copy")
  /\ Paints /\ UNCHANGED <<num, prev_num, at, screen, clicked>>

CopyNumber ==
  /\ ppc = "copy"
  /\ num' = drawable
  /\ GoTo(IF num' = Len(hints) THEN "all" ELSE "counts")
  /\ Paints /\ UNCHANGED <<prev_num, at, screen, clicked>>

(* paint_all_hints()                                                       *)
PaintAll ==
  /\ ppc = "all" /\ GoTo("wait")
  /\ screen' = IF size = Len(hints) THEN [i \in 1..size |-> 0] ELSE screen
  /\ prev_num' = num
  /\ Paints /\ UNCHANGED <<num, at, clicked>>

RefCounts ==
  /\ ppc = "counts" /\ ~Locked
  /\ GoTo(IF size = Len(hints) THEN "paint" ELSE "refresh") /\ at' = 1
  /\ Paints /\ UNCHANGED <<num, prev_num, screen, clicked>>

(* One turn of the loop of paint_matching_hints()                          *)
PaintHint ==
  /\ ppc = "paint"
  /\ \E c \in IF at \in DOMAIN counts THEN {counts[at]} ELSE 0..2 :
       screen' = IF c = 0 THEN screen ELSE [screen EXCEPT ![at] = c]
  /\ at' = IF at < Len(hints) THEN at + 1 ELSE 1
  /\ GoTo(IF at < Len(hints) THEN "paint" ELSE "refresh")
  /\ Paints /\ UNCHANGED <<num, prev_num, clicked>>

(* Mutant: every turn ends with an empty screen.                           *)
RefreshAlways ==
  /\ ppc = "refresh" /\ GoTo("wait")
  /\ screen' = Unpainted(size)
  /\ prev_num' = num
  /\ Paints /\ UNCHANGED <<num, at, clicked>>

Refresh ==
  /\ ppc = "refresh" /\ GoTo("wait")
  /\ screen' = IF prev_num = num THEN screen ELSE Unpainted(size)
  /\ prev_num' = num
  /\ Paints /\ UNCHANGED <<num, at, clicked>>

(* Painting fails; the exception leaves the function as a std::exception,  *)
(* once the matching has ended (~shared_future).                           *)
PaintingFails ==
  /\ ppc \in {"all", "paint", "refresh"} /\ GoTo("unwind")
  /\ cancel' = TRUE
  /\ UNCHANGED <<size, hints, counts, drawable, matching, num, prev_num, at, screen, clicked>>

(* No one catches it: the system thread ends (RequestServer).              *)
Unwind ==
  /\ ppc = "unwind" /\ mpc = "done" /\ GoTo("gone")
  /\ Paints /\ UNCHANGED <<num, prev_num, at, screen, clicked>>

(* The click, if a label was completed; or get() throws, and as after a    *)
(* failure of the painting the system thread ends.                         *)
Finish ==
  /\ ppc = "finish" /\ GoTo(IF result = Thrown THEN "gone" ELSE "idle")
  /\ screen' = Unpainted(size)
  /\ clicked' = IF result = Thrown THEN 0 ELSE result
  /\ Paints /\ UNCHANGED <<num, prev_num, at>>

Paint ==
  \/ ReadPrev \/ Wait \/ RefNumber \/ CopyNumber \/ PaintAll
  \/ RefCounts \/ PaintHint \/ Refresh \/ Unwind \/ Finish

ClickNext ==
  \/ \E n \in Targets : Start(n)
  \/ Match
  \/ \E u \in Inputs : Fetch(u)
  \/ Terminate
  \/ Paint
  \/ PaintingFails

(* Neither thread stops; nobody has to type.                               *)
ClickFairness == WF_clickVars(Match) /\ WF_clickVars(Paint)

ClickSpec == ClickInit /\ [][ClickNext]_clickVars /\ ClickFairness

-----------------------------------------------------------------------------

ClickTypeOK ==
  /\ size \in Targets \cup {0}
  /\ hints \in Seq(Seq(Keys)) /\ Len(hints) <= size
  /\ counts \in Seq(Nat) /\ cancel \in BOOLEAN
  /\ drawable \in Nat /\ (mpc # "launched" => drawable <= size)
  /\ mpc \in {"launched", "test", "fetch", "publish", "done"}
  /\ stacks \in [DOMAIN hints -> Seq(Entry)]
  /\ next \in 1..(Len(hints) + 1) /\ result \in Thrown..Len(hints)
  /\ ppc \in {"idle", "begin", "wait", "number", "copy", "all", "counts",
              "paint", "refresh", "unwind", "finish", "gone"}
  /\ {num, prev_num, at} \subseteq Nat
  /\ screen \in [1..size -> Nat \cup {Hidden}]
  /\ clicked \in 0..Len(hints)

(* The labels of every number of positions, see Hints: they do not depend  *)
(* on the state, and are looked at in the initial one.                     *)
LabelsChoose == size = 0 => HintsAreDistinct

Candidates == {i \in DOMAIN stacks : ~IsRejected(stacks[i])}

(* The letters so far: those of any label that begins with them.           *)
SoFar ==
  CASE hints = <<>> -> <<>>
    [] hints # <<>> /\ Candidates = {} -> <<"astray">>
    [] hints # <<>> /\ Candidates # {} ->
         LET i == CHOOSE i \in Candidates : TRUE
         IN  SubSeq(hints[i], 1, Len(stacks[i]))

(* For all its threads and stacks EasyClick offers labels that are narrowed*)
(* down letter by letter: <bs> brings back exactly those that the rest of  *)
(* the letters begins, and the click goes to what was typed, or nowhere.   *)
Choice ==
  INSTANCE HintChoice WITH
    labels     <- hints,
    candidates <- Candidates,
    typed      <- SoFar,
    open       <- ppc \notin {"idle", "gone"},
    choice     <- clicked,
    failed     <- ppc = "gone"

ImplementsChoice == Choice!Spec

(* When nobody types any more, every label that can still be chosen comes  *)
(* to be on the screen, and stays there, with the letters that were typed  *)
(* marked, however the painting read what the matching was writing         *)
(* (create_matching_loop).                                                 *)
Waiting == mpc # "done" /\ ppc \notin {"idle", "unwind", "gone"}
ShowsCandidates ==
  \/ []<>(~Waiting)
  \/ []<>Locked
  \/ <>[](\A i \in Candidates : screen[i] = Len(stacks[i]))

(* A painting that fails ends the matching, too, once the matching has     *)
(* begun: nobody has to type for it (cancel(), launch_loop).               *)
CancelEnds == (ppc = "unwind" /\ cancel) ~> (ppc = "gone" \/ ~cancel)

(* The threads agree on as many labels as there are positions, and those   *)
(* can be told apart by their letters (assign_identifier_hints).           *)
LabelsFit == ClickTypeOK /\ LabelsChoose

=============================================================================
