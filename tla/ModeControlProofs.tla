--------------------------- MODULE ModeControlProofs ---------------------------
(***************************************************************************)
(* Proofs about ModeControl: for every table of bindings and every depth,  *)
(* the command mode ends with the command lines, and a mode keeps the      *)
(* absorption of the keyboard that it was entered with.                    *)
(***************************************************************************)
EXTENDS ModeControl, TLAPS, SequenceTheorems

Gates == [mode : Modes, absorbed : BOOLEAN]

(* The calls nest: one that was made in the command mode, and the command  *)
(* mode itself, have a command line below them.                            *)
CommandBelow(stack, k) == \E j \in 1..(k - 1) : stack[j].does = "to_command"
Nested(stack, mode) ==
  /\ \A i \in 1..Len(stack) : stack[i].back = "c" => CommandBelow(stack, i)
  /\ mode = "c" => CommandBelow(stack, Len(stack) + 1)

IInv == TypeOK /\ Nested(calls, gate.mode)

-----------------------------------------------------------------------------
(* What the functions do with the mode.                                    *)

LEMMA ChangedProperties ==
  ASSUME NEW s \in Gates, NEW f \in ModeFunctions
  PROVE  /\ Changed(s, f) \in Gates
         /\ Changed(s, f).mode = "c" => s.mode = "c"
  BY DEF ModeFunctions, Changed, ToNormal, ToOpen, ToVisual, Clicked, Gate,
         Gates, Modes

LEMMA PolledProperties ==
  ASSUME NEW s \in Gates
  PROVE  /\ Suppressed(Dedicated(s)) \in Gates
         /\ Suppressed(Dedicated(s)).mode = "c" => s.mode = "c"
<1>1. Dedicated(s) \in Gates /\ (Dedicated(s).mode = "c" => s.mode = "c")
  BY DEF Dedicated, ToNormal, ToOpen, Gate, Gates, Modes
<1>2. ToOpen("r") \in Gates /\ ToOpen("r").mode = "r"
  BY DEF ToOpen, Gate, Gates, Modes
<1> QED
  BY <1>1, <1>2 DEF Suppressed

LEMMA BecomesType ==
  ASSUME TypeOK, NEW s, NEW stack, Becomes(s, stack)
  PROVE  gate' = s /\ exposed' \in BOOLEAN
  BY DEF TypeOK, Becomes, Exposes

LEMMA FunctionKinds ==
  ASSUME NEW f \in Functions
  PROVE  f \in WaitingFunctions \/ f \in ModeFunctions \/ f \in TargetFunctions
  BY DEF Functions

-----------------------------------------------------------------------------
(* What the calls look like after a step.                                  *)

LEMMA BusyProperties ==
  ASSUME TypeOK, calls # <<>>
  PROVE  /\ Len(calls) \in Nat \ {0}
         /\ Top \in Calls
         /\ Busy \in Seq(Calls)
         /\ Len(Busy) = Len(calls)
         /\ \A i \in 1..(Len(calls) - 1) : Busy[i] = calls[i]
         /\ Busy[Len(calls)] = [Top EXCEPT !.busy = TRUE]
<1>1. calls \in Seq(Calls) /\ Len(calls) \in Nat \ {0}
  BY EmptySeq, LenProperties DEF TypeOK
<1>2. Len(calls) \in 1..Len(calls)
  BY <1>1
<1>3. Top \in Calls
  BY <1>1, <1>2, ElementOfSeq DEF Top
<1> DEFINE b == [Top EXCEPT !.busy = TRUE]
<1>4. b \in Calls
  BY <1>3 DEF Calls
<1>5. Busy = [calls EXCEPT ![Len(calls)] = b]
  BY DEF Busy, Top
<1> HIDE DEF b
<1>6. /\ Busy \in Seq(Calls)
      /\ Len(Busy) = Len(calls)
      /\ \A i \in 1..Len(calls) : Busy[i] = IF i = Len(calls) THEN b ELSE calls[i]
  BY <1>1, <1>2, <1>4, <1>5, ExceptSeq
<1>7. \A i \in 1..(Len(calls) - 1) : i \in 1..Len(calls) /\ i # Len(calls)
  BY <1>1
<1>8. \A i \in 1..(Len(calls) - 1) : Busy[i] = calls[i]
  BY <1>6, <1>7
<1>9. Busy[Len(calls)] = b
  BY <1>2, <1>6
<1> QED
  BY <1>1, <1>3, <1>6, <1>8, <1>9 DEF b

LEMMA BelowProperties ==
  ASSUME TypeOK, calls # <<>>
  PROVE  /\ Len(calls) \in Nat \ {0}
         /\ Top \in Calls
         /\ Below \in Seq(Calls)
         /\ Len(Below) = Len(calls) - 1
         /\ \A i \in 1..(Len(calls) - 1) : Below[i] = calls[i]
<1>1. calls \in Seq(Calls) /\ Len(calls) \in Nat \ {0}
  BY EmptySeq, LenProperties DEF TypeOK
<1>2. Len(calls) - 1 \in 0..Len(calls)
  BY <1>1
<1>3. Top \in Calls
  BY BusyProperties
<1> DEFINE m == Len(calls) - 1
<1> HIDE DEF m
<1>4. m \in 0..Len(calls)
  BY <1>2 DEF m
<1>5. /\ SubSeq(calls, 1, m) \in Seq(Calls)
      /\ Len(SubSeq(calls, 1, m)) = m
      /\ \A k \in 1..m : SubSeq(calls, 1, m)[k] = calls[k]
  BY <1>1, <1>4, SubSeqProperties
<1> QED
  BY <1>1, <1>3, <1>5 DEF Below, m

LEMMA AppendProperty ==
  ASSUME NEW stack \in Seq(Calls), NEW call \in Calls
  PROVE  /\ Append(stack, call) \in Seq(Calls)
         /\ Len(Append(stack, call)) = Len(stack) + 1
         /\ \A i \in 1..Len(stack) : Append(stack, call)[i] = stack[i]
         /\ Append(stack, call)[Len(stack) + 1] = call
  BY AppendProperties

(* Executing a function, from nowhere or within the innermost call         *)
LEMMA ProcessStep ==
  ASSUME IInv, NEW stack \in Seq(Calls), NEW f \in Functions, Process(stack, f),
         Len(stack) = Len(calls),
         \A i \in 1..Len(calls) : stack[i].does = calls[i].does
                                  /\ stack[i].back = calls[i].back,
         UNCHANGED <<rc, foreground>>
  PROVE  IInv'
<1> USE DEF IInv, TypeOK
<1>1. Len(calls) \in Nat /\ Nested(stack, gate.mode) /\ gate \in Gates
  <2>1. Len(calls) \in Nat /\ gate \in Gates /\ Nested(calls, gate.mode)
    BY LenProperties DEF Gates
  <2>2. \A k \in 1..(Len(calls) + 1) : CommandBelow(calls, k) => CommandBelow(stack, k)
    BY <2>1 DEF CommandBelow
  <2> HIDE DEF IInv, TypeOK
  <2>3. Nested(stack, gate.mode)
    BY <2>1, <2>2 DEF Nested
  <2> QED
    BY <2>1, <2>3
<1>2. CASE Enter(stack, f)
  <2>1. /\ f \in WaitingFunctions
        /\ Len(stack) < MaxDepth
        /\ calls' = Append(stack, Call(f))
        /\ gate' = Gate(IF f = "to_command" THEN "c" ELSE gate.mode, TRUE)
        /\ UNCHANGED <<exposed, windows>>
    BY <1>2 DEF Enter
  <2>2. Call(f) \in Calls /\ Call(f).does = f /\ Call(f).back = gate.mode
    BY <1>1, <2>1 DEF Call, Calls, Gates
  <2>3. /\ calls' \in Seq(Calls)
        /\ Len(calls') = Len(stack) + 1
        /\ \A i \in 1..Len(stack) : calls'[i] = stack[i]
        /\ calls'[Len(stack) + 1] = Call(f)
    BY <2>1, <2>2, AppendProperty
  <2>4. gate' \in Gates /\ gate'.mode = IF f = "to_command" THEN "c" ELSE gate.mode
    BY <1>1, <2>1 DEF Gate, Gates, Modes
  <2>5. TypeOK'
    <3>1. Len(calls') <= MaxDepth
      BY <1>1, <2>1, <2>3, ModeAssumption
    <3>2. {target', past', pre'} \subseteq Windows \cup {NoWindow}
      BY <2>1 DEF windows
    <3> QED
      BY <2>1, <2>3, <2>4, <3>1, <3>2 DEF Gates
  <2> DEFINE n == Len(stack)
  <2>6. \A k \in 1..(n + 1) : CommandBelow(calls', k) <=> CommandBelow(stack, k)
    <3> SUFFICES ASSUME NEW k \in 1..(n + 1)
                 PROVE  \A j \in 1..(k - 1) : calls'[j] = stack[j]
      BY DEF CommandBelow
    <3> QED
      BY <1>1, <2>3
  <2>7. \A i \in 1..(n + 1) : calls'[i].back = "c" => CommandBelow(calls', i)
    <3> SUFFICES ASSUME NEW i \in 1..(n + 1), calls'[i].back = "c"
                 PROVE  CommandBelow(stack, i)
      BY <2>6
    <3>1. CASE i = n + 1
      BY <1>1, <2>2, <2>3, <3>1 DEF Nested
    <3>2. CASE i \in 1..n
      BY <1>1, <2>3, <3>2 DEF Nested
    <3> QED
      BY <1>1, <3>1, <3>2
  <2>8. gate'.mode = "c" => CommandBelow(calls', n + 1 + 1)
    <3>1. CASE f = "to_command"
      <4>1. n + 1 \in 1..(n + 1 + 1 - 1) /\ calls'[n + 1].does = "to_command"
        BY <1>1, <2>2, <2>3, <3>1
      <4> QED
        BY <4>1 DEF CommandBelow
    <3>2. CASE f # "to_command"
      <4> SUFFICES ASSUME gate.mode = "c"
                   PROVE  CommandBelow(calls', n + 1 + 1)
        BY <2>4, <3>2
      <4>1. CommandBelow(calls', n + 1)
        BY <1>1, <2>6 DEF Nested
      <4>2. \A j \in 1..(n + 1 - 1) : j \in 1..(n + 1 + 1 - 1)
        BY <1>1
      <4> QED
        BY <4>1, <4>2 DEF CommandBelow
    <3> QED
      BY <3>1, <3>2
  <2> QED
    BY <2>3, <2>5, <2>7, <2>8 DEF Nested
<1>3. CASE ChangeMode(f) /\ calls' = stack
  <2>1. /\ gate' \in Gates /\ (gate'.mode = "c" => gate.mode = "c") /\ UNCHANGED windows
        /\ exposed' \in BOOLEAN
    BY <1>1, <1>3, ChangedProperties, BecomesType DEF ChangeMode
  <2> QED
    BY <1>1, <1>3, <2>1 DEF Gates, Nested, windows
<1>4. CASE ChangeTarget(f) /\ calls' = stack
  <2>1. gate' = gate /\ exposed' = exposed /\ pre' = pre
        /\ target' \in Windows \cup {NoWindow} /\ past' \in Windows \cup {NoWindow}
    BY <1>4 DEF ChangeTarget
  <2> QED
    BY <1>1, <1>4, <2>1 DEF Nested
<1> QED
  BY <1>2, <1>3, <1>4 DEF Process

-----------------------------------------------------------------------------
(* The first invariant.                                                    *)

LEMMA InvInit == Init => IInv
<1> SUFFICES ASSUME Init
             PROVE  IInv
  OBVIOUS
<1>1. /\ gate \in Gates /\ gate.mode # "c"
  BY ModeAssumption DEF Init, Changed, ToNormal, ToOpen, Gate, Gates, Modes
<1>2. rc \in Settings /\ calls = <<>> /\ foreground \in Windows /\ exposed \in BOOLEAN
      /\ {target, past, pre} \subseteq Windows \cup {NoWindow}
  BY DEF Init
<1>3. TypeOK
  BY <1>1, <1>2, ModeAssumption DEF TypeOK, Gates
<1>4. Nested(calls, gate.mode)
  BY <1>1, <1>2 DEF Nested
<1> QED
  BY <1>3, <1>4 DEF IInv

LEMMA ReturnStep ==
  ASSUME IInv, Return
  PROVE  IInv'
<1> USE DEF IInv
<1> DEFINE n == Len(calls)
<1>1. /\ calls' = Below /\ gate' = Returned(gate, Top)
      /\ UNCHANGED <<rc, foreground, windows>> /\ calls # <<>>
  BY DEF Return
<1>2. /\ n \in Nat \ {0}
      /\ Top \in Calls /\ Top = calls[n]
      /\ calls' \in Seq(Calls)
      /\ Len(calls') = n - 1
      /\ \A i \in 1..(n - 1) : calls'[i] = calls[i]
  BY <1>1, BelowProperties DEF Top
<1>3. gate \in Gates /\ Nested(calls, gate.mode)
  BY DEF TypeOK, Gates
<1>4. /\ gate' \in Gates
      /\ gate'.mode = IF Top.does = "to_command" /\ gate.mode = "c" THEN Top.back
                      ELSE gate.mode
  BY <1>1, <1>2, <1>3 DEF Returned, ReturnsMode, Gate, Gates, Calls
<1>5. TypeOK'
  <2>1. Len(calls') <= MaxDepth
    BY <1>2, ModeAssumption DEF TypeOK
  <2>2. exposed' \in BOOLEAN
    BY <1>2 DEF Return, TypeOK, Calls
  <2> QED
    BY <1>1, <1>2, <1>4, <2>1, <2>2 DEF TypeOK, Gates, windows
<1>6. \A k \in 1..n : CommandBelow(calls', k) <=> CommandBelow(calls, k)
  <2> SUFFICES ASSUME NEW k \in 1..n
               PROVE  \A j \in 1..(k - 1) : calls'[j] = calls[j]
    BY DEF CommandBelow
  <2> QED
    BY <1>2
<1>7. \A i \in 1..(n - 1) : calls'[i].back = "c" => CommandBelow(calls', i)
  BY <1>2, <1>3, <1>6 DEF Nested
<1>8. gate'.mode = "c" => CommandBelow(calls', n)
  <2> SUFFICES ASSUME gate'.mode = "c"
               PROVE  CommandBelow(calls, n)
    BY <1>2, <1>6
  <2>1. CASE Top.does = "to_command"
    BY <1>2, <1>3, <1>4, <2>1 DEF Nested
  <2>2. CASE Top.does # "to_command"
    <3>1. PICK j \in 1..(n + 1 - 1) : calls[j].does = "to_command"
      BY <1>3, <1>4, <2>2 DEF Nested, CommandBelow
    <3>2. j \in 1..(n - 1)
      BY <1>2, <2>2, <3>1
    <3> QED
      BY <3>1, <3>2 DEF CommandBelow
  <2> QED
    BY <2>1, <2>2
<1> QED
  BY <1>2, <1>5, <1>7, <1>8 DEF Nested

LEMMA PollStep ==
  ASSUME IInv, Poll
  PROVE  IInv'
<1>1. gate \in Gates
  BY DEF IInv, TypeOK, Gates
<1>2. /\ gate' \in Gates /\ (gate'.mode = "c" => gate.mode = "c")
      /\ UNCHANGED <<rc, calls, foreground, target>> /\ exposed' \in BOOLEAN
  BY <1>1, PolledProperties, BecomesType DEF Poll, IInv
<1>3. past' \in {past, foreground} /\ pre' \in {pre, foreground}
  BY DEF Poll
<1> QED
  BY <1>2, <1>3 DEF IInv, TypeOK, Nested, Gates

LEMMA InvNext == IInv /\ [Next]_vars => IInv'
<1> SUFFICES ASSUME IInv, [Next]_vars
             PROVE  IInv'
  OBVIOUS
<1>0. TypeOK /\ calls \in Seq(Calls)
  BY DEF IInv, TypeOK
<1>1. ASSUME NEW w \in Windows, Focus(w)
      PROVE  IInv'
  BY <1>1 DEF Focus, windows, IInv, TypeOK, Nested
<1>2. ASSUME NEW f \in Functions, Execute(f) \/ ExecuteRequest(f)
      PROVE  IInv'
  <2>1. Process(calls, f) /\ UNCHANGED <<rc, foreground>>
    BY <1>2 DEF Execute, ExecuteRequest
  <2> QED
    BY <1>0, <2>1, ProcessStep
<1>3. ASSUME NEW f \in Functions, Decide(f) \/ ExecuteWithin(f)
      PROVE  IInv'
  <2>1. calls # <<>> /\ Process(Busy, f) /\ UNCHANGED <<rc, foreground>>
    BY <1>3 DEF Decide, ExecuteWithin
  <2>2. /\ Len(calls) \in Nat \ {0} /\ Busy \in Seq(Calls) /\ Len(Busy) = Len(calls)
        /\ \A i \in 1..(Len(calls) - 1) : Busy[i] = calls[i]
        /\ Busy[Len(calls)] = [Top EXCEPT !.busy = TRUE]
        /\ Top \in Calls
    BY <1>0, <2>1, BusyProperties
  <2>3. Busy[Len(calls)].does = Top.does /\ Busy[Len(calls)].back = Top.back
    BY <2>2 DEF Calls
  <2>4. \A i \in 1..Len(calls) : i \in 1..(Len(calls) - 1) \/ i = Len(calls)
    BY <2>2
  <2>5. \A i \in 1..Len(calls) : Busy[i].does = calls[i].does
                                 /\ Busy[i].back = calls[i].back
    BY <2>2, <2>3, <2>4 DEF Top
  <2> QED
    BY <2>1, <2>2, <2>5, ProcessStep
<1>4. CASE Return
  BY <1>4, ReturnStep
<1>5. CASE Poll
  BY <1>5, PollStep
<1>6. CASE UNCHANGED vars
  BY <1>6 DEF vars, windows, IInv, TypeOK, Nested
<1> QED
  BY <1>1, <1>2, <1>3, <1>4, <1>5, <1>6 DEF Next

(* For every table of bindings, every set of requests, and functions that  *)
(* wait inside of each other to any depth: the command mode is the mode    *)
(* only while a command line is open (return_mode() in command_mode.cpp).  *)
THEOREM ModesAlwaysUnwind == Spec => []ModesUnwind
<1>1. IInv => ModesUnwind
  <2> SUFFICES ASSUME IInv, gate.mode = "c"
               PROVE  \E i \in DOMAIN calls : calls[i].does = "to_command"
    BY DEF IInv, ModesUnwind, CommandModeEnds
  <2>1. calls \in Seq(Calls) /\ Len(calls) \in Nat
    BY DEF IInv, TypeOK
  <2>2. PICK j \in 1..(Len(calls) + 1 - 1) : calls[j].does = "to_command"
    BY DEF IInv, Nested, CommandBelow
  <2> QED
    BY <2>1, <2>2
<1> QED
  BY <1>1, InvInit, InvNext, PTL DEF Spec

-----------------------------------------------------------------------------
(* The keyboard.  The modes that are entered one within the other are      *)
(* levels: that of the k-th call is what it found, the last one is the     *)
(* present.                                                                *)

Same(stack, n) ==
  \A i \in 1..n : /\ stack[i].does = calls[i].does
                  /\ stack[i].back = calls[i].back
                  /\ stack[i].flag = calls[i].flag
                  /\ stack[i].exposed = calls[i].exposed

(* A call below the level k found the keyboard open, and will open it.     *)
OpenBelow(stack, k) == \E j \in 1..(k - 1) : ~stack[j].flag

(* In an open mode the keyboard is absorbed for a call only, which opens   *)
(* it again; in the command mode it is absorbed, and so it was for all     *)
(* that the command line executes; in the others exposed tells it.         *)
Tells(stack, k, mode, absorbed, x) ==
  /\ IsOpen(mode) /\ absorbed => OpenBelow(stack, k)
  /\ mode = "c" =>
       /\ absorbed
       /\ k > 1 /\ stack[k - 1].does # "to_command" => stack[k - 1].back = "c"
  /\ ~IsOpen(mode) /\ mode # "c" => (x <=> ~absorbed \/ OpenBelow(stack, k))

TellsBelow(stack, n) ==
  \A k \in 1..n : Tells(stack, k, stack[k].back, stack[k].flag, stack[k].exposed)

Absorbing ==
  /\ TellsBelow(calls, Len(calls))
  /\ Tells(calls, Len(calls) + 1, gate.mode, gate.absorbed, exposed)

LEMMA CallsSame == Same(calls, Len(calls))
  BY DEF Same

(* A level depends on the calls below it only.                             *)
LEMMA TellsSame ==
  ASSUME NEW stack, NEW n \in Nat, NEW k \in 1..(n + 1), Same(stack, n),
         NEW mode, NEW absorbed, NEW x,
         Tells(calls, k, mode, absorbed, x)
  PROVE  /\ Tells(stack, k, mode, absorbed, x)
         /\ OpenBelow(stack, k) <=> OpenBelow(calls, k)
<1>1. \A j \in 1..(k - 1) : j \in 1..n
  OBVIOUS
<1>2. OpenBelow(stack, k) <=> OpenBelow(calls, k)
  BY <1>1 DEF OpenBelow, Same
<1>3. k > 1 => k - 1 \in 1..n
  OBVIOUS
<1>4. k > 1 => stack[k - 1].does = calls[k - 1].does /\ stack[k - 1].back = calls[k - 1].back
  BY <1>3 DEF Same
<1> QED
  BY <1>2, <1>4 DEF Tells

LEMMA TellsBelowSame ==
  ASSUME NEW stack, NEW n \in Nat, NEW m \in Nat, n <= m, Same(stack, n), TellsBelow(calls, m)
  PROVE  TellsBelow(stack, n)
<1> SUFFICES ASSUME NEW k \in 1..n
             PROVE  Tells(stack, k, stack[k].back, stack[k].flag, stack[k].exposed)
  BY DEF TellsBelow
<1>1. Tells(calls, k, calls[k].back, calls[k].flag, calls[k].exposed)
  BY DEF TellsBelow
<1>2. k \in 1..(n + 1)
  OBVIOUS
<1>3. Tells(stack, k, calls[k].back, calls[k].flag, calls[k].exposed)
  BY <1>1, <1>2, TellsSame
<1> QED
  BY <1>3 DEF Same

(* What a function or an option leaves is as it was, or the keyboard is    *)
(* open as the mode wants it, or the mode is another, not that of a line.  *)
Entered(s, t) ==
  \/ t = s
  \/ IsOpen(t.mode) /\ ~t.absorbed
  \/ t.mode # s.mode /\ ~IsOpen(t.mode) /\ t.mode # "c"

LEMMA ChangedEntered ==
  ASSUME NEW s \in Gates, NEW f \in ModeFunctions
  PROVE  Entered(s, Changed(s, f))
<1> USE DEF Changed, IsOpen, Gates, Entered
<1>1. CASE f = "to_gui_normal"
  BY <1>1 DEF ToNormal, Gate
<1>2. CASE f = "to_edi_normal"
  BY <1>2 DEF ToNormal, Gate
<1>3. CASE f = "to_insert"
  BY <1>3 DEF ToOpen, Gate
<1>4. CASE f = "to_resident"
  BY <1>4 DEF ToOpen, Gate
<1>5. CASE f = "to_gui_visual"
  BY <1>5 DEF ToVisual
<1>6. CASE f = "to_edi_visual"
  BY <1>6 DEF ToVisual
<1>7. CASE f = "click_left"
  BY <1>7 DEF Clicked, ToVisual
<1> QED
  BY <1>1, <1>2, <1>3, <1>4, <1>5, <1>6, <1>7 DEF ModeFunctions

LEMMA PolledEntered ==
  ASSUME NEW s \in Gates
  PROVE  Entered(s, Suppressed(Dedicated(s)))
<1>1. Entered(s, Dedicated(s))
  BY DEF Dedicated, ToNormal, ToOpen, Gate, Entered, IsOpen, Gates
<1>2. Entered(s, ToOpen("r"))
  BY DEF ToOpen, Gate, Entered, IsOpen
<1> QED
  BY <1>1, <1>2 DEF Suppressed

(* A mode that is entered so tells the truth.                              *)
LEMMA BecomesTells ==
  ASSUME TypeOK, Absorbing, NEW t, Entered(gate, t), Becomes(t, calls)
  PROVE  Tells(calls, Len(calls) + 1, gate'.mode, gate'.absorbed, exposed')
<1> DEFINE n == Len(calls)
           open == OpenBelow(calls, n + 1)
<1>1. n \in Nat
  BY LenProperties DEF TypeOK
<1>2. n + 1 - 1 = n
  BY <1>1
<1>3. open <=> \E i \in 1..n : ~calls[i].flag
  BY <1>2 DEF OpenBelow
<1>4. /\ gate' = t
      /\ exposed' = IF t.mode = gate.mode THEN exposed
                    ELSE ~IsOpen(t.mode) /\ (~t.absorbed \/ open)
  BY <1>3, Zenon DEF Becomes, Exposes
<1>5. Tells(calls, n + 1, gate.mode, gate.absorbed, exposed)
  BY DEF Absorbing
<1> HIDE DEF n, open
<1>6. CASE t = gate
  <2>1. gate' = gate /\ exposed' = exposed
    BY <1>4, <1>6
  <2> QED
    BY <1>5, <2>1 DEF n
<1>7. CASE IsOpen(t.mode) /\ ~t.absorbed
  <2>1. t.mode # "c"
    BY <1>7 DEF IsOpen
  <2> QED
    BY <1>4, <1>7, <2>1 DEF Tells
<1>8. CASE t.mode # gate.mode /\ ~IsOpen(t.mode) /\ t.mode # "c"
  <2>1. exposed' = (~t.absorbed \/ open)
    BY <1>4, <1>8
  <2> QED
    BY <1>4, <1>8, <2>1 DEF Tells, open, n
<1> QED
  BY <1>6, <1>7, <1>8 DEF Entered, n

(* Executing a function, from nowhere or within the innermost call         *)
LEMMA ProcessAbsorbs ==
  ASSUME TypeOK, Absorbing, NEW stack \in Seq(Calls), NEW f \in Functions,
         Process(stack, f), Len(stack) = Len(calls), Same(stack, Len(calls))
  PROVE  Absorbing'
<1> DEFINE n == Len(calls)
<1>0. n \in Nat /\ gate \in Gates
  BY LenProperties DEF TypeOK, Gates
<1>1. TellsBelow(stack, n)
  BY <1>0, TellsBelowSame DEF Absorbing
<1>2. CASE Enter(stack, f)
  <2> DEFINE call == Call(f)
  <2>1. /\ calls' = Append(stack, call)
        /\ gate' = Gate(IF f = "to_command" THEN "c" ELSE gate.mode, TRUE)
        /\ exposed' = exposed
        /\ f \in WaitingFunctions
    BY <1>2 DEF Enter
  <2>2. /\ call \in Calls /\ call.does = f
        /\ call.back = gate.mode /\ call.flag = gate.absorbed /\ call.exposed = exposed
    BY <1>0, <2>1 DEF Call, Calls, Gates, TypeOK
  <2> HIDE DEF call
  <2>3. /\ Len(calls') = n + 1
        /\ \A i \in 1..n : calls'[i] = stack[i]
        /\ calls'[n + 1] = call
    BY <2>1, <2>2, AppendProperty
  <2>4. Same(calls', n)
    BY <2>3 DEF Same
  <2>5. TellsBelow(calls', n)
    BY <1>0, <2>4, TellsBelowSame DEF Absorbing
  <2>6. /\ Tells(calls', n + 1, gate.mode, gate.absorbed, exposed)
        /\ OpenBelow(calls', n + 1) <=> OpenBelow(calls, n + 1)
    <3>1. n + 1 \in 1..(n + 1)
      BY <1>0
    <3> QED
      BY <1>0, <2>4, <3>1, TellsSame DEF Absorbing
  <2>7. TellsBelow(calls', n + 1)
    <3> SUFFICES ASSUME NEW k \in 1..(n + 1)
                 PROVE  Tells(calls', k, calls'[k].back, calls'[k].flag, calls'[k].exposed)
      BY DEF TellsBelow
    <3>1. CASE k = n + 1
      BY <2>2, <2>3, <2>6, <3>1
    <3>2. CASE k \in 1..n
      BY <2>5, <3>2 DEF TellsBelow
    <3> QED
      BY <1>0, <3>1, <3>2
  <2>8. OpenBelow(calls', n + 1 + 1) <=> OpenBelow(calls', n + 1) \/ ~gate.absorbed
    <3>1. \A j : j \in 1..(n + 1 + 1 - 1) <=> j \in 1..(n + 1 - 1) \/ j = n + 1
      BY <1>0
    <3>2. calls'[n + 1].flag = gate.absorbed
      BY <2>2, <2>3
    <3> DEFINE low == 1..(n + 1 - 1)
               all == 1..(n + 1 + 1 - 1)
               last == n + 1
    <3>3. /\ OpenBelow(calls', n + 1 + 1) <=> \E j \in all : ~calls'[j].flag
          /\ OpenBelow(calls', n + 1) <=> \E j \in low : ~calls'[j].flag
      BY DEF OpenBelow
    <3>4. (\A j : j \in all <=> j \in low \/ j = last) /\ calls'[last].flag = gate.absorbed
      BY <3>1, <3>2
    <3> HIDE DEF low, all, last
    <3> QED
      BY <3>3, <3>4, Zenon
  <2>9. /\ gate'.mode = IF f = "to_command" THEN "c" ELSE gate.mode
        /\ gate'.absorbed = TRUE
    BY <2>1 DEF Gate
  <2>10. /\ calls'[n + 1 + 1 - 1].does = f /\ calls'[n + 1 + 1 - 1].back = gate.mode
    BY <1>0, <2>2, <2>3
  <2> DEFINE o == OpenBelow(calls', n + 1)
             p == OpenBelow(calls', n + 1 + 1)
  <2>11. /\ p <=> o \/ ~gate.absorbed
         /\ IsOpen(gate.mode) /\ gate.absorbed => o
         /\ ~IsOpen(gate.mode) /\ gate.mode # "c" => (exposed <=> ~gate.absorbed \/ o)
    BY <2>6, <2>8 DEF Tells
  <2> HIDE DEF o, p
  <2>12. /\ IsOpen(gate'.mode) => p
         /\ ~IsOpen(gate'.mode) /\ gate'.mode # "c" => (exposed' <=> p)
    <3>1. CASE f = "to_command"
      BY <2>9, <3>1 DEF IsOpen
    <3>2. CASE f # "to_command"
      BY <2>1, <2>9, <2>11, <3>2, Zenon
    <3> QED
      BY <3>1, <3>2
  <2>13. gate'.mode = "c" /\ f # "to_command" => gate.mode = "c"
    BY <2>9
  <2>14. Tells(calls', n + 1 + 1, gate'.mode, gate'.absorbed, exposed')
    BY <2>9, <2>10, <2>12, <2>13 DEF Tells, p
  <2> QED
    BY <2>3, <2>7, <2>14 DEF Absorbing
<1>3. ASSUME calls' = stack, Tells(calls, n + 1, gate'.mode, gate'.absorbed, exposed')
      PROVE  Absorbing'
  <2>1. n + 1 \in 1..(n + 1)
    BY <1>0
  <2>2. Tells(stack, n + 1, gate'.mode, gate'.absorbed, exposed')
    BY <1>0, <1>3, <2>1, TellsSame
  <2> QED
    BY <1>1, <1>3, <2>2 DEF Absorbing
<1>4. CASE ChangeMode(f) /\ calls' = stack
  <2>1. Entered(gate, Changed(gate, f)) /\ Becomes(Changed(gate, f), calls)
    BY <1>0, <1>4, ChangedEntered DEF ChangeMode
  <2> QED
    BY <1>3, <1>4, <2>1, BecomesTells
<1>5. CASE ChangeTarget(f) /\ calls' = stack
  <2>1. gate' = gate /\ exposed' = exposed
    BY <1>5 DEF ChangeTarget
  <2> QED
    BY <1>3, <1>5, <2>1 DEF Absorbing
<1> QED
  BY <1>2, <1>4, <1>5 DEF Process

LEMMA AbsorbingInit == Init => Absorbing
<1> SUFFICES ASSUME Init
             PROVE  Absorbing
  OBVIOUS
<1>1. /\ IsOpen(gate.mode) => ~gate.absorbed
      /\ ~IsOpen(gate.mode) => gate.absorbed
      /\ gate.mode # "c"
  BY ModeAssumption DEF Init, Changed, ToNormal, ToOpen, Gate, IsOpen
<1>2. calls = <<>> /\ Len(calls) = 0 /\ exposed = FALSE
  BY DEF Init
<1>3. ~OpenBelow(calls, Len(calls) + 1)
  BY <1>2 DEF OpenBelow
<1> QED
  BY <1>1, <1>2, <1>3 DEF Absorbing, TellsBelow, Tells

LEMMA AbsorbingWithin ==
  ASSUME TypeOK, Absorbing, NEW f \in Functions, Decide(f) \/ ExecuteWithin(f)
  PROVE  Absorbing'
<1> DEFINE n == Len(calls)
<1>1. calls # <<>> /\ Process(Busy, f)
  BY DEF Decide, ExecuteWithin
<1>2. /\ n \in Nat \ {0} /\ Top \in Calls /\ Top = calls[n]
      /\ Busy \in Seq(Calls) /\ Len(Busy) = n
      /\ \A i \in 1..(n - 1) : Busy[i] = calls[i]
      /\ Busy[n] = [Top EXCEPT !.busy = TRUE]
  BY <1>1, BusyProperties DEF Top
<1>3. /\ Busy[n].does = calls[n].does /\ Busy[n].flag = calls[n].flag
      /\ Busy[n].back = calls[n].back /\ Busy[n].exposed = calls[n].exposed
  BY <1>2 DEF Calls
<1>4. \A i \in 1..n : i \in 1..(n - 1) \/ i = n
  BY <1>2
<1>5. Same(Busy, n)
  BY <1>2, <1>3, <1>4 DEF Same
<1> QED
  BY <1>1, <1>2, <1>5, ProcessAbsorbs

LEMMA AbsorbingReturn ==
  ASSUME TypeOK, Absorbing, Return
  PROVE  Absorbing'
<1> DEFINE n == Len(calls)
<1>1. /\ calls' = Below /\ gate' = Returned(gate, Top) /\ calls # <<>>
      /\ exposed' = IF ReturnsMode(gate, Top) THEN Top.exposed ELSE exposed
  BY DEF Return
<1>2. /\ n \in Nat \ {0} /\ n \in 1..n
      /\ Top \in Calls /\ Top = calls[n]
      /\ Len(calls') = n - 1
      /\ \A i \in 1..(n - 1) : calls'[i] = calls[i]
  BY <1>1, BelowProperties DEF Top
<1>3. Same(calls', n - 1) /\ n - 1 \in Nat /\ n \in 1..(n - 1 + 1) /\ n - 1 <= n
  BY <1>2 DEF Same
<1>4. TellsBelow(calls', n - 1)
  BY <1>2, <1>3, TellsBelowSame DEF Absorbing
<1>5. Tells(calls, n, Top.back, Top.flag, Top.exposed)
  BY <1>2 DEF Absorbing, TellsBelow
<1>6. Tells(calls, n + 1, gate.mode, gate.absorbed, exposed)
  BY DEF Absorbing
<1>7. gate'.absorbed = (gate.absorbed /\ Top.flag)
  BY <1>1 DEF Returned, Gate
<1>8. CASE ReturnsMode(gate, Top)
  <2>1. gate.mode = "c" /\ gate'.mode = Top.back /\ exposed' = Top.exposed
    BY <1>1, <1>8 DEF Returned, ReturnsMode, Gate
  <2>2. gate.absorbed = TRUE
    BY <1>6, <2>1 DEF Tells, TypeOK
  <2>3. gate'.absorbed = Top.flag
    BY <1>2, <1>7, <2>2 DEF Calls
  <2>4. Tells(calls, n, gate'.mode, gate'.absorbed, exposed')
    BY <1>5, <2>1, <2>3
  <2>5. Tells(calls', n, gate'.mode, gate'.absorbed, exposed')
    BY <1>3, <2>4, TellsSame
  <2> QED
    BY <1>2, <1>4, <2>5 DEF Absorbing
<1>9. CASE ~ReturnsMode(gate, Top)
  <2>1. gate'.mode = gate.mode /\ exposed' = exposed
    BY <1>1, <1>9 DEF Returned, Gate
  <2> DEFINE b == OpenBelow(calls, n)
             o == OpenBelow(calls, n + 1)
  <2>2. o <=> b \/ ~Top.flag
    <3> DEFINE low == 1..(n - 1)
               all == 1..(n + 1 - 1)
    <3>1. \A j : j \in all <=> j \in low \/ j = n
      BY <1>2
    <3>2. /\ o <=> \E j \in all : ~calls[j].flag
          /\ b <=> \E j \in low : ~calls[j].flag
      BY DEF OpenBelow
    <3>3. calls[n].flag = Top.flag
      BY <1>2
    <3> HIDE DEF low, all, b, o
    <3> QED
      BY <3>1, <3>2, <3>3, Zenon
  <2>3. /\ IsOpen(gate.mode) /\ gate.absorbed => o
        /\ ~IsOpen(gate.mode) /\ gate.mode # "c" => (exposed <=> ~gate.absorbed \/ o)
        /\ gate.mode = "c" => gate.absorbed
    BY <1>6 DEF Tells
  <2> HIDE DEF b, o
  <2>4. /\ IsOpen(gate'.mode) /\ gate'.absorbed => b
        /\ ~IsOpen(gate'.mode) /\ gate'.mode # "c" => (exposed' <=> ~gate'.absorbed \/ b)
    BY <1>7, <2>1, <2>2, <2>3, Zenon
  <2>5. ASSUME gate'.mode = "c"
        PROVE  /\ gate'.absorbed
               /\ n > 1 /\ calls[n - 1].does # "to_command" => calls[n - 1].back = "c"
    <3>1. gate.mode = "c" /\ Top.does # "to_command"
      BY <1>9, <2>1, <2>5 DEF ReturnsMode
    <3>2. n + 1 > 1 /\ n + 1 - 1 = n
      BY <1>2
    <3>3. Top.back = "c"
      BY <1>2, <1>6, <3>1, <3>2 DEF Tells
    <3>4. /\ Top.flag
          /\ n > 1 /\ calls[n - 1].does # "to_command" => calls[n - 1].back = "c"
      BY <1>5, <3>3 DEF Tells
    <3> QED
      BY <1>7, <2>3, <3>1, <3>4
  <2>6. Tells(calls, n, gate'.mode, gate'.absorbed, exposed')
    BY <2>4, <2>5 DEF Tells, b
  <2>7. Tells(calls', n, gate'.mode, gate'.absorbed, exposed')
    BY <1>3, <2>6, TellsSame
  <2> QED
    BY <1>2, <1>4, <2>7 DEF Absorbing
<1> QED
  BY <1>8, <1>9

LEMMA AbsorbingNext == TypeOK /\ Absorbing /\ [Next]_vars => Absorbing'
<1> SUFFICES ASSUME TypeOK, Absorbing, [Next]_vars
             PROVE  Absorbing'
  OBVIOUS
<1>1. ASSUME NEW w \in Windows, Focus(w)
      PROVE  Absorbing'
  BY <1>1 DEF Focus, Absorbing
<1>2. ASSUME NEW f \in Functions, Execute(f) \/ ExecuteRequest(f)
      PROVE  Absorbing'
  <2>1. Process(calls, f) /\ calls \in Seq(Calls)
    BY <1>2 DEF Execute, ExecuteRequest, TypeOK
  <2> QED
    BY <2>1, CallsSame, ProcessAbsorbs
<1>3. CASE Poll
  <2>1. gate \in Gates
    BY DEF TypeOK, Gates
  <2>2. Tells(calls, Len(calls) + 1, gate'.mode, gate'.absorbed, exposed')
    BY <1>3, <2>1, PolledEntered, BecomesTells DEF Poll
  <2> QED
    BY <1>3, <2>2 DEF Poll, Absorbing
<1>4. CASE UNCHANGED vars
  BY <1>4 DEF vars, Absorbing
<1> QED
  BY <1>1, <1>2, <1>3, <1>4, AbsorbingWithin, AbsorbingReturn DEF Next

(* For every table of bindings, every set of requests and windows, and any *)
(* depth of functions that wait inside of each other: whenever nothing     *)
(* waits, the keyboard is open in the insert and the resident mode, and in *)
(* every other mode it is absorbed unless the mode was entered with the    *)
(* keyboard open or within a function that had found it open ("Block key   *)
(* messages?" in docs/usage/index.md, InstantKeyAbsorber).                 *)
THEOREM ModesKeepTheKeyboard == Spec => []BlocksKeyMessages
<1>1. IInv /\ Absorbing => BlocksKeyMessages
  <2> SUFFICES ASSUME IInv, Absorbing, calls = <<>>
               PROVE  gate.absorbed <=> ~IsOpen(gate.mode) /\ ~exposed
    BY DEF BlocksKeyMessages
  <2>1. Len(calls) = 0
    OBVIOUS
  <2>2. gate.mode # "c"
    BY <2>1 DEF IInv, Nested, CommandBelow
  <2>3. ~OpenBelow(calls, Len(calls) + 1)
    BY <2>1 DEF OpenBelow
  <2>4. /\ gate.absorbed \in BOOLEAN /\ exposed \in BOOLEAN
    BY DEF IInv, TypeOK
  <2> QED
    BY <2>2, <2>3, <2>4 DEF Absorbing, Tells
<1>2. IInv => TypeOK
  BY DEF IInv
<1> QED
  BY <1>1, <1>2, AbsorbingInit, AbsorbingNext, InvInit, InvNext, PTL DEF Spec

=============================================================================
