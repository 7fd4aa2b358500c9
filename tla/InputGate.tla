------------------------------ MODULE InputGate ------------------------------
(***************************************************************************)
(* The InputGate (src/src/core/inputgate.cpp and .hpp): what win-vind      *)
(* believes of the keyboard, and which key messages it lets through.       *)
(*                                                                         *)
(* Two threads use it without a lock.  The low-level keyboard hook runs on *)
(* the main thread, once for every message of a key; the system thread     *)
(* executes functions.  Each works through the steps in todo, and between  *)
(* two steps of one the other one may make some of its own.                *)
(*                                                                         *)
(* A key message that SendInput() generates passes by the hook, so it is   *)
(* sent only when the hook is not busy with another one, or by the hook.   *)
(* It may fail on the system thread; an exception of the hook would pass   *)
(* through the operating system, and what happens then is not modelled.    *)
(***************************************************************************)
EXTENDS Sublists, SequencesExt, FiniteSets

CONSTANTS
  Keys,       \* the virtual-key codes
  CodeOrder,  \* the same, in the order of the codes
  NoKey,
  Keyboards,  \* the sets of keys that a user may have and use
  RepOf,      \* to_representative(): NoKey, or both shifts for either one
  PhysOf,     \* to_physical(): the key that is sent for another one
  Hotkeys,    \* what is registered for a key in a mode: the keys that it
              \* is mapped to, only itself for a key that is let through
  Toggles,    \* is_toggle(): no message tells that such a key comes up
  Strokes,    \* the sets of keys that functions and external units push up
  KEYCODE_LALT, KEYCODE_TAB,
  Arrows,     \* the keys that switch_window pushes up on demand
  EndKeys,    \* <esc> and <enter>, which end a function that waits
  Requested,  \* the functions that are executed for other processes
  Overlap     \* whether the user strikes keys while the mode is changed, all
              \* ports are closed, or the state is corrected

Modes == {"insert", "normal"}
Threads == {"hook", "system"}

ASSUME GateAssumption ==
  /\ CodeOrder \in Seq(Keys) /\ ToSet(CodeOrder) = Keys
  /\ IsInjective(CodeOrder)
  /\ Keyboards \subseteq SUBSET Keys
  /\ NoKey \notin Keys
  /\ RepOf \in [Keys -> Keys \cup {NoKey}]
  /\ PhysOf \in [Keys -> Keys]
  /\ Hotkeys \in [Modes -> [Keys -> SUBSET Keys]]
  /\ \A m \in Modes, k \in Keys : Hotkeys[m][k] # {} => PhysOf[k] = k
  /\ PhysOf[KEYCODE_TAB] = KEYCODE_TAB
  /\ Toggles \subseteq Keys
  /\ Strokes \subseteq SUBSET Keys
  /\ Arrows \cup EndKeys \cup {KEYCODE_LALT, KEYCODE_TAB} \subseteq Keys
  /\ Overlap \in BOOLEAN

VARIABLES
  held,    \* the keys that the user holds down
  app,     \* the keys that are down for the other programs
  low,     \* lowlevel_state_, of the toggle keys alone
  real,    \* real_state_
  state,   \* state_: what win-vind understands
  port,    \* port_state_
  absorb,  \* absorb_state_
  mode,    \* get_global_mode()
  todo,    \* what each thread has still to do
  fails,   \* whether SendInput() may fail
  physical \* the keys of the user

states == <<low, real, state>>
gates  == <<port, absorb, mode, physical, fails>>
vars == <<held, app, states, gates, todo>>

-----------------------------------------------------------------------------
(* Steps.  Each concerns some keys, mostly one, that go down or up.        *)

Ops ==
  {"decide", "open", "close", "close_all", "send", "virtual", "refresh",
   "lift", "stroke", "external", "correct", "check", "release", "absorb",
   "mode", "push", "wait", "verify", "scope", "restore", "toggle", "forget",
   "recover", "unpress", "resend", "end", "ended"}
Step(op, keys, down) == [op |-> op, keys |-> keys, down |-> down]
Steps == [op : Ops, keys : SUBSET Keys, down : BOOLEAN]

Open(keys)          == Step("open", keys, TRUE)
Close(keys)         == Step("close", keys, TRUE)
CloseAll            == Step("close_all", {}, TRUE)
Send(keys, down)    == Step("send", keys, down)
Virtual(keys, down) == Step("virtual", keys, down)

(* press_keystate(), release_keystate()                                    *)
KeyState(keys, down) == <<Send(keys, down), Virtual(keys, down)>>

(* One step for each of some keys, in the order of their codes.            *)
Ordered(keys) == Among(CodeOrder, keys)
ForEach(op, keys) ==
  [i \in DOMAIN Ordered(keys) |-> Step(op, {Ordered(keys)[i]}, FALSE)]

(* map_syncstate()                                                         *)
MapSyncState(target, down) ==
  IF target = {} THEN <<>>
  ELSE <<Open(target)>> \o KeyState(target, down) \o <<Close(target)>>

(* Mutants: the keys that are down are forgotten; the ports stay open.     *)
CloseAllForgettingKeys == <<CloseAll>>
CloseAllForgettingPorts == ForEach("refresh", Keys)

(* close_all_ports_with_refresh()                                          *)
CloseAllWithRefresh == ForEach("refresh", Keys) \o <<CloseAll>>

(* pushup(), called by a function ("stroke") or by an external unit, when  *)
(* pre is pressed_list()                                                   *)
PushUp(caller, keys, pre) ==
  ForEach("lift", pre)
    \o <<Open({PhysOf[k] : k \in keys}), Step(caller, keys, TRUE), Close(keys),
         Virtual(pre, TRUE)>>

Push(keys) == Step("push", keys, TRUE)

(* ScopedKey::press() and release()                                        *)
Scoped(key, down) ==
  <<Open({key}), Send({key}, down), CloseAll, Step("verify", {key}, down)>>

(* A function with an InstantKeyAbsorber, whose destructor comes last.     *)
Absorbing(steps) ==
  CloseAllWithRefresh \o <<Step("absorb", {}, TRUE)>> \o steps
    \o (IF absorb THEN <<>> ELSE <<Step("restore", {}, FALSE)>>)

(* A loop that pulls inputs until one of them ends it.                     *)
Wait(keys) == Step("wait", keys, FALSE)

-----------------------------------------------------------------------------
(* The hook.                                                               *)

Identity(m, k) == Hotkeys[m][k] = {k}
Target(m, k)   == IF Identity(m, k) THEN {} ELSE Hotkeys[m][k]
Passes(k) == k \in port \/ Identity(mode, k) \/ ~absorb

Put(set, keys, down) == IF down THEN set \cup keys ELSE set \ keys

(* The codes that a message of key k is about.                             *)
Named(k) == {k, RepOf[k]} \ {NoKey}

Idle(t) == todo[t] = <<>>
First(t) == Head(todo[t])
Doing(t, op) == ~Idle(t) /\ First(t).op = op
Waiting == Doing("system", "wait")
Ended == Doing("system", "ended")

(* Before it waits, the system thread has ports to close or a state to     *)
(* correct.                                                                *)
Adjusting ==
  \E i \in DOMAIN todo["system"] :
    /\ todo["system"][i].op \in
         {"refresh", "absorb", "mode", "check", "release", "verify", "scope",
          "restore", "toggle", "forget", "recover", "resend", "close_all"}
    /\ \A j \in 1..i : todo["system"][j].op # "wait"

(* The user strikes or lets go of a key, or holds it until it repeats: the *)
(* first half of hook_proc().                                              *)
KeyMessage(k, down) ==
  /\ Idle("hook") /\ ~Ended
  /\ Overlap \/ ~Adjusting
  /\ down \/ k \in held \ Toggles
  /\ held' = Put(held, {k}, down)
  /\ low' = low \cup ({k} \cap Toggles)
  /\ IF Target(mode, k) # {}
     THEN /\ todo' = [todo EXCEPT !["hook"] = MapSyncState(Target(mode, k), down)]
          /\ UNCHANGED <<real, state>>
     ELSE /\ todo' = [todo EXCEPT !["hook"] = <<Step("decide", {k}, down)>>]
          /\ real' = Put(real, Named(k), down)
          /\ state' = Put(state, Named(k), down)
  /\ UNCHANGED <<app, gates>>

(* A toggle key comes up, and the hook is not called.                      *)
ToggleComesUp ==
  /\ ~Ended
  /\ \E k \in Toggles \cap held : held' = held \ {k}
  /\ UNCHANGED <<app, states, gates, todo>>

-----------------------------------------------------------------------------
(* The functions, each with the correction that follows it in update().    *)

Execute(steps) ==
  /\ Idle("system")
  /\ todo' = [todo EXCEPT !["system"] = steps]
  /\ UNCHANGED <<held, app, states, gates>>

(* update() corrects the state after a function that was bound to a key,   *)
(* not after one that another process requested.                           *)
Corrected(f, steps) ==
  {steps \o <<Step("correct", {}, FALSE)>>}
    \cup (IF f \in Requested THEN {steps} ELSE {})

(* ToGUINormal, ToEdiNormal                                                *)
ToNormal ==
  /\ mode # "normal"
  /\ Overlap \/ Idle("hook")
  /\ \E steps \in Corrected("normal", CloseAllWithRefresh \o
            <<Step("absorb", {}, TRUE), Step("mode", {}, TRUE)>>) :
       Execute(steps)

(* ToInsert, ToResident                                                    *)
ToInsert ==
  /\ Overlap \/ Idle("hook")
  /\ \E steps \in Corrected("insert",
            <<CloseAll, Step("absorb", {}, FALSE), Step("mode", {}, FALSE)>>) :
       Execute(steps)

(* The functions that emulate a key                                        *)
Stroke(keys) ==
  \E steps \in Corrected("stroke", PushUp("stroke", keys, state)) : Execute(steps)

(* ExternalCmdUnit::execute(), which is no function                        *)
SendExternal(keys) ==
  \E steps \in Corrected("external", PushUp("external", keys, state)) : Execute(steps)

(* WindowResizer, which waits and sends nothing.                           *)
ResizeWindow ==
  /\ Overlap \/ Idle("hook")
  /\ \E steps \in Corrected("resize",
            Absorbing(<<Wait({}), Virtual(EndKeys, FALSE)>>)) : Execute(steps)

(* SwitchWindow, which holds <alt> down while it waits.                    *)
SwitchWindow ==
  /\ Overlap \/ Idle("hook")
  /\ \E steps \in Corrected("switch", Absorbing(
            Scoped(KEYCODE_LALT, TRUE)
              \o <<Virtual({KEYCODE_LALT}, FALSE), Push({KEYCODE_TAB}),
                   Wait(Arrows), Virtual(EndKeys, FALSE)>>
              \o Scoped(KEYCODE_LALT, FALSE)
              \o <<Step("scope", {KEYCODE_LALT}, FALSE)>>)) : Execute(steps)

(* refresh_toggle_state(), in every Background::update(): that of the main *)
(* loop, and that of a function that waits.  Without a toggle key that is  *)
(* down it does nothing.                                                   *)
RefreshToggleState ==
  /\ Idle("system") \/ Waiting
  /\ Overlap \/ Idle("hook")
  /\ low # {}
  /\ todo' = [todo EXCEPT !["system"] = ForEach("toggle", Toggles) \o @]
  /\ UNCHANGED <<held, app, states, gates>>

(* handle_system_call(), for TERMINATE                                     *)
Terminate == Execute(<<Step("end", {}, FALSE)>>)

-----------------------------------------------------------------------------
(* The steps.                                                              *)

Continue(t, steps) == todo' = [todo EXCEPT ![t] = steps \o Tail(@)]

DoDecide(t) ==
  /\ Doing(t, "decide")
  /\ app' = IF \A k \in First(t).keys : Passes(k)
            THEN Put(app, First(t).keys, First(t).down) ELSE app
  /\ Continue(t, <<>>)
  /\ UNCHANGED <<held, states, gates>>

DoPorts(t) ==
  /\ \/ Doing(t, "open") /\ port' = port \cup First(t).keys
     \/ Doing(t, "close") /\ port' = port \ First(t).keys
     \/ Doing(t, "close_all") /\ port' = {}
  /\ Continue(t, <<>>)
  /\ UNCHANGED <<held, app, states, absorb, mode, physical, fails>>

Reached(keys) == {k \in {PhysOf[x] : x \in keys} : Passes(k)}

(* SendInput(), of some keys that go down or up, or down and up again.     *)
DoSend(t) ==
  /\ t = "hook" \/ Idle("hook")
  /\ \/ /\ Doing(t, "send") \/ Doing(t, "resend")
        /\ app' = Put(app, Reached(First(t).keys), First(t).down)
     \/ /\ Doing(t, "stroke") \/ Doing(t, "external")
        /\ app' = app \ Reached(First(t).keys)
  /\ Continue(t, <<>>)
  /\ UNCHANGED <<held, states, gates>>

DoVirtual(t) ==
  /\ Doing(t, "virtual") \/ Doing(t, "release")
  /\ state' = Put(state, First(t).keys, First(t).down)
  /\ Continue(t, <<>>)
  /\ UNCHANGED <<held, app, low, real, gates>>

(* calibrate_absorber_state()                                              *)
Calibrate ==
  IF state = {} THEN <<>>
  ELSE (IF absorb THEN <<Open(state)>> ELSE <<>>)
         \o ForEach("unpress", state) \o <<CloseAll>>

(* The loop over the toggle keys, once one has been silent for 515 ms.     *)
ReleaseToggle(k) ==
  MapSyncState(Target("insert", k), FALSE)
    \o MapSyncState(Target("normal", k), FALSE)
    \o KeyState({k}, FALSE) \o <<Step("forget", {k}, FALSE)>>

(* Steps that look at the state before they know what is to be done.       *)
DoLook(t) ==
  /\ \/ Doing(t, "refresh")
        /\ Continue(t, IF First(t).keys \subseteq state
                       THEN <<Open(First(t).keys)>> \o KeyState(First(t).keys, FALSE)
                       ELSE <<>>)
     \/ Doing(t, "lift")
        /\ Continue(t, IF First(t).keys \subseteq real
                       THEN KeyState(First(t).keys, FALSE)
                       ELSE <<Virtual(First(t).keys, FALSE)>>)
     \/ Doing(t, "correct")
        /\ Continue(t, ForEach("check", state))
     \/ Doing(t, "check")
        /\ Continue(t, IF First(t).keys \subseteq real
                       THEN <<>> ELSE <<Step("release", First(t).keys, FALSE)>>)
     \/ Doing(t, "push")
        /\ Continue(t, PushUp("stroke", First(t).keys, state))
     \/ Doing(t, "scope")
        /\ Continue(t, <<Open(First(t).keys), Step("resend", First(t).keys, FALSE),
                         CloseAll>>)
     \/ Doing(t, "recover") /\ (Overlap \/ Idle("hook"))
        /\ Continue(t, Calibrate)
     \/ Doing(t, "unpress")
        /\ Continue(t, <<Step("resend", First(t).keys, FALSE),
                         Virtual(First(t).keys, FALSE)>>)
     \/ Doing(t, "toggle")
        /\ \E k \in First(t).keys :
             Continue(t, IF k \in low \ held THEN ReleaseToggle(k) ELSE <<>>)
  /\ UNCHANGED <<held, app, states, gates>>

(* The hook forgets a toggle key.                                          *)
DoForget ==
  /\ Doing("system", "forget")
  /\ low' = low \ First("system").keys
  /\ real' = real \ First("system").keys
  /\ state' = state \ First("system").keys
  /\ Continue("system", <<>>)
  /\ UNCHANGED <<held, app, gates>>

(* An input came: it moves the selection, or it ends the loop.             *)
DoWait ==
  /\ Waiting
  /\ \/ \E k \in First("system").keys :
          todo' = [todo EXCEPT !["system"] = <<Push({k})>> \o @]
     \/ (Overlap \/ Idle("hook")) /\ Continue("system", <<>>)
  /\ UNCHANGED <<held, app, states, gates>>

-----------------------------------------------------------------------------
(* Failures.                                                               *)

Only(steps, ops) == Among(steps, {x \in Steps : x.op \in ops})

(* Mutant: a destructor is not run.                                        *)
ThrownBare(steps) ==
  <<Step("recover", {}, FALSE)>> \o Only(steps, {"correct"})

(* An exception of the first step on its way: the destructors of what was  *)
(* constructed, the recovery of BindedFunc::process(), and the correction. *)
(* That of an external unit or of a toggle key, unless a function waits,   *)
(* is caught by none and ends the system thread.                           *)
Thrown(steps) ==
  LET constructed == IF Only(steps, {"absorb"}) = <<>> THEN {"scope", "restore"} ELSE {}
      running == Only(steps, {"wait", "forget", "external"})
  IN  IF running # <<>> /\ Last(running).op \in {"forget", "external"}
      THEN <<Step("end", {}, FALSE)>>
      ELSE Only(steps, constructed) \o <<Step("recover", {}, FALSE)>>
             \o Only(steps, {"correct"})

(* One that a destructor or the recovery catches: its ports stay open.     *)
Caught(rest) ==
  LET i == CHOOSE i \in DOMAIN rest :
             rest[i].op = "close_all" /\ \A j \in 1..(i - 1) : rest[j].op # "close_all"
  IN  SubSeq(rest, i + 1, Len(rest))

Throw == todo' = [todo EXCEPT !["system"] = Thrown(@)]

SendFails ==
  /\ fails
  /\ Idle("hook")
  /\ \/ /\ Doing("system", "send") \/ Doing("system", "stroke") \/ Doing("system", "external")
        /\ Throw
     \/ Doing("system", "resend")
        /\ todo' = [todo EXCEPT !["system"] = Caught(Tail(@))]
  /\ UNCHANGED <<held, app, states, gates>>

(* ScopedKey asks whether the key has gone down or up.                     *)
DoVerify ==
  /\ Doing("system", "verify")
  /\ IF (First("system").keys \subseteq app) = First("system").down
     THEN Continue("system", <<>>) ELSE Throw
  /\ UNCHANGED <<held, app, states, gates>>

(* uninstall_hook(): the keys that are down are let go of; the process     *)
(* ends, and from now on the keyboard is the user's own.                   *)
Uninstall ==
  /\ Doing("system", "end") /\ Idle("hook")
  /\ app' = app \ {PhysOf[k] : k \in real}
  /\ Continue("system", <<Step("ended", {}, FALSE)>>)
  /\ low' = {} /\ real' = {} /\ state' = {} /\ port' = {}
  /\ UNCHANGED <<held, absorb, mode, physical, fails>>

UnhookedKey(k, down) ==
  /\ Ended
  /\ down \/ k \in held
  /\ held' = Put(held, {k}, down)
  /\ app' = Put(app, {k}, down)
  /\ UNCHANGED <<states, gates, todo>>

DoGate(t) ==
  /\ \/ /\ Doing(t, "absorb") \/ Doing(t, "restore")
        /\ absorb' = First(t).down
        /\ UNCHANGED mode
     \/ /\ Doing(t, "mode")
        /\ mode' = IF First(t).down THEN "normal" ELSE "insert"
        /\ UNCHANGED absorb
  /\ Continue(t, <<>>)
  /\ UNCHANGED <<held, app, states, port, physical, fails>>

-----------------------------------------------------------------------------

(* The hook is installed, and initmode is insert.                          *)
Init ==
  /\ held = {} /\ app = {} /\ low = {} /\ real = {} /\ state = {} /\ port = {}
  /\ absorb = FALSE
  /\ mode = "insert"
  /\ todo = [t \in Threads |-> <<>>]
  /\ physical \in Keyboards
  /\ fails \in BOOLEAN

Next ==
  \/ \E k \in physical, down \in BOOLEAN : KeyMessage(k, down) \/ UnhookedKey(k, down)
  \/ ToggleComesUp
  \/ ToNormal \/ ToInsert \/ ResizeWindow \/ SwitchWindow
  \/ \E keys \in Strokes : Stroke(keys) \/ SendExternal(keys)
  \/ RefreshToggleState
  \/ Terminate
  \/ \E t \in Threads :
       \/ DoDecide(t) \/ DoPorts(t) \/ DoSend(t)
       \/ DoVirtual(t) \/ DoLook(t) \/ DoGate(t)
  \/ DoForget \/ DoWait \/ DoVerify \/ SendFails \/ Uninstall

Spec == Init /\ [][Next]_vars

-----------------------------------------------------------------------------

TypeOK ==
  /\ physical \in Keyboards
  /\ held \subseteq physical
  /\ low \subseteq Toggles
  /\ {app, real, state, port} \subseteq SUBSET Keys
  /\ {absorb, fails} \subseteq BOOLEAN
  /\ mode \in Modes
  /\ todo \in [Threads -> Seq(Steps)]

AllIdle == \A t \in Threads : Idle(t)

(* The ports that pushup() does not close again.                           *)
LeftOpen ==
  {PhysOf[k] : k \in {x \in UNION (Strokes \cup {Arrows}) : PhysOf[x] # x}}

(* "Block key messages?" in docs/usage/index.md: while the keyboard is     *)
(* absorbed and no function is being executed but one that waits, what the *)
(* user strikes reaches no program, whichever ports hook, functions and    *)
(* recoveries opened and closed before (hook_proc, map_syncstate, pushup), *)
(* but for the keys that are let through, and those that were emulated by  *)
(* the name of two keys.  A SendInput() that fails may leave ports open.   *)
BlocksKeyMessages ==
  [][DoDecide("hook") /\ absorb /\ ~fails /\ (Idle("system") \/ Waiting) =>
       \/ app' = app
       \/ \E k \in First("hook").keys : Identity(mode, k) \/ k \in LeftOpen]_vars

(* What the user holds down, or held down and nobody looked since.         *)
Down == held \cup low
Targets(keys) == UNION {Target(m, k) : m \in Modes, k \in keys}

(* "Thus, its key is needed to be up before absorbing key"                 *)
(* (change_mode.cpp): when nothing is going on, no program believes a key  *)
(* to be down that is up, be it held by the user or by a hotkey, also when *)
(* functions waited and held a key of their own; and "prohibit to keep     *)
(* pressing after termination" (uninstall_hook()), but for the target of a *)
(* hotkey.  A SendInput() that fails may leave a key down.                 *)
KeysComeUp ==
  ~fails =>
    /\ AllIdle => app \subseteq Down \cup Targets(Down)
    /\ Ended => app \subseteq held \cup Targets(physical)

(* "Correct the state to avoid cases that a virtual key is judged to be    *)
(* pressed, though a real key is released" (entry.cpp): what win-vind      *)
(* takes for pressed is held, or the target of what is.                    *)
NoGhostKeys ==
  AllIdle =>
    /\ real \subseteq UNION {Named(k) : k \in Down}
    /\ state \subseteq UNION {Named(k) : k \in Down} \cup Targets(Down)

(* Whichever function waited or failed, and wherever it did, the keyboard  *)
(* is absorbed afterwards as the mode wants it: the destructors on the way *)
(* undo the absorption exactly when the constructor was done (~ScopedKey,  *)
(* ~InstantKeyAbsorber, BindedFunc::process).                              *)
AbsorptionUnwinds == AllIdle => (absorb <=> mode = "normal")

(* When nothing is going on, the other programs and win-vind agree with    *)
(* the user about the keys (hook_proc, pushup, VindEntry::update).         *)
KeyboardAgrees == TypeOK /\ KeysComeUp /\ NoGhostKeys

=============================================================================
