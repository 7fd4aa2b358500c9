------------------------------ MODULE UICache ------------------------------
(***************************************************************************)
(* The cache of the UI elements of one window (src/src/opt/uicache.cpp)    *)
(* and the option that keeps it up to date while the mouse cursor rests    *)
(* (src/src/opt/uiacachebuild.cpp).  A thread scans the window; its caller *)
(* looks at the time stamps that the thread writes.                        *)
(*                                                                         *)
(* Points of time are kept as ages, the ticks since then, up to MaxAge:    *)
(* what is older than that is as old as MaxAge.  Of a scan only its age    *)
(* matters.  Two threads never call update() or latest() together: the     *)
(* thread that waits for keys polls the options while the other one paints.*)
(***************************************************************************)
EXTENDS Integers

CONSTANTS
  Lifetime,   \* the option uiacachebuild_lifetime
  StayBegin,  \* the option uiacachebuild_staybegin
  StayEnd,    \* the option uiacachebuild_stayend
  MaxAge      \* bound on the ages that are told apart

Ages == 0..MaxAge

(* The element of a window handle, whose properties nobody has scanned.    *)
NotScanned == -1
Scans == Ages \cup {NotScanned}

(* latest() is not returning.                                              *)
NothingServed == -2

ASSUME CacheAssumption ==
  /\ MaxAge \in Nat
  /\ {Lifetime, StayBegin, StayEnd} \subseteq 0..(MaxAge - 1)

VARIABLES
  root,     \* root_: the age of the scan it holds
  future,   \* ft_: what became of its thread, "none" when it is not valid()
  found,    \* the scan of the thread
  begin,    \* the age of begin_
  ended,    \* has_stamp(): end_ was stamped once
  mean,     \* mean_
  stayed,   \* the age of keeptime
  moved,    \* the cursor is not at prepos
  caller,   \* what the system thread is doing
  served,   \* history variable: the scan that latest() is returning
  recent,   \* history variable: the last two scans, the younger one first
  given     \* history variable: the scan that was served last

cache   == <<root, future, found, begin, ended, mean>>
cursor  == <<stayed, moved>>
history == <<served, recent, given>>
cacheVars == <<cache, cursor, caller, history>>

CacheInit ==
  /\ root = NotScanned /\ future = "none" /\ found = NotScanned
  /\ begin = MaxAge /\ ended = FALSE /\ mean = 0
  /\ stayed = MaxAge /\ moved \in BOOLEAN
  /\ caller = "idle" /\ served = NothingServed
  /\ recent = <<NotScanned, NotScanned>> /\ given = NotScanned

-----------------------------------------------------------------------------
(* The thread of create_thread().                                          *)

StampBegin ==
  /\ future = "launched"
  /\ future' = "scanning" /\ begin' = 0 /\ served' = NothingServed
  /\ UNCHANGED <<root, found, ended, mean, cursor, caller, recent, given>>

(* update_element(): UI Automation looks at the window.                    *)
Scan ==
  /\ future = "scanning"
  /\ future' = "scanned" /\ found' = 0 /\ served' = NothingServed
  /\ recent' = <<0, recent[1]>>
  /\ UNCHANGED <<root, begin, ended, mean, cursor, caller, given>>

(* ... or it cannot; the exception waits in the future.                    *)
ScanFails ==
  /\ future = "scanning"
  /\ future' = "failed" /\ served' = NothingServed
  /\ UNCHANGED <<root, found, begin, ended, mean, cursor, caller, recent, given>>

(* update_average()                                                        *)
Averaged == IF mean = 0 THEN begin ELSE (mean + begin) \div 2

StampEnd ==
  /\ future = "scanned"
  /\ future' = "ready" /\ ended' = TRUE /\ mean' = Averaged
  /\ served' = NothingServed
  /\ UNCHANGED <<root, found, begin, cursor, caller, recent, given>>

Thread == StampBegin \/ Scan \/ ScanFails \/ StampEnd

-----------------------------------------------------------------------------

(* is_valid(), of a cache that has its element                             *)
IsValid == ended /\ begin < Lifetime

(* ft_.get(): what the future holds, which is gone from it then            *)
Collect ==
  /\ future' = "none"
  /\ root' = IF future = "ready" THEN found ELSE root

(* Mutant: the future is not asked before it is replaced.                  *)
UpdateStacking ==
  /\ ~IsValid
  /\ begin >= mean
  /\ future \in {"none", "ready", "failed"}
  /\ future' = "launched" /\ root' = root

(* update(): a build that has ended is collected, and only without one a   *)
(* thread is created.                                                      *)
Update ==
  /\ ~IsValid
  /\ begin >= mean
  /\ \/ future = "none" /\ future' = "launched" /\ root' = root
     \/ future \in {"ready", "failed"} /\ Collect

(* Mutant: a computer that is left alone is scanned for ever.              *)
RestingForGood == ~moved /\ StayBegin <= stayed

(* The time range, after the cursor stopped, in which do_process() builds. *)
Resting == ~moved /\ StayBegin <= stayed /\ stayed <= StayEnd

(* do_process(), when neither the mode nor a key that is held forbids it   *)
NoticeMove ==
  /\ caller = "idle"
  /\ moved
  /\ moved' = FALSE /\ stayed' = 0 /\ served' = NothingServed
  /\ UNCHANGED <<cache, caller, recent, given>>

Process ==
  /\ caller = "idle"
  /\ Resting
  /\ Update
  /\ served' = NothingServed
  /\ UNCHANGED <<found, begin, ended, mean, cursor, caller, recent, given>>

(* latest()                                                                *)
ServeValid ==
  /\ caller = "idle"
  /\ IsValid
  /\ served' = root /\ given' = root
  /\ UNCHANGED <<cache, cursor, caller, recent>>

(* Mutant: what the thread found is returned and not kept.                 *)
GetForgetting ==
  /\ future \in {"ready", "failed"}
  /\ future' = "none" /\ root' = root
  /\ served' = IF future = "ready" THEN found ELSE NothingServed
  /\ given' = IF future = "ready" THEN found ELSE given
  /\ caller' = "idle"
  /\ UNCHANGED <<found, begin, ended, mean, cursor, recent>>

(* ft_.get() of a thread that has ended: its scan is served, or its        *)
(* exception is thrown.                                                    *)
Get ==
  /\ future \in {"ready", "failed"}
  /\ Collect
  /\ served' = IF future = "ready" THEN found ELSE NothingServed
  /\ given' = IF future = "ready" THEN found ELSE given
  /\ caller' = "idle"
  /\ UNCHANGED <<found, begin, ended, mean, cursor, recent>>

ServeFinished == caller = "idle" /\ ~IsValid /\ Get

(* Mutant: no thread is created, so that nobody ever has a result.         *)
StartWaitingForNobody ==
  /\ caller = "idle"
  /\ ~IsValid
  /\ future \notin {"ready", "failed"}
  /\ caller' = "waiting" /\ served' = NothingServed
  /\ UNCHANGED <<cache, cursor, recent, given>>

StartWaiting ==
  /\ caller = "idle"
  /\ ~IsValid
  /\ future \notin {"ready", "failed"}
  /\ future' = IF future = "none" THEN "launched" ELSE future
  /\ caller' = "waiting" /\ served' = NothingServed
  /\ UNCHANGED <<root, found, begin, ended, mean, cursor, recent, given>>

StopWaiting == caller = "waiting" /\ Get

(* do_disable(): the caches are destroyed, which waits for their threads.  *)
Clear ==
  /\ caller = "idle"
  /\ caller' = "clearing" /\ served' = NothingServed
  /\ UNCHANGED <<cache, cursor, recent, given>>

Cleared ==
  /\ caller = "clearing"
  /\ future \in {"none", "ready", "failed"}
  /\ root' = NotScanned /\ future' = "none" /\ found' = NotScanned
  /\ begin' = MaxAge /\ ended' = FALSE /\ mean' = 0
  /\ caller' = "idle" /\ served' = NothingServed /\ given' = NotScanned
  /\ UNCHANGED <<cursor, recent>>

-----------------------------------------------------------------------------

MoveCursor ==
  /\ moved' = TRUE /\ served' = NothingServed
  /\ UNCHANGED <<cache, stayed, caller, recent, given>>

Older(age) == IF age \in 0..(MaxAge - 1) THEN age + 1 ELSE age

CacheTick ==
  /\ root' = Older(root) /\ found' = Older(found)
  /\ begin' = Older(begin) /\ stayed' = Older(stayed)
  /\ recent' = <<Older(recent[1]), Older(recent[2])>>
  /\ given' = Older(given)
  /\ served' = NothingServed
  /\ UNCHANGED <<future, ended, mean, moved, caller>>

Waken == StopWaiting \/ Cleared

CacheNext ==
  \/ Thread
  \/ NoticeMove \/ Process
  \/ ServeValid \/ ServeFinished \/ StartWaiting \/ Clear
  \/ Waken
  \/ MoveCursor \/ CacheTick

(* Time passes, the scheduler runs the thread, UI Automation answers at    *)
(* last, and whoever waits for the thread is woken.  Nothing is assumed of *)
(* how often the caches are updated or asked for.                          *)
CacheFairness == WF_cacheVars(CacheTick) /\ WF_cacheVars(Thread) /\ WF_cacheVars(Waken)

CacheSpec == CacheInit /\ [][CacheNext]_cacheVars /\ CacheFairness

-----------------------------------------------------------------------------

CacheTypeOK ==
  /\ root \in Scans /\ found \in Scans
  /\ future \in {"none", "launched", "scanning", "scanned", "ready", "failed"}
  /\ begin \in Ages /\ mean \in Ages /\ stayed \in Ages
  /\ ended \in BOOLEAN /\ moved \in BOOLEAN
  /\ caller \in {"idle", "waiting", "clearing"}
  /\ served \in Scans \cup {NothingServed}
  /\ recent \in Scans \X Scans /\ given \in Scans

(* No scan is ever lost on the way to the caller but the one that is still *)
(* in the future: whoever asks is given the last scan, the one before it,  *)
(* or, before the first was collected, an element that was not scanned.    *)
(* (update() and latest() collect a build before they begin another one.)  *)
AtMostOneScanBehind ==
  served # NothingServed => served \in {recent[1], recent[2], NotScanned}

(* Nobody is given older elements than were given out before, however the  *)
(* thread, the option and the callers take turns (latest() keeps what it   *)
(* returns, and the threads never overtake each other).                    *)
NeverOlder ==
  [][served' # NothingServed /\ given # NotScanned => served' \in 0..given]_cacheVars

(* A build that the callers have not got yet is the only one under way,    *)
(* and whoever waits for it is served: latest() and do_disable() return.   *)
CallersReturn == (caller # "idle") ~> (caller = "idle")

(* A computer that is left alone is scanned no longer ("there is no need   *)
(* to scan it", the comment in do_process()): if the cursor is moved no    *)
(* more, then the option launches no more threads.                         *)
LeavesAlone ==
  []<><<MoveCursor>>_cacheVars \/ <>[][~(Process /\ future' = "launched")]_cacheVars

(* Whichever way a build ended, its scan is in turn for the next caller    *)
(* (UICache::update, latest).                                              *)
ServedInTurn == CacheTypeOK /\ AtMostOneScanBehind

=============================================================================
