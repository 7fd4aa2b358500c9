---------------------------- MODULE ThreadProofs ----------------------------
(***************************************************************************)
(* Proofs about the components that other threads, or the clock, get       *)
(* ahead of: TypingEmulator, whose polls are slower than the keyboard;     *)
(* UICache, which is scanned by a thread of its own; RequestServer, which  *)
(* another process writes to; EasyClick, which is typed into by one thread *)
(* and painted by another.                                                 *)
(*                                                                         *)
(* Init, Next and Spec are those of TypingEmulator; the definitions of the *)
(* other three have names of their own.                                    *)
(***************************************************************************)
EXTENDS TypingEmulator, UICache, RequestServer, EasyClick, MatchingProofs

-----------------------------------------------------------------------------
(***************************************************************************)
(* TypingEmulator: its types, and that every press is typed, once, with the*)
(* system keys that are held.                                              *)
(*                                                                         *)
(* The strengthening says what the two variables of the implementation     *)
(* stand for: prev_cmdunit_ is what the last poll saw, and the repeater    *)
(* never believes that more time has passed than has.                      *)
(***************************************************************************)

TypingInv ==
  /\ TypeOK
  /\ prev = seen
  /\ since <= still

-----------------------------------------------------------------------------
(* The operators of Typing.                                                *)

(* What is typed is a unit with keys, or nothing.                          *)
LEMMA TypedType ==
  ASSUME NEW r \in Units, NEW p \in Units, NEW passed \in BOOLEAN
  PROVE  Typed(r, p, passed) \in {Nothing} \cup {Just(u) : u \in Units \ {{}}}
<1>1. Difference(r, p) \in Units
  BY DEF Difference, SystemPart, Units
<1> QED
  BY <1>1 DEF Typed

(* UnitOf undoes Just.                                                     *)
LEMMA UnitOfJust ==
  /\ UnitOf(Nothing) = {}
  /\ \A u : UnitOf(Just(u)) = u
  BY DEF UnitOf, Just, Nothing

(* The keys that are new are in what is typed.                             *)
LEMMA NewKeysAreTyped ==
  ASSUME NEW r, NEW p, NEW passed \in BOOLEAN
  PROVE  r \ p \subseteq UnitOf(Typed(r, p, passed))
<1>1. r \ p \subseteq Difference(r, p)
  BY DEF Difference
<1> QED
  BY <1>1, UnitOfJust DEF Typed

(* A key that shows text and is not new is typed by the auto-repeat only.  *)
LEMMA OldKeysAreRepeated ==
  ASSUME NEW r, NEW p, NEW passed \in BOOLEAN,
         TextPart(UnitOf(Typed(r, p, passed))) \cap p # {}
  PROVE  r = p /\ passed
<1>1. TextPart(Difference(r, p)) \cap p = {}
  BY DEF Difference, TextPart, SystemPart
<1>2. TextPart({}) \cap p = {}
  BY DEF TextPart
<1> QED
  BY <1>1, <1>2, UnitOfJust DEF Typed

(* The system keys that are held go with the keys that show text.          *)
LEMMA SystemKeysGoAlong ==
  ASSUME NEW r, NEW p, NEW passed \in BOOLEAN,
         TextPart(UnitOf(Typed(r, p, passed))) # {}
  PROVE  SystemPart(r) \subseteq UnitOf(Typed(r, p, passed))
<1>1. TextPart({}) = {}
  BY DEF TextPart
<1>2. TextPart(Difference(r, p)) # {} =>
        SystemPart(r) \subseteq Difference(r, p)
  BY <1>1 DEF Difference, TextPart, SystemPart
<1>3. SystemPart(r) \subseteq r
  BY DEF SystemPart
<1> QED
  BY <1>1, <1>2, <1>3, UnitOfJust DEF Typed

(* The clocks advance together and stop at WaitTime.                       *)
LEMMA ElapsedProperties ==
  ASSUME NEW s \in 0..WaitTime, NEW t \in 0..WaitTime, s <= t
  PROVE  /\ Elapsed(s) \in 0..WaitTime
         /\ Elapsed(s) <= Elapsed(t)
  BY EmulatorAssumption DEF Elapsed

-----------------------------------------------------------------------------
(* The invariant.                                                          *)

LEMMA TypingInvInit == Init => TypingInv
<1>1. {} \in Units
  BY DEF Units
<1> QED
  BY <1>1, EmulatorAssumption DEF Init, TypingInv, TypeOK

LEMMA TypingInvNext == TypingInv /\ [Next]_vars => TypingInv'
<1> SUFFICES ASSUME TypingInv, [Next]_vars
             PROVE  TypingInv'
  OBVIOUS
<1> USE DEF TypingInv
<1>1. CASE Keyboard
  <2>1. raw' \in Units
    BY <1>1 DEF Keyboard, Units
  <2> QED
    BY <1>1, <2>1 DEF Keyboard, TypeOK
<1>2. CASE Tick
  <2>1. since \in 0..WaitTime /\ still \in 0..WaitTime /\ still <= still
    BY DEF TypeOK
  <2>2. since' \in 0..WaitTime /\ since' <= still'
    BY <1>2, <2>1, ElapsedProperties DEF Tick
  <2>3. still' \in 0..WaitTime
    BY <1>2, <2>1, ElapsedProperties DEF Tick
  <2> QED
    BY <1>2, <2>2, <2>3 DEF Tick, TypeOK
<1>3. ASSUME NEW passed \in BOOLEAN, Poll(passed)
      PROVE  TypingInv'
  <2>1. typed' \in {Nothing} \cup {Just(u) : u \in Units \ {{}}}
    BY <1>3, TypedType DEF Poll, TypeOK
  <2>2. since' \in 0..WaitTime /\ still' \in 0..WaitTime
    BY <1>3, EmulatorAssumption DEF Poll, TypeOK
  <2>3. since' <= still'
    BY <1>3, EmulatorAssumption DEF Poll, TypeOK
  <2>4. /\ raw' \in Units /\ prev' \in Units /\ seen' \in Units
        /\ prev' = seen'
    BY <1>3 DEF Poll, TypeOK
  <2> QED
    BY <2>1, <2>2, <2>3, <2>4 DEF TypeOK
<1>4. CASE UNCHANGED vars
  BY <1>4 DEF vars, TypeOK
<1> QED
  BY <1>1, <1>2, <1>3, <1>4 DEF Next

LEMMA TypingInvariance == Spec => []TypingInv
  BY TypingInvInit, TypingInvNext, PTL DEF Spec

-----------------------------------------------------------------------------

(* Type correctness: what lowlevel_to_typing() returns is never a unit     *)
(* without keys, and the clocks keep their bound.                          *)
THEOREM TypeCorrect == Spec => []TypeOK
<1>1. TypingInv => TypeOK
  BY DEF TypingInv
<1> QED
  BY <1>1, TypingInvariance, PTL

(* No press is lost between two polls, for every set of keys.              *)
THEOREM EveryPressIsTyped == Spec => PressesAreTyped
<1>1. TypingInv /\ [Next]_vars =>
        [Polled => raw \ seen \subseteq UnitOf(typed')]_vars
  BY NewKeysAreTyped DEF TypingInv, Polled, Poll
<1> QED
  BY <1>1, TypingInvariance, PTL DEF Spec, PressesAreTyped

(* No press is typed twice: what is typed of keys that were down already   *)
(* is the auto-repeat, and it comes WaitTime after the last change.        *)
THEOREM PressedOnceTypedOnce == Spec => NoPressTwice
<1>1. ASSUME TypingInv, NEW passed \in BOOLEAN, Poll(passed),
             TextPart(UnitOf(typed')) \cap seen # {}
      PROVE  raw = seen /\ still = WaitTime
  <2>1. raw = seen /\ passed
    BY <1>1, OldKeysAreRepeated DEF TypingInv, Poll
  <2>2. since = WaitTime
    BY <1>1, <2>1 DEF Poll, MayPass
  <2> QED
    BY <1>1, <2>1, <2>2, EmulatorAssumption DEF TypingInv, TypeOK
<1>2. TypingInv /\ [Next]_vars =>
        [Polled /\ TextPart(UnitOf(typed')) \cap seen # {} =>
           raw = seen /\ still = WaitTime]_vars
  BY <1>1 DEF Polled
<1> QED
  BY <1>2, TypingInvariance, PTL DEF Spec, NoPressTwice

(* The system keys that are held are in every unit typed with text.        *)
THEOREM ModifiersGoAlong == Spec => ModifiersAreKept
<1>1. TypingInv /\ [Next]_vars =>
        [Polled /\ TextPart(UnitOf(typed')) # {} =>
           SystemPart(raw) \subseteq UnitOf(typed')]_vars
  BY SystemKeysGoAlong DEF Polled, Poll
<1> QED
  BY <1>1, TypingInvariance, PTL DEF Spec, ModifiersAreKept

-----------------------------------------------------------------------------
(***************************************************************************)
(* UICache: its types, that whoever asks is at most one scan behind, and   *)
(* that nobody is given older elements than were given out before, for any *)
(* lifetime and any intervals of the option.                               *)
(***************************************************************************)

(* A scan is in the future, and nobody has got it yet.                     *)
Pending == future \in {"scanned", "ready"}

(* The scan in the future is the last one, and what root_ holds is the one *)
(* before it; without one in the future root_ holds the last one.          *)
InTurn ==
  /\ Pending => /\ found = recent[1] /\ found \in Ages
                /\ root \in {recent[2], NotScanned}
  /\ ~Pending => root \in {recent[1], NotScanned}

(* What can be served is younger than what was.                            *)
Younger ==
  /\ given # NotScanned => root \in 0..given
  /\ Pending /\ root # NotScanned => found <= root

CacheInv == CacheTypeOK /\ InTurn /\ Younger /\ AtMostOneScanBehind

-----------------------------------------------------------------------------
(* Ages.                                                                   *)

(* Points of time keep their order while they get older.                   *)
LEMMA OlderProperties ==
  ASSUME NEW s \in Scans
  PROVE  /\ Older(s) \in Scans
         /\ Older(s) = NotScanned <=> s = NotScanned
         /\ s \in Ages => Older(s) \in Ages
         /\ \A t \in Scans : s <= t => Older(s) <= Older(t)
  BY CacheAssumption DEF Older, Scans, Ages, NotScanned

LEMMA NotScannedIsNoAge == NotScanned \notin Ages /\ NothingServed \notin Scans
  BY CacheAssumption DEF NotScanned, NothingServed, Scans, Ages

LEMMA AveragedType ==
  ASSUME mean \in Ages, begin \in Ages
  PROVE  Averaged \in Ages
  BY CacheAssumption DEF Averaged, Ages

LEMMA SmallAges == 0 \in Ages /\ MaxAge \in Ages
  BY CacheAssumption DEF Ages

-----------------------------------------------------------------------------
(* The invariant.                                                          *)

LEMMA CacheInvInit == CacheInit => CacheInv
<1> SUFFICES ASSUME CacheInit PROVE CacheInv
  OBVIOUS
<1>1. CacheTypeOK
  BY SmallAges DEF CacheInit, CacheTypeOK, Scans, NotScanned
<1>2. InTurn /\ Younger /\ AtMostOneScanBehind
  BY DEF CacheInit, InTurn, Younger, AtMostOneScanBehind, Pending
<1> QED
  BY <1>1, <1>2 DEF CacheInv

LEMMA CacheInvNext == CacheInv /\ [CacheNext]_cacheVars => CacheInv'
<1> SUFFICES ASSUME CacheInv, [CacheNext]_cacheVars
             PROVE  CacheInv'
  OBVIOUS
<1> USE NotScannedIsNoAge, SmallAges
<1> USE DEF CacheInv, CacheTypeOK, InTurn, Younger, AtMostOneScanBehind, Pending, Scans,
            Ages, cache, cursor, history
<1>1. CASE Thread
  <2>1. CASE StampBegin
    BY <2>1 DEF StampBegin
  <2>2. CASE Scan
    BY <2>2 DEF Scan
  <2>3. CASE ScanFails
    BY <2>3 DEF ScanFails
  <2>4. CASE StampEnd
    BY <2>4, AveragedType DEF StampEnd
  <2> QED
    BY <1>1, <2>1, <2>2, <2>3, <2>4 DEF Thread
<1>2. CASE NoticeMove
  BY <1>2 DEF NoticeMove
<1>3. CASE Process
  BY <1>3 DEF Process, Update, Collect
<1>4. CASE ServeValid
  BY <1>4 DEF ServeValid
<1>5. CASE ServeFinished \/ StopWaiting
  BY <1>5 DEF ServeFinished, StopWaiting, Get, Collect
<1>6. CASE StartWaiting
  BY <1>6 DEF StartWaiting
<1>7. CASE Clear
  BY <1>7 DEF Clear
<1>8. CASE Cleared
  BY <1>8 DEF Cleared
<1>9. CASE MoveCursor
  BY <1>9 DEF MoveCursor
<1>10. CASE CacheTick
  <2>1. recent[1] \in Scans /\ recent[2] \in Scans
    OBVIOUS
  <2>2. CacheTypeOK' /\ AtMostOneScanBehind'
    BY <1>10, <2>1, OlderProperties DEF CacheTick
  <2>3. InTurn'
    BY <1>10, <2>1, OlderProperties DEF CacheTick
  <2>4. Older(root) = NotScanned <=> root = NotScanned
    BY OlderProperties
  <2>5. given' # NotScanned => root' \in 0..given'
    BY <1>10, <2>4, OlderProperties DEF CacheTick
  <2>6. Pending' /\ root' # NotScanned => found' <= root'
    BY <1>10, <2>4, OlderProperties DEF CacheTick
  <2> QED
    BY <2>2, <2>3, <2>5, <2>6
<1>11. CASE UNCHANGED cacheVars
  BY <1>11 DEF cacheVars
<1> QED
  BY <1>1, <1>2, <1>3, <1>4, <1>5, <1>6, <1>7, <1>8, <1>9, <1>10, <1>11
  DEF CacheNext, Waken

LEMMA CacheInvariance == CacheSpec => []CacheInv
  BY CacheInvInit, CacheInvNext, PTL DEF CacheSpec

-----------------------------------------------------------------------------

(* Whoever asks is given the last scan, the one before it, or an element   *)
(* that was not scanned, and the time stamps keep their types.             *)
THEOREM ServedScansInTurn == CacheSpec => []ServedInTurn
<1>1. CacheInv => ServedInTurn
  BY DEF CacheInv, ServedInTurn
<1> QED
  BY <1>1, CacheInvariance, PTL

(* Nobody is given older elements than were given out before (latest()).   *)
THEOREM NeverServedOlder == CacheSpec => NeverOlder
<1>1. CacheInv /\ [CacheNext]_cacheVars =>
        [served' # NothingServed /\ given # NotScanned => served' \in 0..given]_cacheVars
  <2> SUFFICES ASSUME CacheInv, CacheNext, served' # NothingServed, given # NotScanned
               PROVE  served' \in 0..given
    OBVIOUS
  <2>1. ServeValid \/ ServeFinished \/ StopWaiting
    BY DEF CacheNext, Thread, StampBegin, Scan, ScanFails, StampEnd, NoticeMove,
           Process, StartWaiting, Clear, Waken, Cleared, MoveCursor, CacheTick
  <2>2. given \in Scans
    BY DEF CacheInv, CacheTypeOK
  <2>3. root \in 0..given /\ root # NotScanned
    BY DEF CacheInv, Younger, NotScanned
  <2>4. CASE ServeValid
    BY <2>3, <2>4 DEF ServeValid
  <2>5. CASE ServeFinished \/ StopWaiting
    <3>1. future = "ready" /\ served' = found
      BY <2>5 DEF ServeFinished, StopWaiting, Get
    <3>2. found \in Ages /\ found <= root
      BY <2>3, <3>1 DEF CacheInv, InTurn, Younger, Pending
    <3> QED
      BY <2>2, <2>3, <3>1, <3>2, SmallAges, CacheAssumption
      DEF Ages, Scans, NotScanned
  <2> QED
    BY <2>1, <2>4, <2>5
<1> QED
  BY <1>1, CacheInvariance, PTL DEF CacheSpec, NeverOlder

-----------------------------------------------------------------------------
(***************************************************************************)
(* RequestServer: whatever requests there are, however their bytes overlap *)
(* in the memory and whatever the texts say that are read there, a byte    *)
(* begins one unit at most, and none is executed more often than its kind  *)
(* allows.                                                                 *)
(***************************************************************************)

-----------------------------------------------------------------------------
(* parse_command(): each unit begins at a character of its own.            *)

IsDistinct(s) == \A i, j \in DOMAIN s : s[i] = s[j] => i = j

Elements(s) == {s[i] : i \in DOMAIN s}

(* What the reader has after each character of the text.                   *)
ReadStep(text, read, n) ==
  IF n = 0 THEN Unread ELSE ReadAt(text, read[n - 1], n)

ReadUpTo(text, N, read) == read = [n \in 0..N |-> ReadStep(text, read, n)]

LEMMA ReadsExist ==
  ASSUME NEW text, NEW N \in Nat
  PROVE  \E read : ReadUpTo(text, N, read)
<1> DEFINE P == {n \in 0..N : \E read : ReadUpTo(text, n, read)}
<1>1. 0 \in P
  <2> DEFINE r0 == [n \in 0..0 |-> Unread]
  <2>1. \A n \in 0..0 : ReadStep(text, r0, n) = Unread
    BY DEF ReadStep
  <2>2. ReadUpTo(text, 0, r0)
    BY <2>1 DEF ReadUpTo
  <2> QED
    BY <2>2
<1>2. ASSUME NEW n \in 0..(N - 1), n \in P
      PROVE  n + 1 \in P
  <2>1. PICK r1 : ReadUpTo(text, n, r1)
    BY <1>2
  <2> DEFINE r2 == [m \in 0..(n + 1) |-> IF m = n + 1 THEN ReadStep(text, r1, n + 1)
                                         ELSE r1[m]]
  <2>2. \A m \in 0..n : r1[m] = ReadStep(text, r1, m)
    BY <2>1 DEF ReadUpTo
  <2>3. \A m \in 0..n : r2[m] = r1[m]
    OBVIOUS
  <2>4. r2[n + 1] = ReadStep(text, r1, n + 1)
    OBVIOUS
  <2>5. r2 = [m \in 0..(n + 1) |-> r2[m]]
    OBVIOUS
  <2> HIDE DEF r2
  <2>6. \A m \in 0..(n + 1) : ReadStep(text, r2, m) = ReadStep(text, r1, m)
    <3> SUFFICES ASSUME NEW m \in 0..(n + 1), m # 0
                 PROVE  r2[m - 1] = r1[m - 1]
      BY DEF ReadStep
    <3> QED
      BY <2>3
  <2>7. \A m \in 0..(n + 1) : r2[m] = ReadStep(text, r2, m)
    <3> SUFFICES ASSUME NEW m \in 0..(n + 1)
                 PROVE  r2[m] = ReadStep(text, r2, m)
      OBVIOUS
    <3>1. m = n + 1 \/ m \in 0..n
      OBVIOUS
    <3> QED
      BY <3>1, <2>2, <2>3, <2>4, <2>6
  <2>8. ReadUpTo(text, n + 1, r2)
    BY <2>5, <2>7 DEF ReadUpTo
  <2> QED
    BY <2>8
<1>3. \A n \in 0..(N - 1) : n \in P => n + 1 \in P
  BY <1>2
<1> HIDE DEF P
<1>4. \A n \in 0..N : n \in P
  BY <1>1, <1>3, InductionUpTo, Zenon
<1>5. N \in P
  BY <1>4
<1> QED
  BY <1>5 DEF P

LEMMA UnitKindType ==
  ASSUME NEW text, NEW i, NEW external
  PROVE  UnitKind(text, i, external) \in UnitKinds
<1> DEFINE gt == FindFrom(text, ">", i + 1)
           name == SubSeq(text, i + 1, gt - 1)
<1> HIDE DEF gt, name
<1> QED
  BY DEF UnitKind, UnitKinds, gt, name

(* The units are in the order of the text, and no two begin at the same    *)
(* character.                                                              *)
LEMMA ParsedInOrder ==
  ASSUME NEW S, NEW text \in Seq(S)
  PROVE  LET units == ParseCommand(text)
         IN  /\ units \in Seq([at : 1..Len(text), kind : UnitKinds])
             /\ \A i, j \in DOMAIN units : units[i].at = units[j].at => i = j
<1> DEFINE N == Len(text)
           U == [at : 1..N, kind : UnitKinds]
           read == CHOOSE read : ReadUpTo(text, N, read)
           units(n) == read[n].units
<1>1. N \in Nat
  OBVIOUS
<1>2. ReadUpTo(text, N, read)
  BY <1>1, ReadsExist
<1>3. ParseCommand(text) = units(N)
  BY DEF ParseCommand, ReadUpTo, ReadStep
<1>4. \A n \in 0..N : read[n] = ReadStep(text, read, n)
  BY <1>2 DEF ReadUpTo
<1> HIDE DEF read
<1> DEFINE P == {n \in 0..N :
                   /\ units(n) \in Seq(U)
                   /\ \A i \in DOMAIN units(n) : units(n)[i].at <= n
                   /\ \A i, j \in DOMAIN units(n) :
                        units(n)[i].at = units(n)[j].at => i = j}
<1>5. 0 \in P
  <2>1. units(0) = <<>>
    BY <1>1, <1>4 DEF ReadStep, Unread
  <2> HIDE DEF units, U
  <2>2. units(0) \in Seq(U) /\ Len(units(0)) = 0
    BY <2>1, EmptySeq
  <2>3. DOMAIN units(0) = {}
    BY <2>2
  <2> QED
    BY <1>1, <2>2, <2>3
<1>6. ASSUME NEW n \in 0..(N - 1), n \in P
      PROVE  n + 1 \in P
  <2>1. n + 1 \in 1..N /\ n + 1 \in 0..N /\ n + 1 - 1 = n /\ n + 1 # 0
    OBVIOUS
  <2>2. read[n + 1] = ReadAt(text, read[n], n + 1)
    BY <1>4, <2>1 DEF ReadStep
  <2>3. \/ units(n + 1) = units(n)
        \/ \E external :
             units(n + 1) = Append(units(n), [at |-> n + 1,
                                             kind |-> UnitKind(text, n + 1, external)])
    <3> DEFINE reader == read[n]
               scope == IF n + 1 = reader.scope.next THEN ScopeFrom(text, n + 1)
                        ELSE reader.scope
               start == IF n + 1 = reader.scope.next THEN scope.from ELSE reader.at
               u == [at |-> n + 1, kind |-> UnitKind(text, n + 1, scope.external)]
    <3>1. read[n + 1] =
            IF n + 1 = start /\ n + 1 <= scope.to
            THEN [scope |-> scope, at |-> UnitEnd(text, n + 1) + 1,
                  units |-> Append(reader.units, u)]
            ELSE [scope |-> scope, at |-> start, units |-> reader.units]
      BY <2>2 DEF ReadAt
    <3> HIDE DEF scope, start, u
    <3>2. CASE n + 1 = start /\ n + 1 <= scope.to
      <4>1. read[n + 1].units = Append(reader.units, u)
        BY <3>1, <3>2
      <4>2. u = [at |-> n + 1, kind |-> UnitKind(text, n + 1, scope.external)]
        BY DEF u
      <4>3. units(n + 1) = Append(units(n), [at |-> n + 1,
                             kind |-> UnitKind(text, n + 1, scope.external)])
        BY <4>1, <4>2
      <4> HIDE DEF units
      <4> QED
        BY <4>3
    <3>3. CASE ~(n + 1 = start /\ n + 1 <= scope.to)
      BY <3>1, <3>3
    <3> QED
      BY <3>2, <3>3
  <2>4. CASE units(n + 1) = units(n)
    <3> HIDE DEF units, U
    <3>1. /\ units(n) \in Seq(U)
          /\ \A i \in DOMAIN units(n) : units(n)[i].at <= n
          /\ \A i, j \in DOMAIN units(n) : units(n)[i].at = units(n)[j].at => i = j
      BY <1>6
    <3>2. \A i \in DOMAIN units(n) : units(n)[i] \in U
      BY <3>1
    <3>3. \A i \in DOMAIN units(n) : units(n)[i].at \in 1..N
      BY <3>2 DEF U
    <3>4. \A i \in DOMAIN units(n) : units(n)[i].at <= n + 1
      BY <2>1, <3>1, <3>3
    <3> QED
      BY <2>1, <2>4, <3>1, <3>4
  <2>5. ASSUME NEW external,
               units(n + 1) = Append(units(n), [at |-> n + 1,
                                               kind |-> UnitKind(text, n + 1, external)])
        PROVE  n + 1 \in P
    <3> DEFINE u == [at |-> n + 1, kind |-> UnitKind(text, n + 1, external)]
               old == units(n)
               new == units(n + 1)
    <3>1. u \in U /\ u.at = n + 1
      BY <2>1, UnitKindType
    <3>2. old \in Seq(U) /\ Len(old) \in Nat /\ DOMAIN old = 1..Len(old)
      BY <1>6
    <3>3. /\ \A i \in DOMAIN old : old[i].at <= n
          /\ \A i, j \in DOMAIN old : old[i].at = old[j].at => i = j
      BY <1>6
    <3>4. new = Append(old, u)
      BY <2>5
    <3> HIDE DEF u, old, new, U
    <3>5. /\ new \in Seq(U)
          /\ DOMAIN new = 1..(Len(old) + 1)
          /\ new[Len(old) + 1] = u
          /\ \A i \in 1..Len(old) : new[i] = old[i]
      BY <3>1, <3>2, <3>4
    <3>6. \A i \in DOMAIN new : i \in DOMAIN old \/ i = Len(old) + 1
      BY <3>2, <3>5
    <3>7. \A i \in DOMAIN old : old[i].at \in 1..N
      <4>1. \A i \in DOMAIN old : old[i] \in U
        BY <3>2
      <4> QED
        BY <4>1 DEF U
    <3>8. \A i \in DOMAIN new : new[i].at <= n + 1
      BY <3>1, <3>2, <3>3, <3>5, <3>6, <3>7
    <3>9. \A i, j \in DOMAIN new : new[i].at = new[j].at => i = j
      <4> SUFFICES ASSUME NEW i \in DOMAIN new, NEW j \in DOMAIN new, new[i].at = new[j].at
                   PROVE  i = j
        OBVIOUS
      <4>1. \A k \in DOMAIN old : new[k].at = old[k].at /\ new[k].at # n + 1
        BY <3>2, <3>3, <3>5, <3>7
      <4>2. new[Len(old) + 1].at = n + 1
        BY <3>1, <3>5
      <4> QED
        BY <3>3, <3>6, <4>1, <4>2
    <3> QED
      BY <2>1, <3>5, <3>8, <3>9 DEF U, new
  <2> QED
    BY <2>3, <2>4, <2>5
<1>7. \A n \in 0..(N - 1) : n \in P => n + 1 \in P
  BY <1>6
<1> HIDE DEF P, N, units
<1>8. \A n \in 0..N : n \in P
  BY <1>1, <1>5, <1>7, InductionUpTo, Zenon
<1>9. N \in P
  BY <1>1, <1>8
<1> QED
  BY <1>3, <1>9 DEF P, N, U

-----------------------------------------------------------------------------
(* The keys of a text.                                                     *)

(* What keys holds after each unit of the text.                            *)
KeysStep(text, keys, n) ==
  IF n = 0 THEN <<>>
  ELSE IF IsFunction(text[n]) THEN keys[n - 1]
  ELSE Append(keys[n - 1], text[n])

KeysUpTo(text, N, keys) == keys = [n \in 0..N |-> KeysStep(text, keys, n)]

LEMMA KeysExist ==
  ASSUME NEW S, NEW text \in Seq(S)
  PROVE  \E keys : KeysUpTo(text, Len(text), keys)
<1> DEFINE N == Len(text)
           P == {n \in 0..N : \E keys : KeysUpTo(text, n, keys)}
<1>1. N \in Nat
  OBVIOUS
<1>2. 0 \in P
  <2> DEFINE k0 == [n \in 0..0 |-> <<>>]
  <2>1. KeysUpTo(text, 0, k0)
    <3>1. \A n \in 0..0 : KeysStep(text, k0, n) = <<>>
      BY DEF KeysStep
    <3> QED
      BY <3>1 DEF KeysUpTo
  <2> QED
    BY <1>1, <2>1
<1>3. ASSUME NEW n \in 0..(N - 1), n \in P
      PROVE  n + 1 \in P
  <2>1. PICK k1 : KeysUpTo(text, n, k1)
    BY <1>3
  <2> DEFINE k2 == [m \in 0..(n + 1) |-> IF m = n + 1 THEN KeysStep(text, k1, n + 1)
                                         ELSE k1[m]]
  <2>2. \A m \in 0..n : k1[m] = KeysStep(text, k1, m)
    BY <2>1 DEF KeysUpTo
  <2>3. \A m \in 0..n : k2[m] = k1[m]
    OBVIOUS
  <2>4. k2[n + 1] = KeysStep(text, k1, n + 1)
    OBVIOUS
  <2> HIDE DEF k2
  <2>5. \A m \in 0..(n + 1) : KeysStep(text, k2, m) = KeysStep(text, k1, m)
    <3> SUFFICES ASSUME NEW m \in 0..(n + 1), m # 0
                 PROVE  k2[m - 1] = k1[m - 1]
      BY DEF KeysStep
    <3> QED
      BY <2>3
  <2>6. \A m \in 0..(n + 1) : k2[m] = KeysStep(text, k2, m)
    <3> SUFFICES ASSUME NEW m \in 0..(n + 1)
                 PROVE  k2[m] = KeysStep(text, k2, m)
      OBVIOUS
    <3>1. m = n + 1 \/ m \in 0..n
      OBVIOUS
    <3> QED
      BY <3>1, <2>2, <2>3, <2>4, <2>5
  <2>7. k2 = [m \in 0..(n + 1) |-> k2[m]]
    BY DEF k2
  <2>8. KeysUpTo(text, n + 1, k2)
    BY <2>6, <2>7 DEF KeysUpTo
  <2> QED
    BY <2>8
<1>4. \A n \in 0..(N - 1) : n \in P => n + 1 \in P
  BY <1>3
<1> HIDE DEF P, N
<1>5. \A n \in 0..N : n \in P
  BY <1>1, <1>2, <1>4, InductionUpTo, Zenon
<1>6. N \in P
  BY <1>1, <1>5
<1> QED
  BY <1>6 DEF P, N

(* What is typed of a text without repetition are units of the text that   *)
(* are no functions, without repetition.                                   *)
LEMMA KeysOfProperties ==
  ASSUME NEW S, NEW text \in Seq(S), IsDistinct(text)
  PROVE  /\ KeysOf(text) \in Seq(S)
         /\ \A x \in Elements(KeysOf(text)) : x \in Elements(text) /\ ~IsFunction(x)
         /\ IsDistinct(KeysOf(text))
<1> DEFINE N == Len(text)
           keys == CHOOSE keys : KeysUpTo(text, N, keys)
<1>1. KeysUpTo(text, N, keys)
  BY KeysExist
<1>2. KeysOf(text) = keys[N]
  BY DEF KeysOf, KeysUpTo, KeysStep
<1>3. \A n \in 0..N : keys[n] = KeysStep(text, keys, n)
  BY <1>1 DEF KeysUpTo
<1> HIDE DEF keys
<1> DEFINE P == {n \in 0..N :
                   /\ keys[n] \in Seq(S)
                   /\ \A i \in 1..Len(keys[n]) :
                        /\ \E j \in 1..n : keys[n][i] = text[j]
                        /\ ~IsFunction(keys[n][i])
                   /\ IsDistinct(keys[n])}
<1>4. N \in Nat
  OBVIOUS
<1>5. 0 \in P
  <2>1. keys[0] = <<>>
    BY <1>3, <1>4 DEF KeysStep
  <2>2. Len(keys[0]) = 0 /\ DOMAIN keys[0] = {} /\ keys[0] \in Seq(S)
    BY <2>1
  <2>3. IsDistinct(keys[0])
    BY <2>2 DEF IsDistinct
  <2> QED
    BY <1>4, <2>2, <2>3
<1>6. ASSUME NEW n \in 0..(N - 1), n \in P
      PROVE  n + 1 \in P
  <2>1. n + 1 \in 1..N /\ n + 1 \in 0..N /\ n + 1 - 1 = n /\ n + 1 # 0
    OBVIOUS
  <2>2. text[n + 1] \in S
    BY <2>1
  <2>3. CASE IsFunction(text[n + 1])
    <3>1. keys[n + 1] = keys[n]
      BY <1>3, <2>1, <2>3 DEF KeysStep
    <3> QED
      BY <1>6, <2>1, <3>1
  <2>4. CASE ~IsFunction(text[n + 1])
    <3> DEFINE k == keys[n]
               l == keys[n + 1]
    <3>1. l = Append(k, text[n + 1])
      <4>1. l = KeysStep(text, keys, n + 1)
        BY <1>3, <2>1
      <4> QED
        BY <2>1, <2>4, <4>1 DEF KeysStep
    <3>2. k \in Seq(S) /\ Len(k) \in Nat
      BY <1>6
    <3>3. /\ l \in Seq(S)
          /\ Len(l) = Len(k) + 1
          /\ l[Len(k) + 1] = text[n + 1]
          /\ \A i \in 1..Len(k) : l[i] = k[i]
      BY <2>2, <3>1, <3>2
    <3>4. /\ \A i \in 1..Len(k) : \E j \in 1..n : k[i] = text[j]
          /\ \A i \in 1..Len(k) : ~IsFunction(k[i])
          /\ IsDistinct(k)
      BY <1>6
    <3> HIDE DEF k, l
    <3>5. \A i \in 1..Len(l) : i \in 1..Len(k) \/ i = Len(k) + 1
      BY <3>2, <3>3
    <3>6. \A i \in 1..Len(l) : \E j \in 1..(n + 1) : l[i] = text[j]
      BY <2>1, <3>3, <3>4, <3>5
    <3>7. \A i \in 1..Len(l) : ~IsFunction(l[i])
      BY <2>4, <3>3, <3>4, <3>5
    <3>8. \A i \in 1..Len(k) : k[i] # text[n + 1]
      <4> SUFFICES ASSUME NEW j \in 1..n PROVE text[j] # text[n + 1]
        BY <3>4
      <4> QED
        BY DEF IsDistinct
    <3>9. IsDistinct(l)
      <4>1. DOMAIN l = 1..Len(l) /\ DOMAIN k = 1..Len(k)
        BY <3>2, <3>3
      <4> SUFFICES ASSUME NEW i \in 1..Len(l), NEW j \in 1..Len(l), l[i] = l[j]
                   PROVE  i = j
        BY <4>1 DEF IsDistinct
      <4> QED
        BY <3>3, <3>4, <3>5, <3>8, <4>1 DEF IsDistinct
    <3> QED
      BY <2>1, <3>3, <3>6, <3>7, <3>9 DEF l
  <2> QED
    BY <2>3, <2>4
<1>7. \A n \in 0..(N - 1) : n \in P => n + 1 \in P
  BY <1>6
<1> HIDE DEF P, N
<1>8. \A n \in 0..N : n \in P
  BY <1>4, <1>5, <1>7, InductionUpTo, Zenon
<1>9. N \in P
  BY <1>4, <1>8
<1> QED
  BY <1>2, <1>9 DEF P, N, Elements

(* What is left of a sequence without repetition are its other elements.   *)
LEMMA RestProperties ==
  ASSUME NEW S, NEW s \in Seq(S), NEW n \in 0..Len(s), IsDistinct(s)
  PROVE  LET rest == SubSeq(s, n + 1, Len(s))
         IN  /\ rest \in Seq(S)
             /\ IsDistinct(rest)
             /\ Elements(rest) = Elements(s) \ {s[i] : i \in 1..n}
<1> DEFINE rest == SubSeq(s, n + 1, Len(s))
<1>1. /\ rest \in Seq(S)
      /\ Len(rest) = Len(s) - n
      /\ \A i \in 1..(Len(s) - n) : rest[i] = s[i + n]
      /\ DOMAIN rest = 1..(Len(s) - n)
      /\ DOMAIN s = 1..Len(s) /\ Len(s) \in Nat
  OBVIOUS
<1> HIDE DEF rest
<1>2. IsDistinct(rest)
  <2> SUFFICES ASSUME NEW i \in 1..(Len(s) - n), NEW j \in 1..(Len(s) - n),
                      rest[i] = rest[j]
               PROVE  i = j
    BY <1>1 DEF IsDistinct
  <2>1. i + n \in DOMAIN s /\ j + n \in DOMAIN s /\ s[i + n] = s[j + n]
    BY <1>1
  <2>2. i + n = j + n
    BY <2>1 DEF IsDistinct
  <2> QED
    BY <2>2
<1>3. ASSUME NEW x \in Elements(rest)
      PROVE  x \in Elements(s) \ {s[i] : i \in 1..n}
  <2>1. PICK i \in 1..(Len(s) - n) : x = s[i + n]
    BY <1>1 DEF Elements
  <2>2. i + n \in DOMAIN s /\ i + n \notin 1..n
    BY <1>1
  <2>3. \A j \in 1..n : j \in DOMAIN s /\ j # i + n
    BY <1>1, <2>2
  <2>4. \A j \in 1..n : s[j] # s[i + n]
    BY <2>2, <2>3 DEF IsDistinct
  <2> QED
    BY <2>1, <2>2, <2>4 DEF Elements
<1>4. ASSUME NEW x \in Elements(s) \ {s[i] : i \in 1..n}
      PROVE  x \in Elements(rest)
  <2>1. PICK i \in 1..Len(s) : x = s[i] /\ i \notin 1..n
    BY <1>1 DEF Elements
  <2>2. i - n \in 1..(Len(s) - n) /\ i - n + n = i
    BY <1>1, <2>1
  <2> QED
    BY <1>1, <2>1, <2>2 DEF Elements
<1> QED
  BY <1>1, <1>2, <1>3, <1>4 DEF rest

-----------------------------------------------------------------------------
(* The inductive invariant.                                                *)

Batched == Elements(batch)
InTyping == Elements(typing)

InMemory == {memory[c] : c \in Cells} \ {NUL}

Limit(x) == IF x.kind = "external" THEN 2 ELSE 1

(* How often x is still executed by what the server holds                  *)
Ahead(x) ==
    (IF x \in Batched /\ x.kind # "key" THEN 1 ELSE 0)
  + (IF x \in InTyping THEN 1 ELSE 0)

(* A byte was sent before it is anywhere, and lies in its own cell.        *)
SentBefore ==
  /\ InMemory \subseteq copied
  /\ \A x \in Batched \cup InTyping : x.at \in copied
  /\ \A c \in Cells : memory[c] # NUL => memory[c][2] = c
  /\ \A x \in Requested : x.at \notin copied => done[x] = 0

(* Nothing is held twice, and no function is typed.                        *)
HeldOnce ==
  /\ IsDistinct(batch) /\ IsDistinct(typing)
  /\ \A x \in InTyping : ~IsFunction(x)
  /\ \A x \in Requested : done[x] + Ahead(x) <= Limit(x)

(* What is held, or was                                                    *)
Known(x) == x \in Batched \/ x \in InTyping \/ done[x] > 0

OneUnitEach ==
  \A x, y \in Requested : Known(x) /\ Known(y) /\ x.at = y.at => x = y

(* What the server is going to take out of the memory is new to it.        *)
NewInMemory ==
  /\ pc \in {"create", "look", "parse", "pull"} =>
       /\ batch = <<>>
       /\ \A x \in Requested : x.at \in InMemory => done[x] = 0 /\ x \notin InTyping
  /\ pc \in {"create", "look", "parse"} => typing = <<>>
  /\ pc = "parse" => \A c \in 1..length : memory[c] # NUL

ServerInv == ServerTypeOK /\ SentBefore /\ HeldOnce /\ OneUnitEach /\ NewInMemory

-----------------------------------------------------------------------------

LEMMA ByteProperties == ASSUME NEW x \in Bytes PROVE x[2] \in Cells
<1>1. PICK r \in Requests : \E i \in DOMAIN Text[r] : x = <<r, i>>
  BY DEF Bytes
<1>2. DOMAIN Text[r] = 1..Len(Text[r]) /\ Len(Text[r]) \in 1..(Size - 1) /\ Size \in Nat
  BY RequestAssumption
<1> QED
  BY <1>1, <1>2 DEF Cells

LEMMA CountType == ASSUME NEW x PROVE Limit(x) \in {1, 2} /\ Ahead(x) \in {0, 1, 2}
  BY DEF Limit, Ahead

(* A step after which nothing is known that was not known before.          *)
LEMMA KnownStep ==
  ASSUME OneUnitEach, \A x \in Requested : Known(x)' => Known(x)
  PROVE  OneUnitEach'
  BY DEF OneUnitEach

LEMMA ServerInvInit == ServerInit => ServerInv
<1> SUFFICES ASSUME ServerInit
             PROVE  ServerInv
  OBVIOUS
<1> USE DEF ServerInit
<1>1. ServerTypeOK
  <2>1. memory \in [Cells -> Bytes \cup {NUL}] /\ done \in [Requested -> Nat]
    BY DEF Blank
  <2>2. length \in 0..(Size - 1) /\ batch = <<>> /\ typing = <<>>
    BY RequestAssumption
  <2>3. {runnable, asked, gone} \subseteq BOOLEAN
    OBVIOUS
  <2>4. copied \subseteq Bytes /\ pc = "create"
    OBVIOUS
  <2> HIDE DEF ServerInit
  <2> QED
    BY <2>1, <2>2, <2>3, <2>4 DEF ServerTypeOK
<1>2. Batched = {} /\ InTyping = {} /\ InMemory = {}
  BY DEF Batched, InTyping, InMemory, Elements, Blank
<1>3. \A x \in Requested : done[x] = 0
  OBVIOUS
<1>4. SentBefore
  BY <1>2, <1>3 DEF SentBefore, Blank
<1>5. HeldOnce
  BY <1>2, <1>3 DEF HeldOnce, IsDistinct, Ahead, Limit
<1>6. OneUnitEach
  BY <1>2, <1>3 DEF OneUnitEach, Known
<1>7. NewInMemory
  BY <1>2 DEF NewInMemory
<1> QED
  BY <1>1, <1>4, <1>5, <1>6, <1>7 DEF ServerInv

(* Steps that neither execute nor move a unit                              *)
LEMMA IdleStep ==
  ASSUME ServerInv, UNCHANGED <<memory, copied, batch, typing, done>>,
         pc' \in {"look", "parse", "execute", "pull", "stopped"},
         length' \in 0..(Size - 1), {runnable, asked, gone}' \subseteq BOOLEAN,
         pc' \in {"look", "parse", "pull"} => pc \in {"create", "look", "parse", "pull"},
         pc' \in {"look", "parse"} => typing = <<>>,
         pc' = "parse" => \A c \in 1..length' : memory[c] # NUL
  PROVE  ServerInv'
<1>1. /\ Batched' = Batched /\ InTyping' = InTyping /\ InMemory' = InMemory
      /\ \A x : Ahead(x)' = Ahead(x) /\ Known(x)' = Known(x)
  BY DEF Batched, InTyping, InMemory, Ahead, Known
<1>2. ServerTypeOK'
  BY DEF ServerInv, ServerTypeOK, NewInMemory
<1>3. SentBefore'
  BY <1>1 DEF ServerInv, SentBefore
<1>4. HeldOnce'
  BY <1>1 DEF ServerInv, HeldOnce
<1>5. NewInMemory'
  BY <1>1 DEF ServerInv, NewInMemory
<1>6. OneUnitEach'
  BY <1>1, KnownStep DEF ServerInv
<1> QED
  BY <1>2, <1>3, <1>4, <1>5, <1>6 DEF ServerInv

LEMMA CopyStep == ASSUME ServerInv, NEW x \in Bytes, Copy(x) PROVE ServerInv'
<1> USE DEF Copy, server, life
<1>1. /\ x[2] \in Cells /\ x \notin copied
      /\ memory' = [memory EXCEPT ![x[2]] = x]
      /\ memory \in [Cells -> Bytes \cup {NUL}]
      /\ copied' = copied \cup {x}
  BY ByteProperties DEF ServerInv, ServerTypeOK
<1>2. memory'[x[2]] = x /\ \A c \in Cells \ {x[2]} : memory'[c] = memory[c]
  BY <1>1
<1>3. /\ Batched' = Batched /\ InTyping' = InTyping
      /\ \A y : Ahead(y)' = Ahead(y) /\ Known(y)' = Known(y)
  BY DEF Batched, InTyping, Ahead, Known
<1>4. InMemory' \subseteq InMemory \cup {x}
  BY <1>1, <1>2 DEF InMemory
<1>5. \A y \in Requested : y.at = x => y \notin InTyping /\ done[y] = 0
  BY <1>1 DEF ServerInv, SentBefore
<1>6. ServerTypeOK'
  BY <1>1 DEF ServerInv, ServerTypeOK
<1>7. SentBefore'
  BY <1>1, <1>2, <1>3, <1>4 DEF ServerInv, SentBefore
<1>8. HeldOnce'
  BY <1>3 DEF ServerInv, HeldOnce
<1>9. NewInMemory'
  <2>1. pc = "parse" => \A c \in 1..length : memory'[c] # NUL
    <3> SUFFICES ASSUME pc = "parse", NEW c \in 1..length
                 PROVE  memory'[c] # NUL
      OBVIOUS
    <3>1. c \in Cells /\ memory[c] # NUL
      BY RequestAssumption DEF ServerInv, ServerTypeOK, NewInMemory, Cells
    <3>2. CASE c = x[2]
      BY <1>2, <3>2, RequestAssumption
    <3> QED
      BY <1>2, <3>1, <3>2
  <2> QED
    BY <1>3, <1>4, <1>5, <2>1 DEF ServerInv, NewInMemory
<1>10. OneUnitEach'
  BY <1>3, KnownStep DEF ServerInv
<1> QED
  BY <1>6, <1>7, <1>8, <1>9, <1>10 DEF ServerInv

(* The memory is blank, and nothing is held.                               *)
LEMMA BlankStep ==
  ASSUME ServerInv, memory' = Blank, UNCHANGED <<copied, batch, typing, done, length, life>>,
         \/ pc = "create" /\ pc' = "look"
         \/ pc = "execute" /\ batch = <<>> /\ pc' = "pull"
  PROVE  ServerInv'
<1> USE DEF life
<1>1. /\ Batched' = Batched /\ InTyping' = InTyping
      /\ \A y : Ahead(y)' = Ahead(y) /\ Known(y)' = Known(y)
  BY DEF Batched, InTyping, Ahead, Known
<1>2. InMemory' = {} /\ \A c \in Cells : memory'[c] = NUL
  BY DEF InMemory, Blank
<1>3. ServerTypeOK'
  BY DEF ServerInv, ServerTypeOK, Blank, NewInMemory
<1>4. SentBefore'
  BY <1>1, <1>2 DEF ServerInv, SentBefore
<1>5. HeldOnce'
  BY <1>1 DEF ServerInv, HeldOnce
<1>6. NewInMemory'
  BY <1>2 DEF ServerInv, NewInMemory
<1>7. OneUnitEach'
  BY <1>1, KnownStep DEF ServerInv
<1> QED
  BY <1>3, <1>4, <1>5, <1>6, <1>7 DEF ServerInv

(* The units that are parsed begin with different bytes of the memory.     *)
LEMMA TextProperties ==
  ASSUME ServerInv, pc = "parse"
  PROVE  LET inputs == RequestInputs(memory, length)
         IN  /\ inputs \in Seq(Requested)
             /\ \A i \in DOMAIN inputs : inputs[i].at \in InMemory
             /\ \A i, j \in DOMAIN inputs : inputs[i].at = inputs[j].at => i = j
<1> DEFINE text == Characters(memory, length)
           units == ParseCommand(text)
           inputs == RequestInputs(memory, length)
<1>1. /\ memory \in [Cells -> Bytes \cup {NUL}]
      /\ length \in 0..(Size - 1)
      /\ Size \in Nat
      /\ \A c \in 1..length : c \in Cells /\ memory[c] # NUL /\ memory[c][2] = c
  BY RequestAssumption DEF ServerInv, ServerTypeOK, NewInMemory, SentBefore, Cells
<1>2. \E S : text \in Seq(S) /\ Len(text) = length
  <2> DEFINE all == [c \in DOMAIN memory |-> Character(memory[c])]
             S == {Character(memory[c]) : c \in Cells}
  <2>1. DOMAIN memory = 1..Size
    BY <1>1 DEF Cells
  <2>2. all \in [1..Size -> S]
    BY <2>1 DEF Cells
  <2>3. text = SubSeq(all, 1, length)
    BY DEF Characters
  <2> HIDE DEF all, S, text
  <2>4. all \in Seq(S) /\ Len(all) = Size
    BY <1>1, <2>2
  <2>5. text \in Seq(S) /\ Len(text) = length
    BY <1>1, <2>3, <2>4
  <2> QED
    BY <2>5
<1> HIDE DEF text
<1>3. /\ units \in Seq([at : 1..length, kind : UnitKinds])
      /\ \A i, j \in DOMAIN units : units[i].at = units[j].at => i = j
  BY <1>2, ParsedInOrder
<1>4. inputs = [i \in DOMAIN units |-> [at |-> memory[units[i].at], kind |-> units[i].kind]]
  BY DEF RequestInputs, text
<1> HIDE DEF units, inputs
<1>5. /\ DOMAIN units = 1..Len(units) /\ Len(units) \in Nat
      /\ \A i \in DOMAIN units : units[i].at \in 1..length /\ units[i].kind \in UnitKinds
  <2> DEFINE U == [at : 1..length, kind : UnitKinds]
  <2>1. units \in Seq(U)
    BY <1>3
  <2> HIDE DEF U
  <2>2. DOMAIN units = 1..Len(units) /\ Len(units) \in Nat /\ \A i \in DOMAIN units : units[i] \in U
    BY <2>1
  <2> QED
    BY <2>2 DEF U
<1>6. /\ DOMAIN inputs = DOMAIN units
      /\ \A i \in DOMAIN units : /\ inputs[i].at = memory[units[i].at]
                                 /\ inputs[i].kind = units[i].kind
  BY <1>4
<1>7. inputs \in Seq(Requested)
  <2>1. \A c \in 1..length : memory[c] \in Bytes
    BY <1>1
  <2>2. \A i \in DOMAIN units :
          [at |-> memory[units[i].at], kind |-> units[i].kind] \in Requested
    BY <1>5, <2>1 DEF Requested
  <2>3. inputs \in [1..Len(units) -> Requested]
    BY <1>4, <1>5, <2>2
  <2> QED
    BY <1>5, <2>3
<1>8. \A i \in DOMAIN inputs : inputs[i].at \in InMemory
  BY <1>1, <1>5, <1>6 DEF InMemory
<1>9. ASSUME NEW i \in DOMAIN inputs, NEW j \in DOMAIN inputs, inputs[i].at = inputs[j].at
      PROVE  i = j
  <2>1. memory[units[i].at] = memory[units[j].at]
    BY <1>6, <1>9
  <2>2. units[i].at = units[j].at
    BY <1>1, <1>5, <1>6, <2>1
  <2> QED
    BY <1>3, <1>6, <2>2
<1> QED
  BY <1>7, <1>8, <1>9 DEF inputs

LEMMA ParseStep ==
  ASSUME ServerInv, pc = "parse", typing' = typing \o KeysOf(RequestInputs(memory, length)),
         batch' = RequestInputs(memory, length), pc' = "execute",
         UNCHANGED <<memory, copied, length, life, done>>,
         \A c \in DOMAIN batch' : batch'[c].kind # "bad"
  PROVE  ServerInv'
<1> USE DEF life
<1>1. /\ batch' \in Seq(Requested) /\ IsDistinct(batch')
      /\ \A x \in Elements(batch') : x \in Requested /\ x.at \in InMemory
      /\ \A x, y \in Elements(batch') : x.at = y.at => x = y
  <2>1. /\ batch' \in Seq(Requested)
        /\ \A i \in DOMAIN batch' : batch'[i].at \in InMemory
        /\ \A i, j \in DOMAIN batch' : batch'[i].at = batch'[j].at => i = j
    BY TextProperties
  <2>2. \A i \in DOMAIN batch' : batch'[i] \in Requested
    BY <2>1
  <2> QED
    BY <2>1, <2>2 DEF IsDistinct, Elements
<1>2. /\ KeysOf(batch') \in Seq(Requested)
      /\ \A x \in Elements(KeysOf(batch')) : x \in Elements(batch') /\ ~IsFunction(x)
      /\ IsDistinct(KeysOf(batch'))
  BY <1>1, KeysOfProperties
<1>3. typing = <<>>
  BY DEF ServerInv, NewInMemory
<1>4. typing' = KeysOf(batch')
  <2>1. typing' = <<>> \o KeysOf(batch')
    BY <1>3
  <2> QED
    BY <1>2, <2>1, ConcatEmptySeq
<1>5. Batched' = Elements(batch') /\ InTyping' = Elements(KeysOf(batch'))
  BY <1>4 DEF Batched, InTyping
<1>6. InMemory' = InMemory
  BY DEF InMemory
<1>7. ServerTypeOK'
  BY <1>1, <1>2, <1>4 DEF ServerInv, ServerTypeOK
<1>8. SentBefore'
  BY <1>1, <1>2, <1>5, <1>6 DEF ServerInv, SentBefore
<1>9. HeldOnce'
  <2>1. ASSUME NEW x \in Requested
        PROVE  (done[x] + Ahead(x) <= Limit(x))'
    <3>1. CASE x \in Elements(batch')
      <4>1. done'[x] = 0
        BY <1>1, <3>1 DEF ServerInv, NewInMemory
      <4>2. x.kind \in UnitKinds \ {"bad"}
        BY <3>1 DEF Elements, Requested
      <4>3. Ahead(x)' \in 0..Limit(x)
        BY <1>2, <1>5, <4>2 DEF Ahead, Limit, IsFunction, UnitKinds
      <4> QED
        BY <4>1, <4>3, CountType DEF Limit
    <3>2. CASE x \notin Elements(batch')
      <4>1. Ahead(x)' = 0
        BY <1>2, <1>5, <3>2 DEF Ahead
      <4>2. done[x] \in Nat /\ Ahead(x) \in Nat /\ done[x] + Ahead(x) <= Limit(x)
        BY CountType DEF ServerInv, ServerTypeOK, HeldOnce
      <4>3. Limit(x)' = Limit(x) /\ Limit(x) \in Nat
        BY CountType DEF Limit
      <4> QED
        BY <4>1, <4>2, <4>3
    <3> QED
      BY <3>1, <3>2
  <2> QED
    BY <1>1, <1>2, <1>4, <1>5, <2>1 DEF HeldOnce
<1>10. NewInMemory'
  BY DEF NewInMemory
<1>11. OneUnitEach'
  <2> SUFFICES ASSUME NEW x \in Requested, NEW y \in Requested,
                      Known(x)', Known(y)', x.at = y.at
               PROVE  x = y
    BY DEF OneUnitEach
  <2>1. ASSUME NEW z \in Requested, Known(z)'
        PROVE  z \in Elements(batch') \/ done[z] > 0
    BY <1>2, <1>5, <2>1 DEF Known
  <2>2. ASSUME NEW z \in Requested, z.at \in InMemory
        PROVE  ~(done[z] > 0)
    BY <2>2 DEF ServerInv, NewInMemory
  <2>3. CASE x.at \in InMemory
    BY <1>1, <2>1, <2>2, <2>3
  <2>4. CASE x.at \notin InMemory
    <3>1. done[x] > 0 /\ done[y] > 0
      BY <1>1, <2>1, <2>4
    <3> QED
      BY <3>1 DEF ServerInv, OneUnitEach, Known
  <2> QED
    BY <2>3, <2>4
<1> QED
  BY <1>7, <1>8, <1>9, <1>10, <1>11 DEF ServerInv

(* Units are executed, and what was held of them is not held any more: n   *)
(* units of the typing queue and the first of the batch, if it is to be.   *)
LEMMA ExecuteStep ==
  ASSUME ServerInv, pc = "execute", batch # <<>>, Execute
  PROVE  ServerInv'
<1> DEFINE x == Head(batch)
           first == {y \in {x} : y.kind # "key"}
<1>1. /\ x \in Requested /\ x \in Batched
      /\ batch' = Tail(batch)
      /\ batch' \in Seq(Requested)
      /\ IsDistinct(batch')
      /\ Batched' = Batched \ {x}
  <2>1. batch \in Seq(Requested) /\ IsDistinct(batch) /\ 1 \in 0..Len(batch) /\ x = batch[1]
    BY DEF ServerInv, ServerTypeOK, HeldOnce
  <2>2. batch' = SubSeq(batch, 2, Len(batch))
    BY <2>1 DEF Execute
  <2>3. /\ SubSeq(batch, 1 + 1, Len(batch)) \in Seq(Requested)
        /\ IsDistinct(SubSeq(batch, 1 + 1, Len(batch)))
        /\ Elements(SubSeq(batch, 1 + 1, Len(batch))) = Elements(batch) \ {batch[i] : i \in 1..1}
    BY <2>1, RestProperties
  <2>4. {batch[i] : i \in 1..1} = {x} /\ 1 + 1 = 2
    BY <2>1
  <2>5. x \in Requested /\ x \in Batched
    BY <2>1 DEF Batched, Elements
  <2>6. batch' = Tail(batch)
    BY DEF Execute
  <2> QED
    BY <2>2, <2>3, <2>4, <2>5, <2>6 DEF Batched
<1>2. PICK n \in IF IsFunction(x) THEN 0..Len(typing) ELSE {0} :
              /\ typing' = SubSeq(typing, n + 1, Len(typing))
              /\ Executes({typing[i] : i \in 1..n} \cup first)
  BY DEF Execute
<1> DEFINE pulled == {typing[i] : i \in 1..n}
<1>3. /\ typing' \in Seq(Requested)
      /\ IsDistinct(typing')
      /\ InTyping' = InTyping \ pulled
      /\ pulled \subseteq InTyping
      /\ ~IsFunction(x) => pulled = {}
  <2>1. n \in 0..Len(typing) /\ (~IsFunction(x) => n = 0)
    BY DEF ServerInv, ServerTypeOK
  <2>2. typing \in Seq(Requested) /\ IsDistinct(typing) /\ DOMAIN typing = 1..Len(typing)
    BY DEF ServerInv, ServerTypeOK, HeldOnce
  <2>3. pulled \subseteq InTyping
    BY <2>1, <2>2 DEF InTyping, Elements
  <2>4. ~IsFunction(x) => pulled = {}
    BY <2>1
  <2>5. /\ typing' \in Seq(Requested)
        /\ IsDistinct(typing')
        /\ Elements(typing') = Elements(typing) \ {typing[i] : i \in 1..n}
    BY <1>2, <2>1, <2>2, RestProperties
  <2> QED
    BY <2>3, <2>4, <2>5 DEF InTyping
<1> HIDE DEF x, pulled
<1>4. /\ done' = [y \in Requested |-> IF y \in pulled \cup first THEN done[y] + 1 ELSE done[y]]
      /\ UNCHANGED <<memory, copied, pc, length, runnable, gone>>
      /\ asked' \in BOOLEAN
  BY <1>2 DEF Executes, Execute, pulled, x, ServerInv, ServerTypeOK
<1>5. InMemory' = InMemory
  BY <1>4 DEF InMemory
<1>6. ServerTypeOK'
  BY <1>1, <1>3, <1>4 DEF ServerInv, ServerTypeOK
<1>7. SentBefore'
  <2>1. x.at \in copied /\ \A y \in pulled : y.at \in copied
    BY <1>1, <1>3 DEF ServerInv, SentBefore
  <2>2. \A y \in Requested : y.at \notin copied => done'[y] = 0
    BY <1>4, <2>1 DEF ServerInv, SentBefore
  <2> QED
    BY <1>1, <1>3, <1>4, <1>5, <2>2 DEF ServerInv, SentBefore
<1>8. HeldOnce'
  <2>1. ASSUME NEW y \in Requested
        PROVE  (done[y] + Ahead(y) <= Limit(y))'
    <3>1. done[y] \in Nat /\ done[y] + Ahead(y) <= Limit(y) /\ Limit(y) \in {1, 2}
      BY CountType DEF ServerInv, ServerTypeOK, HeldOnce
    <3>2. y \in pulled => y \in InTyping /\ ~IsFunction(y)
      BY <1>3 DEF ServerInv, HeldOnce
    <3>3. done'[y] = IF y \in pulled \cup first THEN done[y] + 1 ELSE done[y]
      BY <1>4
    <3>4. y \in pulled /\ y \in first => FALSE
      BY <1>3, <3>2
    <3>5. /\ Ahead(y) \in {0, 1, 2} /\ Ahead(y)' \in {0, 1, 2}
          /\ y \in pulled => Ahead(y)' = Ahead(y) - 1
          /\ y \in first => Ahead(y)' = Ahead(y) - 1
          /\ Ahead(y)' <= Ahead(y)
      BY <1>1, <1>3, <3>2, <3>4 DEF Ahead
    <3>6. Limit(y)' = Limit(y)
      BY DEF Limit
    <3> QED
      BY <3>1, <3>3, <3>4, <3>5, <3>6
  <2> QED
    BY <1>1, <1>3, <2>1 DEF ServerInv, HeldOnce
<1>9. NewInMemory'
  BY <1>4 DEF NewInMemory
<1>10. OneUnitEach'
  <2>1. \A y \in Requested : Known(y)' => Known(y)
    BY <1>1, <1>3, <1>4 DEF Known
  <2> QED
    BY <2>1, KnownStep DEF ServerInv
<1> QED
  BY <1>6, <1>7, <1>8, <1>9, <1>10 DEF ServerInv

LEMMA PullStep ==
  ASSUME ServerInv, Pull
  PROVE  ServerInv'
<1> DEFINE pulled == {typing[i] : i \in DOMAIN typing \cap {1}}
<1> USE DEF Pull, life
<1>1. typing \in Seq(Requested) /\ IsDistinct(typing) /\ Len(typing) \in Nat
  BY DEF ServerInv, ServerTypeOK, HeldOnce
<1>2. /\ typing' \in Seq(Requested)
      /\ IsDistinct(typing')
      /\ InTyping' = InTyping \ pulled
      /\ pulled \subseteq InTyping
  <2>1. CASE typing = <<>>
    <3>1. typing' = <<>> /\ pulled = {}
      BY <2>1
    <3>2. InTyping' = InTyping /\ typing' \in Seq(Requested) /\ IsDistinct(typing')
      BY <1>1, <2>1, <3>1 DEF InTyping
    <3> QED
      BY <3>1, <3>2
  <2>2. CASE typing # <<>>
    <3>1. 1 \in 0..Len(typing) /\ DOMAIN typing = 1..Len(typing)
      BY <1>1, <2>2, EmptySeq
    <3>2. /\ SubSeq(typing, 1 + 1, Len(typing)) \in Seq(Requested)
          /\ IsDistinct(SubSeq(typing, 1 + 1, Len(typing)))
          /\ Elements(SubSeq(typing, 1 + 1, Len(typing))) = Elements(typing) \ {typing[i] : i \in 1..1}
      BY <1>1, <3>1, RestProperties
    <3>3. pulled = {typing[i] : i \in 1..1} /\ pulled \subseteq InTyping
      BY <3>1 DEF InTyping, Elements
    <3>4. typing' = SubSeq(typing, 1 + 1, Len(typing))
      OBVIOUS
    <3> QED
      BY <3>2, <3>3, <3>4 DEF InTyping
  <2> QED
    BY <2>1, <2>2
<1> HIDE DEF pulled
<1>3. done' = [y \in Requested |-> IF y \in pulled THEN done[y] + 1 ELSE done[y]]
  BY DEF Executes, pulled
<1>4. Batched' = Batched /\ InMemory' = InMemory /\ batch = <<>>
  BY DEF Batched, InMemory, ServerInv, NewInMemory
<1>5. ServerTypeOK'
  BY <1>2, <1>3, <1>4 DEF ServerInv, ServerTypeOK
<1>6. SentBefore'
  BY <1>2, <1>3, <1>4 DEF ServerInv, SentBefore
<1>7. HeldOnce'
  <2>1. ASSUME NEW y \in Requested
        PROVE  (done[y] + Ahead(y) <= Limit(y))'
    <3>1. done[y] \in Nat /\ done[y] + Ahead(y) <= Limit(y) /\ Limit(y) \in {1, 2}
      BY CountType DEF ServerInv, ServerTypeOK, HeldOnce
    <3>2. done'[y] = IF y \in pulled THEN done[y] + 1 ELSE done[y]
      BY <1>3
    <3>3. /\ Ahead(y) \in {0, 1, 2} /\ Ahead(y)' \in {0, 1, 2}
          /\ y \in pulled => Ahead(y)' = Ahead(y) - 1
          /\ Ahead(y)' <= Ahead(y)
      BY <1>2, <1>4 DEF Ahead
    <3>4. Limit(y)' = Limit(y)
      BY DEF Limit
    <3> QED
      BY <3>1, <3>2, <3>3, <3>4
  <2> QED
    BY <1>2, <1>4, <2>1 DEF ServerInv, HeldOnce
<1>8. NewInMemory'
  <2>1. ASSUME NEW y \in Requested, y.at \in InMemory
        PROVE  done'[y] = 0 /\ y \notin InTyping'
    <3>1. done[y] = 0 /\ y \notin InTyping
      BY <2>1 DEF ServerInv, NewInMemory
    <3> QED
      BY <1>2, <1>3, <3>1
  <2>2. pc' = "look" => typing' = <<>>
    OBVIOUS
  <2>3. pc' \in {"look", "pull"} /\ batch' = <<>>
    BY <1>4
  <2> QED
    BY <1>4, <2>1, <2>2, <2>3 DEF NewInMemory
<1>9. OneUnitEach'
  <2>1. \A y \in Requested : Known(y)' => Known(y)
    BY <1>2, <1>3, <1>4 DEF Known
  <2> QED
    BY <2>1, KnownStep DEF ServerInv
<1> QED
  BY <1>5, <1>6, <1>7, <1>8, <1>9 DEF ServerInv

LEMMA ServerInvNext == ServerInv /\ [ServerNext]_serverVars => ServerInv'
<1> SUFFICES ASSUME ServerInv, [ServerNext]_serverVars
             PROVE  ServerInv'
  OBVIOUS
<1>1. /\ pc \in {"create", "look", "parse", "execute", "pull", "stopped"}
      /\ length \in 0..(Size - 1)
      /\ runnable \in BOOLEAN /\ asked \in BOOLEAN /\ gone \in BOOLEAN
      /\ pc \in {"create", "look", "parse"} => typing = <<>>
  BY DEF ServerInv, ServerTypeOK, NewInMemory
<1>2. pc = "parse" => \A c \in 1..length : memory[c] # NUL
  BY DEF ServerInv, NewInMemory
<1>3. ASSUME NEW x \in Bytes, Copy(x)
      PROVE  ServerInv'
  BY <1>3, CopyStep
<1>4. CASE Create
  BY <1>4, BlankStep DEF Create
<1>5. CASE Look
  <2>1. PICK n \in 0..(Size - 1) :
          /\ \A c \in 1..n : memory[c] # NUL
          /\ length' = n
          /\ pc' = IF n = 0 THEN "pull" ELSE "parse"
    BY <1>5 DEF Look
  <2> QED
    BY <1>1, <1>5, <2>1, IdleStep DEF Look, life
<1>6. CASE Skip
  BY <1>1, <1>6, IdleStep DEF Skip, life
<1>7. CASE Fail
  BY <1>1, <1>7, IdleStep DEF Fail
<1>8. CASE Parse
  <2>1. CASE Fail
    BY <1>7, <2>1
  <2>2. CASE ~Fail
    <3>1. /\ pc = "parse" /\ pc' = "execute"
          /\ batch' = RequestInputs(memory, length)
          /\ typing' = typing \o KeysOf(RequestInputs(memory, length))
          /\ UNCHANGED <<memory, copied, length, life, done>>
          /\ \A c \in DOMAIN batch' : batch'[c].kind # "bad"
      BY <1>8, <2>2 DEF Parse
    <3> QED
      BY <3>1, ParseStep
  <2> QED
    BY <2>1, <2>2
<1>9. CASE Execute
  BY <1>9, ExecuteStep DEF Execute
<1>10. CASE Erase
  BY <1>10, BlankStep DEF Erase
<1>11. CASE Pull
  BY <1>11, PullStep
<1>12. CASE Stop
  BY <1>1, <1>12, IdleStep DEF Stop, life
<1>13. CASE AskToExit \/ Leave \/ UNCHANGED serverVars
  <2>1. /\ UNCHANGED <<memory, copied, server, done>>
        /\ {runnable, asked, gone}' \subseteq BOOLEAN
    BY <1>1, <1>13 DEF AskToExit, Leave, LeaveMainLoop, EndProcess, serverVars, life
  <2>2. UNCHANGED <<memory, copied, batch, typing, done, pc, length>>
    BY <2>1 DEF server
  <2>3. CASE pc = "create"
    <3>1. /\ Batched' = Batched /\ InTyping' = InTyping /\ InMemory' = InMemory
          /\ \A x : Ahead(x)' = Ahead(x) /\ Known(x)' = Known(x)
      BY <2>2 DEF Batched, InTyping, InMemory, Ahead, Known
    <3>2. OneUnitEach'
      BY <3>1, KnownStep DEF ServerInv
    <3> QED
      BY <2>1, <2>2, <3>1, <3>2
      DEF ServerInv, ServerTypeOK, SentBefore, HeldOnce, NewInMemory
  <2>4. CASE pc # "create"
    BY <1>1, <1>2, <2>1, <2>2, <2>4, IdleStep
  <2> QED
    BY <2>3, <2>4
<1> QED
  BY <1>3, <1>4, <1>5, <1>6, <1>7, <1>8, <1>9, <1>10, <1>11, <1>12, <1>13
  DEF ServerNext, Serve, Throw

-----------------------------------------------------------------------------

(* Whatever requests the senders write into the memory, byte by byte, in   *)
(* any order and while it is read, parsed or erased: a byte that was sent  *)
(* begins one unit at most, which is not executed twice, but for an        *)
(* external key, and no function of a text gets keys of an earlier text    *)
(* (VindEntry::update).  What a torn text says is left open.               *)
THEOREM RequestsDoNotMix == ServerSpec => []UnitsExecutedOnce
<1>1. ServerInv => UnitsExecutedOnce
  <2> SUFFICES ASSUME ServerInv
               PROVE  UnitsExecutedOnce
    OBVIOUS
  <2>1. ASSUME NEW x \in Requested
        PROVE  done[x] <= IF x.at \notin copied THEN 0
                          ELSE IF x.kind = "external" THEN 2 ELSE 1
    <3>1. /\ done[x] \in Nat
          /\ done[x] + Ahead(x) <= Limit(x)
          /\ x.at \notin copied => done[x] = 0
      BY DEF ServerInv, ServerTypeOK, SentBefore, HeldOnce
    <3> QED
      BY <3>1, CountType DEF Limit
  <2>2. ASSUME NEW x \in Requested, NEW y \in Requested,
               done[x] > 0, done[y] > 0, x.at = y.at
        PROVE  x = y
    BY <2>2 DEF ServerInv, OneUnitEach, Known
  <2>3. ExecutedOnce
    BY <2>1, <2>2 DEF ExecutedOnce
  <2> QED
    BY <2>3 DEF ServerInv, NewInMemory, UnitsExecutedOnce, NoKeysLeftOver
<1> QED
  BY <1>1, ServerInvInit, ServerInvNext, PTL DEF ServerSpec

-----------------------------------------------------------------------------
(***************************************************************************)
(* EasyClick, first its labels: the words that are given to any number of  *)
(* positions are told apart by their letters.  The short words and the long*)
(* ones share no first letter, and a long word is its number written in the*)
(* base L, which is read back digit by digit.                              *)
(***************************************************************************)

(* Quotient and remainder.                                                 *)
LEMMA Digits ==
  ASSUME NEW k \in Nat, NEW l \in Nat \ {0}
  PROVE  /\ k \div l \in Nat
         /\ k % l \in 0..(l - 1)
         /\ k = l * (k \div l) + (k % l)
<1>1. k \in Int /\ l \in Int /\ l > 0
  OBVIOUS
<1>2. k \div l \in Nat /\ k % l \in 0..(l - 1)
  BY <1>1
<1>3. k = l * (k \div l) + (k % l)
  BY <1>1, SMTT(30)
<1> QED
  BY <1>2, <1>3

LEMMA TimesGrows ==
  ASSUME NEW l \in Nat, NEW a \in Nat, NEW b \in Nat, a < b
  PROVE  l * a \in Nat /\ l * b \in Nat /\ l * a + l <= l * b
  OBVIOUS

LEMMA QuotientBelow ==
  ASSUME NEW k \in Nat, NEW l \in Nat \ {0}, NEW m \in Nat, k < l * m
  PROVE  k \div l < m
<1> SUFFICES ASSUME ~(k \div l < m)
             PROVE  FALSE
  OBVIOUS
<1> DEFINE q == k \div l
           r == k % l
<1>1. q \in Nat /\ r \in 0..(l - 1) /\ k = l * q + r
  BY Digits
<1> HIDE DEF q, r
<1>2. ~(q < m)
  BY DEF q
<1>3. l * q >= l * m /\ l * q \in Nat /\ l * m \in Nat
  <2>1. CASE q = m
    BY <1>1, <2>1
  <2>2. CASE m < q
    <3>1. l * m + l <= l * q /\ l * m \in Nat /\ l * q \in Nat
      BY <1>1, <2>2, TimesGrows
    <3> QED
      BY <3>1
  <2> QED
    BY <1>1, <1>2, <2>1, <2>2
<1> QED
  BY <1>1, <1>3

LEMMA SameDigits ==
  ASSUME NEW k \in Nat, NEW m \in Nat, NEW l \in Nat \ {0},
         k \div l = m \div l, k % l = m % l
  PROVE  k = m
<1>1. k = l * (k \div l) + (k % l) /\ m = l * (m \div l) + (m % l)
  BY Digits
<1> QED
  BY <1>1, Zenon

LEMMA QuotientIs ==
  ASSUME NEW l \in Nat \ {0}, NEW q \in Nat, NEW r \in 0..(l - 1), NEW k, k = l * q + r
  PROVE  k \div l = q
<1> DEFINE p == k \div l
           s == k % l
<1>0. k \in Nat
  OBVIOUS
<1>1. p \in Nat /\ s \in 0..(l - 1) /\ k = l * p + s
  BY <1>0, Digits
<1> HIDE DEF p, s
<1>2. ~(p < q)
  <2> SUFFICES ASSUME p < q
               PROVE  FALSE
    OBVIOUS
  <2>1. l * p + l <= l * q /\ l * p \in Nat /\ l * q \in Nat
    BY <1>1, TimesGrows
  <2> QED
    BY <1>1, <2>1
<1>3. ~(q < p)
  <2> SUFFICES ASSUME q < p
               PROVE  FALSE
    OBVIOUS
  <2>1. l * q + l <= l * p /\ l * p \in Nat /\ l * q \in Nat
    BY <1>1, TimesGrows
  <2> QED
    BY <1>1, <2>1
<1>4. p = q
  BY <1>1, <1>2, <1>3
<1> QED
  BY <1>4 DEF p

(* The quotient by a square is the quotient of the quotient.               *)
LEMMA QuotientTwice ==
  ASSUME NEW k \in Nat, NEW l \in Nat \ {0}
  PROVE  k \div (l * l) = (k \div l) \div l
<1> DEFINE q  == k \div l
           r  == k % l
           q2 == q \div l
           r2 == q % l
<1>1. q \in Nat /\ r \in 0..(l - 1) /\ k = l * q + r
  BY Digits
<1> HIDE DEF q, r
<1>2. q2 \in Nat /\ r2 \in 0..(l - 1) /\ q = l * q2 + r2
  BY <1>1, Digits
<1> HIDE DEF q2, r2
<1>3. l * l \in Nat \ {0}
  OBVIOUS
<1>4. l * r2 \in Nat /\ l * r2 + l <= l * l
  BY <1>2, TimesGrows
<1>5. l * r2 + r \in 0..(l * l - 1)
  BY <1>1, <1>3, <1>4
<1>6. l * q = (l * l) * q2 + l * r2
  BY <1>1, <1>2
<1>7. k = (l * l) * q2 + (l * r2 + r)
  <2> DEFINE a == (l * l) * q2
             b == l * r2
  <2>1. a \in Nat /\ b \in Nat /\ l * q = a + b
    BY <1>2, <1>3, <1>4, <1>6
  <2> HIDE DEF a, b
  <2>2. k = a + (b + r)
    BY <1>1, <2>1
  <2> QED
    BY <2>2 DEF a, b
<1>8. k \div (l * l) = q2
  BY <1>2, <1>3, <1>5, <1>7, QuotientIs
<1> QED
  BY <1>8 DEF q, q2

-----------------------------------------------------------------------------
(* The words.                                                              *)

Alphabet == {Labels[i] : i \in 1..L}

LEMMA LettersTell ==
  ASSUME NEW a \in 0..(L - 1), NEW b \in 0..(L - 1)
  PROVE  Letter(a) \in Alphabet /\ (Letter(a) = Letter(b) => a = b)
<1>1. L \in Nat /\ a + 1 \in 1..L /\ b + 1 \in 1..L
  BY LabelsAssumption
<1>2. Labels[a + 1] = Labels[b + 1] => a + 1 = b + 1
  BY <1>1, LabelsAssumption
<1> QED
  BY <1>1, <1>2 DEF Letter, Alphabet

LEMMA PrefixLetters ==
  ASSUME NEW S, NEW v \in Seq(S), NEW w \in Seq(S), IsPrefixOf(v, w)
  PROVE  Len(v) <= Len(w) /\ \A k \in 1..Len(v) : v[k] = w[k]
<1>1. Len(v) <= Len(w) /\ SubSeq(w, 1, Len(v)) = v
  BY DEF IsPrefixOf
<1>2. \A k \in 1..Len(v) : SubSeq(w, 1, Len(v))[k] = w[k]
  BY <1>1
<1> QED
  BY <1>1, <1>2

LEMMA Word1Letters ==
  ASSUME NEW S, NEW w, NEW x \in S, w = <<x>>
  PROVE  w \in Seq(S) /\ w # <<>> /\ Len(w) = 1 /\ w[1] = x
  OBVIOUS
LEMMA Word2Letters ==
  ASSUME NEW S, NEW w, NEW x \in S, NEW y \in S, w = <<x, y>>
  PROVE  w \in Seq(S) /\ w # <<>> /\ Len(w) = 2 /\ w[1] = x /\ w[2] = y
  OBVIOUS
LEMMA Word3Letters ==
  ASSUME NEW S, NEW w, NEW x \in S, NEW y \in S, NEW z \in S, w = <<x, y, z>>
  PROVE  w \in Seq(S) /\ w # <<>> /\ Len(w) = 3 /\ w[1] = x /\ w[2] = y /\ w[3] = z
  OBVIOUS

(* The words that are given to so many positions, none the beginning of    *)
(* another one.                                                            *)
Distinguished(words, N) ==
  /\ words = [i \in 1..N |-> words[i]]
  /\ \A i \in 1..N : words[i] \in Seq(Alphabet) /\ words[i] # <<>>
  /\ \A i, j \in 1..N : IsPrefixOf(words[i], words[j]) => i = j

LEMMA OneLetter ==
  ASSUME NEW count \in 1..L
  PROVE  Distinguished([i \in 1..count |-> Word1(0, i - 1)], count)
<1> DEFINE h == [i \in 1..count |-> Word1(0, i - 1)]
<1>1. ASSUME NEW i \in 1..count
      PROVE  /\ i - 1 \in 0..(L - 1)
             /\ h[i] = <<Letter(i - 1)>>
             /\ h[i] \in Seq(Alphabet) /\ h[i] # <<>> /\ Len(h[i]) = 1
             /\ h[i][1] = Letter(i - 1)
  <2>1. i - 1 \in 0..(L - 1) /\ 0 + (i - 1) = i - 1
    BY LabelsAssumption
  <2>2. Letter(i - 1) \in Alphabet
    BY <2>1, LettersTell
  <2>3. h[i] = <<Letter(i - 1)>>
    BY <2>1 DEF Word1
  <2> HIDE DEF h
  <2> QED
    BY <2>1, <2>2, <2>3, Word1Letters
<1>2. ASSUME NEW i \in 1..count, NEW j \in 1..count, IsPrefixOf(h[i], h[j])
      PROVE  i = j
  <2>1. h[i] \in Seq(Alphabet) /\ h[j] \in Seq(Alphabet) /\ Len(h[i]) = 1
    BY <1>1
  <2>2. h[i][1] = h[j][1]
    BY <1>2, <2>1, PrefixLetters
  <2>3. Letter(i - 1) = Letter(j - 1)
    BY <1>1, <2>2
  <2>4. i - 1 = j - 1
    BY <1>1, <2>3, LettersTell
  <2> QED
    BY <2>4
<1>3. h = [i \in 1..count |-> h[i]]
  OBVIOUS
<1>4. \A i \in 1..count : h[i] \in Seq(Alphabet) /\ h[i] # <<>>
  BY <1>1
<1> HIDE DEF h
<1>5. Distinguished(h, count)
  BY <1>2, <1>3, <1>4 DEF Distinguished
<1> QED
  BY <1>5 DEF h

(* Words of m letters for the first positions, of one more for the others, *)
(* where first is the number of the first letter: no letter begins both a  *)
(* short and a long one.                                                   *)
FirstTells(h, first, N, short, m, f) ==
  \A i \in 1..N :
    /\ h[i] \in Seq(Alphabet)
    /\ Len(h[i]) = IF i <= short THEN m ELSE m + 1
    /\ h[i][1] = Letter(first[i])
    /\ first[i] \in 0..(L - 1)
    /\ i <= short => first[i] >= f
    /\ i > short => first[i] < f

LettersTellApart(h, N, short) ==
  \A i, j \in 1..N :
    /\ i <= short <=> j <= short
    /\ \A k \in 1..Len(h[i]) : h[i][k] = h[j][k]
    => i = j

LEMMA ShortAndLong ==
  ASSUME NEW N \in Nat, NEW short \in Nat, NEW m \in Nat \ {0}, NEW f \in Nat,
         NEW h, NEW first,
         h = [i \in 1..N |-> h[i]],
         FirstTells(h, first, N, short, m, f), LettersTellApart(h, N, short)
  PROVE  Distinguished(h, N)
<1> USE DEF FirstTells
<1>1. ASSUME NEW i \in 1..N
      PROVE  h[i] \in Seq(Alphabet) /\ h[i] # <<>>
  <2>1. h[i] \in Seq(Alphabet) /\ Len(h[i]) # 0
    OBVIOUS
  <2> QED
    BY <2>1
<1>2. ASSUME NEW i \in 1..N, NEW j \in 1..N, IsPrefixOf(h[i], h[j])
      PROVE  i = j
  <2>1. Len(h[i]) <= Len(h[j]) /\ \A k \in 1..Len(h[i]) : h[i][k] = h[j][k]
    BY <1>2, PrefixLetters
  <2>2. 1 \in 1..Len(h[i])
    OBVIOUS
  <2>3. Letter(first[i]) = Letter(first[j])
    BY <2>1, <2>2
  <2>4. first[i] = first[j]
    BY <2>3, LettersTell
  <2>5. first[i] \in Nat
    BY LabelsAssumption
  <2>6. i <= short <=> j <= short
    BY <2>4, <2>5
  <2> QED
    BY <2>1, <2>6 DEF LettersTellApart
<1> QED
  BY <1>1, <1>2 DEF Distinguished

LEMMA NextQuotient ==
  ASSUME NEW count \in Nat, NEW l \in Nat \ {0}
  PROVE  count \div l + 1 \in Nat \ {0} /\ count < l * (count \div l + 1)
<1> DEFINE q == count \div l
           r == count % l
<1>1. q \in Nat /\ r \in 0..(l - 1) /\ count = l * q + r
  BY Digits
<1> HIDE DEF q, r
<1>2. l * q \in Nat /\ l * (q + 1) = l * q + l
  BY <1>1
<1>3. q + 1 \in Nat \ {0} /\ count < l * (q + 1)
  BY <1>1, <1>2
<1> QED
  BY <1>3 DEF q

LEMMA TwoLetters ==
  ASSUME NEW count \in Nat, L < count, count <= L * L
  PROVE  Distinguished(Assign(count), count)
<1> DEFINE l2    == count \div L + 1
           short == NonNegative(L - l2)
           h     == [i \in 1..count |-> IF i <= short THEN Word1(l2, i - 1)
                                        ELSE Word2(0, i - 1 - short)]
           first == [i \in 1..count |-> IF i <= short THEN l2 + (i - 1)
                                        ELSE (i - 1 - short) \div L]
<1>1. L \in Nat \ {0} /\ L * L \in Nat
  BY LabelsAssumption
<1>2. Assign(count) = h
  BY <1>1 DEF Assign
<1>3. l2 \in Nat /\ count < L * l2
  BY <1>1, NextQuotient
<1> HIDE DEF l2
<1>4. short \in Nat /\ (short > 0 => short = L - l2)
  BY <1>1, <1>3 DEF NonNegative
<1> HIDE DEF short
<1>5. ASSUME NEW i \in 1..count, i <= short
      PROVE  /\ h[i] = <<Letter(l2 + (i - 1))>>
             /\ first[i] = l2 + (i - 1)
             /\ l2 + (i - 1) \in l2..(L - 1)
             /\ l2 + (i - 1) \in 0..(L - 1)
             /\ Letter(l2 + (i - 1)) \in Alphabet
  <2>1. l2 + (i - 1) \in l2..(L - 1) /\ l2 + (i - 1) \in 0..(L - 1)
    BY <1>1, <1>3, <1>4, <1>5
  <2>2. Letter(l2 + (i - 1)) \in Alphabet
    BY <2>1, LettersTell
  <2> QED
    BY <1>5, <2>1, <2>2 DEF Word1
<1>6. ASSUME NEW i \in 1..count, i > short
      PROVE  /\ i - 1 - short \in Nat
             /\ h[i] = <<Letter((i - 1 - short) \div L), Letter((i - 1 - short) % L)>>
             /\ first[i] = (i - 1 - short) \div L
             /\ (i - 1 - short) \div L \in 0..(L - 1)
             /\ (i - 1 - short) \div L < l2
             /\ (i - 1 - short) % L \in 0..(L - 1)
             /\ Letter((i - 1 - short) \div L) \in Alphabet
             /\ Letter((i - 1 - short) % L) \in Alphabet
  <2> DEFINE k == i - 1 - short
  <2>1. k \in Nat /\ k < count
    BY <1>4, <1>6
  <2>2. k < L * l2 /\ k < L * L /\ L * l2 \in Nat
    BY <1>1, <1>3, <2>1
  <2>3. ~(i <= short)
    BY <1>4, <1>6
  <2>4. h[i] = Word2(0, k) /\ first[i] = k \div L
    BY <2>3
  <2> HIDE DEF k
  <2>5. k \div L < l2 /\ k \div L < L
    BY <1>1, <1>3, <2>1, <2>2, QuotientBelow
  <2>6. k \div L \in Nat /\ k % L \in 0..(L - 1)
    BY <1>1, <2>1, Digits
  <2>7. k \div L \in 0..(L - 1)
    BY <1>1, <2>5, <2>6
  <2>8. Letter(k \div L) \in Alphabet /\ Letter(k % L) \in Alphabet
    BY <2>6, <2>7, LettersTell
  <2>9. 0 + k \div L = k \div L
    BY <2>6
  <2>10. h[i] = <<Letter(k \div L), Letter(k % L)>>
    BY <2>4, <2>9 DEF Word2
  <2>11. /\ k \in Nat
         /\ h[i] = <<Letter(k \div L), Letter(k % L)>>
         /\ first[i] = k \div L
         /\ k \div L \in 0..(L - 1)
         /\ k \div L < l2
         /\ k % L \in 0..(L - 1)
         /\ Letter(k \div L) \in Alphabet
         /\ Letter(k % L) \in Alphabet
    BY <2>1, <2>4, <2>5, <2>6, <2>7, <2>8, <2>10
  <2> QED
    BY <2>11, Zenon DEF k
<1>7. h = [i \in 1..count |-> h[i]]
  OBVIOUS
<1> HIDE DEF h, first
<1>8. ASSUME NEW i \in 1..count
      PROVE  /\ h[i] \in Seq(Alphabet)
             /\ Len(h[i]) = IF i <= short THEN 1 ELSE 1 + 1
             /\ h[i][1] = Letter(first[i])
             /\ first[i] \in 0..(L - 1)
             /\ i <= short => first[i] >= l2
             /\ i > short => first[i] < l2
  <2>1. CASE i <= short
    <3>1. ~(i > short)
      BY <1>4, <2>1
    <3>2. /\ h[i] \in Seq(Alphabet) /\ Len(h[i]) = 1
          /\ h[i][1] = Letter(first[i])
      <4> DEFINE x == Letter(l2 + (i - 1))
      <4>1. h[i] = <<x>> /\ x \in Alphabet /\ Letter(first[i]) = x
        BY <1>5, <2>1
      <4> HIDE DEF x
      <4> QED
        BY <4>1, Word1Letters
    <3>3. first[i] >= l2 /\ first[i] \in 0..(L - 1)
      BY <1>1, <1>3, <1>5, <2>1
    <3> QED
      BY <2>1, <3>1, <3>2, <3>3
  <2>2. CASE ~(i <= short)
    <3>1. i > short
      BY <1>4, <2>2
    <3>2. /\ h[i] \in Seq(Alphabet) /\ Len(h[i]) = 2
          /\ h[i][1] = Letter(first[i])
      <4> DEFINE x == Letter((i - 1 - short) \div L)
                 y == Letter((i - 1 - short) % L)
      <4>1. h[i] = <<x, y>> /\ x \in Alphabet /\ y \in Alphabet /\ Letter(first[i]) = x
        BY <1>6, <3>1
      <4> HIDE DEF x, y
      <4> QED
        BY <4>1, Word2Letters
    <3> QED
      BY <1>6, <2>2, <3>1, <3>2
  <2> QED
    BY <2>1, <2>2
<1>9. ASSUME NEW i \in 1..count, NEW j \in 1..count,
             i <= short <=> j <= short,
             \A k \in 1..Len(h[i]) : h[i][k] = h[j][k]
      PROVE  i = j
  <2>1. CASE i <= short
    <3>1. Letter(l2 + (i - 1)) = Letter(l2 + (j - 1))
      <4>1. 1 \in 1..Len(h[i])
        BY <1>8, <2>1
      <4>2. h[i][1] = h[j][1]
        BY <1>9, <4>1
      <4> QED
        BY <1>5, <1>9, <2>1, <4>2, Word1Letters
    <3>2. l2 + (i - 1) = l2 + (j - 1)
      BY <1>5, <1>9, <2>1, <3>1, LettersTell
    <3> QED
      BY <1>3, <3>2
  <2>2. CASE ~(i <= short)
    <3>1. i > short /\ j > short
      BY <1>4, <1>9, <2>2
    <3> DEFINE k == i - 1 - short
               n == j - 1 - short
    <3>2. 1 \in 1..Len(h[i]) /\ 2 \in 1..Len(h[i])
      BY <1>8, <2>2
    <3>3. h[i][1] = h[j][1] /\ h[i][2] = h[j][2]
      BY <1>9, <3>2
    <3>4. Letter(k \div L) = Letter(n \div L) /\ Letter(k % L) = Letter(n % L)
      BY <1>6, <3>1, <3>3, Word2Letters
    <3>5. k \div L = n \div L /\ k % L = n % L
      BY <1>6, <3>1, <3>4, LettersTell
    <3>6. k \in Nat /\ n \in Nat
      BY <1>6, <3>1
    <3>7. k = n
      BY <1>1, <3>5, <3>6, SameDigits
    <3> QED
      BY <1>4, <3>7
  <2> QED
    BY <2>1, <2>2
<1>10. FirstTells(h, first, count, short, 1, l2)
  BY <1>8 DEF FirstTells
<1>11. LettersTellApart(h, count, short)
  BY <1>9 DEF LettersTellApart
<1>12. Distinguished(h, count)
  BY <1>3, <1>4, <1>7, <1>10, <1>11, ShortAndLong
<1> QED
  BY <1>2, <1>12 DEF h

(* The numbers of the letters of a long word.                              *)
LEMMA ThreeDigits ==
  ASSUME NEW k \in Nat, NEW n \in Nat, NEW l \in Nat \ {0},
         k \div (l * l) = n \div (l * l),
         (k \div l) % l = (n \div l) % l,
         k % l = n % l
  PROVE  k = n
<1>1. k \div l \in Nat /\ n \div l \in Nat
  BY Digits
<1>2. (k \div l) \div l = (n \div l) \div l
  BY QuotientTwice
<1>3. k \div l = n \div l
  BY <1>1, <1>2, SameDigits
<1> QED
  BY <1>3, SameDigits

LEMMA ThreeLetters ==
  ASSUME NEW count \in Nat, L * L < count
  PROVE  LET N == IF count < L * L * L THEN count ELSE L * L * L
         IN  Distinguished(Assign(count), N)
<1> DEFINE N     == IF count < L * L * L THEN count ELSE L * L * L
           l3    == count \div (L * L) + 1
           few   == NonNegative(L - l3)
           short == few * L
           h     == [i \in 1..N |-> IF i <= short THEN Word2(l3, i - 1)
                                    ELSE Word3(i - 1 - short)]
           first == [i \in 1..N |-> IF i <= short THEN l3 + (i - 1) \div L
                                    ELSE (i - 1 - short) \div (L * L)]
<1>1. L \in Nat \ {0} /\ L * L \in Nat \ {0} /\ L * L * L \in Nat
  BY LabelsAssumption
<1>2. L <= L * L
  BY <1>1
<1>3. Assign(count) = h
  BY <1>1, <1>2 DEF Assign
<1>4. l3 \in Nat \ {0} /\ count < (L * L) * l3
  BY <1>1, NextQuotient
<1> HIDE DEF l3
<1>5. few \in Nat /\ (few > 0 => few = L - l3)
  BY <1>1, <1>4 DEF NonNegative
<1> HIDE DEF few
<1>6. short \in Nat /\ short = L * few /\ (few = 0 => short = 0)
  BY <1>1, <1>5
<1> HIDE DEF short
<1>7. N \in Nat /\ N <= count /\ N <= (L * L) * L
  BY <1>1
<1> HIDE DEF N
<1>8. ASSUME NEW i \in 1..N, i <= short
      PROVE  /\ i - 1 \in Nat
             /\ h[i] = <<Letter(l3 + (i - 1) \div L), Letter((i - 1) % L)>>
             /\ first[i] = l3 + (i - 1) \div L
             /\ (i - 1) \div L \in Nat
             /\ l3 + (i - 1) \div L \in l3..(L - 1)
             /\ l3 + (i - 1) \div L \in 0..(L - 1)
             /\ (i - 1) % L \in 0..(L - 1)
             /\ Letter(l3 + (i - 1) \div L) \in Alphabet
             /\ Letter((i - 1) % L) \in Alphabet
  <2> DEFINE k == i - 1
  <2>1. k \in Nat /\ k < L * few /\ few > 0
    BY <1>5, <1>6, <1>7, <1>8
  <2>2. h[i] = Word2(l3, k) /\ first[i] = l3 + k \div L
    BY <1>8
  <2> HIDE DEF k
  <2>3. k \div L \in Nat /\ k % L \in 0..(L - 1)
    BY <1>1, <2>1, Digits
  <2>4. k \div L < few
    BY <1>1, <1>5, <2>1, QuotientBelow
  <2>5. l3 + k \div L \in l3..(L - 1) /\ l3 + k \div L \in 0..(L - 1)
    <3> DEFINE q == k \div L
    <3>1. q \in Nat /\ q < L - l3
      BY <1>5, <2>1, <2>3, <2>4
    <3> HIDE DEF q
    <3>2. l3 + q \in l3..(L - 1) /\ l3 + q \in 0..(L - 1)
      BY <1>1, <1>4, <3>1
    <3> QED
      BY <3>2 DEF q
  <2>6. Letter(l3 + k \div L) \in Alphabet /\ Letter(k % L) \in Alphabet
    BY <2>3, <2>5, LettersTell
  <2>7. h[i] = <<Letter(l3 + k \div L), Letter(k % L)>>
    BY <2>2 DEF Word2
  <2>8. /\ k \in Nat
        /\ h[i] = <<Letter(l3 + k \div L), Letter(k % L)>>
        /\ first[i] = l3 + k \div L
        /\ k \div L \in Nat
        /\ l3 + k \div L \in l3..(L - 1)
        /\ l3 + k \div L \in 0..(L - 1)
        /\ k % L \in 0..(L - 1)
        /\ Letter(l3 + k \div L) \in Alphabet
        /\ Letter(k % L) \in Alphabet
    BY <2>1, <2>2, <2>3, <2>5, <2>6, <2>7
  <2> QED
    BY <2>8, Zenon DEF k
<1>9. ASSUME NEW i \in 1..N, i > short
      PROVE  /\ i - 1 - short \in Nat
             /\ h[i] = <<Letter((i - 1 - short) \div (L * L)),
                         Letter(((i - 1 - short) \div L) % L),
                         Letter((i - 1 - short) % L)>>
             /\ first[i] = (i - 1 - short) \div (L * L)
             /\ (i - 1 - short) \div (L * L) \in 0..(L - 1)
             /\ (i - 1 - short) \div (L * L) < l3
             /\ ((i - 1 - short) \div L) % L \in 0..(L - 1)
             /\ (i - 1 - short) % L \in 0..(L - 1)
             /\ Letter((i - 1 - short) \div (L * L)) \in Alphabet
             /\ Letter(((i - 1 - short) \div L) % L) \in Alphabet
             /\ Letter((i - 1 - short) % L) \in Alphabet
  <2> DEFINE k == i - 1 - short
  <2>1. k \in Nat /\ k < N
    BY <1>6, <1>7, <1>9
  <2>2. k < (L * L) * l3 /\ k < (L * L) * L
    <3> DEFINE a == (L * L) * l3
               b == (L * L) * L
    <3>1. a \in Nat /\ b \in Nat /\ count < a /\ N <= b
      BY <1>1, <1>4, <1>7
    <3> HIDE DEF a, b, k
    <3>2. k < a /\ k < b
      BY <1>7, <2>1, <3>1
    <3> QED
      BY <3>2 DEF a, b
  <2>3. ~(i <= short)
    BY <1>6, <1>9
  <2>4. h[i] = Word3(k) /\ first[i] = k \div (L * L)
    BY <2>3
  <2> HIDE DEF k
  <2>5. k \div (L * L) < l3 /\ k \div (L * L) < L
    BY <1>1, <1>4, <2>1, <2>2, QuotientBelow
  <2>6. /\ k \div (L * L) \in Nat
        /\ k \div L \in Nat
        /\ k % L \in 0..(L - 1)
    BY <1>1, <2>1, Digits
  <2>7. (k \div L) % L \in 0..(L - 1)
    BY <1>1, <2>6, Digits
  <2>8. k \div (L * L) \in 0..(L - 1)
    BY <1>1, <2>5, <2>6
  <2>9. /\ Letter(k \div (L * L)) \in Alphabet
        /\ Letter((k \div L) % L) \in Alphabet
        /\ Letter(k % L) \in Alphabet
    BY <2>6, <2>7, <2>8, LettersTell
  <2>10. h[i] = <<Letter(k \div (L * L)), Letter((k \div L) % L), Letter(k % L)>>
    BY <2>4 DEF Word3
  <2>11. /\ k \in Nat
         /\ h[i] = <<Letter(k \div (L * L)), Letter((k \div L) % L), Letter(k % L)>>
         /\ first[i] = k \div (L * L)
         /\ k \div (L * L) \in 0..(L - 1)
         /\ k \div (L * L) < l3
         /\ (k \div L) % L \in 0..(L - 1)
         /\ k % L \in 0..(L - 1)
         /\ Letter(k \div (L * L)) \in Alphabet
         /\ Letter((k \div L) % L) \in Alphabet
         /\ Letter(k % L) \in Alphabet
    BY <2>1, <2>4, <2>5, <2>6, <2>7, <2>8, <2>9, <2>10, Zenon
  <2> QED
    BY <2>11, Zenon DEF k
<1>10. h = [i \in 1..N |-> h[i]]
  OBVIOUS
<1> HIDE DEF h, first
<1>11. ASSUME NEW i \in 1..N
       PROVE  /\ h[i] \in Seq(Alphabet)
              /\ Len(h[i]) = IF i <= short THEN 2 ELSE 2 + 1
              /\ h[i][1] = Letter(first[i])
              /\ first[i] \in 0..(L - 1)
              /\ i <= short => first[i] >= l3
              /\ i > short => first[i] < l3
  <2>1. CASE i <= short
    <3>1. ~(i > short)
      BY <1>6, <2>1
    <3>2. h[i] \in Seq(Alphabet) /\ Len(h[i]) = 2 /\ h[i][1] = Letter(first[i])
      <4> DEFINE x == Letter(l3 + (i - 1) \div L)
                 y == Letter((i - 1) % L)
      <4>1. h[i] = <<x, y>> /\ x \in Alphabet /\ y \in Alphabet /\ Letter(first[i]) = x
        BY <1>8, <2>1
      <4> HIDE DEF x, y
      <4> QED
        BY <4>1, Word2Letters
    <3>3. first[i] \in l3..(L - 1) /\ first[i] \in 0..(L - 1)
      BY <1>8, <2>1, Zenon
    <3> QED
      BY <1>1, <1>4, <2>1, <3>1, <3>2, <3>3
  <2>2. CASE ~(i <= short)
    <3>1. i > short
      BY <1>6, <2>2
    <3>2. h[i] \in Seq(Alphabet) /\ Len(h[i]) = 3 /\ h[i][1] = Letter(first[i])
      <4> DEFINE x == Letter((i - 1 - short) \div (L * L))
                 y == Letter(((i - 1 - short) \div L) % L)
                 z == Letter((i - 1 - short) % L)
      <4>1. /\ h[i] = <<x, y, z>> /\ x \in Alphabet /\ y \in Alphabet /\ z \in Alphabet
            /\ Letter(first[i]) = x
        BY <1>9, <3>1, Zenon
      <4> HIDE DEF x, y, z
      <4> QED
        BY <4>1, Word3Letters
    <3>3. first[i] \in 0..(L - 1) /\ first[i] < l3
      BY <1>9, <3>1, Zenon
    <3> QED
      BY <2>2, <3>1, <3>2, <3>3
  <2> QED
    BY <2>1, <2>2
<1>12. ASSUME NEW i \in 1..N, NEW j \in 1..N,
              i <= short <=> j <= short,
              \A k \in 1..Len(h[i]) : h[i][k] = h[j][k]
       PROVE  i = j
  <2>1. CASE i <= short
    <3> DEFINE k == i - 1
               n == j - 1
    <3>1. j <= short
      BY <1>12, <2>1
    <3>2. 1 \in 1..Len(h[i]) /\ 2 \in 1..Len(h[i])
      BY <1>11, <2>1
    <3>3. h[i][1] = h[j][1] /\ h[i][2] = h[j][2]
      BY <1>12, <3>2
    <3>4. Letter(l3 + k \div L) = Letter(l3 + n \div L) /\ Letter(k % L) = Letter(n % L)
      BY <1>8, <2>1, <3>1, <3>3, Word2Letters
    <3>5. l3 + k \div L = l3 + n \div L /\ k % L = n % L
      BY <1>8, <2>1, <3>1, <3>4, LettersTell
    <3>6. k \in Nat /\ n \in Nat /\ k \div L \in Nat /\ n \div L \in Nat
      BY <1>8, <2>1, <3>1
    <3>7. k \div L = n \div L
      BY <1>4, <3>5, <3>6
    <3>8. k = n
      BY <1>1, <3>5, <3>6, <3>7, SameDigits
    <3> QED
      BY <1>7, <3>8
  <2>2. CASE ~(i <= short)
    <3>1. i > short /\ j > short
      BY <1>6, <1>12, <2>2
    <3> DEFINE k == i - 1 - short
               n == j - 1 - short
    <3>2. 1 \in 1..Len(h[i]) /\ 2 \in 1..Len(h[i]) /\ 3 \in 1..Len(h[i])
      BY <1>11, <2>2
    <3>3. h[i][1] = h[j][1] /\ h[i][2] = h[j][2] /\ h[i][3] = h[j][3]
      BY <1>12, <3>2
    <3>4. /\ Letter(k \div (L * L)) = Letter(n \div (L * L))
          /\ Letter((k \div L) % L) = Letter((n \div L) % L)
          /\ Letter(k % L) = Letter(n % L)
      BY <1>9, <3>1, <3>3, Word3Letters
    <3>5. /\ k \div (L * L) = n \div (L * L)
          /\ (k \div L) % L = (n \div L) % L
          /\ k % L = n % L
      BY <1>9, <3>1, <3>4, LettersTell
    <3>6. k \in Nat /\ n \in Nat
      BY <1>9, <3>1
    <3>7. k = n
      BY <1>1, <3>5, <3>6, ThreeDigits
    <3> QED
      BY <1>6, <1>7, <3>7
  <2> QED
    BY <2>1, <2>2
<1>13. FirstTells(h, first, N, short, 2, l3)
  BY <1>11 DEF FirstTells
<1>14. LettersTellApart(h, N, short)
  BY <1>12 DEF LettersTellApart
<1>15. Distinguished(h, N)
  BY <1>4, <1>6, <1>7, <1>10, <1>13, <1>14, ShortAndLong
<1> QED
  BY <1>3, <1>15 DEF h, N

(* Every position gets a label, up to three letters for each; the letters  *)
(* are of the alphabet, and no label is the beginning of another one.      *)
Assigned(count) == IF count < L * L * L THEN count ELSE L * L * L

LEMMA AssignedDistinguished ==
  ASSUME NEW count \in Nat \ {0}
  PROVE  /\ Assigned(count) \in Nat \ {0} /\ Assigned(count) <= count
         /\ Distinguished(Assign(count), Assigned(count))
<1>1. L \in Nat \ {0} /\ L * L \in Nat \ {0} /\ L * L * L \in Nat \ {0}
  BY LabelsAssumption
<1>2. L <= L * L /\ L * L <= L * L * L
  BY <1>1
<1>3. Assigned(count) \in Nat \ {0} /\ Assigned(count) <= count
  BY <1>1 DEF Assigned
<1>4. CASE count <= L
  <2>1. count \in 1..L /\ Assigned(count) = count
    BY <1>1, <1>2, <1>4 DEF Assigned
  <2>2. Assign(count) = [i \in 1..count |-> Word1(0, i - 1)]
    BY <1>1, <1>2, <1>4 DEF Assign
  <2> QED
    BY <1>3, <2>1, <2>2, OneLetter
<1>5. CASE L < count /\ count <= L * L
  <2>1. Assigned(count) = count
    BY <1>1, <1>2, <1>5 DEF Assigned
  <2> QED
    BY <1>3, <1>5, <2>1, TwoLetters
<1>6. CASE L * L < count
  <2>1. Distinguished(Assign(count), Assigned(count))
    BY <1>6, ThreeLetters, Zenon DEF Assigned
  <2> QED
    BY <1>3, <2>1
<1> QED
  BY <1>1, <1>4, <1>5, <1>6

(* The property that the labels are given for (assign_identifier_hints).   *)
LEMMA AllHintsAreDistinct == HintsAreDistinct
<1> SUFFICES ASSUME NEW count \in 1..(L * L * L + 1)
             PROVE  /\ Len(Assign(count)) = IF count < L * L * L THEN count ELSE L * L * L
                    /\ \A i, j \in DOMAIN Assign(count) :
                         /\ Assign(count)[i] # <<>>
                         /\ IsPrefixOf(Assign(count)[i], Assign(count)[j]) => i = j
  BY DEF HintsAreDistinct
<1>1. count \in Nat \ {0}
  OBVIOUS
<1> DEFINE N == Assigned(count)
           h == Assign(count)
<1>2. N \in Nat \ {0} /\ Distinguished(h, N)
  BY <1>1, AssignedDistinguished
<1> HIDE DEF h
<1>3. DOMAIN h = 1..N
  BY <1>2 DEF Distinguished
<1>4. Len(h) = N
  <2>1. h \in Seq(Seq(Alphabet))
    <3>1. h = [i \in 1..N |-> h[i]] /\ \A i \in 1..N : h[i] \in Seq(Alphabet)
      BY <1>2 DEF Distinguished
    <3> HIDE DEF N
    <3>2. h \in [1..N -> Seq(Alphabet)]
      BY <3>1
    <3> QED
      BY <1>2, <3>2, SeqDef
  <2> QED
    BY <1>2, <1>3, <2>1, LenProperties
<1>5. \A i, j \in DOMAIN h : h[i] # <<>> /\ (IsPrefixOf(h[i], h[j]) => i = j)
  BY <1>2, <1>3 DEF Distinguished
<1> QED
  BY <1>4, <1>5 DEF h, Assigned

-----------------------------------------------------------------------------
(***************************************************************************)
(* Then the matching.  A trigger made of letters is spelled by the letters *)
(* themselves, so that the stacks of all the matchers stand for one word,  *)
(* the units that were typed since the labels appeared (MatchingProofs):   *)
(* the candidates are the labels that the word begins, the label that      *)
(* accepts is the one that it spells.  What the two threads do between two *)
(* letters is in Phases.                                                   *)
(***************************************************************************)

(* The letters of the labels are keys that nothing but themselves answers. *)
LEMMA LettersAreKeys ==
  ASSUME NEW a \in Alphabet
  PROVE  /\ {a} \in Units /\ a # "astray"
         /\ ~IsAny({a}) /\ ~IsNum({a})
<1>1. a \in Keys \ (SystemKeys \cup UnrealKeys) /\ RepOf[a] = NoKey
  BY ClickAssumption DEF Alphabet
<1> QED
  BY <1>1, ClickAssumption, KeysAssumption DEF Units, IsAny, IsNum

LEMMA LetterMatches ==
  ASSUME NEW a \in Alphabet, NEW u \in Units
  PROVE  UnitMatches({a}, u) <=> u = {a}
<1>1. a \in Keys \ (SystemKeys \cup UnrealKeys) /\ RepOf[a] = NoKey
  BY ClickAssumption DEF Alphabet
<1>2. ASSUME NEW in \in u
      PROVE  AnswersTo(a, in) <=> a = in
  <2>1. in \in Keys /\ RepOf[in] \in UnrealKeys \cup {NoKey} /\ NoKey \notin Keys
    BY KeysAssumption DEF Units
  <2> QED
    BY <1>1, <2>1 DEF AnswersTo
<1> QED
  BY <1>2 DEF UnitMatches

-----------------------------------------------------------------------------
(* The labels as triggers.                                                 *)

Labelled(h) ==
  /\ h \in Seq(Seq(Alphabet))
  /\ \A i \in 1..Len(h) : h[i] # <<>>
  /\ \A i, j \in 1..Len(h) : IsPrefixOf(h[i], h[j]) => i = j

TriggerOf(x) == [k \in DOMAIN x |-> {x[k]}]
TriggersOf(h) == [i \in DOMAIN h |-> [trigger |-> TriggerOf(h[i])]]

LEMMA TriggerOfLabel ==
  ASSUME NEW x \in Seq(Alphabet)
  PROVE  /\ TriggerOf(x) \in Seq(Units)
         /\ Len(TriggerOf(x)) = Len(x)
         /\ \A k \in 1..Len(x) : TriggerOf(x)[k] = {x[k]} /\ x[k] \in Alphabet
<1> DEFINE n == Len(x)
           c == TriggerOf(x)
<1>1. n \in Nat /\ DOMAIN x = 1..n /\ \A k \in 1..n : x[k] \in Alphabet
  OBVIOUS
<1> HIDE DEF n
<1>2. c = [k \in 1..n |-> {x[k]}]
  BY <1>1 DEF TriggerOf
<1>3. \A k \in 1..n : {x[k]} \in Units
  BY <1>1, LettersAreKeys
<1>4. c \in [1..n -> Units]
  BY <1>2, <1>3
<1>5. c \in Seq(Units) /\ DOMAIN c = 1..n
  BY <1>1, <1>4, SeqDef
<1>6. Len(c) = n
  BY <1>1, <1>5, LenProperties
<1> QED
  BY <1>1, <1>2, <1>5, <1>6 DEF n

LEMMA TriggersOfLabels ==
  ASSUME NEW h, Labelled(h)
  PROVE  /\ IsTable(TriggersOf(h))
         /\ Len(TriggersOf(h)) = Len(h) /\ Len(h) \in Nat
         /\ \A i \in 1..Len(h) : TriggersOf(h)[i].trigger = TriggerOf(h[i])
<1> DEFINE n == Len(h)
           t == TriggersOf(h)
           T == [trigger : Seq(Units)]
<1>1. n \in Nat /\ DOMAIN h = 1..n /\ \A i \in 1..n : h[i] \in Seq(Alphabet)
  BY DEF Labelled
<1> HIDE DEF n
<1>2. t = [i \in 1..n |-> [trigger |-> TriggerOf(h[i])]]
  BY <1>1 DEF TriggersOf
<1>3. \A i \in 1..n : [trigger |-> TriggerOf(h[i])] \in T
  BY <1>1, TriggerOfLabel
<1> HIDE DEF T
<1>4. t \in [1..n -> T]
  BY <1>2, <1>3
<1>5. t \in Seq(T) /\ DOMAIN t = 1..n
  BY <1>1, <1>4, SeqDef
<1>6. Len(t) = n
  BY <1>1, <1>5, LenProperties
<1>7. \A i \in 1..n : t[i].trigger = TriggerOf(h[i])
  BY <1>2
<1>8. \A i \in 1..n : t[i].trigger \in Seq(Units)
  BY <1>1, <1>7, TriggerOfLabel
<1>9. IsTable(t)
  BY <1>1, <1>6, <1>8 DEF IsTable
<1> QED
  BY <1>1, <1>6, <1>7, <1>9 DEF n

(* No label has a <num> to diverge at.                                     *)
LEMMA LabelsNeverDiverge ==
  ASSUME NEW h, Labelled(h), NEW ss \in StacksOf(TriggersOf(h)), NEW u
  PROVE  ~SolverDiverges(TriggersOf(h), ss, u)
<1> SUFFICES ASSUME NEW i \in 1..Len(TriggersOf(h)),
                    StepOf(TriggersOf(h)[i].trigger, Top(ss[i]), u).state = Diverges
             PROVE  FALSE
  BY DEF SolverDiverges
<1> DEFINE x == h[i]
           c == TriggerOf(x)
           e == Top(ss[i])
<1>1. i \in 1..Len(h) /\ TriggersOf(h)[i].trigger = c
  BY TriggersOfLabels
<1>2. x \in Seq(Alphabet)
  BY <1>1 DEF Labelled
<1>3. ss[i] \in Seq(Entry)
  BY DEF StacksOf
<1>4. e \in Entry
  BY <1>3, TopType
<1>5. c \in Seq(Units) /\ Len(c) = Len(x) /\ \A k \in 1..Len(x) : c[k] = {x[k]} /\ x[k] \in Alphabet
  BY <1>2, TriggerOfLabel
<1>6. StepOf(c, e, u).state = Diverges
  BY <1>1
<1> HIDE DEF c, e, x
<1>7. e.head + 1 \in 1..(Len(c) - 1) /\ IsNum(c[e.head + 1])
  BY <1>4, <1>5, <1>6, DivergesAtNumber
<1>8. Len(x) \in Nat
  BY <1>2
<1>9. e.head + 1 \in 1..Len(x)
  BY <1>5, <1>7, <1>8
<1> QED
  BY <1>5, <1>7, <1>9, LettersAreKeys

(* The units of the word are the first letters of the label.               *)
Hit(x, w) == Len(w) <= Len(x) /\ \A k \in 1..Len(w) : w[k] = {x[k]}

(* A label has one spelling: each of its letters by itself.                *)
LEMMA BeginsLabel ==
  ASSUME NEW x \in Seq(Alphabet), NEW w \in Seq(Units)
  PROVE  /\ Begins(TriggerOf(x), w, Len(w)) <=> Hit(x, w)
         /\ Spells(TriggerOf(x), w, Len(w)) <=>
              (Len(w) > 0 /\ Hit(x, w) /\ Len(w) = Len(x))
<1> DEFINE n == Len(w)
           m == Len(x)
           c == TriggerOf(x)
<1>1. /\ n \in Nat /\ m \in Nat /\ Len(c) = m
      /\ \A k \in 1..m : c[k] = {x[k]} /\ x[k] \in Alphabet
      /\ \A k \in 1..n : w[k] \in Units
  BY TriggerOfLabel
<1> HIDE DEF n, m, c
<1>2. \A k \in 1..m : ~IsAny(c[k]) /\ ~IsNum(c[k])
  BY <1>1, LettersAreKeys
<1>3. ASSUME NEW k \in 1..m, NEW j \in 1..n
      PROVE  Covers(c[k], w[j]) <=> w[j] = {x[k]}
  <2>1. c[k] = {x[k]} /\ x[k] \in Alphabet /\ w[j] \in Units
    BY <1>1
  <2>2. UnitMatches(c[k], w[j]) <=> w[j] = {x[k]}
    BY <2>1, LetterMatches
  <2>3. ~IsAny(c[k]) /\ ~IsNum(c[k])
    BY <1>2
  <2> QED
    BY <2>2, <2>3 DEF Covers
<1>4. ASSUME NEW p \in [1..n -> 1..m], Spelling(c, w, n, p)
      PROVE  /\ \A k \in 1..n : p[k] = k
             /\ n <= m /\ \A k \in 1..n : w[k] = {x[k]}
  <2> DEFINE S == {k \in 0..n : k > 0 => p[k] = k}
  <2>1. 0 \in S
    BY <1>1
  <2>2. ASSUME NEW k \in 0..(n - 1), k \in S
        PROVE  k + 1 \in S
    <3>1. CASE k = 0
      BY <1>1, <1>4, <3>1 DEF Spelling
    <3>2. CASE k # 0
      <4>1. k \in 1..(n - 1) /\ k \in 1..n /\ p[k] = k
        BY <1>1, <2>2, <3>2
      <4>2. p[k] \in 1..m
        BY <4>1
      <4>3. ~Stays(c[p[k]], w[k + 1])
        BY <1>2, <4>2 DEF Stays
      <4>4. p[k + 1] = k + 1
        BY <1>4, <4>1, <4>3 DEF Spelling
      <4> QED
        BY <1>1, <4>1, <4>4
    <3> QED
      BY <3>1, <3>2
  <2> HIDE DEF S
  <2>3. \A k \in 0..n : k \in S
    BY <1>1, <2>1, <2>2, InductionUpTo
  <2>4. \A k \in 1..n : p[k] = k
    BY <1>1, <2>3 DEF S
  <2>5. n <= m
    <3>1. CASE n = 0
      BY <1>1, <3>1
    <3>2. CASE n # 0
      <4>1. n \in 1..n
        BY <1>1, <3>2
      <4>2. p[n] \in 1..m /\ p[n] = n
        BY <2>4, <4>1
      <4> QED
        BY <1>1, <4>2
    <3> QED
      BY <3>1, <3>2
  <2>6. \A k \in 1..n : w[k] = {x[k]}
    <3> TAKE k \in 1..n
    <3>1. Covers(c[p[k]], w[k]) /\ p[k] = k /\ k \in 1..m
      BY <1>1, <1>4, <2>4, <2>5 DEF Spelling
    <3> QED
      BY <1>3, <3>1
  <2> QED
    BY <2>4, <2>5, <2>6
<1> DEFINE id == [k \in 1..n |-> k]
<1>5. ASSUME n <= m, \A k \in 1..n : w[k] = {x[k]}
      PROVE  id \in [1..n -> 1..m] /\ Spelling(c, w, n, id)
  <2>1. id \in [1..n -> 1..m]
    BY <1>1, <1>5
  <2>2. n > 0 => id[1] = 1
    BY <1>1
  <2>3. \A k \in 1..n : Covers(c[id[k]], w[k])
    BY <1>1, <1>3, <1>5
  <2>4. ASSUME NEW k \in 1..(n - 1)
        PROVE  id[k + 1] = IF Stays(c[id[k]], w[k + 1]) THEN id[k] ELSE id[k] + 1
    <3>1. k \in 1..m /\ id[k] = k /\ id[k + 1] = k + 1
      BY <1>1, <1>5
    <3>2. ~Stays(c[k], w[k + 1])
      BY <1>2, <3>1 DEF Stays
    <3> QED
      BY <3>1, <3>2
  <2> HIDE DEF id
  <2> QED
    BY <1>1, <2>1, <2>2, <2>3, <2>4 DEF Spelling
<1>6. Begins(c, w, n) <=> (n <= m /\ \A k \in 1..n : w[k] = {x[k]})
  <2>1. Begins(c, w, n) => (n <= m /\ \A k \in 1..n : w[k] = {x[k]})
    BY <1>1, <1>4 DEF Begins
  <2>2. (n <= m /\ \A k \in 1..n : w[k] = {x[k]}) => Begins(c, w, n)
    <3> HIDE DEF id
    <3> QED
      BY <1>1, <1>5 DEF Begins
  <2> QED
    BY <2>1, <2>2
<1>7. Spells(c, w, n) <=> (n > 0 /\ n = m /\ n <= m /\ \A k \in 1..n : w[k] = {x[k]})
  <2>1. ASSUME Spells(c, w, n)
        PROVE  n > 0 /\ n = m /\ n <= m /\ \A k \in 1..n : w[k] = {x[k]}
    <3>1. PICK p \in [1..n -> 1..m] :
               Spelling(c, w, n, p) /\ (p[n] = m \/ IsAny(c[p[n]]))
      BY <1>1, <2>1 DEF Spells
    <3>2. n > 0 /\ n \in 1..n
      BY <1>1, <2>1 DEF Spells
    <3>3. p[n] = n /\ n <= m /\ \A k \in 1..n : w[k] = {x[k]}
      BY <1>4, <3>1, <3>2
    <3>4. ~IsAny(c[n])
      <4>1. n \in 1..m
        BY <1>1, <3>2, <3>3
      <4> QED
        BY <1>2, <4>1
    <3> QED
      BY <3>1, <3>2, <3>3, <3>4
  <2>2. ASSUME n > 0, n = m, n <= m, \A k \in 1..n : w[k] = {x[k]}
        PROVE  Spells(c, w, n)
    <3>1. id \in [1..n -> 1..m] /\ Spelling(c, w, n, id)
      BY <1>5, <2>2
    <3>2. id[n] = m
      BY <1>1, <2>2
    <3> HIDE DEF id
    <3> QED
      BY <1>1, <2>2, <3>1, <3>2 DEF Spells
  <2> QED
    BY <2>1, <2>2
<1> QED
  BY <1>6, <1>7 DEF Hit, n, m, c

(* What the stacks say of the labels once they remember a word.            *)
LEMMA Standing ==
  ASSUME NEW h, Labelled(h), NEW ss, NEW w \in Seq(Units),
         AllRemember(TriggersOf(h), ss, w)
  PROVE  /\ ss \in [1..Len(h) -> Seq(Entry)] /\ ss \in StacksOf(TriggersOf(h))
         /\ \A i \in 1..Len(h) :
              /\ Len(ss[i]) = Len(w)
              /\ ~IsRejected(ss[i]) <=> Hit(h[i], w)
              /\ IsAccepted(ss[i]) <=> (Hit(h[i], w) /\ Len(w) = Len(h[i]))
<1> DEFINE t == TriggersOf(h)
           n == Len(h)
<1>7. /\ IsTable(t) /\ Len(t) = n /\ n \in Nat
      /\ \A i \in 1..n : t[i].trigger = TriggerOf(h[i])
  BY TriggersOfLabels
<1>8. \A i \in 1..n : h[i] \in Seq(Alphabet) /\ h[i] # <<>>
  BY DEF Labelled
<1>1. /\ IsTable(t) /\ Len(t) = n /\ n \in Nat
      /\ \A i \in 1..n : t[i].trigger = TriggerOf(h[i])
      /\ \A i \in 1..n : h[i] \in Seq(Alphabet) /\ h[i] # <<>>
  BY <1>7, <1>8
<1>0. AllRemember(t, ss, w)
  OBVIOUS
<1> HIDE DEF t, n
<1>2. /\ ss = [i \in 1..n |-> ss[i]]
      /\ \A i \in 1..n : ss[i] \in Seq(Entry) /\ Len(ss[i]) = Len(w)
  BY <1>0, <1>1 DEF AllRemember, Remembers, LeadsTo
<1>3. ss \in [1..n -> Seq(Entry)]
  BY <1>2
<1>4. /\ \A i \in 1..n : IsAccepted(ss[i]) <=> Spells(t[i].trigger, w, Len(w))
      /\ \A i \in 1..n : IsRejected(ss[i]) <=> ~Begins(t[i].trigger, w, Len(w))
  BY <1>0, <1>1, Verdicts
<1>5. ASSUME NEW i \in 1..n
      PROVE  /\ Len(ss[i]) = Len(w)
             /\ ~IsRejected(ss[i]) <=> Hit(h[i], w)
             /\ IsAccepted(ss[i]) <=> (Hit(h[i], w) /\ Len(w) = Len(h[i]))
  <2> DEFINE x == h[i]
  <2>1. x \in Seq(Alphabet) /\ x # <<>> /\ t[i].trigger = TriggerOf(x)
    BY <1>1
  <2>2. Len(x) \in Nat \ {0} /\ Len(w) \in Nat
    BY <2>1
  <2> HIDE DEF x
  <2>3. /\ Begins(TriggerOf(x), w, Len(w)) <=> Hit(x, w)
        /\ Spells(TriggerOf(x), w, Len(w)) <=>
             (Len(w) > 0 /\ Hit(x, w) /\ Len(w) = Len(x))
    BY <2>1, BeginsLabel
  <2>4. /\ IsAccepted(ss[i]) <=> Spells(TriggerOf(x), w, Len(w))
        /\ IsRejected(ss[i]) <=> ~Begins(TriggerOf(x), w, Len(w))
    BY <1>4, <2>1
  <2>5. /\ ~IsRejected(ss[i]) <=> Hit(x, w)
        /\ IsAccepted(ss[i]) <=> (Hit(x, w) /\ Len(w) = Len(x))
    BY <2>2, <2>3, <2>4
  <2> QED
    BY <1>2, <2>5 DEF x
<1> QED
  BY <1>1, <1>3, <1>5 DEF n, t, StacksOf

-----------------------------------------------------------------------------
(* The letters so far, as a function of the labels and the stacks.         *)

LiveOf(ss) == {i \in DOMAIN ss : ~IsRejected(ss[i])}
Astray == <<"astray">>
SoFarOf(h, ss) ==
  CASE h = <<>> -> <<>>
    [] h # <<>> /\ LiveOf(ss) = {} -> Astray
    [] h # <<>> /\ LiveOf(ss) # {} ->
         LET i == CHOOSE i \in LiveOf(ss) : TRUE
         IN  SubSeq(h[i], 1, Len(ss[i]))

Says(t, w) == /\ t \in Seq(Alphabet) /\ Len(t) = Len(w)
              /\ \A k \in 1..Len(w) : w[k] = {t[k]}

BeginningWith(h, t) ==
  {i \in 1..Len(h) : Len(t) <= Len(h[i]) /\ SubSeq(h[i], 1, Len(t)) = t}

LEMMA AtMostLetters ==
  ASSUME NEW x \in Seq(Alphabet), NEW t \in Seq(Alphabet), NEW w, Says(t, w)
  PROVE  Hit(x, w) <=> (Len(t) <= Len(x) /\ SubSeq(x, 1, Len(t)) = t)
<1> DEFINE n == Len(t)
           v == SubSeq(x, 1, n)
<1>1. n \in Nat /\ Len(x) \in Nat /\ Len(w) = n /\ \A k \in 1..n : w[k] = {t[k]}
  BY DEF Says
<1>2. CASE n <= Len(x)
  <2>1. v \in Seq(Alphabet) /\ Len(v) = n /\ \A k \in 1..n : v[k] = x[k]
    BY <1>1, <1>2
  <2> HIDE DEF v, n
  <2>2. (\A k \in 1..n : v[k] = t[k]) => v = t
    BY <2>1, SeqEqual DEF n
  <2>3. Hit(x, w) => v = t
    BY <1>1, <2>1, <2>2 DEF Hit
  <2>4. v = t => Hit(x, w)
    BY <1>1, <1>2, <2>1 DEF Hit
  <2> QED
    BY <1>2, <2>3, <2>4 DEF v, n
<1>3. CASE ~(n <= Len(x))
  BY <1>1, <1>3 DEF Hit
<1> QED
  BY <1>2, <1>3

LEMMA SaysOne ==
  ASSUME NEW t, NEW v, NEW w, Says(t, w), Says(v, w)
  PROVE  t = v
<1>1. t \in Seq(Alphabet) /\ v \in Seq(Alphabet) /\ Len(t) = Len(v)
  BY DEF Says
<1>2. \A k \in 1..Len(t) : t[k] = v[k]
  BY DEF Says
<1> QED
  BY <1>1, <1>2, SeqEqual

LEMMA SoFarLetters ==
  ASSUME NEW h, Labelled(h), h # <<>>, NEW ss, NEW w \in Seq(Units),
         AllRemember(TriggersOf(h), ss, w)
  PROVE  /\ LiveOf(ss) = {} => SoFarOf(h, ss) = Astray
         /\ LiveOf(ss) # {} =>
              /\ Says(SoFarOf(h, ss), w)
              /\ SoFarOf(h, ss) # Astray
              /\ LiveOf(ss) = BeginningWith(h, SoFarOf(h, ss))
<1> DEFINE t == SoFarOf(h, ss)
<1>1. /\ DOMAIN ss = 1..Len(h) /\ Len(h) \in Nat
      /\ \A i \in 1..Len(h) : Len(ss[i]) = Len(w) /\ (~IsRejected(ss[i]) <=> Hit(h[i], w))
      /\ \A i \in 1..Len(h) : h[i] \in Seq(Alphabet)
  BY Standing DEF Labelled
<1>2. ASSUME LiveOf(ss) # {}
      PROVE  Says(t, w) /\ t # Astray /\ LiveOf(ss) = BeginningWith(h, t)
  <2> DEFINE i == CHOOSE i \in LiveOf(ss) : TRUE
  <2>1. i \in LiveOf(ss)
    BY <1>2
  <2>2. t = SubSeq(h[i], 1, Len(ss[i]))
    BY <1>2 DEF SoFarOf
  <2> HIDE DEF i
  <2>3. i \in 1..Len(h) /\ Hit(h[i], w) /\ Len(ss[i]) = Len(w) /\ h[i] \in Seq(Alphabet)
    BY <1>1, <2>1 DEF LiveOf
  <2> DEFINE x == h[i]
             n == Len(w)
  <2>4. n \in Nat /\ n <= Len(x) /\ Len(x) \in Nat /\ x \in Seq(Alphabet) /\ t = SubSeq(x, 1, n)
        /\ \A k \in 1..n : w[k] = {x[k]}
    BY <2>2, <2>3 DEF Hit
  <2> HIDE DEF t, x, n
  <2>5. t \in Seq(Alphabet) /\ Len(t) = n /\ \A k \in 1..n : t[k] = x[k]
    BY <2>4
  <2>6. Says(t, w)
    BY <2>4, <2>5 DEF Says, n
  <2>7. t # Astray
    <3> SUFFICES ASSUME t = Astray
                 PROVE  FALSE
      OBVIOUS
    <3>1. Len(Astray) = 1 /\ Astray[1] = "astray"
      BY DEF Astray
    <3>2. 1 \in 1..Len(t)
      BY <3>1
    <3>3. t[1] \in Alphabet
      BY <2>5, <3>2
    <3>4. "astray" \in Alphabet
      BY <3>1, <3>3
    <3> QED
      BY <3>4, LettersAreKeys
  <2>8. ASSUME NEW j \in 1..Len(h)
        PROVE  ~IsRejected(ss[j]) <=>
                 (Len(t) <= Len(h[j]) /\ SubSeq(h[j], 1, Len(t)) = t)
    BY <1>1, <2>5, <2>6, AtMostLetters
  <2>9. LiveOf(ss) = BeginningWith(h, t)
    BY <1>1, <2>8 DEF LiveOf, BeginningWith
  <2> QED
    BY <2>6, <2>7, <2>9
<1>3. LiveOf(ss) = {} => t = Astray
  BY DEF SoFarOf
<1> QED
  BY <1>2, <1>3

-----------------------------------------------------------------------------
(* What a step makes of the stacks.                                        *)

KnowsWord(h, ss) == \E w \in Seq(Units) : AllRemember(TriggersOf(h), ss, w)

LEMMA OfferedLabels ==
  ASSUME NEW n \in Targets
  PROVE  /\ Labelled(Assign(n)) /\ Assign(n) # <<>> /\ Len(Assign(n)) \in 1..n
         /\ AllRemember(TriggersOf(Assign(n)), NewMatchers(Len(Assign(n))), <<>>)
<1> DEFINE h == Assign(n)
           N == Assigned(n)
<1>1. n \in Nat \ {0}
  BY ClickAssumption
<1>2. N \in Nat \ {0} /\ N <= n /\ Distinguished(h, N)
  BY <1>1, AssignedDistinguished
<1> HIDE DEF h, N
<1>3. h = [i \in 1..N |-> h[i]] /\ \A i \in 1..N : h[i] \in Seq(Alphabet) /\ h[i] # <<>>
  BY <1>2 DEF Distinguished
<1>4. h \in [1..N -> Seq(Alphabet)]
  BY <1>3
<1>5. h \in Seq(Seq(Alphabet)) /\ DOMAIN h = 1..N
  BY <1>2, <1>4, SeqDef
<1>6. Len(h) = N
  BY <1>2, <1>5, LenProperties
<1>7. \A i, j \in 1..N : IsPrefixOf(h[i], h[j]) => i = j
  BY <1>2 DEF Distinguished
<1>8. Labelled(h)
  BY <1>3, <1>5, <1>6, <1>7 DEF Labelled
<1>9. h # <<>> /\ Len(h) \in 1..n
  BY <1>1, <1>2, <1>6
<1>10. Fresh(TriggersOf(h)) = NewMatchers(Len(h))
  BY <1>8, TriggersOfLabels DEF Fresh, NewMatchers
<1>11. AllRemember(TriggersOf(h), NewMatchers(Len(h)), <<>>)
  BY <1>10, FreshRemembers
<1> QED
  BY <1>8, <1>9, <1>11 DEF h

LEMMA TakenUnit ==
  ASSUME NEW h, Labelled(h), NEW ss, NEW w \in Seq(Units), NEW u \in Units,
         AllRemember(TriggersOf(h), ss, w)
  PROVE  AllRemember(TriggersOf(h), Updated(TriggersOf(h), ss, u), Append(w, u))
<1>1. IsTable(TriggersOf(h))
  BY TriggersOfLabels
<1>2. ss \in StacksOf(TriggersOf(h))
  BY Standing
<1>3. ~SolverDiverges(TriggersOf(h), ss, u)
  BY <1>2, LabelsNeverDiverge
<1> QED
  BY <1>1, <1>3, UpdatedRemembers

LEMMA TakenBack ==
  ASSUME NEW h, Labelled(h), NEW ss, NEW w \in Seq(Units),
         AllRemember(TriggersOf(h), ss, w)
  PROVE  /\ Backward(w, 1) \in Seq(Units)
         /\ AllRemember(TriggersOf(h), [i \in DOMAIN ss |-> Backward(ss[i], 1)],
                        Backward(w, 1))
<1> DEFINE t  == TriggersOf(h)
           s2 == [i \in DOMAIN ss |-> Backward(ss[i], 1)]
<1>1. Len(t) \in Nat /\ DOMAIN ss = 1..Len(t)
  BY TriggersOfLabels, Standing
<1>2. AllRemember(t, ss, w) /\ 1 \in Nat
  OBVIOUS
<1> HIDE DEF t
<1>3. s2 = [i \in 1..Len(t) |-> s2[i]]
  BY <1>1
<1>4. \A i \in 1..Len(t) : Remembers(t[i].trigger, Backward(ss[i], 1), Backward(w, 1))
  BY <1>2, BackwardRemembered DEF AllRemember
<1>5. \A i \in 1..Len(t) : s2[i] = Backward(ss[i], 1)
  BY <1>1
<1>6. AllRemember(t, s2, Backward(w, 1))
  <2> HIDE DEF s2
  <2> QED
    BY <1>3, <1>4, <1>5 DEF AllRemember
<1>7. Backward(w, 1) \in Seq(Units)
  BY <1>2, BackwardProperties
<1> QED
  BY <1>6, <1>7 DEF t

(* What the two threads know of each other: nothing is typed into a label  *)
(* that was completed, and the result says what the matchers say.          *)
NobodyAccepts(ss) == \A i \in DOMAIN ss : ~IsAccepted(ss[i])
Phases ==
  /\ size = 0 => (mpc = "done" /\ ppc = "idle" /\ hints = <<>>)
  /\ size # 0 => hints # <<>>
  /\ ppc \in {"idle", "finish", "gone"} => mpc = "done"
  /\ ppc # "idle" => clicked = 0
  /\ mpc = "publish" =>
       /\ next <= Len(hints) /\ drawable < next
       /\ \A i \in 1..(next - 1) : ~IsAccepted(stacks[i])
  /\ mpc \in {"launched", "test", "fetch"} =>
       NobodyAccepts(stacks) /\ ~AllRejected(stacks)
  /\ (mpc = "done" /\ result = 0) => NobodyAccepts(stacks)
  /\ (mpc = "done" /\ result > 0) => IsAccepted(stacks[result])

LEMMA NewMatchersWait ==
  ASSUME NEW n \in Nat \ {0}
  PROVE  ~AllRejected(NewMatchers(n)) /\ NobodyAccepts(NewMatchers(n))
<1>1. 1 \in DOMAIN NewMatchers(n) /\ NewMatchers(n)[1] = <<>>
  BY DEF NewMatchers
<1>2. \A i \in DOMAIN NewMatchers(n) : NewMatchers(n)[i] = <<>>
  BY DEF NewMatchers
<1> QED
  BY <1>1, <1>2 DEF AllRejected, NobodyAccepts, IsRejected, IsAccepted

-----------------------------------------------------------------------------
(* The matchers share a word.                                              *)
Words == Labelled(hints) /\ KnowsWord(hints, stacks)

ClickInv == ClickTypeOK /\ Words /\ Phases

LEMMA KeysOfLetters ==
  ASSUME NEW h \in Seq(Seq(Alphabet))
  PROVE  h \in Seq(Seq(Keys))
<1>1. Alphabet \subseteq Keys
  BY ClickAssumption DEF Alphabet
<1>2. Seq(Alphabet) \subseteq Seq(Keys)
  BY <1>1
<1> QED
  BY <1>2

LEMMA NothingAtAll ==
  ASSUME NEW T
  PROVE  <<>> \in [1..0 -> T]
<1>1. <<>> \in Seq(T) /\ Len(<<>>) = 0
  OBVIOUS
<1> QED
  BY <1>1, LenProperties

LEMMA ClickInitInv == ClickInit => ClickInv
<1> SUFFICES ASSUME ClickInit
             PROVE  ClickInv
  OBVIOUS
<1> USE DEF ClickInit
<1>1. Len(hints) = 0 /\ DOMAIN hints = {} /\ 1..0 = {}
  OBVIOUS
<1>2. Labelled(hints)
  BY <1>1 DEF Labelled
<1>3. Len(TriggersOf(hints)) = 0
  BY <1>1, <1>2, TriggersOfLabels
<1>4. Fresh(TriggersOf(hints)) = stacks
  BY <1>1, <1>3 DEF Fresh
<1>5. AllRemember(TriggersOf(hints), stacks, <<>>)
  BY <1>4, FreshRemembers
<1>6. Words
  <2>1. <<>> \in Seq(Units)
    OBVIOUS
  <2> HIDE DEF ClickInit
  <2>2. KnowsWord(hints, stacks)
    BY <1>5, <2>1 DEF KnowsWord
  <2> QED
    BY <1>2, <2>2 DEF Words
<1>7. stacks \in [DOMAIN hints -> Seq(Entry)]
  BY <1>1, NothingAtAll
<1>8. screen \in [1..size -> Nat \cup {Hidden}]
  BY NothingAtAll
<1>9. ClickTypeOK
  <2>1. hints \in Seq(Seq(Keys)) /\ counts \in Seq(Nat)
    OBVIOUS
  <2>2. next \in 1..(Len(hints) + 1) /\ result \in Thrown..Len(hints)
        /\ clicked \in 0..Len(hints) /\ Len(hints) <= size
    BY <1>1 DEF Thrown
  <2>4. cancel \in BOOLEAN
    BY Zenon
  <2>3. /\ size \in Targets \cup {0}
        /\ drawable \in Nat /\ (mpc # "launched" => drawable <= size)
        /\ mpc \in {"launched", "test", "fetch", "publish", "done"}
        /\ ppc \in {"idle", "begin", "wait", "number", "copy", "all", "counts",
                    "paint", "refresh", "unwind", "finish", "gone"}
        /\ {num, prev_num, at} \subseteq Nat
    OBVIOUS
  <2> HIDE DEF ClickInit
  <2> QED
    BY <1>7, <1>8, <2>1, <2>2, <2>3, <2>4, Zenon DEF ClickTypeOK
<1>10. Phases
  BY <1>1 DEF Phases, NobodyAccepts, IsAccepted
<1> QED
  BY <1>6, <1>9, <1>10 DEF ClickInv

-----------------------------------------------------------------------------
LEMMA WordsTypes ==
  ASSUME NEW h, NEW ss, Labelled(h), KnowsWord(h, ss)
  PROVE  /\ h \in Seq(Seq(Keys)) /\ Len(h) \in Nat /\ DOMAIN h = 1..Len(h)
         /\ ss \in [1..Len(h) -> Seq(Entry)]
         /\ Len(ss) = Len(h)
<1>1. h \in Seq(Seq(Alphabet)) /\ Len(h) \in Nat /\ DOMAIN h = 1..Len(h)
  BY DEF Labelled
<1>2. h \in Seq(Seq(Keys))
  BY <1>1, KeysOfLetters
<1>3. ss \in [1..Len(h) -> Seq(Entry)]
  BY Standing DEF KnowsWord
<1> DEFINE n == Len(h)
<1> HIDE DEF n
<1>4. ss \in [1..n -> Seq(Entry)] /\ n \in Nat
  BY <1>1, <1>3 DEF n
<1>5. ss \in Seq(Seq(Entry)) /\ DOMAIN ss = 1..n
  BY <1>4, SeqDef
<1>6. Len(ss) = n
  BY <1>4, <1>5, LenProperties
<1> QED
  BY <1>1, <1>2, <1>3, <1>6 DEF n

(* The painting thread only disturbs what it paints.                       *)
LEMMA PaintKeepsTypes ==
  ASSUME ClickInv, Paint \/ PaintingFails
  PROVE  ClickTypeOK'
<1> USE DEF ClickInv, ClickTypeOK, Paints, GoTo, shared, matching
<1>1. CASE ReadPrev
  BY <1>1 DEF ReadPrev
<1>2. CASE Wait
  BY <1>2 DEF Wait
<1>3. CASE RefNumber
  BY <1>3 DEF RefNumber
<1>4. CASE CopyNumber
  BY <1>4 DEF CopyNumber
<1>5. CASE PaintAll
  BY <1>5 DEF PaintAll
<1>6. CASE RefCounts
  BY <1>6 DEF RefCounts
<1>7. CASE PaintHint
  <2> DEFINE shown == IF at \in DOMAIN counts THEN {counts[at]} ELSE 0..2
             B    == Nat \cup {Hidden}
  <2>1. \A c \in shown : c \in B
    <3>1. CASE at \in DOMAIN counts
      <4>1. counts[at] \in Nat
        BY <3>1
      <4> QED
        BY <3>1, <4>1
    <3>2. CASE at \notin DOMAIN counts
      BY <3>2
    <3> QED
      BY <3>1, <3>2
  <2>2. screen \in [1..size -> B]
    OBVIOUS
  <2> HIDE DEF shown
  <2>3. PICK c \in shown : screen' = IF c = 0 THEN screen ELSE [screen EXCEPT ![at] = c]
    BY <1>7 DEF PaintHint, shown
  <2>4. screen' \in [1..size -> B]
    <3> HIDE DEF B
    <3> QED
      BY <2>1, <2>2, <2>3
  <2>5. /\ UNCHANGED <<size, hints, counts, drawable, cancel, mpc, stacks, next,
                       result, num, prev_num, clicked>>
        /\ at' \in Nat /\ ppc' \in {"paint", "refresh"}
    BY <1>7 DEF PaintHint
  <2> QED
    BY <2>4, <2>5
<1>8. CASE Refresh
  BY <1>8 DEF Refresh, Unpainted
<1>9. CASE Unwind
  BY <1>9 DEF Unwind
<1>10. CASE Finish
  BY <1>10 DEF Finish, Unpainted, Thrown
<1>11. CASE PaintingFails
  BY <1>11 DEF PaintingFails
<1> QED
  BY <1>1, <1>2, <1>3, <1>4, <1>5, <1>6, <1>7, <1>8, <1>9, <1>10, <1>11 DEF Paint

LEMMA PaintKeepsPhases ==
  ASSUME ClickInv, Paint \/ PaintingFails
  PROVE  Phases'
<1> USE DEF ClickInv, Phases, Paints, GoTo, shared, matching
<1>0. /\ UNCHANGED <<size, hints, drawable, mpc, stacks, next, result>>
      /\ ppc # "idle"
      /\ ppc' = "idle" \/ (ppc' # "idle" /\ clicked' = 0)
      /\ ppc' \in {"idle", "finish", "gone"} => mpc = "done"
  BY DEF Paint, ReadPrev, Wait, RefNumber, CopyNumber, PaintAll, RefCounts,
         PaintHint, Refresh, Unwind, Finish, PaintingFails
<1> QED
  BY <1>0 DEF NobodyAccepts

-----------------------------------------------------------------------------
(* The matching thread.                                                    *)

LEMMA StartKeeps ==
  ASSUME ClickInv, NEW n \in Targets, Start(n)
  PROVE  ClickInv'
<1> DEFINE h == Assign(n)
<1>1. /\ Labelled(h) /\ h # <<>> /\ Len(h) \in 1..n
      /\ AllRemember(TriggersOf(h), NewMatchers(Len(h)), <<>>)
  BY OfferedLabels
<1>2. hints' = h /\ stacks' = NewMatchers(Len(h))
  BY DEF Start
<1> HIDE DEF h
<1>3. KnowsWord(h, NewMatchers(Len(h)))
  <2>1. <<>> \in Seq(Units)
    OBVIOUS
  <2> QED
    BY <1>1, <2>1 DEF KnowsWord
<1>4. Labelled(hints') /\ KnowsWord(hints', stacks')
  BY <1>1, <1>2, <1>3
<1>5. /\ hints' \in Seq(Seq(Keys)) /\ DOMAIN hints' = 1..Len(hints')
      /\ stacks' \in [1..Len(hints') -> Seq(Entry)]
  BY <1>4, WordsTypes
<1>6. n \in Nat \ {0} /\ Len(hints') \in 1..n
  BY <1>1, <1>2, ClickAssumption
<1>7. ClickTypeOK'
  <2>1. size' = n /\ mpc' = "launched" /\ next' = 1 /\ result' = 0 /\ ppc' = "begin"
        /\ clicked' = 0 /\ screen' = Unpainted(n)
        /\ UNCHANGED <<counts, drawable, cancel, num, prev_num, at>>
    BY DEF Start, shared
  <2>2. /\ counts' \in Seq(Nat) /\ cancel' \in BOOLEAN /\ drawable' \in Nat
        /\ {num', prev_num', at'} \subseteq Nat
    BY <2>1 DEF ClickInv, ClickTypeOK
  <2>3. screen' \in [1..size' -> Nat \cup {Hidden}]
    BY <2>1 DEF Unpainted
  <2>4. next' \in 1..(Len(hints') + 1) /\ result' \in Thrown..Len(hints')
        /\ clicked' \in 0..Len(hints') /\ Len(hints') <= size'
    BY <1>6, <2>1 DEF Thrown
  <2> QED
    BY <1>5, <2>1, <2>2, <2>3, <2>4 DEF ClickTypeOK
<1>8. Phases'
  <2>1. ~AllRejected(NewMatchers(Len(h))) /\ NobodyAccepts(NewMatchers(Len(h)))
    BY <1>2, <1>6, NewMatchersWait
  <2>2. ~AllRejected(stacks') /\ NobodyAccepts(stacks')
    BY <1>2, <2>1
  <2>3. size' # 0 /\ hints' # <<>> /\ mpc' = "launched" /\ ppc' = "begin" /\ clicked' = 0
    BY <1>1, <1>2, <1>6 DEF Start
  <2> QED
    BY <2>2, <2>3 DEF Phases
<1> QED
  BY <1>4, <1>7, <1>8 DEF ClickInv, Words

(* A step that leaves the labels and the stacks keeps the word.            *)
LEMMA SameWords ==
  ASSUME Words, UNCHANGED <<hints, stacks>>
  PROVE  Words'
BY DEF Words

LEMMA MatchKeeps ==
  ASSUME ClickInv, Reset \/ Test \/ NoInput \/ Terminate
  PROVE  ClickInv'
<1> USE DEF shared, matching, painting
<1>1. Words'
  BY SameWords DEF ClickInv, Reset, Test, NoInput, Terminate
<1>2. CASE Reset
  <2>1. size \in Nat /\ size # 0 /\ ppc \notin {"idle", "finish", "gone"}
    BY <1>2, ClickAssumption DEF ClickInv, ClickTypeOK, Phases, Reset
  <2>2. counts' \in Seq(Nat)
    BY <1>2, <2>1 DEF Reset
  <2>7. cancel' \in BOOLEAN
    BY <1>2, Zenon DEF Reset
  <2>5. /\ drawable' \in Nat /\ drawable' <= size'
        /\ mpc' \in {"launched", "test", "fetch", "publish", "done"}
        /\ UNCHANGED <<size, hints, stacks, next, result, ppc, num, prev_num, at,
                       screen, clicked>>
    BY <1>2, <2>1 DEF Reset
  <2>6. ClickTypeOK
    BY DEF ClickInv
  <2>3. ClickTypeOK'
    BY <2>2, <2>5, <2>6, <2>7 DEF ClickTypeOK
  <2>4. Phases'
    BY <1>2, <2>1 DEF ClickInv, Phases, Reset
  <2> QED
    BY <1>1, <2>3, <2>4 DEF ClickInv
<1>3. CASE Test
  <2>1. ClickTypeOK'
    BY <1>3 DEF ClickInv, ClickTypeOK, Test, Thrown
  <2>2. Phases'
    BY <1>3 DEF ClickInv, Phases, Test
  <2> QED
    BY <1>1, <2>1, <2>2 DEF ClickInv
<1>4. CASE NoInput
  <2>1. ClickTypeOK'
    BY <1>4 DEF ClickInv, ClickTypeOK, NoInput
  <2>2. Phases'
    BY <1>4 DEF ClickInv, Phases, NoInput
  <2> QED
    BY <1>1, <2>1, <2>2 DEF ClickInv
<1>5. CASE Terminate
  <2>1. ClickTypeOK'
    BY <1>5 DEF ClickInv, ClickTypeOK, Terminate, Thrown
  <2>2. Phases'
    BY <1>5 DEF ClickInv, Phases, Terminate, Thrown
  <2> QED
    BY <1>1, <2>1, <2>2 DEF ClickInv
<1> QED
  BY <1>2, <1>3, <1>4, <1>5

LEMMA CountUpdated ==
  ASSUME NEW f \in Seq(Nat), NEW k, NEW c \in Nat
  PROVE  [f EXCEPT ![k] = c] \in Seq(Nat)
<1>1. Len(f) \in Nat /\ f \in [1..Len(f) -> Nat]
  BY LenProperties
<1> DEFINE n == Len(f)
           g == [f EXCEPT ![k] = c]
<1>2. n \in Nat /\ f \in [1..n -> Nat]
  BY <1>1
<1> HIDE DEF n
<1>3. g \in [1..n -> Nat]
  BY <1>2
<1> QED
  BY <1>2, <1>3, SeqDef

(* The loop over the matchers ends with the first one that accepts, or has *)
(* seen that none does.                                                    *)
LEMMA PublishKeeps ==
  ASSUME ClickInv, Publish
  PROVE  ClickInv'
<1> DEFINE N == Len(hints)
           stack == stacks[next]
<1>1. Words'
  BY SameWords DEF ClickInv, Publish
<1>2. /\ N \in Nat /\ DOMAIN hints = 1..N
      /\ stacks \in [1..N -> Seq(Entry)] /\ Len(stacks) = N
  BY WordsTypes DEF ClickInv, Words
<1>3. /\ mpc = "publish" /\ next \in 1..N /\ size \in Nat /\ size # 0 /\ N <= size
      /\ drawable \in Nat /\ drawable < next /\ hints # <<>>
      /\ \A i \in 1..(next - 1) : ~IsAccepted(stacks[i])
      /\ ppc \notin {"idle", "finish", "gone"} /\ clicked = 0
      /\ counts \in Seq(Nat)
  BY <1>2, ClickAssumption DEF ClickInv, ClickTypeOK, Phases, Publish
<1>4. UNCHANGED <<size, hints, stacks, ppc, num, prev_num, at, screen, clicked, cancel>>
  BY DEF Publish, painting, shared
<1>5. stack \in Seq(Entry) /\ Len(stack) \in Nat
  BY <1>2, <1>3
<1>0. Publish /\ ClickTypeOK
  BY DEF ClickInv
<1>00. /\ IsAccepted(stack) =>
            (mpc' = "done" /\ result' = next /\ next' = 1 /\ UNCHANGED <<counts, drawable>>)
       /\ ~IsAccepted(stack) =>
            /\ counts' = [counts EXCEPT ![next] = IF IsRejected(stack) THEN 0 ELSE Len(stack)]
            /\ drawable' = IF IsRejected(stack) THEN drawable ELSE drawable + 1
            /\ next' = IF next = N THEN 1 ELSE next + 1
            /\ next # N => mpc' = "publish"
            /\ (next = N /\ AllRejected(stacks)) => mpc' = "done"
            /\ (next = N /\ ~AllRejected(stacks)) => mpc' = "test"
            /\ result' = 0
  BY <1>0, <1>2 DEF Publish, shared
<1> HIDE DEF stack
<1>6. CASE IsAccepted(stack)
  <2>1. mpc' = "done" /\ result' = next /\ next' = 1 /\ UNCHANGED <<counts, drawable>>
    BY <1>00, <1>6
  <2>2. ClickTypeOK'
    BY <1>2, <1>3, <1>4, <2>1 DEF ClickInv, ClickTypeOK, Thrown
  <2>3. Phases'
    BY <1>3, <1>4, <1>6, <2>1 DEF Phases, stack
  <2> QED
    BY <1>1, <2>2, <2>3 DEF ClickInv
<1>7. CASE ~IsAccepted(stack)
  <2> DEFINE count == IF IsRejected(stack) THEN 0 ELSE Len(stack)
  <2>1. /\ counts' = [counts EXCEPT ![next] = count]
        /\ drawable' = IF IsRejected(stack) THEN drawable ELSE drawable + 1
        /\ next' = IF next = N THEN 1 ELSE next + 1
        /\ next # N => mpc' = "publish"
        /\ (next = N /\ AllRejected(stacks)) => mpc' = "done"
        /\ (next = N /\ ~AllRejected(stacks)) => mpc' = "test"
        /\ result' = 0
    BY <1>00, <1>7
  <2>2. count \in Nat
    BY <1>5
  <2> HIDE DEF count
  <2>3. counts' \in Seq(Nat)
    BY <1>3, <2>1, <2>2, CountUpdated
  <2> HIDE DEF N
  <2>4. drawable' \in Nat /\ drawable' <= next /\ drawable' <= size
    BY <1>2, <1>3, <2>1
  <2>5. next' \in 1..N /\ mpc' \in {"publish", "test", "done"}
    BY <1>2, <1>3, <2>1
  <2>6. ClickTypeOK'
    <3>1. next' \in 1..(N + 1) /\ result' \in Thrown..N
      BY <1>2, <2>1, <2>5 DEF Thrown
    <3>2. mpc' \in {"launched", "test", "fetch", "publish", "done"}
      BY <2>5
    <3> QED
      BY <1>0, <1>4, <2>3, <2>4, <3>1, <3>2 DEF ClickTypeOK, N
  <2>7. \A i \in 1..next : ~IsAccepted(stacks[i])
    BY <1>2, <1>3, <1>7 DEF stack
  <2>10. /\ size' # 0 /\ hints' # <<>> /\ ppc' \notin {"idle", "finish", "gone"}
         /\ clicked' = 0 /\ result' = 0 /\ Len(hints') = N
    BY <1>3, <1>4, <2>1 DEF N
  <2>8. CASE next # N
    <3>1. mpc' = "publish" /\ next' = next + 1 /\ next' <= N /\ drawable' < next'
      BY <1>2, <1>3, <2>1, <2>4, <2>8
    <3>2. \A i \in 1..(next' - 1) : ~IsAccepted(stacks'[i])
      BY <1>3, <1>4, <2>7, <3>1
    <3>3. Phases'
      BY <2>10, <3>1, <3>2 DEF Phases
    <3> QED
      BY <1>1, <2>6, <3>3 DEF ClickInv
  <2>9. CASE next = N
    <3>1. NobodyAccepts(stacks') /\ mpc' # "publish" /\ (mpc' = "test" => ~AllRejected(stacks'))
          /\ mpc' \in {"test", "done"}
      BY <1>2, <1>4, <2>1, <2>7, <2>9 DEF NobodyAccepts
    <3>2. Phases'
      BY <2>10, <3>1 DEF Phases
    <3> QED
      BY <1>1, <2>6, <3>2 DEF ClickInv
  <2> QED
    BY <2>8, <2>9
<1> QED
  BY <1>6, <1>7

LEMMA FetchKeeps ==
  ASSUME ClickInv, NEW u \in Inputs, Fetch(u)
  PROVE  ClickInv'
<1>1. /\ mpc = "fetch" /\ UNCHANGED <<size, hints, ppc, num, prev_num, at, screen, clicked>>
  BY DEF Fetch, painting
<1>2. PICK w \in Seq(Units) : AllRemember(TriggersOf(hints), stacks, w)
  BY DEF ClickInv, Words, KnowsWord
<1>3. Labelled(hints)
  BY DEF ClickInv, Words
<1>4. /\ size \in Nat /\ size # 0 /\ hints # <<>> /\ Len(hints) \in Nat \ {0}
      /\ ppc \notin {"idle", "finish", "gone"} /\ clicked = 0
      /\ NobodyAccepts(stacks) /\ ~AllRejected(stacks)
  BY <1>1, <1>3, ClickAssumption DEF ClickInv, ClickTypeOK, Phases, Labelled
<1>5. ASSUME NEW new, KnowsWord(hints, new), TakeAll(new)
      PROVE  ClickInv'
  <2>1. /\ stacks' = new /\ mpc' = "publish" /\ next' = 1 /\ drawable' = 0
        /\ UNCHANGED <<counts, cancel, result>>
    BY <1>5 DEF TakeAll
  <2>2. Words'
    BY <1>1, <1>3, <1>5, <2>1 DEF Words
  <2>3. new \in [1..Len(hints) -> Seq(Entry)] /\ DOMAIN hints = 1..Len(hints)
    BY <1>3, <1>5, WordsTypes
  <2>4. ClickTypeOK'
    BY <1>1, <1>4, <2>1, <2>3 DEF ClickInv, ClickTypeOK
  <2>5. Phases'
    BY <1>1, <1>4, <2>1 DEF Phases
  <2> QED
    BY <2>2, <2>4, <2>5 DEF ClickInv
<1>6. CASE TakeAll([i \in DOMAIN stacks |-> Backward(stacks[i], 1)])
  <2>1. KnowsWord(hints, [i \in DOMAIN stacks |-> Backward(stacks[i], 1)])
    BY <1>2, <1>3, TakenBack DEF KnowsWord
  <2> QED
    BY <1>5, <1>6, <2>1
<1>7. CASE TakeAll(Updated(Triggers, stacks, Letters(u)))
  <2>1. Letters(u) \in Units
    BY ClickAssumption DEF Letters, Units
  <2>2. Append(w, Letters(u)) \in Seq(Units)
    BY <2>1
  <2>3. Triggers = TriggersOf(hints)
    BY DEF Triggers, TriggersOf, TriggerOf
  <2>4. KnowsWord(hints, Updated(Triggers, stacks, Letters(u)))
    BY <1>2, <1>3, <2>1, <2>2, <2>3, TakenUnit DEF KnowsWord
  <2> QED
    BY <1>5, <1>7, <2>4
<1>8. CASE /\ mpc' \in {"done", "test"} /\ UNCHANGED <<counts, drawable, cancel, stacks, next>>
           /\ mpc' = "done" => result' = 0
           /\ mpc' = "test" => result' = result
  <2>1. Words'
    BY <1>1, <1>8, SameWords DEF ClickInv
  <2>2. ClickTypeOK'
    BY <1>1, <1>8 DEF ClickInv, ClickTypeOK, Thrown
  <2>3. Phases'
    BY <1>1, <1>4, <1>8 DEF Phases
  <2> QED
    BY <2>1, <2>2, <2>3 DEF ClickInv
<1> QED
  BY <1>6, <1>7, <1>8 DEF Fetch, shared

LEMMA ClickNextInv == ClickInv /\ [ClickNext]_clickVars => ClickInv'
<1> SUFFICES ASSUME ClickInv, [ClickNext]_clickVars
             PROVE  ClickInv'
  OBVIOUS
<1>1. CASE UNCHANGED clickVars
  BY <1>1 DEF clickVars, shared, matching, painting, ClickInv, ClickTypeOK, Words, Phases
<1>2. CASE Paint \/ PaintingFails
  <2>1. UNCHANGED <<hints, stacks>>
    BY <1>2 DEF Paint, ReadPrev, Wait, RefNumber, CopyNumber, PaintAll, RefCounts,
         PaintHint, Refresh, Unwind, Finish, PaintingFails, Paints, matching
  <2> QED
    BY <1>2, <2>1, SameWords, PaintKeepsTypes, PaintKeepsPhases DEF ClickInv
<1>3. CASE Reset \/ Test \/ NoInput \/ Terminate
  BY <1>3, MatchKeeps
<1>4. CASE Publish
  BY <1>4, PublishKeeps
<1>5. ASSUME NEW n \in Targets, Start(n)
      PROVE  ClickInv'
  BY <1>5, StartKeeps
<1>6. ASSUME NEW u \in Inputs, Fetch(u)
      PROVE  ClickInv'
  BY <1>6, FetchKeeps
<1> QED
  BY <1>1, <1>2, <1>3, <1>4, <1>5, <1>6 DEF ClickNext, Match

(* For every set of letters and any number of positions: the labels are as *)
(* many as there are positions, up to three letters for each, no label is  *)
(* empty or begins another one, and whatever the two threads do, what they *)
(* index with stays within the labels (assign_identifier_hints,            *)
(* create_matching_loop).                                                  *)
THEOREM LabelsAlwaysFit == ClickSpec => []LabelsFit
<1>1. ClickInv => LabelsFit
  BY AllHintsAreDistinct DEF ClickInv, LabelsFit, LabelsChoose
<1> QED
  BY <1>1, ClickInitInv, ClickNextInv, PTL DEF ClickSpec

-----------------------------------------------------------------------------
(* The refinement.                                                         *)

(* A matcher accepts exactly when its label is what was typed.             *)
LEMMA SpelledAccepts ==
  ASSUME NEW h, Labelled(h), h # <<>>, NEW ss, NEW w \in Seq(Units),
         AllRemember(TriggersOf(h), ss, w), NEW i \in 1..Len(h)
  PROVE  SoFarOf(h, ss) = h[i] <=> IsAccepted(ss[i])
<1> DEFINE x == h[i]
           t == SoFarOf(h, ss)
<1>1. /\ x \in Seq(Alphabet) /\ x # <<>>
      /\ ~IsRejected(ss[i]) <=> Hit(x, w)
      /\ IsAccepted(ss[i]) <=> (Hit(x, w) /\ Len(w) = Len(x))
      /\ i \in DOMAIN ss
  <2>1. x \in Seq(Alphabet) /\ x # <<>>
    BY DEF Labelled
  <2> QED
    BY <2>1, Standing
<1>2. CASE LiveOf(ss) = {}
  <2>1. t = Astray /\ ~Hit(x, w)
    BY <1>1, <1>2, SoFarLetters DEF LiveOf
  <2>2. x # Astray
    <3> HIDE DEF x
    <3> SUFFICES ASSUME x = Astray
                 PROVE  FALSE
      OBVIOUS
    <3>1. Len(x) = 1 /\ x[1] = "astray"
      BY DEF Astray
    <3>2. 1 \in 1..Len(x)
      BY <3>1
    <3>3. x[1] \in Alphabet
      BY <1>1, <3>2
    <3> QED
      BY <3>1, <3>3, LettersAreKeys
  <2> QED
    BY <1>1, <2>1, <2>2
<1>3. CASE LiveOf(ss) # {}
  <2>1. Says(t, w)
    BY <1>3, SoFarLetters
  <2> HIDE DEF t, x
  <2>2. t \in Seq(Alphabet) /\ Len(t) = Len(w)
    BY <2>1 DEF Says
  <2>3. Hit(x, w) <=> (Len(t) <= Len(x) /\ SubSeq(x, 1, Len(t)) = t)
    BY <1>1, <2>1, <2>2, AtMostLetters
  <2>4. SubSeq(x, 1, Len(x)) = x
    BY <1>1
  <2>5. t = x => IsAccepted(ss[i])
    BY <1>1, <2>2, <2>3, <2>4
  <2>6. IsAccepted(ss[i]) => t = x
    BY <1>1, <2>2, <2>3, <2>4
  <2> QED
    BY <2>5, <2>6 DEF t, x
<1> QED
  BY <1>2, <1>3

LEMMA OneLetterMore ==
  ASSUME NEW w \in Seq(Units), NEW u \in Units, NEW t, Says(t, w),
         NEW t2, Says(t2, Append(w, u))
  PROVE  Len(t2) = Len(t) + 1 /\ SubSeq(t2, 1, Len(t)) = t
<1> DEFINE n == Len(w)
           w2 == Append(w, u)
           v == SubSeq(t2, 1, n)
<1>1. n \in Nat /\ Len(w2) = n + 1 /\ \A k \in 1..n : w2[k] = w[k]
  OBVIOUS
<1>2. Says(t2, w2)
  OBVIOUS
<1> HIDE DEF n, w2
<1>3. /\ t \in Seq(Alphabet) /\ Len(t) = n /\ \A k \in 1..n : w[k] = {t[k]}
      /\ t2 \in Seq(Alphabet) /\ Len(t2) = n + 1 /\ \A k \in 1..(n + 1) : w2[k] = {t2[k]}
  BY <1>1, <1>2 DEF Says, n
<1>4. v \in Seq(Alphabet) /\ Len(v) = n /\ \A k \in 1..n : v[k] = t2[k]
  BY <1>1, <1>3
<1>5. ASSUME NEW k \in 1..n
      PROVE  v[k] = t[k]
  <2>0. k \in 1..(n + 1)
    BY <1>1
  <2>1. w[k] = {t[k]} /\ w2[k] = {t2[k]} /\ w2[k] = w[k]
    BY <1>1, <1>3, <2>0
  <2> QED
    BY <1>4, <2>1
<1> HIDE DEF v
<1>6. v = t
  BY <1>3, <1>4, <1>5, SeqEqual
<1> QED
  BY <1>1, <1>3, <1>6 DEF v

LEMMA OneLetterLess ==
  ASSUME NEW w \in Seq(Units), w # <<>>, NEW t, Says(t, w),
         NEW t2, Says(t2, Backward(w, 1))
  PROVE  t # <<>> /\ t2 = SubSeq(t, 1, Len(t) - 1)
<1> DEFINE n  == Len(w)
           w2 == Backward(w, 1)
           v  == SubSeq(t, 1, n - 1)
<1>1. n \in Nat \ {0} /\ 1 \in Nat
  OBVIOUS
<1>2. Len(w2) = n - 1 /\ \A k \in 1..(n - 1) : w2[k] = w[k]
  BY <1>1, BackwardProperties
<1>3. Says(t2, w2)
  OBVIOUS
<1> HIDE DEF n, w2
<1>4. /\ t \in Seq(Alphabet) /\ Len(t) = n /\ \A k \in 1..n : w[k] = {t[k]}
      /\ t2 \in Seq(Alphabet) /\ Len(t2) = n - 1 /\ \A k \in 1..(n - 1) : w2[k] = {t2[k]}
  BY <1>1, <1>2, <1>3 DEF Says, n
<1>5. v \in Seq(Alphabet) /\ Len(v) = n - 1 /\ \A k \in 1..(n - 1) : v[k] = t[k]
  BY <1>1, <1>4
<1>6. ASSUME NEW k \in 1..(n - 1)
      PROVE  v[k] = t2[k]
  <2>0. k \in 1..n /\ k \in 1..(n - 1)
    BY <1>1
  <2>1. w[k] = {t[k]} /\ w2[k] = {t2[k]} /\ w2[k] = w[k]
    BY <1>2, <1>4, <2>0
  <2> QED
    BY <1>5, <2>1
<1> HIDE DEF v
<1>7. v = t2
  BY <1>4, <1>5, <1>6, SeqEqual
<1> QED
  BY <1>1, <1>4, <1>7 DEF v

(* What <bs> leaves were candidates before, too.                           *)
LEMMA HitsLess ==
  ASSUME NEW x \in Seq(Alphabet), NEW w \in Seq(Units), Hit(x, w)
  PROVE  Hit(x, Backward(w, 1))
<1> DEFINE n  == Len(w)
           w2 == Backward(w, 1)
<1>1. n \in Nat /\ 1 \in Nat /\ Len(x) \in Nat
  OBVIOUS
<1>2. Len(w2) = (IF 1 < n THEN n - 1 ELSE 0) /\ \A k \in 1..Len(w2) : w2[k] = w[k]
  BY <1>1, BackwardProperties
<1>3. n <= Len(x) /\ \A k \in 1..n : w[k] = {x[k]}
  BY DEF Hit
<1> HIDE DEF n, w2
<1>4. Len(w2) <= n /\ Len(w2) \in Nat
  BY <1>1, <1>2
<1> QED
  BY <1>1, <1>2, <1>3, <1>4 DEF Hit, w2

(* The view of the abstract specification.                                 *)
LEMMA View ==
  /\ Candidates = LiveOf(stacks) /\ SoFar = SoFarOf(hints, stacks)
  /\ Candidates' = LiveOf(stacks') /\ SoFar' = SoFarOf(hints', stacks')
  /\ Choice!Astray = Astray
BY DEF Candidates, LiveOf, SoFar, SoFarOf, Choice!Astray, Astray

(* The user sees nothing of what leaves the labels, the stacks and the     *)
(* click as they are.                                                      *)
LEMMA StepUnseen ==
  ASSUME UNCHANGED <<hints, stacks, clicked>>,
         ppc \in {"idle", "gone"} <=> ppc' \in {"idle", "gone"},
         ppc = "gone" <=> ppc' = "gone"
  PROVE  UNCHANGED Choice!vars
<1>1. UNCHANGED <<Candidates, SoFar>>
  BY DEF Candidates, SoFar
<1> QED
  BY <1>1 DEF Choice!vars

LEMMA NothingSpelled ==
  ASSUME ClickInv, hints # <<>>, NobodyAccepts(stacks)
  PROVE  Choice!Spelled = {}
<1>1. PICK w \in Seq(Units) : AllRemember(TriggersOf(hints), stacks, w)
  BY DEF ClickInv, Words, KnowsWord
<1>2. Labelled(hints) /\ DOMAIN hints = 1..Len(hints) /\ DOMAIN stacks = 1..Len(hints)
  BY WordsTypes DEF ClickInv, Words
<1>3. ASSUME NEW i \in DOMAIN hints
      PROVE  SoFar # hints[i]
  BY <1>1, <1>2, <1>3, SpelledAccepts, View DEF NobodyAccepts
<1> QED
  BY <1>3 DEF Choice!Spelled

LEMMA StartOffers ==
  ASSUME ClickInv, NEW n \in Targets, Start(n)
  PROVE  Choice!Offer
<1> DEFINE h == Assign(n)
           ss == NewMatchers(Len(h))
<1>1. /\ Labelled(h) /\ h # <<>> /\ Len(h) \in 1..n
      /\ AllRemember(TriggersOf(h), ss, <<>>) /\ <<>> \in Seq(Units)
  BY OfferedLabels
<1>2. hints' = h /\ stacks' = ss /\ ppc = "idle" /\ ppc' = "begin" /\ clicked' = 0
  BY DEF Start
<1>3. LiveOf(ss) = 1..Len(h)
  BY DEF LiveOf, NewMatchers, IsRejected
<1>4. 1..Len(h) # {} /\ DOMAIN h = 1..Len(h)
  BY <1>1 DEF Labelled
<1> HIDE DEF h, ss
<1>5. Says(SoFarOf(h, ss), <<>>)
  BY <1>1, <1>3, <1>4, SoFarLetters
<1>6. SoFarOf(h, ss) = <<>>
  BY <1>5 DEF Says
<1>7. SoFar' = <<>> /\ Candidates' = DOMAIN hints'
  BY <1>2, <1>3, <1>4, <1>6, View
<1> QED
  BY <1>2, <1>7 DEF Choice!Offer

LEMMA FetchChooses ==
  ASSUME ClickInv, NEW u \in Inputs, Fetch(u)
  PROVE  Choice!Next \/ UNCHANGED Choice!vars
<1>1. /\ mpc = "fetch" /\ UNCHANGED <<hints, ppc, clicked>>
      /\ ppc \notin {"idle", "gone"} /\ hints # <<>> /\ hints' = hints
      /\ NobodyAccepts(stacks) /\ ~AllRejected(stacks)
  BY DEF Fetch, painting, ClickInv, Phases
<1>2. PICK w \in Seq(Units) : AllRemember(TriggersOf(hints), stacks, w)
  BY DEF ClickInv, Words, KnowsWord
<1>3. /\ Labelled(hints) /\ DOMAIN hints = 1..Len(hints)
      /\ stacks \in [1..Len(hints) -> Seq(Entry)]
  BY WordsTypes DEF ClickInv, Words
<1>4. Choice!Spelled = {}
  BY <1>1, NothingSpelled
<1>5. LiveOf(stacks) # {}
  BY <1>1 DEF LiveOf, AllRejected
<1>6. Says(SoFar, w) /\ SoFar # Astray
  BY <1>1, <1>2, <1>3, <1>5, SoFarLetters, View
<1>7. ASSUME NEW new, NEW w2 \in Seq(Units), AllRemember(TriggersOf(hints), new, w2),
             stacks' = new, LiveOf(new) # {}
      PROVE  /\ Says(SoFar', w2) /\ SoFar' # Astray
             /\ Candidates' = Choice!Beginning(SoFar') /\ Candidates' # {}
  <2>1. SoFar' = SoFarOf(hints, new) /\ Candidates' = LiveOf(new)
    BY <1>1, <1>7, View
  <2>2. /\ Says(SoFarOf(hints, new), w2) /\ SoFarOf(hints, new) # Astray
        /\ LiveOf(new) = BeginningWith(hints, SoFarOf(hints, new))
    BY <1>1, <1>3, <1>7, SoFarLetters
  <2> QED
    BY <1>3, <1>7, <2>1, <2>2 DEF Choice!Beginning, BeginningWith
<1>8. CASE TakeAll([i \in DOMAIN stacks |-> Backward(stacks[i], 1)])
  <2> DEFINE new == [i \in DOMAIN stacks |-> Backward(stacks[i], 1)]
             w2  == Backward(w, 1)
  <2>1. w2 \in Seq(Units) /\ AllRemember(TriggersOf(hints), new, w2)
    BY <1>2, <1>3, TakenBack
  <2>2. stacks' = new
    BY <1>8 DEF TakeAll
  <2>3. CASE w = <<>>
    <3>0. \A i \in 1..Len(hints) : Len(stacks[i]) = Len(w)
      BY <1>2, <1>3, Standing
    <3>1. \A i \in 1..Len(hints) : stacks[i] \in Seq(Entry) /\ Len(stacks[i]) = 0
      BY <1>3, <2>3, <3>0
    <3>2. \A i \in 1..Len(hints) : Backward(stacks[i], 1) = stacks[i]
      BY <3>1 DEF Backward
    <3>3. new = stacks
      BY <1>3, <3>2
    <3> QED
      BY <1>1, <2>2, <3>3, StepUnseen
  <2>4. CASE w # <<>>
    <3>1. PICK i \in 1..Len(hints) : Hit(hints[i], w) /\ i \in DOMAIN stacks
      BY <1>2, <1>3, <1>5, Standing DEF LiveOf
    <3>2. Hit(hints[i], w2)
      BY <1>3, <3>1, HitsLess DEF Labelled
    <3>3. ~IsRejected(new[i]) /\ i \in DOMAIN new
      BY <1>3, <2>1, <3>1, <3>2, Standing
    <3>4. LiveOf(new) # {}
      BY <3>3 DEF LiveOf
    <3> HIDE DEF new, w2
    <3>5. /\ Says(SoFar', w2) /\ Candidates' = Choice!Beginning(SoFar')
      BY <1>7, <2>1, <2>2, <3>4
    <3>6. SoFar # <<>> /\ SoFar' = SubSeq(SoFar, 1, Len(SoFar) - 1)
      BY <1>6, <2>4, <3>5, OneLetterLess DEF w2
    <3> QED
      BY <1>1, <1>4, <1>6, <3>5, <3>6, View DEF Choice!TakeBack, Choice!Next
  <2> QED
    BY <2>3, <2>4
<1>9. CASE TakeAll(Updated(Triggers, stacks, Letters(u)))
  <2> DEFINE new == Updated(Triggers, stacks, Letters(u))
             w2  == Append(w, Letters(u))
  <2>1. Letters(u) \in Units /\ Triggers = TriggersOf(hints)
    BY ClickAssumption DEF Letters, Units, Triggers, TriggersOf, TriggerOf
  <2>2. w2 \in Seq(Units)
    BY <2>1
  <2>3. AllRemember(TriggersOf(hints), new, w2)
    BY <1>2, <1>3, <2>1, TakenUnit
  <2>4. stacks' = new
    BY <1>9 DEF TakeAll
  <2>5. CASE LiveOf(new) = {}
    <3>1. Candidates' = {} /\ SoFar' = Astray
      BY <1>1, <2>4, <2>5, View DEF SoFarOf
    <3> QED
      BY <1>1, <1>4, <3>1, View DEF Choice!GoAstray, Choice!Next
  <2>6. CASE LiveOf(new) # {}
    <3> HIDE DEF new, w2
    <3>1. /\ Says(SoFar', w2) /\ SoFar' # Astray
          /\ Candidates' = Choice!Beginning(SoFar') /\ Candidates' # {}
      BY <1>7, <2>2, <2>3, <2>4, <2>6
    <3>2. Len(SoFar') = Len(SoFar) + 1 /\ SubSeq(SoFar', 1, Len(SoFar)) = SoFar
      BY <1>6, <2>1, <3>1, OneLetterMore DEF w2
    <3> QED
      BY <1>1, <1>4, <1>6, <3>1, <3>2, View DEF Choice!Narrow, Choice!Next
  <2> QED
    BY <2>5, <2>6
<1>10. CASE UNCHANGED stacks
  BY <1>1, <1>10, StepUnseen
<1> QED
  BY <1>8, <1>9, <1>10 DEF Fetch

LEMMA FinishChooses ==
  ASSUME ClickInv, Finish
  PROVE  Choice!Next
<1>1. /\ ppc = "finish" /\ mpc = "done" /\ hints # <<>> /\ clicked = 0
      /\ UNCHANGED <<hints, stacks, mpc, result>>
      /\ result = Thrown => (ppc' = "gone" /\ clicked' = 0)
      /\ result # Thrown => (ppc' = "idle" /\ clicked' = result)
      /\ result \in Thrown..Len(hints)
  BY DEF ClickInv, ClickTypeOK, Phases, Finish, GoTo, Paints, matching
<1>2. UNCHANGED <<Candidates, SoFar>>
  BY <1>1 DEF Candidates, SoFar
<1>3. CASE result = Thrown
  BY <1>1, <1>2, <1>3 DEF Choice!Fail, Choice!Next
<1>4. CASE result = 0
  <2>1. NobodyAccepts(stacks)
    BY <1>1, <1>4 DEF ClickInv, Phases
  <2>2. Choice!Spelled = {} /\ result # Thrown
    BY <1>1, <1>4, <2>1, NothingSpelled DEF Thrown
  <2> QED
    BY <1>1, <1>2, <1>4, <2>2 DEF Choice!Leave, Choice!Next
<1>5. CASE result \in 1..Len(hints)
  <2>1. IsAccepted(stacks[result]) /\ result # Thrown
    BY <1>1, <1>5 DEF ClickInv, Phases, Thrown
  <2>2. PICK w \in Seq(Units) : AllRemember(TriggersOf(hints), stacks, w)
    BY DEF ClickInv, Words, KnowsWord
  <2>3. Labelled(hints) /\ DOMAIN hints = 1..Len(hints)
    BY WordsTypes DEF ClickInv, Words
  <2>4. SoFar = hints[result]
    BY <1>1, <1>5, <2>1, <2>2, <2>3, SpelledAccepts, View
  <2>5. result \in Choice!Spelled
    BY <1>5, <2>3, <2>4 DEF Choice!Spelled
  <2> QED
    BY <1>1, <1>2, <2>1, <2>5 DEF Choice!Choose, Choice!Next
<1> QED
  <2>1. Len(hints) \in Nat
    BY WordsTypes DEF ClickInv, Words
  <2> QED
    BY <1>1, <1>3, <1>4, <1>5, <2>1 DEF Thrown

LEMMA UnwindFails ==
  ASSUME ClickInv, Unwind
  PROVE  Choice!Next
<1>1. ppc = "unwind" /\ ppc' = "gone" /\ UNCHANGED <<hints, stacks, clicked>>
  BY DEF Unwind, GoTo, Paints, matching
<1>2. UNCHANGED <<Candidates, SoFar>>
  BY <1>1 DEF Candidates, SoFar
<1> QED
  BY <1>1, <1>2 DEF Choice!Fail, Choice!Next

LEMMA ClickNextChooses ==
  ClickInv /\ [ClickNext]_clickVars => [Choice!Next]_(Choice!vars)
<1> SUFFICES ASSUME ClickInv, [ClickNext]_clickVars
             PROVE  Choice!Next \/ UNCHANGED Choice!vars
  OBVIOUS
<1>1. ASSUME NEW n \in Targets, Start(n)
      PROVE  Choice!Next
  BY <1>1, StartOffers DEF Choice!Next
<1>2. ASSUME NEW u \in Inputs, Fetch(u)
      PROVE  Choice!Next \/ UNCHANGED Choice!vars
  BY <1>2, FetchChooses
<1>3. CASE Match \/ Terminate \/ UNCHANGED clickVars
  <2>1. UNCHANGED <<hints, stacks, clicked, ppc>>
    BY <1>3 DEF Match, Reset, Test, NoInput, Publish, Terminate, clickVars, painting,
                matching
  <2> QED
    BY <2>1, StepUnseen
<1>4. CASE \/ ReadPrev \/ Wait \/ RefNumber \/ CopyNumber \/ PaintAll
           \/ RefCounts \/ PaintHint \/ Refresh \/ PaintingFails
  <2>1. /\ UNCHANGED <<hints, stacks, clicked>>
        /\ ppc \notin {"idle", "gone"} /\ ppc' \notin {"idle", "gone"}
    BY <1>4 DEF ReadPrev, Wait, RefNumber, CopyNumber, PaintAll, RefCounts, PaintHint,
                Refresh, PaintingFails, Paints, matching, GoTo
  <2> QED
    BY <2>1, StepUnseen
<1>5. CASE Finish
  BY <1>5, FinishChooses
<1>6. CASE Unwind
  BY <1>6, UnwindFails
<1> QED
  BY <1>1, <1>2, <1>3, <1>4, <1>5, <1>6 DEF ClickNext, Paint

(* For every set of letters, any number of positions and everything that   *)
(* can be typed: the labels that are left are those that begin with the    *)
(* letters so far, <bs> brings back what the rest of them begins, and the  *)
(* click goes to the label that was spelled, or nowhere (launch_loop,      *)
(* create_matching_loop).                                                  *)
THEOREM ClicksWhatIsTyped == ClickSpec => ImplementsChoice
<1>1. ClickInit => Choice!Init
  BY DEF ClickInit, Choice!Init, Candidates, SoFar
<1> QED
  BY <1>1, ClickInitInv, ClickNextInv, ClickNextChooses, PTL
  DEF ClickSpec, ImplementsChoice, Choice!Spec

=============================================================================
