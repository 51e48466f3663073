--------------------------- MODULE VKeypanelProofs ---------------------------
(***************************************************************************)
(* The virtual keypanel, for any tasks, gestures, keys and retries, on a   *)
(* single-core and on an SMP build.                                        *)
(***************************************************************************)
EXTENDS VKeypanelHistory, SscAccessProofs, WellFoundedInduction

\* A set of naturals that is not empty has a least member, and Min is it.
LEMMA MinOfNats ==
  ASSUME NEW S, S \subseteq Nat, S # {}
  PROVE  Min(S) \in S /\ \A x \in S : Min(S) <= x
<1> DEFINE R == {ss \in Nat \X Nat : ss[1] < ss[2]}
<1>1. OpToRel(<, Nat) = R
  BY Zenon DEF OpToRel
<1>2. IsWellFoundedOn(R, Nat)
  BY <1>1, NatLessThanWellFounded, Zenon
<1>3. PICK m \in S : \A x \in S : <<x, m>> \notin R
  BY <1>2, WFMin, Zenon
<1>4. \A x, y \in Nat : x < y => <<x, y>> \in R
  OBVIOUS
<1>5. \A x \in S : m <= x
  <2> TAKE x \in S
  <2>1. ~ (x < m)
    BY <1>3, <1>4, Zenon
  <2> QED
    BY <2>1
<1> QED
  BY <1>5 DEF Min

LEMMA InitAccess == Init => SscInit
  BY DEF Init

\* A step of the driver is, for the state of the two access functions, a step
\* of those functions or no step at all.
LEMMA NextAccess == [Next]_vars => [SscNext]_sscVars
<1> SUFFICES ASSUME [Next]_vars
             PROVE  [SscNext]_sscVars
  OBVIOUS
<1> USE TasksAssumption
<1>1. CASE UNCHANGED vars
  BY <1>1 DEF vars
<1>2. ASSUME NEW t \in Tasks, Calls(t)
      PROVE  [SscNext]_sscVars
  BY <1>2 DEF Calls, Retry, GiveUp, Access, Leave, SscNext
<1>3. ASSUME NEW t \in LedWriters, StartLed(t) \/ ShowLeds(t)
      PROVE  [SscNext]_sscVars
  BY <1>3 DEF StartLed, ShowLeds, SscNext
<1>4. ASSUME NEW t \in RxWriters, StartRx(t) \/ RxGranted(t) \/ FirstPress(t) \/ ArmTimers(t)
      PROVE  [SscNext]_sscVars
  BY <1>4 DEF StartRx, RxGranted, FirstPress, ArmTimers, SscNext
<1>5. ASSUME NEW t \in RxWriters \cup Timers, Interrupt(t)
      PROVE  [SscNext]_sscVars
  BY <1>5 DEF Interrupt, Deposit, Latch, Report, Decoded, SscNext
<1>6. CASE Tick \/ \E tm \in Timers : Fire(tm)
  BY <1>6 DEF Tick, Fire
<1>7. CASE ProbePublish
  BY <1>7 DEF ProbePublish, SscNext
<1> QED
  BY <1>1, <1>2, <1>3, <1>4, <1>5, <1>6, <1>7 DEF Next

\* The driver uses the handle functions as they ask to be used.
THEOREM AccessImplemented == Spec => SscSpec
  BY InitAccess, NextAccess, PTL DEF Spec, SscSpec

\* However many writers and timers ask for it, at most one holds the SSC.
THEOREM Exclusive == Spec => []HandleExclusive
  BY AccessImplemented, SscExclusive, PTL

\* The virtual driver, too, implements the abstract handle.
THEOREM ImplementsHandle == Spec => HandleSpec
  BY AccessImplemented, SscImplementsHandle, PTL

-----------------------------------------------------------------------------
(* Types *)

LEMMA InitType == Init => TypeOK
<1> SUFFICES ASSUME Init PROVE TypeOK
  OBVIOUS
<1>1. SscTypeOK
  BY SscInvInit, InitAccess DEF SscInv
<1>2. tries \in [Tasks -> 0..(MaxTries + 1)]
  BY TriesAssumption DEF Init
<1>3. pc \in [Tasks -> {"idle", "first", "retry", "returning", "granted", "deposit", "decode"}]
  BY DEF Init
<1>4. /\ data \in [RxWriters \cup Timers -> SUBSET Keys]
      /\ xor \in [RxWriters \cup Timers -> SUBSET Keys]
  BY DEF Init
<1> QED
  BY <1>1, <1>2, <1>3, <1>4 DEF Init, TypeOK, Functions

\* The steps of the retry loop, of the access functions and of the returns.
LEMMA CallsType ==
  ASSUME TypeOK, SscTypeOK', CallInv, NEW t \in Tasks, Calls(t)
  PROVE  TypeOK'
<1> USE DEF TypeOK, Functions
<1>1. CASE Retry(t)
  <2>1. tries[t] <= MaxTries
    BY <1>1, TriesAssumption DEF Retry, InTime, CallInv
  <2>2. tries[t] + 1 \in 0..(MaxTries + 1)
    BY <2>1, TriesAssumption
  <2> QED
    BY <1>1, <2>2 DEF Retry, Label
<1>2. CASE GiveUp(t)
  BY <1>2 DEF GiveUp, Label
<1>3. CASE Access(t)
  BY <1>3 DEF Access, callVars
<1>4. CASE Leave(t)
  BY <1>4, TriesAssumption DEF Leave, Enter
<1> QED
  BY <1>1, <1>2, <1>3, <1>4 DEF Calls

LEMMA LedType ==
  ASSUME TypeOK, SscTypeOK', NEW t \in LedWriters, StartLed(t) \/ ShowLeds(t)
  PROVE  TypeOK'
BY TriesAssumption, TasksAssumption DEF TypeOK, Functions, StartLed, ShowLeds, Enter, Label, LED

\* A timer of a gesture is armed for at most seven steps of time.
LEMMA DelayType ==
  ASSUME NEW g, NEW tm \in AllTimers
  PROVE  Delay(g, tm) \in 0..7
<1>1. CASE tm = <<"up", 1>>
  BY <1>1 DEF Delay, UpTime
<1>2. CASE tm \in {"down", "up"} \X (2..4) /\ tm # <<"up", 1>>
  <2>1. tm[2] \in 2..4
    BY <1>2
  <2>2. Delay(g, tm) = 2 * (tm[2] - 1) + (IF tm[1] = "up" THEN 1 ELSE 0)
    BY <1>2 DEF Delay
  <2> QED
    BY <2>1, <2>2
<1> QED
  BY <1>1, <1>2 DEF AllTimers

LEMMA RxType ==
  ASSUME TypeOK, SscTypeOK', NEW t \in RxWriters,
         StartRx(t) \/ RxGranted(t) \/ FirstPress(t) \/ ArmTimers(t)
  PROVE  TypeOK'
<1> USE TasksAssumption, TriesAssumption DEF TypeOK, Functions, Enter, Label
<1>1. CASE StartRx(t)
  BY <1>1 DEF StartRx, RX
<1>2. CASE RxGranted(t)
  BY <1>2 DEF RxGranted
<1>3. CASE FirstPress(t)
  <2>1. wrecked' \in BOOLEAN
    BY <1>3, Zenon DEF FirstPress, Pending
  <2> QED
    BY <1>3, <2>1 DEF FirstPress, IRQ
<1>4. CASE ArmTimers(t)
  <2> DEFINE armed == {tm \in Timers : tm[2] <= Presses[gesture[t]]}
  <2>1. due' \in [Timers -> 0..7 \cup {Off}]
    BY <1>4, DelayType DEF ArmTimers
  <2>2. data' \in [RxWriters \cup Timers -> SUBSET Keys]
    BY <1>4 DEF ArmTimers
  <2>3. wrecked' \in BOOLEAN
    BY <1>4, Zenon DEF ArmTimers
  <2> QED
    BY <1>4, <2>1, <2>2, <2>3 DEF ArmTimers
<1> QED
  BY <1>1, <1>2, <1>3, <1>4

LEMMA InterruptType ==
  ASSUME TypeOK, SscTypeOK', NEW t \in RxWriters \cup Timers, Interrupt(t)
  PROVE  TypeOK'
<1> USE TasksAssumption DEF TypeOK, Functions, Label
<1>1. CASE Deposit(t)
  BY <1>1 DEF Deposit
<1>2. CASE Latch(t)
  <2>1. Differ(rhr, rx) \subseteq Keys
    BY DEF Differ
  <2> QED
    BY <1>2, <2>1 DEF Latch
<1>3. CASE Report(t)
  <2>1. Min(xor[t]) \in xor[t]
    BY <1>3, MinOfNats, KeysAssumption DEF Report
  <2> QED
    BY <1>3, <2>1 DEF Report
<1>4. CASE Decoded(t)
  BY <1>4 DEF Decoded
<1> QED
  BY <1>1, <1>2, <1>3, <1>4 DEF Interrupt

LEMMA TimeType ==
  ASSUME TypeOK, SscTypeOK', Tick \/ \E tm \in Timers : Fire(tm)
  PROVE  TypeOK'
<1> USE TasksAssumption, TriesAssumption DEF TypeOK, Functions
<1>1. CASE Tick
  <2>1. \A tm \in Timers : Pending(tm) => due[tm] - 1 \in 0..7
    BY <1>1 DEF Tick, Pending
  <2> QED
    BY <1>1, <2>1 DEF Tick, callVars
<1>2. ASSUME NEW tm \in Timers, Fire(tm)
      PROVE  TypeOK'
  BY <1>2 DEF Fire, Enter, IRQ
<1> QED
  BY <1>1, <1>2

LEMMA NextType ==
  ASSUME TypeOK, SscInv', CallInv, [Next]_vars
  PROVE  TypeOK'
<1>1. SscTypeOK'
  BY DEF SscInv
<1>2. CASE UNCHANGED vars
  BY <1>1, <1>2 DEF TypeOK, vars, callVars
<1>3. CASE ProbePublish
  BY <1>1, <1>3 DEF TypeOK, ProbePublish, callVars
<1> QED
  BY <1>1, <1>2, <1>3, CallsType, LedType, RxType, InterruptType, TimeType DEF Next

-----------------------------------------------------------------------------
(* Where the tasks are *)

\* What CallInv says of one task.
LEMMA CallsCall ==
  ASSUME TypeOK, SscInv, CallInv, NEW t \in Tasks, Calls(t)
  PROVE  CallInv'
<1> USE DEF TypeOK, SscInv, SscTypeOK, CallInv, Goto, Return, Holds, Ssc0, NoPointer, ErrPtrs, Label
<1>1. CASE Retry(t)
  BY <1>1 DEF Retry, RequestCall
<1>2. CASE GiveUp(t)
  BY <1>2 DEF GiveUp, OutOfTries, FreeCall, Abandon
<1>3. CASE Access(t)
  BY <1>3 DEF Access, callVars, SscStep, RequestLock, RequestMissing, RequestBusy,
              RequestFound, RequestTake, FreeLock, FreeDrop, FreeOops
<1>4. CASE Leave(t)
  BY <1>4 DEF Leave, Enter, Abandon
<1> QED
  BY <1>1, <1>2, <1>3, <1>4 DEF Calls

LEMMA WritersCall ==
  ASSUME TypeOK, SscInv, CallInv, NEW t \in Tasks,
         \/ StartLed(t) \/ ShowLeds(t)
         \/ StartRx(t) \/ RxGranted(t) \/ FirstPress(t) \/ (ArmTimers(t) /\ t \in RxWriters)
  PROVE  CallInv'
<1> USE DEF TypeOK, SscInv, SscTypeOK, CallInv, Goto, Return, Holds, Ssc0, NoPointer, Label, Enter
<1>1. CASE StartLed(t) \/ StartRx(t)
  BY <1>1, TriesAssumption DEF StartLed, StartRx, RequestCall
<1>2. CASE ShowLeds(t) \/ RxGranted(t)
  BY <1>2 DEF ShowLeds, RxGranted, FreeCall
<1>3. CASE FirstPress(t)
  BY <1>3 DEF FirstPress, sscVars
<1>4. CASE ArmTimers(t)
  BY <1>4 DEF ArmTimers, Abandon
<1> QED
  BY <1>1, <1>2, <1>3, <1>4

LEMMA InterruptCall ==
  ASSUME TypeOK, SscInv, CallInv, NEW t \in Tasks, Interrupt(t)
  PROVE  CallInv'
<1> USE DEF TypeOK, SscInv, SscTypeOK, CallInv, Goto, Return, Holds, Ssc0, NoPointer, Label
<1>1. CASE Deposit(t)
  BY <1>1 DEF Deposit, RequestCall
<1>2. CASE Latch(t)
  BY <1>2 DEF Latch, sscVars
<1>3. CASE Report(t)
  BY <1>3 DEF Report, sscVars
<1>4. CASE Decoded(t)
  BY <1>4 DEF Decoded, FreeCall
<1> QED
  BY <1>1, <1>2, <1>3, <1>4 DEF Interrupt

LEMMA NextCall ==
  ASSUME TypeOK, SscInv, CallInv, [Next]_vars
  PROVE  CallInv'
<1> USE TasksAssumption
<1>1. CASE UNCHANGED vars \/ Tick \/ ProbePublish
  BY <1>1 DEF CallInv, Holds, vars, callVars, sscVars, Tick, ProbePublish, Publish
<1>2. ASSUME NEW tm \in Timers, Fire(tm)
      PROVE  CallInv'
  BY <1>2 DEF Fire, Enter, TypeOK, SscTypeOK, CallInv, Holds, sscVars
<1> QED
  BY <1>1, <1>2, CallsCall, WritersCall, InterruptCall DEF Next

-----------------------------------------------------------------------------
(* The decoder *)

\* A task that has the device in its pointer is the only decoder there can be.
LEMMA HolderDecodes ==
  ASSUME SscInv, CallInv, NEW s \in Tasks, NEW t \in Tasks, Holds(s), pc[t] = "decode"
  PROVE  s = t
BY DEF SscInv, HandleExclusive, CallInv

\* Nothing but the handler's own steps begins, moves or ends a decoding.
LEMMA NotDecoder ==
  ASSUME TypeOK, [Next]_vars, ~\E t \in RxWriters \cup Timers : Latch(t) \/ Report(t) \/ Decoded(t)
  PROVE  /\ UNCHANGED <<xor, rx, view>>
         /\ \A t \in Tasks : pc'[t] = "decode" <=> pc[t] = "decode"
<1> USE DEF TypeOK, Enter, Label
<1>1. CASE UNCHANGED vars \/ Tick \/ ProbePublish
  BY <1>1 DEF vars, callVars, Tick, ProbePublish
<1>2. ASSUME NEW t \in Tasks, Calls(t)
      PROVE  /\ UNCHANGED <<xor, rx, view>>
             /\ \A u \in Tasks : pc'[u] = "decode" <=> pc[u] = "decode"
  BY <1>2 DEF Calls, Retry, InTime, GiveUp, OutOfTries, Access, callVars, Leave
<1>3. ASSUME NEW t \in Tasks,
             \/ StartLed(t) \/ ShowLeds(t)
             \/ StartRx(t) \/ RxGranted(t) \/ FirstPress(t) \/ (t \in RxWriters /\ ArmTimers(t))
             \/ Deposit(t) \/ Fire(t)
      PROVE  /\ UNCHANGED <<xor, rx, view>>
             /\ \A u \in Tasks : pc'[u] = "decode" <=> pc[u] = "decode"
  BY <1>3 DEF StartLed, ShowLeds, InTime, StartRx, RxGranted, FirstPress, ArmTimers, Deposit, Fire
<1> QED
  BY <1>1, <1>2, <1>3, TasksAssumption DEF Next, Interrupt

\* Latching a frame makes its difference to the last one what is still to tell.
LEMMA LatchDecode ==
  ASSUME TypeOK, SscInv, CallInv, DecodeInv, NEW t \in RxWriters \cup Timers, Latch(t)
  PROVE  view = rx /\ DecodeInv'
<1>1. t \in Tasks /\ pc[t] # "decode"
  BY TasksAssumption DEF Latch, InTime
<1>2. \A u \in RxWriters \cup Timers : pc[u] # "decode"
  BY <1>1, HolderDecodes, TasksAssumption DEF Latch
<1>3. view = rx
  BY <1>2 DEF DecodeInv
<1>4. view' = Differ(rx', xor'[t]) /\ pc'[t] = "decode"
  BY <1>1, <1>3 DEF Latch, TypeOK, Differ, Label
<1>5. \A u \in RxWriters \cup Timers : u # t => pc'[u] # "decode" /\ xor'[u] = {}
  BY <1>2, TasksAssumption DEF Latch, TypeOK, Label, DecodeInv
<1> QED
  BY <1>3, <1>4, <1>5 DEF DecodeInv

\* An event flips one key of the picture user space has, one that differed.
LEMMA ReportFlips ==
  ASSUME TypeOK, DecodeInv, NEW t \in RxWriters \cup Timers, Report(t)
  PROVE  /\ Min(xor[t]) \in Differ(view, rx)
         /\ view' = Differ(view, {Min(xor[t])})
         /\ view' = Differ(rx, xor'[t])
<1> DEFINE k == Min(xor[t])
<1>1. k \in xor[t]
  BY MinOfNats, KeysAssumption DEF Report, TypeOK
<1>2. view = Differ(rx, xor[t]) /\ xor'[t] = xor[t] \ {k}
  BY DEF Report, DecodeInv, TypeOK
<1>3. k \in rx => k \notin view /\ view' = view \cup {k}
  BY <1>1, <1>2 DEF Report, Differ
<1>4. k \notin rx => k \in view /\ view' = view \ {k}
  BY <1>1, <1>2 DEF Report, Differ
<1>5. view' = Differ(view, {k}) /\ k \in Differ(view, rx)
  BY <1>3, <1>4 DEF Differ
<1>6. Differ(rx, xor[t] \ {k}) = Differ(Differ(rx, xor[t]), {k})
  BY <1>1 DEF Differ
<1> QED
  BY <1>2, <1>5, <1>6

LEMMA NextDecode ==
  ASSUME TypeOK, SscInv, CallInv, DecodeInv, [Next]_vars
  PROVE  DecodeInv'
<1> USE TasksAssumption
<1>1. ASSUME NEW t \in RxWriters \cup Timers, Latch(t)
      PROVE  DecodeInv'
  BY <1>1, LatchDecode
<1>2. ASSUME NEW t \in RxWriters \cup Timers, Report(t)
      PROVE  DecodeInv'
  <2>1. view' = Differ(rx', xor'[t]) /\ pc'[t] = "decode"
    BY <1>2, ReportFlips DEF Report
  <2>2. \A u \in RxWriters \cup Timers : u # t => pc'[u] # "decode" /\ xor'[u] = {}
    BY <1>2, HolderDecodes DEF Report, TypeOK, CallInv, DecodeInv
  <2> QED
    BY <2>1, <2>2 DEF DecodeInv
<1>3. ASSUME NEW t \in RxWriters \cup Timers, Decoded(t)
      PROVE  DecodeInv'
  <2>1. \A u \in RxWriters \cup Timers : pc'[u] # "decode" /\ xor'[u] = {}
    BY <1>3, HolderDecodes DEF Decoded, TypeOK, Label, CallInv, DecodeInv
  <2>2. view' = rx'
    BY <1>3 DEF Decoded, DecodeInv, Differ
  <2> QED
    BY <2>1, <2>2 DEF DecodeInv
<1>4. CASE ~\E t \in RxWriters \cup Timers : Latch(t) \/ Report(t) \/ Decoded(t)
  BY <1>4, NotDecoder DEF DecodeInv
<1> QED
  BY <1>1, <1>2, <1>3, <1>4

-----------------------------------------------------------------------------
(* The invariant, and what follows from it *)

LEMMA InitInv == Init => IInv
<1> SUFFICES ASSUME Init PROVE IInv
  OBVIOUS
<1>1. SscInv
  BY SscInvInit, InitAccess
<1>2. \A t \in Tasks : at[t] = "out" /\ pc[t] = "idle"
  BY DEF Init, SscInit
<1>3. CallInv
  BY <1>2 DEF CallInv
<1>4. DecodeInv
  BY <1>2, TasksAssumption DEF Init, DecodeInv
<1> QED
  BY <1>1, <1>3, <1>4, InitType DEF IInv

LEMMA NextInv == IInv /\ [Next]_vars => IInv'
<1> SUFFICES ASSUME IInv, [Next]_vars
             PROVE  IInv'
  OBVIOUS
<1> USE DEF IInv
<1>1. SscInv'
  BY SscInvNext, NextAccess
<1>2. TypeOK'
  BY <1>1, NextType
<1>3. CallInv'
  BY NextCall
<1>4. DecodeInv'
  BY NextDecode
<1> QED
  BY <1>1, <1>2, <1>3, <1>4

\* The inductive invariant of the virtual driver.
THEOREM Invariance == Spec => []IInv
  BY InitInv, NextInv, PTL DEF Spec

\* The driver's state and the locals of its functions keep their types: no
\* retry counter passes MaxTries + 1, no timer is set for more than seven steps.
THEOREM TypeCorrect == Spec => []TypeOK
<1>1. IInv => TypeOK
  BY DEF IInv
<1> QED
  BY Invariance, <1>1, PTL

\* The interrupt handler, a function that any writer and any timer calls, is
\* never in process_RX_data_frame twice: the caller there has the device.
THEOREM SingleDecoder == Spec => []OneDecoder
<1>1. IInv => OneDecoder
  <2> SUFFICES ASSUME IInv, NEW s \in RxWriters \cup Timers, NEW t \in RxWriters \cup Timers,
                      pc[s] = "decode"
               PROVE  Holds(s) /\ (pc[t] = "decode" => s = t)
    BY DEF OneDecoder
  <2>1. s \in Tasks /\ t \in Tasks /\ Holds(s)
    BY TasksAssumption DEF IInv, CallInv
  <2> QED
    BY <2>1, HolderDecodes DEF IInv
<1> QED
  BY Invariance, <1>1, PTL

\* A key that was put into RX_HOLDING_REGISTER leaves it only into rx_frame.
THEOREM PressStays == Spec => PressStaysInRegister
<1>1. [Next]_vars => [\A k \in rhr : k \in rhr' \/ k \in rx']_vars
  <2> SUFFICES ASSUME Next
               PROVE  \A k \in rhr : k \in rhr' \/ k \in rx'
    OBVIOUS
  <2>1. rhr' = rhr \/ rhr \subseteq rhr' \/ rx' = rhr
    BY DEF Next, Calls, Retry, GiveUp, Access, Leave, StartLed, ShowLeds, StartRx, RxGranted,
           FirstPress, ArmTimers, Interrupt, Deposit, Latch, Report, Decoded, Fire, Tick,
           ProbePublish
  <2> QED
    BY <2>1
<1> QED
  BY <1>1, PTL DEF Spec, PressStaysInRegister

\* The decoder's steps are the tracker's, and the other steps leave it alone.
LEMMA TrackerStep ==
  ASSUME IInv, IInv', [Next]_vars
  PROVE  [Tracker!Next]_<<rx, view>>
<1> USE DEF IInv
<1>1. ASSUME NEW t \in RxWriters \cup Timers, Latch(t)
      PROVE  Tracker!Next
  <2>1. view = rx /\ rx' = rhr /\ view' = view /\ rhr \in SUBSET Keys
    BY <1>1, LatchDecode DEF Latch, TypeOK
  <2> QED
    BY <2>1 DEF Tracker!Latch, Tracker!Next
<1>2. ASSUME NEW t \in RxWriters \cup Timers, Report(t)
      PROVE  Tracker!Next
  <2> DEFINE k == Min(xor[t])
  <2>1. k \in Keys
    <3>1. xor[t] \subseteq Keys /\ xor[t] # {}
      BY <1>2 DEF Report, TypeOK
    <3>2. xor[t] \subseteq Nat
      BY <3>1, KeysAssumption
    <3> QED
      BY <3>1, <3>2, MinOfNats
  <2>2. k \in Tracker!Differ(view, rx) /\ view' = Tracker!Differ(view, {k}) /\ UNCHANGED rx
    BY <1>2, ReportFlips DEF Report, Differ, Tracker!Differ
  <2> QED
    BY <2>1, <2>2 DEF Tracker!Report, Tracker!Next
<1>3. ASSUME NEW t \in RxWriters \cup Timers, Decoded(t)
      PROVE  UNCHANGED <<rx, view>>
  BY <1>3 DEF Decoded
<1>4. CASE ~\E t \in RxWriters \cup Timers : Latch(t) \/ Report(t) \/ Decoded(t)
  BY <1>4, NotDecoder
<1> QED
  BY <1>1, <1>2, <1>3, <1>4

\* However many gesture writers and timers call the handler, it implements the
\* key tracker, as the handler of the real driver does.
THEOREM ImplementsTracker == Spec => TrackerSpec
<1>1. Init => Tracker!Init
  BY DEF Init, Tracker!Init
<1>2. IInv /\ IInv' /\ [Next]_vars => [Tracker!Next]_<<rx, view>>
  BY TrackerStep
<1> QED
  BY <1>1, <1>2, Invariance, PTL DEF Spec, TrackerSpec, Tracker!Spec

-----------------------------------------------------------------------------
(* The history of the calls that give up *)

LEMMA InitHistory == HInit => HistoryInv
<1> SUFFICES ASSUME HInit PROVE HistoryInv
  OBVIOUS
<1>1. Init /\ leaked = FALSE /\ lost = FALSE
  BY DEF HInit
<1>2. /\ \A t \in Tasks : fn[t] = "none" /\ pc[t] = "idle" /\ at[t] = "out" /\ kp[t] = NoPointer
      /\ user = 0
  BY <1>1 DEF Init, SscInit
<1>3. IInv
  BY <1>1, InitInv
<1>4. GivenBack /\ HandleLostByGiveUp
  <2>1. \A t \in Tasks : ~Holds(t)
    BY <1>2 DEF Holds, NoPointer, Ssc0
  <2>2. HandleOwned
    BY <1>2, <2>1 DEF HandleOwned
  <2> QED
    BY <1>1, <2>1, <2>2 DEF GivenBack, HandleLostByGiveUp
<1>5. HandlerCalls
  BY <1>2, TasksAssumption DEF HandlerCalls, Busy, InFn, IRQ
<1>6. ReleasesDue
  BY <1>1, <1>2, TasksAssumption DEF ReleasesDue, Busy, Pending, Init
<1>7. KeysComing
  BY <1>1 DEF KeysComing, Init
<1> QED
  BY <1>3, <1>4, <1>5, <1>6, <1>7 DEF HistoryInv

\* Only a call that gives up goes from its retries to its return without the
\* device having been freed.
LEMMA NextGivenBack ==
  ASSUME IInv, GivenBack, [Next]_vars
  PROVE  GivenBack'
<1> USE TasksAssumption DEF TypeOK, SscTypeOK, SscInv, IInv, CallInv, GivenBack, Holds, Label, Enter
<1>1. ASSUME NEW t \in Tasks, Calls(t)
      PROVE  GivenBack'
  <2>1. CASE Retry(t)
    BY <2>1 DEF Retry, RequestCall, Goto
  <2>2. CASE GiveUp(t)
    BY <2>2 DEF GiveUp, FreeCall, Abandon, Goto, Return, Ssc0, NoPointer
  <2>3. CASE Access(t)
    BY <2>3 DEF Access, callVars, SscStep, RequestLock, RequestMissing, RequestBusy, RequestFound, RequestTake,
                FreeLock, FreeDrop, FreeOops, Goto, Return, ErrPtrs, Ssc0, NoPointer
  <2>4. CASE Leave(t)
    BY <2>4 DEF Leave, Abandon, Return, Ssc0, NoPointer
  <2> QED
    BY <1>1, <2>1, <2>2, <2>3, <2>4 DEF Calls
<1>2. ASSUME NEW t \in LedWriters, StartLed(t) \/ ShowLeds(t)
      PROVE  GivenBack'
  BY <1>2 DEF StartLed, ShowLeds, RequestCall, FreeCall, Goto
<1>3. ASSUME NEW t \in RxWriters, StartRx(t) \/ RxGranted(t) \/ FirstPress(t) \/ ArmTimers(t)
      PROVE  GivenBack'
  <2>1. CASE StartRx(t) \/ RxGranted(t)
    BY <2>1 DEF StartRx, RequestCall, RxGranted, FreeCall, Goto
  <2>2. CASE FirstPress(t)
    BY <2>2 DEF FirstPress, sscVars
  <2>3. CASE ArmTimers(t)
    BY <2>3 DEF ArmTimers, Abandon, Return, Ssc0, NoPointer
  <2> QED
    BY <1>3, <2>1, <2>2, <2>3
<1>4. ASSUME NEW t \in RxWriters \cup Timers, Interrupt(t)
      PROVE  GivenBack'
  BY <1>4 DEF Interrupt, Deposit, RequestCall, Latch, Report, Decoded, FreeCall, Goto, sscVars
<1>5. ASSUME NEW tm \in Timers, Fire(tm)
      PROVE  GivenBack'
  BY <1>5 DEF Fire, sscVars
<1>6. CASE UNCHANGED vars \/ Tick \/ ProbePublish
  BY <1>6 DEF vars, callVars, sscVars, Tick, ProbePublish, Publish
<1> QED
  BY <1>1, <1>2, <1>3, <1>4, <1>5, <1>6 DEF Next

\* A step keeps user and the pointers, takes or frees the device, drops a pointer
\* that does not hold it, or gives up.
LEMMA HandleSteps ==
  ASSUME IInv, GivenBack, [Next]_vars
  PROVE  \/ user' = user /\ \A u \in Tasks : Holds(u)' <=> Holds(u)
         \/ \E t \in Tasks : RequestTake(t) \/ FreeDrop(t)
         \/ \E t \in Tasks : GiveUp(t) /\ ~InFn(t, RX)
<1> DEFINE Same == user' = user /\ \A u \in Tasks : Holds(u)' <=> Holds(u)
<1> USE TasksAssumption DEF TypeOK, SscTypeOK, SscInv, IInv, Holds
<1>1. ASSUME NEW t \in Tasks, Calls(t)
      PROVE  Same \/ RequestTake(t) \/ FreeDrop(t) \/ (GiveUp(t) /\ ~InFn(t, RX))
  <2>1. CASE Retry(t)
    BY <2>1 DEF Retry, RequestCall
  <2>2. CASE GiveUp(t) /\ InFn(t, RX)
    BY <2>2 DEF GiveUp, FreeCall
  <2>3. CASE Access(t)
    BY <2>3 DEF Access, SscStep, RequestLock, RequestMissing, RequestBusy, RequestFound, FreeLock, FreeOops,
                Goto, Return, Ssc0
  <2>4. CASE Leave(t)
    BY <2>4 DEF Leave, Abandon, Return, GivenBack, Ssc0, NoPointer
  <2> QED
    BY <1>1, <2>1, <2>2, <2>3, <2>4 DEF Calls
<1>2. ASSUME NEW t \in LedWriters, StartLed(t) \/ ShowLeds(t)
      PROVE  Same
  BY <1>2 DEF StartLed, ShowLeds, RequestCall, FreeCall
<1>3. ASSUME NEW t \in RxWriters, StartRx(t) \/ RxGranted(t) \/ FirstPress(t) \/ ArmTimers(t)
      PROVE  Same
  <2>1. CASE ArmTimers(t)
    BY <2>1 DEF ArmTimers, Abandon, Return, GivenBack, Ssc0, NoPointer
  <2> QED
    BY <1>3, <2>1 DEF StartRx, RequestCall, RxGranted, FreeCall, FirstPress, sscVars
<1>4. ASSUME NEW t \in RxWriters \cup Timers, Interrupt(t)
      PROVE  Same
  BY <1>4 DEF Interrupt, Deposit, RequestCall, Latch, Report, Decoded, FreeCall, sscVars
<1>5. CASE UNCHANGED vars \/ Tick \/ ProbePublish \/ \E tm \in Timers : Fire(tm)
  BY <1>5 DEF vars, sscVars, Tick, ProbePublish, Publish, Fire
<1> QED
  BY <1>1, <1>2, <1>3, <1>4, <1>5 DEF Next

\* A task that goes from the end of its tries to its return does so by GiveUp.
LEMMA GivesUp ==
  ASSUME TypeOK, [Next]_vars, NEW t \in Tasks, OutOfTries(t), pc'[t] = "returning"
  PROVE  GiveUp(t)
<1> USE TasksAssumption DEF TypeOK, Enter, Label, OutOfTries
<1>1. CASE UNCHANGED vars \/ Tick \/ ProbePublish
  BY <1>1 DEF vars, callVars, Tick, ProbePublish
<1>2. ASSUME NEW u \in Tasks, Calls(u)
      PROVE  GiveUp(t)
  BY <1>2 DEF Calls, Retry, GiveUp, Access, callVars, Leave
<1>3. ASSUME NEW u \in LedWriters, StartLed(u) \/ ShowLeds(u)
      PROVE  GiveUp(t)
  BY <1>3, TriesAssumption DEF StartLed, ShowLeds, InTime
<1>4. ASSUME NEW u \in RxWriters, StartRx(u) \/ RxGranted(u) \/ FirstPress(u) \/ ArmTimers(u)
      PROVE  GiveUp(t)
  BY <1>4, TriesAssumption DEF StartRx, RxGranted, InTime, FirstPress, ArmTimers
<1>5. ASSUME NEW u \in RxWriters \cup Timers, Interrupt(u)
      PROVE  GiveUp(t)
  BY <1>5, TriesAssumption DEF Interrupt, Deposit, Latch, InTime, Report, Decoded
<1>6. ASSUME NEW tm \in Timers, Fire(tm)
      PROVE  GiveUp(t)
  BY <1>6 DEF Fire
<1> QED
  BY <1>1, <1>2, <1>3, <1>4, <1>5, <1>6 DEF Next

\* The handle is lost by a call that gives up with it, and is never found again.
LEMMA NextLeaked ==
  ASSUME IInv, IInv', GivenBack, HandleLostByGiveUp, HNext \/ UNCHANGED historyVars
  PROVE  HandleLostByGiveUp'
<1> DEFINE given == \E t \in Tasks : Deserts(t) /\ Holds(t)
<1> USE TasksAssumption DEF TypeOK, SscTypeOK, SscInv, IInv, HandleExclusive
<1>1. [Next]_vars /\ (leaked' <=> leaked \/ given)
  <2>1. CASE HNext
    BY <2>1, Zenon DEF HNext
  <2>2. CASE UNCHANGED historyVars
    BY <2>2 DEF historyVars, vars, callVars, Deserts, OutOfTries
  <2> QED
    BY <2>1, <2>2
<1>2. HandleOwned <=> (user = 0 \/ \E t \in Tasks : Holds(t))
  BY DEF HandleOwned
<1>3. HandleOwned' <=> (user' = 0 \/ \E t \in Tasks : Holds(t)')
  BY DEF HandleOwned
<1>4. ASSUME given PROVE leaked' /\ ~HandleOwned'
  <2>1. PICK t \in Tasks : Deserts(t) /\ Holds(t)
    BY <1>4
  <2>2. GiveUp(t) /\ ~InFn(t, RX)
    BY <1>1, <2>1, GivesUp DEF Deserts
  <2>3. user = 1 /\ user' = user /\ kp' = [kp EXCEPT ![t] = NoPointer]
    BY <2>1, <2>2 DEF GiveUp, Abandon, Return
  <2>4. \A u \in Tasks : ~Holds(u)'
    BY <2>1, <2>3 DEF Holds, NoPointer, Ssc0
  <2> QED
    BY <1>1, <1>3, <1>4, <2>3, <2>4
<1>5. ASSUME ~given PROVE HandleOwned' <=> HandleOwned
  <2>1. CASE user' = user /\ \A u \in Tasks : Holds(u)' <=> Holds(u)
    BY <1>2, <1>3, <2>1
  <2>2. ASSUME NEW t \in Tasks, RequestTake(t) PROVE HandleOwned /\ HandleOwned'
    <3>1. user = 0
      BY <2>2 DEF RequestTake, Goto
    <3>2. Holds(t)'
      BY <2>2 DEF RequestTake, Return, Holds
    <3> QED
      BY <1>2, <1>3, <3>1, <3>2
  <2>3. ASSUME NEW t \in Tasks, FreeDrop(t) PROVE HandleOwned /\ HandleOwned'
    <3>1. Holds(t) /\ user = 1 /\ user' = IF user # 0 THEN user - 1 ELSE user
      BY <2>3 DEF FreeDrop
    <3>2. user' = 0
      BY <3>1
    <3> QED
      BY <1>2, <1>3, <3>1, <3>2
  <2>4. ASSUME NEW t \in Tasks, GiveUp(t), ~InFn(t, RX) PROVE HandleOwned' <=> HandleOwned
    <3>1. ~Holds(t)
      BY <1>5, <2>4 DEF Deserts, GiveUp, Label, OutOfTries
    <3>2. user' = user /\ kp' = [kp EXCEPT ![t] = NoPointer]
      BY <2>4 DEF GiveUp, Abandon, Return
    <3>3. \A u \in Tasks : Holds(u)' <=> Holds(u)
      BY <3>1, <3>2 DEF Holds, NoPointer, Ssc0
    <3> QED
      BY <1>2, <1>3, <3>2, <3>3
  <2> QED
    BY <1>1, <2>1, <2>2, <2>3, <2>4, HandleSteps
<1> QED
  BY <1>1, <1>4, <1>5, Zenon DEF HandleLostByGiveUp

-----------------------------------------------------------------------------
(* The releases of the keys *)

LEMMA NextHandlerCalls ==
  ASSUME IInv, HandlerCalls, [Next]_vars
  PROVE  HandlerCalls'
<1> USE TasksAssumption
    DEF TypeOK, SscTypeOK, SscInv, IInv, CallInv, HandlerCalls, Busy, InFn, Enter, Label, Functions, LED, RX, IRQ,
        Goto, Holds
<1>1. ASSUME NEW t \in Tasks, Calls(t)
      PROVE  HandlerCalls'
  <2>1. CASE Retry(t)
    BY <2>1 DEF Retry, RequestCall, InTime
  <2>2. CASE GiveUp(t)
    BY <2>2 DEF GiveUp, OutOfTries, FreeCall, Abandon, Return
  <2>3. CASE Access(t)
    <3>1. UNCHANGED <<fn, pc, gesture>>
      BY <2>3 DEF Access, callVars
    <3>2. CASE RequestLock(t) \/ RequestFound(t) \/ FreeLock(t)
      BY <3>1, <3>2 DEF RequestLock, RequestFound, FreeLock
    <3>3. CASE RequestMissing(t) \/ RequestBusy(t) \/ RequestTake(t) \/ FreeDrop(t)
      BY <3>1, <3>3 DEF RequestMissing, RequestBusy, RequestTake, FreeDrop, Return
    <3>4. CASE FreeOops(t)
      BY <3>1, <3>4 DEF FreeOops, ErrPtrs, Ssc0
    <3> QED
      BY <2>3, <3>2, <3>3, <3>4 DEF Access, SscStep
  <2>4. CASE Leave(t)
    BY <2>4 DEF Leave, Abandon, Return
  <2> QED
    BY <1>1, <2>1, <2>2, <2>3, <2>4 DEF Calls
<1>2. ASSUME NEW t \in LedWriters, StartLed(t) \/ ShowLeds(t)
      PROVE  HandlerCalls'
  BY <1>2 DEF StartLed, ShowLeds, RequestCall, FreeCall, InTime
<1>3. ASSUME NEW t \in RxWriters, StartRx(t) \/ RxGranted(t) \/ FirstPress(t) \/ ArmTimers(t)
      PROVE  HandlerCalls'
  <2>1. CASE StartRx(t)
    BY <2>1, GesturesAssumption DEF StartRx, RequestCall, Presses
  <2>2. CASE RxGranted(t)
    BY <2>2 DEF RxGranted, FreeCall, InTime
  <2>3. CASE FirstPress(t)
    BY <2>3 DEF FirstPress, sscVars
  <2>4. CASE ArmTimers(t)
    BY <2>4 DEF ArmTimers, Abandon, Return
  <2> QED
    BY <1>3, <2>1, <2>2, <2>3, <2>4
<1>4. ASSUME NEW t \in RxWriters \cup Timers, Interrupt(t)
      PROVE  HandlerCalls'
  <2>1. CASE Deposit(t)
    BY <2>1 DEF Deposit, RequestCall
  <2>2. CASE Latch(t) \/ Report(t)
    BY <2>2 DEF Latch, Report, InTime, sscVars
  <2>3. CASE Decoded(t)
    BY <2>3 DEF Decoded, FreeCall
  <2> QED
    BY <1>4, <2>1, <2>2, <2>3 DEF Interrupt
<1>5. ASSUME NEW tm \in Timers, Fire(tm)
      PROVE  HandlerCalls'
  BY <1>5 DEF Fire, sscVars
<1>6. CASE UNCHANGED vars \/ Tick \/ ProbePublish
  BY <1>6 DEF vars, callVars, sscVars, Tick, ProbePublish, Publish
<1> QED
  BY <1>1, <1>2, <1>3, <1>4, <1>5, <1>6 DEF Next

\* The timers move with time, when one expires and when a gesture is armed.
LEMMA DueChanges ==
  ASSUME [Next]_vars
  PROVE  \/ UNCHANGED due \/ Tick \/ \E tm \in Timers : Fire(tm)
         \/ \E t \in RxWriters : ArmTimers(t)
BY DEF Next, vars, Calls, Retry, GiveUp, Access, Leave, StartLed, ShowLeds, StartRx, RxGranted, FirstPress,
       Interrupt, Deposit, Latch, Report, Decoded, ProbePublish

\* A timer becomes busy only by expiring.
LEMMA TimerStarts ==
  ASSUME TypeOK, [Next]_vars, NEW tm \in Timers, pc'[tm] # "idle", pc[tm] = "idle"
  PROVE  Fire(tm)
<1> USE TasksAssumption DEF TypeOK, Enter, Label
<1>1. CASE UNCHANGED vars \/ Tick \/ ProbePublish
  BY <1>1 DEF vars, callVars, Tick, ProbePublish
<1>2. ASSUME NEW t \in Tasks, Calls(t)
      PROVE  FALSE
  BY <1>2 DEF Calls, Retry, InTime, GiveUp, OutOfTries, Access, callVars, Leave
<1>3. ASSUME NEW t \in LedWriters \cup RxWriters,
             StartLed(t) \/ ShowLeds(t) \/ StartRx(t) \/ RxGranted(t) \/ FirstPress(t) \/ (t \in RxWriters /\ ArmTimers(t))
      PROVE  FALSE
  BY <1>3 DEF StartLed, ShowLeds, StartRx, RxGranted, InTime, FirstPress, ArmTimers
<1>4. ASSUME NEW t \in RxWriters \cup Timers, Interrupt(t)
      PROVE  FALSE
  BY <1>4 DEF Interrupt, Deposit, Latch, InTime, Report, Decoded
<1>5. ASSUME NEW s \in Timers, Fire(s)
      PROVE  s = tm
  BY <1>5 DEF Fire
<1> QED
  BY <1>1, <1>2, <1>3, <1>4, <1>5 DEF Next

\* The timers of a gesture are armed for different times, a release one step after
\* its press.
LEMMA DelaysDiffer ==
  ASSUME NEW g \in DOMAIN Presses, NEW s \in AllTimers, NEW t \in AllTimers,
         s[2] <= Presses[g], t[2] <= Presses[g]
  PROVE  /\ Delay(g, s) \in 1..7
         /\ Delay(g, s) = Delay(g, t) => s = t
         /\ s[1] = "down" => <<"up", s[2]>> \in AllTimers /\ Delay(g, <<"up", s[2]>>) = Delay(g, s) + 1
<1>1. ASSUME NEW x \in AllTimers, x # <<"up", 1>>
      PROVE  /\ x[1] \in {"down", "up"} /\ x[2] \in 2..4 /\ x = <<x[1], x[2]>>
             /\ Delay(g, x) = 2 * (x[2] - 1) + (IF x[1] = "up" THEN 1 ELSE 0)
  BY <1>1 DEF AllTimers, Delay
<1>2. Delay(g, <<"up", 1>>) = IF g = "PRESS_AND_HOLD" THEN 6 ELSE 1
  BY DEF Delay, UpTime
<1>3. g = "PRESS_AND_HOLD" => s = <<"up", 1>> /\ t = <<"up", 1>>
  BY <1>1 DEF Presses
<1>4. Delay(g, s) \in 1..7
  <2>1. CASE s = <<"up", 1>>
    BY <1>2, <2>1
  <2>2. CASE s # <<"up", 1>>
    BY <1>1, <2>2
  <2> QED
    BY <2>1, <2>2
<1>5. Delay(g, s) = Delay(g, t) => s = t
  <2>1. CASE s = <<"up", 1>> \/ t = <<"up", 1>>
    BY <1>1, <1>2, <1>3, <2>1
  <2>2. CASE s # <<"up", 1>> /\ t # <<"up", 1>>
    <3>1. Delay(g, s) = Delay(g, t) => s[2] = t[2] /\ s[1] = t[1]
      BY <1>1, <2>2
    <3> QED
      BY <1>1, <2>2, <3>1
  <2> QED
    BY <2>1, <2>2
<1>6. ASSUME s[1] = "down"
      PROVE  <<"up", s[2]>> \in AllTimers /\ Delay(g, <<"up", s[2]>>) = Delay(g, s) + 1
  <2>1. s # <<"up", 1>>
    BY <1>6
  <2>2. s[2] \in 2..4 /\ Delay(g, s) = 2 * (s[2] - 1)
    BY <1>1, <1>6, <2>1
  <2>3. <<"up", s[2]>> \in AllTimers /\ <<"up", s[2]>> # <<"up", 1>>
    BY <2>2 DEF AllTimers
  <2>4. Delay(g, <<"up", s[2]>>) = 2 * (s[2] - 1) + 1
    BY <1>1, <2>3
  <2> QED
    BY <2>2, <2>3, <2>4
<1> QED
  BY <1>4, <1>5, <1>6

\* An armed gesture has timers of its own, each release one step after its press.
LEMMA ArmedTimers ==
  ASSUME IInv, HandlerCalls, NEW w \in RxWriters, ArmTimers(w)
  PROVE  LET g == gesture[w]
             armed == {tm \in Timers : tm[2] <= Presses[g]}
         IN  /\ \A tm \in Timers : due'[tm] = IF tm \in armed THEN Delay(g, tm) ELSE due[tm]
             /\ \A tm \in armed : due'[tm] \in 1..7
             /\ <<"up", 1>> \in armed
             /\ \A tm \in armed : tm[1] = "down" =>
                  Release(tm) \in armed /\ due'[Release(tm)] = due'[tm] + 1
<1> DEFINE g == gesture[w]
           armed == {tm \in Timers : tm[2] <= Presses[g]}
<1>1. g \in Gestures
  BY DEF ArmTimers, HandlerCalls, Busy, IInv, TypeOK
<1>2. g \in DOMAIN Presses /\ {tm \in AllTimers : tm[2] <= Presses[g]} \subseteq Timers
  BY <1>1, GesturesAssumption
<1>3. \A tm \in Timers : due'[tm] = IF tm \in armed THEN Delay(g, tm) ELSE due[tm]
  BY DEF ArmTimers
<1>4. \A tm \in armed : due'[tm] = Delay(g, tm) /\ tm \in AllTimers /\ tm[2] <= Presses[g]
  BY <1>3, TasksAssumption
<1> HIDE DEF g
<1>5. \A tm \in armed : due'[tm] \in 1..7
  BY <1>2, <1>4, DelaysDiffer
<1>6. <<"up", 1>> \in armed
  BY <1>2 DEF AllTimers, Presses
<1>7. ASSUME NEW tm \in armed, tm[1] = "down"
      PROVE  Release(tm) \in armed /\ due'[Release(tm)] = due'[tm] + 1
  <2>1. Release(tm) \in AllTimers /\ Delay(g, Release(tm)) = Delay(g, tm) + 1
    BY <1>2, <1>4, <1>7, DelaysDiffer DEF Release
  <2>2. Release(tm)[2] = tm[2]
    BY DEF Release
  <2>3. Release(tm) \in armed
    BY <1>2, <1>4, <2>1, <2>2
  <2> QED
    BY <1>4, <2>1, <2>3
<1> QED
  BY <1>3, <1>5, <1>6, <1>7 DEF g

LEMMA NextReleases ==
  ASSUME IInv, HandlerCalls, ReleasesDue, [Next]_vars
  PROVE  ReleasesDue'
<1> USE TasksAssumption
<1>1. ASSUME NEW up \in Timers, IsUp(up)
      PROVE  data'[up] = {}
  <2>1. data[up] = {} /\ up[1] = "up"
    BY <1>1 DEF ReleasesDue, IsUp
  <2>2. \/ UNCHANGED data
        \/ \E w \in RxWriters : StartRx(w) \/ ArmTimers(w)
        \/ \E t \in Tasks : Leave(t)
    BY DEF Next, vars, callVars, Calls, Retry, GiveUp, Access, StartLed, ShowLeds, RxGranted, FirstPress,
           Interrupt, Deposit, Latch, Report, Decoded, Fire, Tick, ProbePublish
  <2>3. ASSUME NEW w \in RxWriters, StartRx(w)
        PROVE  data'[up] = {}
    BY <2>1, <2>3 DEF StartRx, IInv, TypeOK
  <2>4. ASSUME NEW w \in RxWriters, ArmTimers(w)
        PROVE  data'[up] = {}
    BY <2>1, <2>4 DEF ArmTimers
  <2>5. ASSUME NEW t \in Tasks, Leave(t)
        PROVE  data'[up] = {}
    BY <2>1, <2>5 DEF Leave
  <2> QED
    BY <2>1, <2>2, <2>3, <2>4, <2>5
<1> SUFFICES ASSUME NEW tm \in Timers, tm[1] = "down"
             PROVE  /\ Pending(tm)' => Release(tm) \in Timers /\ due'[Release(tm)] \in due'[tm] + 1 .. 7
                    /\ Busy(tm)' => Release(tm) \in Timers /\ due'[Release(tm)] \in 1..7
  BY <1>1 DEF ReleasesDue, IsUp, Release
<1> DEFINE r == Release(tm)
<1>2. /\ Pending(tm) => r \in Timers /\ due[r] \in due[tm] + 1 .. 7
      /\ Busy(tm) => r \in Timers /\ due[r] \in 1..7
  BY DEF ReleasesDue
<1>3. due \in [Timers -> 0..7 \cup {Off}] /\ r # tm
  BY DEF IInv, TypeOK, Release
<1>4. r[2] = tm[2]
  BY DEF Release
<1> HIDE DEF r
<1>5. CASE UNCHANGED due
  <2>1. ~Fire(tm)
    BY <1>3, <1>5 DEF Fire, Off
  <2>2. Busy(tm)' => Busy(tm)
    BY <2>1, TimerStarts DEF Busy, IInv
  <2> QED
    BY <1>2, <1>5, <2>2 DEF Pending, r
<1>6. CASE Tick
  <2>1. ~Busy(tm) /\ pc' = pc
    BY <1>6 DEF Tick, HandlerCalls, callVars
  <2>2. Pending(tm)' => Pending(tm)
    BY <1>6 DEF Tick, Pending
  <2>3. ASSUME Pending(tm)
        PROVE  r \in Timers /\ due'[r] \in due'[tm] + 1 .. 7
    <3>1. due[tm] \in 1..7 /\ due'[tm] = due[tm] - 1
      BY <1>3, <1>6, <2>3 DEF Tick, Pending
    <3>2. r \in Timers /\ due[r] \in due[tm] + 1 .. 7
      BY <1>2, <2>3
    <3>3. Pending(r) /\ due'[r] = due[r] - 1
      BY <1>6, <3>1, <3>2 DEF Tick, Pending, Off
    <3> QED
      BY <3>1, <3>2, <3>3
  <2> QED
    BY <2>1, <2>2, <2>3 DEF Busy, r
<1>7. ASSUME NEW s \in Timers, Fire(s)
      PROVE  /\ Pending(tm)' => r \in Timers /\ due'[r] \in due'[tm] + 1 .. 7
             /\ Busy(tm)' => r \in Timers /\ due'[r] \in 1..7
  <2>1. due[s] = 0 /\ due' = [due EXCEPT ![s] = Off] /\ pc' = [pc EXCEPT ![s] = "deposit"]
    BY <1>7 DEF Fire, Enter
  <2>2. CASE s = tm
    <3>1. Pending(tm) /\ due'[tm] = Off
      BY <1>3, <2>1, <2>2 DEF Pending, Off
    <3>2. r \in Timers /\ due[r] \in 1..7 /\ due'[r] = due[r]
      BY <1>2, <1>3, <2>1, <2>2, <3>1
    <3> QED
      BY <3>1, <3>2 DEF Pending
  <2>3. CASE s # tm
    <3>1. due'[tm] = due[tm] /\ pc'[tm] = pc[tm]
      BY <1>3, <2>1, <2>3 DEF IInv, TypeOK
    <3>2. Pending(tm) \/ Busy(tm) => s # r /\ r \in Timers /\ due'[r] = due[r]
      BY <1>2, <1>3, <2>1 DEF Pending
    <3> QED
      BY <1>2, <3>1, <3>2 DEF Pending, Busy
  <2> QED
    BY <2>2, <2>3
<1>8. ASSUME NEW w \in RxWriters, ArmTimers(w)
      PROVE  /\ Pending(tm)' => r \in Timers /\ due'[r] \in due'[tm] + 1 .. 7
             /\ Busy(tm)' => r \in Timers /\ due'[r] \in 1..7
  <2> DEFINE armed == {x \in Timers : x[2] <= Presses[gesture[w]]}
  <2>1. /\ \A x \in Timers : x \notin armed => due'[x] = due[x]
        /\ \A x \in armed : due'[x] \in 1..7
        /\ tm \in armed => r \in armed /\ due'[r] = due'[tm] + 1
    BY <1>8, ArmedTimers DEF r
  <2>2. r \in Timers => (r \in armed <=> tm \in armed)
    BY <1>4
  <2>3. Busy(tm)' => Busy(tm)
    <3>1. w # tm /\ pc' = [pc EXCEPT ![w] = "idle"]
      BY <1>8 DEF ArmTimers, Enter
    <3> QED
      BY <3>1 DEF Busy, IInv, TypeOK
  <2>4. armed \subseteq Timers
    OBVIOUS
  <2> HIDE DEF armed
  <2>5. CASE tm \in armed
    BY <2>1, <2>4, <2>5
  <2>6. CASE tm \notin armed
    BY <1>2, <2>1, <2>2, <2>3, <2>6 DEF Pending
  <2> QED
    BY <2>5, <2>6
<1> QED
  BY <1>5, <1>6, <1>7, <1>8, DueChanges DEF r

\* A handler that is retrying stays at its tries until it latches or gives up.
LEMMA Trying ==
  ASSUME TypeOK, [Next]_vars, NEW t \in RxWriters \cup Timers, InFn(t, IRQ),
         pc[t] \in {"deposit", "first", "retry"}, ~Latch(t), ~GiveUp(t)
  PROVE  InFn(t, IRQ)' /\ pc'[t] \in {"deposit", "first", "retry"} /\ (pc[t] # "deposit" => pc'[t] # "deposit")
<1> USE TasksAssumption DEF TypeOK, Enter, Label, InFn, IRQ, RX, LED
<1>1. CASE UNCHANGED vars \/ Tick \/ ProbePublish
  BY <1>1 DEF vars, callVars, Tick, ProbePublish
<1>2. ASSUME NEW u \in Tasks, Calls(u)
      PROVE  InFn(t, IRQ)' /\ pc'[t] \in {"deposit", "first", "retry"} /\ (pc[t] # "deposit" => pc'[t] # "deposit")
  BY <1>2 DEF Calls, Retry, InTime, GiveUp, Access, callVars, Leave
<1>3. ASSUME NEW u \in LedWriters, StartLed(u) \/ ShowLeds(u)
      PROVE  InFn(t, IRQ)' /\ pc'[t] \in {"deposit", "first", "retry"} /\ (pc[t] # "deposit" => pc'[t] # "deposit")
  BY <1>3 DEF StartLed, ShowLeds
<1>4. ASSUME NEW u \in RxWriters, StartRx(u) \/ RxGranted(u) \/ FirstPress(u) \/ ArmTimers(u)
      PROVE  InFn(t, IRQ)' /\ pc'[t] \in {"deposit", "first", "retry"} /\ (pc[t] # "deposit" => pc'[t] # "deposit")
  BY <1>4 DEF StartRx, RxGranted, FirstPress, ArmTimers
<1>5. ASSUME NEW u \in RxWriters \cup Timers, Interrupt(u)
      PROVE  InFn(t, IRQ)' /\ pc'[t] \in {"deposit", "first", "retry"} /\ (pc[t] # "deposit" => pc'[t] # "deposit")
  BY <1>5 DEF Interrupt, Deposit, Latch, Report, Decoded
<1>6. ASSUME NEW u \in Timers, Fire(u)
      PROVE  InFn(t, IRQ)' /\ pc'[t] \in {"deposit", "first", "retry"} /\ (pc[t] # "deposit" => pc'[t] # "deposit")
  BY <1>6 DEF Fire
<1> QED
  BY <1>1, <1>2, <1>3, <1>4, <1>5, <1>6 DEF Next

\* A gesture writer leaves the handler only to arm its timers.
LEMMA StaysInHandler ==
  ASSUME IInv, HandlerCalls, [Next]_vars, NEW w \in RxWriters, InFn(w, IRQ), ~ArmTimers(w)
  PROVE  InFn(w, IRQ)'
<1> USE TasksAssumption DEF IInv, TypeOK, Enter, Label, InFn, IRQ, RX, LED
<1>1. CASE UNCHANGED vars \/ Tick \/ ProbePublish
  BY <1>1 DEF vars, callVars, Tick, ProbePublish
<1>2. ASSUME NEW u \in Tasks, Calls(u)
      PROVE  InFn(w, IRQ)'
  BY <1>2 DEF Calls, Retry, GiveUp, Access, callVars, Leave
<1>3. ASSUME NEW u \in LedWriters, StartLed(u) \/ ShowLeds(u)
      PROVE  InFn(w, IRQ)'
  BY <1>3 DEF StartLed, ShowLeds
<1>4. ASSUME NEW u \in RxWriters, StartRx(u) \/ RxGranted(u) \/ FirstPress(u) \/ ArmTimers(u)
      PROVE  InFn(w, IRQ)'
  <2>1. CASE StartRx(u)
    <3>1. u # w
      BY <2>1 DEF StartRx, HandlerCalls, Busy
    <3> QED
      BY <2>1, <3>1 DEF StartRx
  <2>2. CASE RxGranted(u) \/ FirstPress(u)
    BY <2>2 DEF RxGranted, FirstPress
  <2>3. CASE ArmTimers(u)
    <3>1. u # w
      BY <2>3
    <3> QED
      BY <2>3, <3>1 DEF ArmTimers
  <2> QED
    BY <1>4, <2>1, <2>2, <2>3
<1>5. ASSUME NEW u \in RxWriters \cup Timers, Interrupt(u)
      PROVE  InFn(w, IRQ)'
  BY <1>5 DEF Interrupt, Deposit, Latch, Report, Decoded
<1>6. ASSUME NEW u \in Timers, Fire(u)
      PROVE  InFn(w, IRQ)'
  BY <1>6 DEF Fire
<1> QED
  BY <1>1, <1>2, <1>3, <1>4, <1>5, <1>6 DEF Next

\* A release stays to come until its timer's handler has latched it.
LEMMA ComingStays ==
  ASSUME IInv, HandlerCalls, [Next]_vars, Coming,
         \A tm \in Timers : IsUp(tm) => ~Latch(tm) /\ ~GiveUp(tm)
  PROVE  Coming'
<1> USE TasksAssumption
<1>1. ASSUME NEW w \in RxWriters, InFn(w, IRQ), ~ArmTimers(w)
      PROVE  Coming'
  BY <1>1, StaysInHandler DEF Coming
<1>2. ASSUME NEW w \in RxWriters, ArmTimers(w)
      PROVE  Coming'
  <2>1. <<"up", 1>> \in Timers /\ due'[<<"up", 1>>] \in 1..7
    BY <1>2, ArmedTimers
  <2>2. IsUp(<<"up", 1>>) /\ Pending(<<"up", 1>>)'
    BY <2>1 DEF IsUp, Pending, Off
  <2> QED
    BY <2>1, <2>2 DEF Coming, IsUp
<1>3. ASSUME NEW tm \in Timers, IsUp(tm), Pending(tm), \A w \in RxWriters : ~ArmTimers(w)
      PROVE  Coming'
  <2>1. due[tm] \in 0..7
    BY <1>3 DEF IInv, TypeOK, Pending
  <2>2. CASE UNCHANGED due
    BY <1>3, <2>2 DEF Coming, Pending, IsUp
  <2>3. CASE Tick
    <3>1. Pending(tm)'
      BY <1>3, <2>1, <2>3 DEF Tick, Pending, Off
    <3> QED
      BY <1>3, <3>1 DEF Coming, IsUp
  <2>4. ASSUME NEW s \in Timers, Fire(s)
        PROVE  Coming'
    <3>1. CASE s = tm
      <4>1. pc'[tm] = "deposit"
        BY <2>4, <3>1 DEF Fire, Enter, IInv, TypeOK
      <4> QED
        BY <1>3, <4>1 DEF Coming, IsUp
    <3>2. CASE s # tm
      <4>1. due'[tm] = due[tm]
        BY <2>4, <3>2 DEF Fire, IInv, TypeOK
      <4> QED
        BY <1>3, <4>1 DEF Coming, Pending, IsUp
    <3> QED
      BY <3>1, <3>2
  <2> QED
    BY <1>3, <2>2, <2>3, <2>4, DueChanges
<1>4. ASSUME NEW tm \in Timers, IsUp(tm), pc[tm] \in {"deposit", "first", "retry"}
      PROVE  Coming'
  <2>1. InFn(tm, IRQ) /\ ~Latch(tm) /\ ~GiveUp(tm)
    BY <1>4 DEF HandlerCalls, Busy
  <2>2. pc'[tm] \in {"deposit", "first", "retry"}
    BY <1>4, <2>1, Trying DEF IInv
  <2> QED
    BY <1>4, <2>2 DEF Coming, IsUp
<1> QED
  BY <1>1, <1>2, <1>3, <1>4 DEF Coming

\* A press that is in the register, or in the hands of the handler, has its
\* release still to come.
LEMMA NextKeys ==
  ASSUME IInv, HandlerCalls, ReleasesDue, KeysComing, [Next]_vars,
         \A t \in Tasks : GiveUp(t) => ~InFn(t, IRQ)
  PROVE  KeysComing'
<1> USE TasksAssumption
<1> DEFINE Pressing(t) == ~IsUp(t) /\ InFn(t, IRQ) /\ pc[t] \in {"first", "retry"}
           Held == \E t \in RxWriters \cup Timers : Pressing(t)
<1>1. ASSUME Held, \A t \in RxWriters \cup Timers : ~Latch(t)
      PROVE  Held'
  <2>1. PICK t \in RxWriters \cup Timers : Pressing(t)
    BY <1>1
  <2>2. ~GiveUp(t) /\ ~Latch(t)
    BY <1>1, <2>1
  <2>3. InFn(t, IRQ)' /\ pc'[t] \in {"first", "retry"}
    BY <2>1, <2>2, Trying DEF IInv
  <2> QED
    BY <2>1, <2>3 DEF IsUp
<1>2. rhr' # {} => Held'
  <2>1. ASSUME NEW t \in RxWriters \cup Timers, Deposit(t), rhr' # {}
        PROVE  Held'
    <3>1. \A u \in RxWriters \cup Timers : ~Latch(u)
      BY <2>1 DEF Deposit, Latch, Label, InTime, Goto, RequestCall, sscVars, IInv, TypeOK, SscTypeOK
    <3>2. CASE rhr # {}
      BY <1>1, <3>1, <3>2 DEF KeysComing
    <3>3. CASE rhr = {}
      <4>1. data[t] # {}
        BY <2>1, <3>3 DEF Deposit
      <4>2. ~IsUp(t)
        BY <4>1 DEF ReleasesDue, IsUp
      <4>3. InFn(t, IRQ)
        BY <2>1, TasksAssumption DEF Deposit, HandlerCalls
      <4>4. InFn(t, IRQ)' /\ pc'[t] = "first"
        BY <2>1, <4>3 DEF Deposit, Label, InFn, IInv, TypeOK
      <4> QED
        BY <4>2, <4>4 DEF IsUp
    <3> QED
      BY <3>2, <3>3
  <2>2. ASSUME NEW t \in RxWriters \cup Timers, Latch(t)
        PROVE  rhr' = {}
    BY <2>2 DEF Latch
  <2>3. CASE UNCHANGED rhr /\ \A t \in RxWriters \cup Timers : ~Latch(t)
    BY <1>1, <2>3 DEF KeysComing
  <2>4. UNCHANGED rhr \/ \E t \in RxWriters \cup Timers : Deposit(t) \/ Latch(t)
    BY DEF Next, vars, callVars, Calls, Retry, GiveUp, Access, Leave, StartLed, ShowLeds, StartRx, RxGranted,
           FirstPress, ArmTimers, Interrupt, Report, Decoded, Fire, Tick, ProbePublish
  <2> QED
    BY <2>1, <2>2, <2>3, <2>4
<1>3. rx' # {} => Coming'
  <2>1. ASSUME NEW t \in RxWriters \cup Timers, Latch(t), rhr # {}
        PROVE  Coming'
    <3>1. PICK u \in RxWriters \cup Timers : Pressing(u)
      BY <2>1 DEF KeysComing
    <3>2. UNCHANGED <<fn, due>>
      BY <2>1 DEF Latch
    <3>3. CASE u \in RxWriters
      BY <3>1, <3>2, <3>3 DEF InFn, Coming
    <3>4. CASE u \in Timers
      <4>1. u[1] = "down" /\ Busy(u)
        BY <3>1, <3>4 DEF IsUp, AllTimers, Busy
      <4>2. Release(u) \in Timers /\ due[Release(u)] \in 1..7
        BY <3>4, <4>1 DEF ReleasesDue
      <4>3. IsUp(Release(u)) /\ Pending(Release(u))'
        BY <3>2, <4>2 DEF IsUp, Pending, Off, Release
      <4> QED
        BY <4>2, <4>3 DEF Coming, IsUp
    <3> QED
      BY <3>3, <3>4
  <2>2. ASSUME NEW t \in RxWriters \cup Timers, Latch(t), rx' # {}
        PROVE  Coming'
    BY <2>1, <2>2 DEF Latch
  <2>3. ASSUME rx # {}, \A t \in RxWriters \cup Timers : ~Latch(t)
        PROVE  Coming'
    <3>1. \A tm \in Timers : IsUp(tm) => ~Latch(tm) /\ ~GiveUp(tm)
      <4>1. ASSUME NEW tm \in Timers, GiveUp(tm) PROVE InFn(tm, IRQ)
        BY <4>1 DEF GiveUp, OutOfTries, HandlerCalls, Busy
      <4> QED
        BY <2>3, <4>1
    <3> QED
      BY <2>3, <3>1, ComingStays DEF KeysComing
  <2>4. UNCHANGED rx \/ \E t \in RxWriters \cup Timers : Latch(t)
    BY DEF Next, vars, callVars, Calls, Retry, GiveUp, Access, Leave, StartLed, ShowLeds, StartRx, RxGranted,
           FirstPress, ArmTimers, Interrupt, Deposit, Report, Decoded, Fire, Tick, ProbePublish
  <2> QED
    BY <2>2, <2>3, <2>4
<1> QED
  BY <1>2, <1>3 DEF KeysComing

LEMMA NextHistory == HistoryInv /\ (HNext \/ UNCHANGED historyVars) => HistoryInv'
<1> SUFFICES ASSUME HistoryInv, HNext \/ UNCHANGED historyVars
             PROVE  HistoryInv'
  OBVIOUS
<1>1. [Next]_vars
  BY Zenon DEF HNext, historyVars
<1>2. IInv /\ IInv'
  BY <1>1, NextInv DEF HistoryInv
<1>3. GivenBack' /\ HandleLostByGiveUp'
  BY <1>1, <1>2, NextGivenBack, NextLeaked DEF HistoryInv
<1>4. HandlerCalls' /\ ReleasesDue'
  BY <1>1, <1>2, NextHandlerCalls, NextReleases DEF HistoryInv
<1>5. lost' \/ KeysComing'
  <2>1. CASE lost
    BY <2>1, Zenon DEF HNext, historyVars
  <2>2. ASSUME ~lost, NEW t \in Tasks, GiveUp(t), InFn(t, IRQ)
        PROVE  lost'
    <3>1. OutOfTries(t) /\ pc'[t] = "returning" /\ ~InFn(t, RX) /\ pc[t] # "returning"
      BY <1>2, <2>2 DEF GiveUp, OutOfTries, Label, InFn, RX, IRQ, IInv, TypeOK
    <3>2. HNext
      BY <3>1, Zenon DEF historyVars, vars, callVars
    <3> QED
      BY <2>2, <3>1, <3>2, Zenon DEF HNext, Deserts
  <2>3. CASE ~lost /\ \A t \in Tasks : GiveUp(t) => ~InFn(t, IRQ)
    BY <1>1, <1>2, <2>3, NextKeys DEF HistoryInv
  <2> QED
    BY <2>1, <2>2, <2>3
<1> QED
  BY <1>2, <1>3, <1>4, <1>5 DEF HistoryInv

THEOREM HistoryInvariance == HSpec => []HistoryInv
  BY InitHistory, NextHistory, PTL DEF HSpec

\* However writers and timers contend for the device, its handle is lost exactly
\* when a LED write or the handler has given up on a request that was granted.
THEOREM HandleKept == HSpec => []HandleLostByGiveUp
<1>1. HistoryInv => HandleLostByGiveUp
  BY DEF HistoryInv
<1> QED
  BY HistoryInvariance, <1>1, PTL

\* "simulator is giving the KEY_UP event 200 ms after the KEY_DOWN event": unless
\* the handler has given up, user space knows every key up once all gestures have
\* been played, whatever gestures and LED writes have been going on.
THEOREM KeysReleased == HSpec => []KeyStuckByGiveUp
<1>1. ASSUME HistoryInv, ~lost, Resting
      PROVE  view = {}
  <2>1. \A t \in RxWriters \cup Timers : pc[t] = "idle" /\ ~InFn(t, IRQ)
    BY <1>1, TasksAssumption DEF Resting, HistoryInv, HandlerCalls, Busy, InFn, IRQ
  <2>2. rx = {}
    BY <1>1, <2>1 DEF Resting, Played, HistoryInv, KeysComing, Coming
  <2> QED
    BY <1>1, <2>1, <2>2 DEF HistoryInv, IInv, DecodeInv
<1>2. HistoryInv => KeyStuckByGiveUp
  BY <1>1 DEF KeyStuckByGiveUp, KeyUpGiven
<1> QED
  BY HistoryInvariance, <1>2, PTL
=============================================================================
