------------------------ MODULE InsyncKeypanelProofs ------------------------
(***************************************************************************)
(* The keypanel driver, for any number of writing tasks, keys, rotations   *)
(* and retries, on a single-core and on an SMP build.                      *)
(***************************************************************************)
EXTENDS InsyncKeypanel, SscAccessProofs

LEMMA InitAccess == Init => SscInit
  BY DEF Init

\* A step of the driver is, for the state of the two access functions, a step
\* of those functions or no step at all.
LEMMA NextAccess == [Next]_vars => [SscNext]_sscVars
<1> SUFFICES ASSUME [Next]_vars
             PROVE  [SscNext]_sscVars
  OBVIOUS
<1>1. CASE UNCHANGED vars
  BY <1>1 DEF vars
<1>2. ASSUME NEW t \in Tasks, Writer(t)
      PROVE  RequestCall(t) \/ FreeCall(t) \/ Abandon(t) \/ SscStep(t)
  BY <1>2 DEF Writer, StartWrite, Retry, GiveUp, Transmit, EndWrite, Access
<1>3. CASE ProbePublish
  BY <1>3 DEF ProbePublish, SscNext
<1>4. CASE FrameArrives
  BY <1>4 DEF FrameArrives
<1>5. CASE Isr
  BY <1>5 DEF Isr, IsrEnter, IsrStatus, IsrLatch, IsrKey, IsrSkip, IsrRotary, IsrReturn,
              SscNext
<1> QED
  BY <1>1, <1>2, <1>3, <1>4, <1>5 DEF Next, SscNext

\* The driver uses the handle functions as they ask to be used.
THEOREM AccessImplemented == Spec => SscSpec
  BY InitAccess, NextAccess, PTL DEF Spec, SscSpec

LEMMA AccessInvariance == Spec => []SscInv
  BY AccessImplemented, SscInvariance, PTL

\* However many tasks write LED frames, at most one holds the SSC.
THEOREM Exclusive == Spec => []HandleExclusive
  BY AccessImplemented, SscExclusive, PTL

\* The driver, too, implements the abstract handle.
THEOREM ImplementsHandle == Spec => HandleSpec
  BY AccessImplemented, SscImplementsHandle, PTL

-----------------------------------------------------------------------------
(* Types *)

LEMMA InitType == Init => TypeOK
<1> SUFFICES ASSUME Init PROVE TypeOK
  OBVIOUS
<1>1. SscTypeOK
  BY SscInvInit, InitAccess DEF SscInv
<1>2. Quiet \in Frames
  BY RotationsAssumption DEF Quiet, Frames
<1>3. pc \in [Tasks -> {"idle", "first", "retry", "sent", "failed"}]
  BY DEF Init
<1>4. tries \in [Tasks -> 0..(MaxTries + 1)]
  BY TriesAssumption DEF Init
<1>5. keyId \in 0..NumKeys /\ max \in {FewKeys, NumKeys}
  BY KeysAssumption DEF Init
<1> QED
  BY <1>1, <1>2, <1>3, <1>4, <1>5 DEF Init, TypeOK

LEMMA WriterType ==
  ASSUME TypeOK, SscTypeOK', CallInv, NEW t \in Tasks, Writer(t)
  PROVE  TypeOK'
<1> USE DEF TypeOK, isrVars
<1>1. CASE StartWrite(t)
  BY <1>1, TriesAssumption DEF StartWrite
<1>2. CASE Retry(t)
  <2>1. tries[t] <= MaxTries
    BY <1>2, TriesAssumption DEF Retry, InTime, CallInv
  <2>2. tries[t] + 1 \in 0..(MaxTries + 1)
    BY <2>1, TriesAssumption
  <2> QED
    BY <1>2, <2>2 DEF Retry
<1>3. CASE GiveUp(t)
  BY <1>3 DEF GiveUp
<1>4. CASE Transmit(t)
  BY <1>4 DEF Transmit
<1>5. CASE EndWrite(t)
  BY <1>5 DEF EndWrite
<1>6. CASE Access(t)
  BY <1>6 DEF Access, writerVars
<1> QED
  BY <1>1, <1>2, <1>3, <1>4, <1>5, <1>6 DEF Writer

LEMMA IsrType ==
  ASSUME TypeOK, SscTypeOK', Isr
  PROVE  TypeOK'
<1> USE DEF TypeOK, writerVars
<1>1. CASE IsrEnter
  BY <1>1 DEF IsrEnter, IsrGoto
<1>2. CASE IsrStatus
  BY <1>2 DEF IsrStatus
<1>3. CASE IsrLatch
  <2>1. xor' \subseteq Keys
    BY <1>3 DEF IsrLatch, Differ, Frames
  <2>2. keyId' \in 0..NumKeys /\ max' \in {FewKeys, NumKeys}
    BY <1>3, KeysAssumption DEF IsrLatch, LoopEnd
  <2> QED
    BY <1>3, <2>1, <2>2 DEF IsrLatch, IsrGoto
<1>4. CASE IsrKey
  <2>1. keyId \in Keys /\ keyId' \in 0..NumKeys /\ xor' \subseteq Keys
    BY <1>4, KeysAssumption DEF IsrKey, Looping, Keys
  <2>2. event' \in KeyEvents /\ view' \subseteq Keys
    BY <1>4, <2>1 DEF IsrKey, Dispatch, KeyEvents
  <2> QED
    BY <1>4, <2>1, <2>2 DEF IsrKey
<1>5. CASE IsrSkip
  <2>1. keyId' \in 0..NumKeys
    BY <1>5, KeysAssumption DEF IsrSkip, Looping
  <2> QED
    BY <1>5, <2>1 DEF IsrSkip
<1>6. CASE IsrRotary
  <2>1. event' \in RotaryEvents \cup {event}
    BY <1>6 DEF IsrRotary, RotaryEvents, RotaryId, Frames
  <2> QED
    BY <1>6, <2>1 DEF IsrRotary, IsrGoto
<1>7. CASE IsrReturn
  BY <1>7 DEF IsrReturn, IsrGoto
<1> QED
  BY <1>1, <1>2, <1>3, <1>4, <1>5, <1>6, <1>7 DEF Isr

LEMMA NextType ==
  ASSUME TypeOK, SscInv', CallInv, [Next]_vars
  PROVE  TypeOK'
<1>1. SscTypeOK'
  BY DEF SscInv
<1>2. CASE UNCHANGED vars
  BY <1>1, <1>2 DEF TypeOK, vars, writerVars, isrVars
<1>3. CASE ProbePublish
  BY <1>1, <1>3 DEF TypeOK, ProbePublish, writerVars, isrVars
<1>4. CASE FrameArrives
  BY <1>1, <1>4 DEF TypeOK, FrameArrives, writerVars, isrVars
<1> QED
  BY <1>1, <1>2, <1>3, <1>4, WriterType, IsrType DEF Next

-----------------------------------------------------------------------------
(* Where the tasks are, and the handle *)

\* The steps that are not a writer's leave what CallInv speaks of alone.
LEMMA NotWriter ==
  ASSUME [Next]_vars, ~\E t \in Tasks : Writer(t)
  PROVE  UNCHANGED <<at, kp, user, pc, tries>>
BY DEF Next, ProbePublish, Publish, FrameArrives, Isr, IsrEnter, IsrStatus, IsrLatch, IsrKey,
       IsrSkip, IsrRotary, IsrReturn, OutsideLock, OutsideUnlock, vars, sscVars, writerVars

\* A writer's step only concerns the writer.
LEMMA WriterCall ==
  ASSUME TypeOK, CallInv, NEW t \in Tasks, Writer(t)
  PROVE  CallInv'
<1> SUFFICES ASSUME NEW s \in Tasks
             PROVE  /\ at'[s] \in {"rqspin", "rqlook", "rqtake"} => pc'[s] \in {"first", "retry"}
                    /\ at'[s] \in {"frspin", "frdrop"} => pc'[s] \in {"sent", "failed"}
                    /\ at'[s] = "out" /\ pc'[s] \in {"idle", "sent", "failed"} => ~Holds(s)'
                    /\ pc'[s] = "first" => tries'[s] = 0
  BY DEF CallInv, Holds
<1> USE DEF TypeOK, SscTypeOK, CallInv, Goto, Return, Holds, Ssc0, NoPointer, ErrPtrs
<1>1. CASE StartWrite(t)
  BY <1>1, TriesAssumption DEF StartWrite, RequestCall
<1>2. CASE Retry(t)
  BY <1>2 DEF Retry, RequestCall
<1>3. CASE GiveUp(t)
  BY <1>3 DEF GiveUp, FreeCall
<1>4. CASE Transmit(t)
  BY <1>4 DEF Transmit, FreeCall
<1>5. CASE EndWrite(t)
  BY <1>5 DEF EndWrite, Abandon
<1>6. CASE Access(t)
  BY <1>6 DEF Access, writerVars, SscStep, RequestLock, RequestMissing, RequestBusy,
              RequestFound, RequestTake, FreeLock, FreeDrop, FreeOops
<1> QED
  BY <1>1, <1>2, <1>3, <1>4, <1>5, <1>6 DEF Writer

LEMMA NextCall ==
  ASSUME TypeOK, CallInv, [Next]_vars
  PROVE  CallInv'
<1>1. CASE \E t \in Tasks : Writer(t)
  BY <1>1, WriterCall
<1>2. CASE ~\E t \in Tasks : Writer(t)
  BY <1>2, NotWriter DEF CallInv, Holds
<1> QED
  BY <1>1, <1>2

\* Only taking the device and freeing it change who holds it, and both change
\* user along with it.
LEMMA WriterOwned ==
  ASSUME TypeOK, SscInv, SscInv', CallInv, HandleOwned, NEW t \in Tasks, Writer(t)
  PROVE  HandleOwned'
<1> USE DEF TypeOK, SscTypeOK, Goto, Return, Holds, Ssc0, NoPointer, ErrPtrs
<1>1. CASE UNCHANGED <<user, kp>>
  BY <1>1 DEF HandleOwned
<1>2. CASE RequestMissing(t) \/ RequestBusy(t)
  <2>1. UNCHANGED user /\ \A s \in Tasks : Holds(s)' <=> Holds(s)
    BY <1>2 DEF RequestMissing, RequestBusy, SscInv
  <2> QED
    BY <2>1 DEF HandleOwned
<1>3. CASE RequestTake(t)
  <2>1. user' = 1 /\ Holds(t)'
    BY <1>3 DEF RequestTake, SscInv
  <2> QED
    BY <2>1 DEF HandleOwned
<1>4. CASE FreeDrop(t)
  <2>1. Holds(t) /\ user = 1
    BY <1>4 DEF FreeDrop, SscInv, HandleExclusive
  <2>2. user' = 0
    BY <1>4, <2>1 DEF FreeDrop
  <2>3. \A s \in Tasks : ~Holds(s)'
    BY <2>2 DEF SscInv, HandleExclusive
  <2> QED
    BY <2>2, <2>3 DEF HandleOwned
<1>5. CASE EndWrite(t)
  <2>1. UNCHANGED user /\ \A s \in Tasks : Holds(s)' <=> Holds(s)
    BY <1>5 DEF EndWrite, Abandon, CallInv
  <2> QED
    BY <2>1 DEF HandleOwned
<1> QED
  BY <1>1, <1>2, <1>3, <1>4, <1>5
  DEF Writer, StartWrite, Retry, GiveUp, Transmit, Access, SscStep,
      RequestCall, FreeCall, RequestLock, RequestFound, FreeLock, FreeOops

LEMMA NextOwned ==
  ASSUME TypeOK, SscInv, SscInv', CallInv, HandleOwned, [Next]_vars
  PROVE  HandleOwned'
<1>1. CASE \E t \in Tasks : Writer(t)
  BY <1>1, WriterOwned
<1>2. CASE ~\E t \in Tasks : Writer(t)
  BY <1>2, NotWriter DEF HandleOwned, Holds
<1> QED
  BY <1>1, <1>2

-----------------------------------------------------------------------------
(* The decoder *)

\* Differ is the exclusive or: applying a difference twice undoes it.
LEMMA DifferTwice ==
  ASSUME NEW S, NEW T
  PROVE  Differ(S, Differ(T, S)) = T
BY DEF Differ

\* What is left of a difference when one of its members is flipped.
LEMMA DifferFlip ==
  ASSUME NEW S, NEW X, NEW k \in X
  PROVE  Differ(S, X \ {k}) = Differ(Differ(S, X), {k})
BY DEF Differ

\* The steps that are not the handler's leave the decoder alone.
LEMMA NotIsr ==
  ASSUME [Next]_vars, ~Isr
  PROVE  UNCHANGED isrVars
BY DEF Next, Writer, StartWrite, Retry, GiveUp, Transmit, EndWrite, Access, ProbePublish,
       FrameArrives, vars, writerVars, isrVars

\* An event of the handler flips one key of the picture user space has.
LEMMA KeyFlips ==
  ASSUME TypeOK, DecodeInv, IsrKey
  PROVE  /\ view' = Differ(view, {keyId})
         /\ view' = Differ(rx.keys, xor')
<1>1. view = Differ(rx.keys, xor) /\ keyId \in xor /\ xor' = xor \ {keyId}
  BY DEF IsrKey, DecodeInv, ViewFollowsFrame
<1>2. keyId \in rx.keys => keyId \notin view /\ view' = view \cup {keyId}
  BY <1>1 DEF IsrKey, Dispatch, Differ
<1>3. keyId \notin rx.keys => keyId \in view /\ view' = view \ {keyId}
  BY <1>1 DEF IsrKey, Dispatch, Differ
<1>4. view' = Differ(view, {keyId})
  BY <1>2, <1>3 DEF Differ
<1>5. Differ(rx.keys, xor') = Differ(Differ(rx.keys, xor), {keyId})
  BY <1>1, DifferFlip
<1> QED
  BY <1>1, <1>4, <1>5

LEMMA IsrDecode ==
  ASSUME TypeOK, DecodeInv, Isr
  PROVE  DecodeInv'
<1> USE DEF DecodeInv, ViewFollowsFrame
<1>1. CASE IsrEnter
  BY <1>1 DEF IsrEnter, IsrGoto
<1>2. CASE IsrStatus
  BY <1>2 DEF IsrStatus
<1>3. CASE IsrLatch
  <2>1. view = rx.keys /\ rx' = rhr /\ ipc' = "keys" /\ view' = view
    BY <1>3 DEF IsrLatch, IsrGoto
  <2>2. xor' = Differ(rhr.keys, rx.keys) /\ xor' \subseteq Keys
    BY <1>3 DEF IsrLatch, TypeOK, Frames, Differ
  <2>3. view' = Differ(rx'.keys, xor')
    BY <2>1, <2>2 DEF Differ
  <2>4. \A k \in xor' : keyId' <= k /\ k < max'
    BY <1>3, <2>2, KeysAssumption DEF IsrLatch, LoopEnd, Keys
  <2> QED
    BY <2>1, <2>3, <2>4
<1>4. CASE IsrKey
  <2>1. view' = Differ(rx'.keys, xor') /\ ipc' = "keys"
    BY <1>4, KeyFlips DEF IsrKey
  <2>2. \A k \in xor' : keyId' <= k /\ k < max'
    <3> TAKE k \in xor'
    <3>0. k \in xor /\ k # keyId
      BY <1>4 DEF IsrKey
    <3>1. k \in xor /\ k # keyId /\ k \in Nat /\ keyId \in Nat
      BY <3>0, KeysAssumption DEF TypeOK, Keys
    <3>2. keyId <= k /\ k < max
      BY <1>4, <3>1 DEF IsrKey
    <3> QED
      BY <1>4, <3>1, <3>2 DEF IsrKey
  <2> QED
    BY <2>1, <2>2
<1>5. CASE IsrSkip
  <2>1. \A k \in xor : keyId + 1 <= k /\ k < max
    BY <1>5 DEF IsrSkip, TypeOK, Keys
  <2> QED
    BY <1>5, <2>1 DEF IsrSkip
<1>6. CASE IsrRotary
  <2>1. xor = {}
    <3>1. \A k \in xor : keyId < max
      BY <1>6, KeysAssumption DEF IsrRotary, IsrGoto, TypeOK, Keys
    <3> QED
      BY <1>6, <3>1 DEF IsrRotary, Looping
  <2>2. view = rx.keys
    BY <1>6, <2>1 DEF IsrRotary, IsrGoto, Differ
  <2> QED
    BY <1>6, <2>1, <2>2 DEF IsrRotary, IsrGoto
<1>7. CASE IsrReturn
  BY <1>7 DEF IsrReturn, IsrGoto
<1> QED
  BY <1>1, <1>2, <1>3, <1>4, <1>5, <1>6, <1>7 DEF Isr

LEMMA NextDecode ==
  ASSUME TypeOK, DecodeInv, [Next]_vars
  PROVE  DecodeInv'
<1>1. CASE Isr
  BY <1>1, IsrDecode
<1>2. CASE ~Isr
  BY <1>2, NotIsr DEF DecodeInv, ViewFollowsFrame, isrVars
<1> QED
  BY <1>1, <1>2

-----------------------------------------------------------------------------
(* The invariant, and what follows from it *)

LEMMA InitInv == Init => IInv
<1> SUFFICES ASSUME Init PROVE IInv
  OBVIOUS
<1>1. SscInv
  BY SscInvInit, InitAccess
<1>2. \A t \in Tasks : at[t] = "out" /\ ~Holds(t) /\ pc[t] = "idle"
  BY DEF Init, SscInit, Holds, NoPointer, Ssc0
<1>3. CallInv
  BY <1>2 DEF CallInv
<1>4. HandleOwned
  BY <1>2 DEF HandleOwned, Init, SscInit
<1>5. DecodeInv
  BY DEF Init, Quiet, DecodeInv, ViewFollowsFrame
<1> QED
  BY <1>1, <1>3, <1>4, <1>5, InitType DEF IInv

LEMMA NextInv == IInv /\ [Next]_vars => IInv'
<1> SUFFICES ASSUME IInv, [Next]_vars
             PROVE  IInv'
  OBVIOUS
<1> USE DEF IInv
<1>1. SscInv'
  BY SscInvNext, NextAccess
<1>2. TypeOK'
  BY <1>1, NextType
<1>3. CallInv'
  BY NextCall
<1>4. HandleOwned'
  BY <1>1, NextOwned
<1>5. DecodeInv'
  BY NextDecode
<1> QED
  BY <1>1, <1>2, <1>3, <1>4, <1>5

\* The inductive invariant of the driver.
THEOREM Invariance == Spec => []IInv
  BY InitInv, NextInv, PTL DEF Spec

\* The state of the driver keeps its types: no counter, pointer or key index
\* leaves its range.
THEOREM TypeCorrect == Spec => []TypeOK
<1>1. IInv => TypeOK
  BY DEF IInv
<1> QED
  BY Invariance, <1>1, PTL

\* The device is in use exactly while a task holds it: write_LED_dataframe
\* never loses the handle, whatever its retries come to.
THEOREM Owned == Spec => []HandleOwned
<1>1. IInv => HandleOwned
  BY DEF IInv
<1> QED
  BY Invariance, <1>1, PTL

\* The events add up to the key states of the last frame read, up to the
\* changes the handler is still to report.
THEOREM ViewCorrect == Spec => []ViewFollowsFrame
<1>1. IInv => ViewFollowsFrame
  BY DEF IInv, DecodeInv
<1> QED
  BY Invariance, <1>1, PTL

\* Stopping the loop at max, 10 or 19 in the code, never leaves a change out.
THEOREM LoopComplete == Spec => []NoChangeLeft
<1>1. IInv => NoChangeLeft
  BY DEF IInv, DecodeInv, NoChangeLeft
<1> QED
  BY Invariance, <1>1, PTL

\* No key event repeats what user space knows.
THEOREM NoRepetition == Spec => NoRedundantEvent
<1>1. IInv /\ [Next]_vars => [IsrKey => view' # view]_vars
  <2> SUFFICES ASSUME IInv, IsrKey
               PROVE  view' # view
    OBVIOUS
  <2>1. view' = Differ(view, {keyId})
    BY KeyFlips DEF IInv
  <2> QED
    BY <2>1 DEF Differ
<1> QED
  BY Invariance, <1>1, PTL DEF Spec, NoRedundantEvent

\* The transmit register is written by one task, which holds the device alone.
THEOREM Serialized == Spec => SerializedAccess
<1>1. IInv /\ [Next]_vars => [SerializedStep]_vars
  <2> SUFFICES ASSUME IInv, Next, thr' # thr
               PROVE  \E t \in Tasks : /\ Holds(t) /\ thr' = led[t]
                                       /\ \A s \in Tasks \ {t} : ~Holds(s)
    BY DEF SerializedStep
  <2>1. PICK t \in Tasks : Transmit(t)
    BY DEF Next, Writer, StartWrite, Retry, GiveUp, EndWrite, Access, ProbePublish,
           FrameArrives, Isr, IsrEnter, IsrStatus, IsrLatch, IsrKey, IsrSkip, IsrRotary,
           IsrReturn
  <2>2. Holds(t) /\ thr' = led[t]
    BY <2>1 DEF Transmit
  <2>3. \A s \in Tasks \ {t} : ~Holds(s)
    BY <2>2 DEF IInv, SscInv, HandleExclusive
  <2> QED
    BY <2>2, <2>3
<1> QED
  BY Invariance, <1>1, PTL DEF Spec, SerializedAccess

-----------------------------------------------------------------------------
(* The refinement of the key tracker *)

LEMMA TrackerStep ==
  ASSUME IInv, IInv', [Next]_vars
  PROVE  [Tracker!Next]_<<rx.keys, view>>
<1> USE DEF IInv
<1>1. CASE ~Isr
  BY <1>1, NotIsr DEF isrVars
<1>2. CASE IsrLatch
  <2>1. view = rx.keys /\ UNCHANGED view /\ rx' = rhr
    BY <1>2 DEF IsrLatch, IsrGoto, DecodeInv, ViewFollowsFrame
  <2>2. rx'.keys \in SUBSET Keys
    BY DEF TypeOK, Frames
  <2>3. Tracker!Latch(rx'.keys)
    BY <2>1 DEF Tracker!Latch
  <2> QED
    BY <2>2, <2>3 DEF Tracker!Next
<1>3. CASE IsrKey
  <2>1. view = Differ(rx.keys, xor) /\ keyId \in xor /\ keyId \in Keys /\ UNCHANGED rx
    BY <1>3 DEF IsrKey, DecodeInv, ViewFollowsFrame, TypeOK
  <2>2. keyId \in Tracker!Differ(view, rx.keys)
    BY <2>1 DEF Differ, Tracker!Differ
  <2>3. view' = Tracker!Differ(view, {keyId})
    BY <1>3, KeyFlips DEF Differ, Tracker!Differ
  <2> QED
    BY <2>1, <2>2, <2>3 DEF Tracker!Report, Tracker!Next
<1>4. CASE IsrEnter \/ IsrStatus \/ IsrSkip \/ IsrRotary \/ IsrReturn
  BY <1>4 DEF IsrEnter, IsrStatus, IsrSkip, IsrRotary, IsrReturn
<1> QED
  BY <1>1, <1>2, <1>3, <1>4 DEF Isr

\* The interrupt handler implements the key tracker: a frame is latched only
\* when the last one has been told in full, and then told key by key.
THEOREM ImplementsTracker == Spec => TrackerSpec
<1>1. Init => Tracker!Init
  BY DEF Init, Quiet, Tracker!Init
<1>2. IInv /\ IInv' /\ [Next]_vars => [Tracker!Next]_<<rx.keys, view>>
  BY TrackerStep
<1> QED
  BY <1>1, <1>2, Invariance, PTL DEF Spec, TrackerSpec, Tracker!Spec
=============================================================================
