-------------------------- MODULE SscAccessProofs --------------------------
(***************************************************************************)
(* For any set of tasks: the SSC handle is exclusive, and the code of      *)
(* in_ssc_request and in_ssc_free implements the abstract handle.          *)
(***************************************************************************)
EXTENDS SscAccess, TLAPS

LEMMA SscInvInit == SscInit => SscInv
<1> SUFFICES ASSUME SscInit PROVE SscInv
  OBVIOUS
<1>1. SscTypeOK
  <2>1. user \in 0..1
    BY DEF SscInit
  <2>2. listed \in BOOLEAN
    BY DEF SscInit
  <2>3. at \in [Tasks -> Places] /\ kp \in [Tasks -> Pointers]
    BY DEF SscInit, Places, Pointers, NoPointer
  <2> QED
    BY <2>1, <2>2, <2>3 DEF SscInit, SscTypeOK
<1>2. \A t \in Tasks : at[t] = "out" /\ ~Holds(t)
  BY DEF SscInit, Holds, NoPointer, Ssc0
<1> QED
  BY <1>1, <1>2 DEF SscInv, HandleExclusive, Critical

\* Every step of the two functions, and every step around them, keeps SscInv.
LEMMA SscInvNext == SscInv /\ [SscNext]_sscVars => SscInv'
<1> SUFFICES ASSUME SscInv, [SscNext]_sscVars
             PROVE  SscInv'
  OBVIOUS
<1> USE NobodyAssumption DEF Goto, Take, Unlock, Return, Holds, Critical, Places,
        Pointers, NoPointer, Ssc0, ErrPtrs
<1>1. CASE UNCHANGED sscVars
  BY <1>1 DEF sscVars, SscInv, SscTypeOK, HandleExclusive
<1>2. ASSUME NEW t \in Tasks, RequestCall(t) PROVE SscInv'
  BY <1>2 DEF RequestCall, SscInv, SscTypeOK, HandleExclusive
<1>3. ASSUME NEW t \in Tasks, FreeCall(t) PROVE SscInv'
  BY <1>3 DEF FreeCall, SscInv, SscTypeOK, HandleExclusive
<1>4. ASSUME NEW t \in Tasks, Abandon(t) PROVE SscInv'
  BY <1>4 DEF Abandon, SscInv, SscTypeOK, HandleExclusive
<1>5. ASSUME NEW t \in Tasks, RequestLock(t) PROVE SscInv'
  BY <1>5 DEF RequestLock, SscInv, SscTypeOK, HandleExclusive
<1>6. ASSUME NEW t \in Tasks, RequestMissing(t) PROVE SscInv'
  BY <1>6 DEF RequestMissing, SscInv, SscTypeOK, HandleExclusive
<1>7. ASSUME NEW t \in Tasks, RequestBusy(t) PROVE SscInv'
  BY <1>7 DEF RequestBusy, SscInv, SscTypeOK, HandleExclusive
<1>8. ASSUME NEW t \in Tasks, RequestFound(t) PROVE SscInv'
  BY <1>8 DEF RequestFound, SscInv, SscTypeOK, HandleExclusive
<1>9. ASSUME NEW t \in Tasks, RequestTake(t) PROVE SscInv'
  BY <1>9 DEF RequestTake, SscInv, SscTypeOK, HandleExclusive
<1>10. ASSUME NEW t \in Tasks, FreeLock(t) PROVE SscInv'
  BY <1>10 DEF FreeLock, SscInv, SscTypeOK, HandleExclusive
<1>11. ASSUME NEW t \in Tasks, FreeDrop(t) PROVE SscInv'
  BY <1>11 DEF FreeDrop, SscInv, SscTypeOK, HandleExclusive
<1>12. ASSUME NEW t \in Tasks, FreeOops(t) PROVE SscInv'
  BY <1>12 DEF FreeOops, SscInv, SscTypeOK, HandleExclusive
<1>13. CASE Publish \/ OutsideLock \/ OutsideUnlock
  BY <1>13 DEF Publish, OutsideLock, OutsideUnlock, SscInv, SscTypeOK, HandleExclusive
<1> QED
  BY <1>1, <1>2, <1>3, <1>4, <1>5, <1>6, <1>7, <1>8, <1>9, <1>10, <1>11, <1>12, <1>13
  DEF SscNext, SscStep

\* The inductive invariant holds in every behaviour of the two functions.
THEOREM SscInvariance == SscSpec => []SscInv
  BY SscInvInit, SscInvNext, PTL DEF SscSpec

\* However many tasks call in_ssc_request and in_ssc_free in whatever order,
\* at most one holds the SSC, and user is 1 while it does.
THEOREM SscExclusive == SscSpec => []HandleExclusive
<1>1. SscInv => HandleExclusive
  BY DEF SscInv
<1> QED
  BY SscInvariance, <1>1, PTL

-----------------------------------------------------------------------------
\* With one holder at most, the owner is whoever holds the handle.
LEMMA OwnerOfHeld ==
  ASSUME HandleExclusive, NEW t \in Tasks, Holds(t)
  PROVE  Owner = t
BY DEF HandleExclusive, Owner

LEMMA OwnerOfFree ==
  ASSUME \A t \in Tasks : ~Holds(t)
  PROVE  Owner = Nobody
BY DEF Owner

\* Steps that leave the pointers of all the tasks as they are, as far as
\* holding goes, leave the owner.
LEMMA OwnerUnchanged ==
  ASSUME HandleExclusive, HandleExclusive',
         \A t \in Tasks : Holds(t)' <=> Holds(t)
  PROVE  Owner' = Owner
<1>1. CASE \E t \in Tasks : Holds(t)
  <2>1. PICK t \in Tasks : Holds(t)
    BY <1>1
  <2>2. Owner = t
    BY <2>1, OwnerOfHeld
  <2>3. Holds(t)'
    BY <2>1
  <2>4. Owner' = t
    BY <2>3 DEF HandleExclusive, Owner
  <2> QED
    BY <2>2, <2>4
<1>2. CASE \A t \in Tasks : ~Holds(t)
  BY <1>2 DEF Owner
<1> QED
  BY <1>1, <1>2

\* Every step of the code is a step of the abstract handle or leaves it alone.
LEMMA HandleStep ==
  ASSUME SscInv, SscInv', [SscNext]_sscVars
  PROVE  [Handle!Next]_Owner
<1> USE DEF Goto, Return
<1>a. HandleExclusive /\ HandleExclusive' /\ kp \in [Tasks -> Pointers]
  BY DEF SscInv, SscTypeOK
<1>1. CASE UNCHANGED kp
  <2>1. \A t \in Tasks : Holds(t)' <=> Holds(t)
    BY <1>1 DEF Holds
  <2> QED
    BY <2>1, <1>a, OwnerUnchanged
<1>2. ASSUME NEW t \in Tasks, RequestMissing(t) \/ RequestBusy(t)
      PROVE  Owner' = Owner
  <2>1. at[t] = "rqlook" /\ ~Holds(t) /\ ~Holds(t)'
    BY <1>2, <1>a DEF RequestMissing, RequestBusy, SscInv, Holds, Ssc0
  <2>2. \A s \in Tasks : Holds(s)' <=> Holds(s)
    BY <1>2, <1>a, <2>1 DEF RequestMissing, RequestBusy, Holds
  <2> QED
    BY <2>2, <1>a, OwnerUnchanged
<1>3. ASSUME NEW t \in Tasks, RequestTake(t)
      PROVE  Handle!Acquire(t)
  <2>1. user = 0
    BY <1>3 DEF RequestTake, SscInv
  <2>2. \A s \in Tasks : ~Holds(s)
    BY <2>1, <1>a DEF HandleExclusive
  <2>3. Owner = Nobody
    BY <2>2, OwnerOfFree
  <2>4. Holds(t)'
    BY <1>3, <1>a DEF RequestTake, Holds
  <2>5. Owner' = t
    BY <2>4, <1>a DEF HandleExclusive, Owner
  <2> QED
    BY <2>3, <2>5 DEF Handle!Acquire
<1>4. ASSUME NEW t \in Tasks, FreeDrop(t) \/ (Abandon(t) /\ Holds(t))
      PROVE  Handle!Release(t)
  <2>1. Holds(t) /\ ~Holds(t)'
    BY <1>4, <1>a DEF FreeDrop, Abandon, Holds, Ssc0, NoPointer
  <2>2. Owner = t
    BY <2>1, <1>a, OwnerOfHeld
  <2>3. \A s \in Tasks : ~Holds(s)'
    BY <1>4, <2>1, <1>a DEF FreeDrop, Abandon, Holds, HandleExclusive
  <2>4. Owner' = Nobody
    BY <2>3 DEF Owner
  <2> QED
    BY <2>2, <2>4 DEF Handle!Release
<1>5. ASSUME NEW t \in Tasks, Abandon(t), ~Holds(t)
      PROVE  Owner' = Owner
  <2>1. \A s \in Tasks : Holds(s)' <=> Holds(s)
    BY <1>5, <1>a DEF Abandon, Holds, Ssc0, NoPointer
  <2> QED
    BY <2>1, <1>a, OwnerUnchanged
<1> QED
  BY <1>1, <1>2, <1>3, <1>4, <1>5
  DEF SscNext, SscStep, sscVars, RequestCall, FreeCall, RequestLock, RequestFound,
      FreeLock, FreeOops, Publish, OutsideLock, OutsideUnlock, Handle!Next

\* in_ssc_request and in_ssc_free implement the abstract handle: the device
\* passes from one task to another only through being free.
THEOREM SscImplementsHandle == SscSpec => HandleSpec
<1>1. SscInit => Handle!Init
  BY DEF SscInit, Handle!Init, Owner, Holds, NoPointer, Ssc0
<1>2. SscInv /\ SscInv' /\ [SscNext]_sscVars => [Handle!Next]_Owner
  BY HandleStep
<1> QED
  BY <1>1, <1>2, SscInvariance, PTL DEF SscSpec, HandleSpec, Handle!Spec
=============================================================================
