----------------------------- MODULE SscAccess -----------------------------
(***************************************************************************)
(* in_ssc_request and in_ssc_free, the two functions through which every   *)
(* user of the SSC in the two keypanel drivers goes, as the steps of the   *)
(* tasks that execute them.  The critical sections are not atomic: user is *)
(* tested in one step and incremented in another, and it is the spinlock   *)
(* user_lock that must keep the two together.                              *)
(*                                                                         *)
(* The drivers EXTEND this module: what they call is RequestCall and       *)
(* FreeCall, what they read is the pointer kp[t].                          *)
(***************************************************************************)
EXTENDS Naturals

CONSTANTS
    Tasks,     \* every thread of control that calls the two functions
    Nobody,    \* the holder of a spinlock that is not taken
    Outside,   \* the holder of user_lock when a path outside this module has it
    SmpBuild   \* TRUE: spin_lock excludes; FALSE: it compiles to preempt_disable

ASSUME NobodyAssumption == Nobody \notin Tasks /\ Outside \notin Tasks /\ Nobody # Outside
ASSUME SmpAssumption == SmpBuild \in BOOLEAN

VARIABLES
    listed,   \* device 0 is on ssc_list
    user,     \* ssc->user
    lock,     \* who holds user_lock
    at,       \* where a task is in in_ssc_request (rq*) or in_ssc_free (fr*)
    kp        \* the task's "keypanel" pointer

sscVars == <<listed, user, lock, at, kp>>

NoPointer == "none"
Ssc0      == "ssc0"
ErrPtrs   == {"ENODEV", "EBUSY"}
Pointers  == {NoPointer, Ssc0} \cup ErrPtrs

Places == {"out", "rqspin", "rqlook", "rqtake", "frspin", "frdrop", "oops"}

\* The places at which a task is between its spin_lock and its spin_unlock.
Critical == {"rqlook", "rqtake", "frdrop"}

\* The task may use the device.
Holds(t) == kp[t] = Ssc0

SscInit ==
    /\ listed = FALSE
    /\ user = 0
    /\ lock = Nobody
    /\ at = [t \in Tasks |-> "out"]
    /\ kp = [t \in Tasks |-> NoPointer]

Goto(t, from, to) ==
    /\ at[t] = from
    /\ at' = [at EXCEPT ![t] = to]

Take(t)   == lock = Nobody /\ lock' = t
Unlock    == lock' = Nobody
Return(t, ptr) == kp' = [kp EXCEPT ![t] = ptr]

-----------------------------------------------------------------------------
(* in_ssc_request( 0 ) *)

RequestCall(t) ==
    /\ ~Holds(t)
    /\ Goto(t, "out", "rqspin")
    /\ UNCHANGED <<listed, user, lock, kp>>

\* (mutant: the list and user are read without the lock)
RequestLockFree(t) ==
    /\ lock' = t
    /\ Goto(t, "rqspin", "rqlook")
    /\ UNCHANGED <<listed, user, kp>>

RequestLock(t) ==
    /\ Take(t)
    /\ Goto(t, "rqspin", "rqlook")
    /\ UNCHANGED <<listed, user, kp>>

\* The list search fails.
RequestMissing(t) ==
    /\ ~listed
    /\ Goto(t, "rqlook", "out")
    /\ Return(t, "ENODEV")
    /\ Unlock
    /\ UNCHANGED <<listed, user>>

RequestBusy(t) ==
    /\ listed /\ user # 0
    /\ Goto(t, "rqlook", "out")
    /\ Return(t, "EBUSY")
    /\ Unlock
    /\ UNCHANGED <<listed, user>>

\* (mutant: the busy test is left out)
RequestFoundAnyUser(t) ==
    /\ listed
    /\ Goto(t, "rqlook", "rqtake")
    /\ UNCHANGED <<listed, user, lock, kp>>

RequestFound(t) ==
    /\ listed /\ user = 0
    /\ Goto(t, "rqlook", "rqtake")
    /\ UNCHANGED <<listed, user, lock, kp>>

RequestTake(t) ==
    /\ Goto(t, "rqtake", "out")
    /\ user' = user + 1
    /\ Return(t, Ssc0)
    /\ Unlock
    /\ UNCHANGED listed

-----------------------------------------------------------------------------
(* in_ssc_free( keypanel ) *)

FreeCall(t) ==
    /\ kp[t] # NoPointer
    /\ Goto(t, "out", "frspin")
    /\ UNCHANGED <<listed, user, lock, kp>>

FreeLock(t) ==
    /\ Take(t)
    /\ Goto(t, "frspin", "frdrop")
    /\ UNCHANGED <<listed, user, kp>>

FreeDrop(t) ==
    /\ Holds(t)
    /\ Goto(t, "frdrop", "out")
    /\ user' = IF user # 0 THEN user - 1 ELSE user
    /\ Return(t, NoPointer)
    /\ Unlock
    /\ UNCHANGED listed

\* "ssc->user" of an ERR_PTR: the task dies where it is.  A spinlock that is
\* real stays taken; one that is only preempt_disable dies with the task.
FreeOops(t) ==
    /\ kp[t] \in ErrPtrs
    /\ Goto(t, "frdrop", "oops")
    /\ lock' = IF SmpBuild THEN lock ELSE Nobody
    /\ UNCHANGED <<listed, user, kp>>

SscStep(t) ==
    \/ RequestLock(t) \/ RequestMissing(t) \/ RequestBusy(t)
    \/ RequestFound(t) \/ RequestTake(t)
    \/ FreeLock(t) \/ FreeDrop(t) \/ FreeOops(t)

-----------------------------------------------------------------------------
(* What else the drivers do to this state *)

\* A caller returns: its local variable "keypanel" is gone, whatever it held.
Abandon(t) ==
    /\ at[t] = "out"
    /\ Return(t, NoPointer)
    /\ UNCHANGED <<listed, user, lock, at>>

\* probe(): spin_lock; list_add_tail; spin_unlock.
Publish ==
    /\ lock = Nobody
    /\ listed' = TRUE
    /\ UNCHANGED <<user, lock, at, kp>>

\* A path that takes user_lock for its own ends: the interrupt handler.
OutsideLock ==
    /\ Take(Outside)
    /\ UNCHANGED <<listed, user, at, kp>>

OutsideUnlock ==
    /\ lock = Outside
    /\ Unlock
    /\ UNCHANGED <<listed, user, at, kp>>

SscNext ==
    \/ \E t \in Tasks : RequestCall(t) \/ FreeCall(t) \/ Abandon(t) \/ SscStep(t)
    \/ Publish \/ OutsideLock \/ OutsideUnlock

SscSpec == SscInit /\ [][SscNext]_sscVars

-----------------------------------------------------------------------------
\* The types of what the two functions work on; user is 0 or 1.
SscTypeOK ==
    /\ listed \in BOOLEAN
    /\ user \in 0..1
    /\ lock \in Tasks \cup {Nobody, Outside}
    /\ at \in [Tasks -> Places]
    /\ kp \in [Tasks -> Pointers]

\* At most one task at a time holds the SSC, and user says so: the claim of
\* the comment "for serialized access to the SSC".
HandleExclusive ==
    /\ \A s, t \in Tasks : Holds(s) /\ Holds(t) => s = t
    /\ \A t \in Tasks : Holds(t) => user = 1

\* Why: a task between spin_lock and spin_unlock has the lock, so what it read
\* of user when it looked is still so when it takes the device.
SscInv ==
    /\ SscTypeOK
    /\ HandleExclusive
    /\ \A t \in Tasks : at[t] \in Critical => lock = t
    /\ \A t \in Tasks : at[t] = "rqtake" => user = 0
    /\ \A t \in Tasks : at[t] \in {"rqspin", "rqlook", "rqtake"} => ~Holds(t)

\* The owner of the handle, for the refinement of SscHandle.
Owner == IF \E t \in Tasks : Holds(t) THEN CHOOSE t \in Tasks : Holds(t) ELSE Nobody

Handle == INSTANCE SscHandle WITH owner <- Owner

\* The two functions hand the device from task to task only through being
\* free: they implement the abstract handle.
HandleSpec == Handle!Spec
=============================================================================
