----------------------------- MODULE SscHandle -----------------------------
(***************************************************************************)
(* What the pair in_ssc_request / in_ssc_free promises its callers: "for   *)
(* serialized access to the SSC" (insync_keypanel.c:34), the one device is *)
(* owned by at most one task, and passes from hand to hand only through    *)
(* being free.  SscAccess is the code that is shown to implement this.     *)
(***************************************************************************)
CONSTANTS
    Tasks,   \* the tasks that may ask for the handle
    Nobody   \* the owner of a free device

VARIABLE owner

Init == owner = Nobody

Acquire(t) ==
    /\ owner = Nobody
    /\ owner' = t

Release(t) ==
    /\ owner = t
    /\ owner' = Nobody

Next == \E t \in Tasks : Acquire(t) \/ Release(t)

Spec == Init /\ [][Next]_owner
=============================================================================
