--------------------------- MODULE VKeypanelHistory ---------------------------
(***************************************************************************)
(* The virtual keypanel with two bits of history about the calls that run  *)
(* out of tries.  Contention alone, however the calls interleave, does no  *)
(* harm; what a call that gives up leaves behind is another matter.        *)
(***************************************************************************)
EXTENDS VKeypanel

VARIABLES
    leaked,   \* a LED write or the handler has given up with the device in hand
    lost      \* the handler has given up, and its frame was not delivered

historyVars == <<vars, leaked, lost>>

\* A call other than write_RX_data, which frees the device first, returns
\* because it has run out of tries.
Deserts(t) == OutOfTries(t) /\ ~InFn(t, RX) /\ pc'[t] = "returning"

HInit == Init /\ leaked = FALSE /\ lost = FALSE

HNext ==
    /\ Next
    /\ leaked' = (leaked \/ \E t \in Tasks : Deserts(t) /\ Holds(t))
    /\ lost' = (lost \/ \E t \in Tasks : Deserts(t) /\ InFn(t, IRQ))

HSpec == HInit /\ [][HNext]_historyVars

-----------------------------------------------------------------------------
\* The device is marked in use exactly while a task holds it.
HandleOwned == user = 1 <=> \E t \in Tasks : Holds(t)

\* However writers and timers contend for the device, its handle is lost by one
\* thing only, and for ever: a call that gives up although its last request was
\* granted.  Every other path through in_ssc_request and in_ssc_free gives back
\* what it took.
HandleLostByGiveUp == leaked <=> ~HandleOwned

\* "simulator is giving the KEY_UP event 200 ms after the KEY_DOWN event", in
\* contention with other gestures and LED writes: when all gestures have been
\* played, a key is only still down because the handler has once given up.
KeyUpGiven == Resting => view = {}
KeyStuckByGiveUp == lost \/ KeyUpGiven

-----------------------------------------------------------------------------
\* Why the handle is lost by nothing else: a task that is past its use of the
\* device, or has not begun, has it only while it is in in_ssc_free.
GivenBack ==
    \A t \in Tasks :
        pc[t] \in {"idle", "granted", "deposit", "returning"} /\ at[t] = "out" => ~Holds(t)

\* Why a key comes up.  A writer has a gesture as long as it is busy, and a timer
\* does nothing but call the handler, which never frees an error pointer.
Busy(t) == pc[t] # "idle"
HandlerCalls ==
    /\ \A t \in RxWriters \cup Timers : Busy(t) <=> ~InFn(t, "none")
    /\ \A w \in RxWriters : Busy(w) => gesture[w] # "none"
    /\ \A tm \in Timers : Busy(tm) => InFn(tm, IRQ)
    /\ \A t \in Tasks : pc[t] = "deposit" => InFn(t, IRQ)
    /\ \A t \in Tasks : at[t] = "oops" => pc[t] \in {"granted", "returning"}
    /\ \A t \in RxWriters \cup Timers :
         InFn(t, IRQ) => at[t] # "oops" /\ (at[t] \in {"frspin", "frdrop"} => Holds(t))

\* The release of a timed press is pending until the press is over.
IsUp(t) == t \in Timers /\ t[1] = "up"
Release(tm) == <<"up", tm[2]>>
ReleasesDue ==
    /\ \A tm \in Timers : IsUp(tm) => data[tm] = {}
    /\ \A tm \in Timers : tm[1] = "down" =>
         /\ Pending(tm) => Release(tm) \in Timers /\ due[Release(tm)] \in due[tm] + 1 .. 7
         /\ Busy(tm) => Release(tm) \in Timers /\ due[Release(tm)] \in 1..7

\* A key in the register has its presser on the way to the latch, and a key in
\* rx_frame its release still to come.
Coming ==
    \/ \E w \in RxWriters : InFn(w, IRQ)
    \/ \E tm \in Timers : IsUp(tm) /\ (Pending(tm) \/ pc[tm] \in {"deposit", "first", "retry"})
KeysComing ==
    /\ rhr # {} => \E t \in RxWriters \cup Timers :
                       ~IsUp(t) /\ InFn(t, IRQ) /\ pc[t] \in {"first", "retry"}
    /\ rx # {} => Coming

\* The inductive invariant.
HistoryInv ==
    /\ IInv
    /\ GivenBack /\ HandleLostByGiveUp
    /\ HandlerCalls /\ ReleasesDue
    /\ lost \/ KeysComing
=============================================================================
