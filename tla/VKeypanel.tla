------------------------------ MODULE VKeypanel ------------------------------
(***************************************************************************)
(* The virtual keypanel vkeypanel.c: the driver with the SSC taken out.    *)
(* Tasks write LED frames to TX_DATA and key gestures to RX_DATA; a        *)
(* gesture is a first KEY_DOWN, given at once, and the timers that give    *)
(* the KEY_UPs and the further KEY_DOWNs.  The interrupt handler is an     *)
(* ordinary function, called by the gesture writer and by the timers, that *)
(* asks for the device handle like everybody else.                         *)
(*                                                                         *)
(* The per-key loop of process_RX_data_frame is the one InsyncKeypanel     *)
(* takes bit by bit; here it is one step per changed key, lowest first.    *)
(* Its branch for a rotary value is left out (InsyncKeypanel has it): a    *)
(* gesture is of a key of the panel, and its frames, 1 << key and 0, have  *)
(* no rotary bits.                                                         *)
(***************************************************************************)
EXTENDS SscAccess, FiniteSetsExt

CONSTANTS
    LedWriters,  \* the tasks that write TX_DATA
    RxWriters,   \* the tasks that write RX_DATA
    Timers,      \* the timers, which run as tasks of their own
    MaxTries,    \* 7 in the code
    Keys,        \* the keys a gesture may press
    Gestures     \* the gestures used, out of DOMAIN Presses

\* How often a gesture presses its key.
Presses == [SINGLE_PRESS |-> 1, DOUBLE_PRESS |-> 2, TRIPLE_PRESS |-> 3,
            QUAD_PRESS |-> 4, PRESS_AND_HOLD |-> 1]

\* tm_up1, then tm_down[i-2] and tm_up[i-2] for the presses 2, 3 and 4.
AllTimers == {<<"up", 1>>} \cup ({"down", "up"} \X (2..4))

ASSUME TasksAssumption ==
    /\ Timers \subseteq AllTimers
    /\ Tasks = LedWriters \cup RxWriters \cup Timers
    /\ LedWriters \cap RxWriters = {} /\ (LedWriters \cup RxWriters) \cap Timers = {}
ASSUME TriesAssumption == MaxTries \in Nat
ASSUME KeysAssumption == Keys \subseteq Nat
ASSUME GesturesAssumption ==
    /\ Gestures \subseteq DOMAIN Presses
    /\ \A g \in Gestures : {tm \in AllTimers : tm[2] <= Presses[g]} \subseteq Timers

\* Time is counted in steps of IN_SIM_KEY_UP_TIME, 200 jiffies: two to the
\* next press, six to the release of a key that is held.
UpTime(g)   == IF g = "PRESS_AND_HOLD" THEN 6 ELSE 1
Delay(g, tm) ==
    IF tm = <<"up", 1>> THEN UpTime(g)
    ELSE 2 * (tm[2] - 1) + (IF tm[1] = "up" THEN 1 ELSE 0)

Off == 99  \* the "due" of a timer that is not pending

VARIABLES
    fn,       \* the driver function a task is in
    pc,       \* where it is in that function
    tries,    \* the local counter of the function
    gesture,  \* what a gesture writer is writing
    data,     \* the frame an interrupt is to deliver, as a set of keys
    xor,      \* the changed keys still to be reported
    due,      \* the time until a timer expires
    wrecked,  \* init_timer was applied to a pending timer
    rhr,      \* RX_HOLDING_REGISTER
    rx,       \* rx_frame
    view      \* the keys that are down, as the events tell it

callVars == <<fn, pc, tries, gesture, data, xor>>
vars == <<sscVars, callVars, due, wrecked, rhr, rx, view>>

Differ(S, T) == (S \ T) \cup (T \ S)

Functions == {"none", "write_LED_dataframe", "write_RX_data", "insync_keypanel_interrupt"}

InFn(t, f) == fn[t] = f
LED == "write_LED_dataframe"
RX  == "write_RX_data"
IRQ == "insync_keypanel_interrupt"

\* The module is loaded, its sysfs files exist, probe has not finished.
Init ==
    /\ SscInit
    /\ fn = [t \in Tasks |-> "none"]
    /\ pc = [t \in Tasks |-> "idle"]
    /\ tries = [t \in Tasks |-> 0]
    /\ gesture = [t \in RxWriters |-> "none"]
    /\ data = [t \in RxWriters \cup Timers |-> {}]
    /\ xor = [t \in RxWriters \cup Timers |-> {}]
    /\ due = [tm \in Timers |-> Off]
    /\ wrecked = FALSE
    /\ rhr = {} /\ rx = {} /\ view = {}

Enter(t, f, label) ==
    /\ fn' = [fn EXCEPT ![t] = f]
    /\ pc' = [pc EXCEPT ![t] = label]
    /\ tries' = [tries EXCEPT ![t] = 0]

Label(t, label) == pc' = [pc EXCEPT ![t] = label]

-----------------------------------------------------------------------------
(* The retry loop all three functions have *)

\* (mutant: one retry too many)
InTimeOffByOne(t) == pc[t] = "first" \/ (pc[t] = "retry" /\ tries[t] <= MaxTries + 1)
InTime(t) == pc[t] = "first" \/ (pc[t] = "retry" /\ tries[t] <= MaxTries)

Retry(t) ==
    /\ InTime(t)
    /\ kp[t] \in ErrPtrs
    /\ Label(t, "retry")
    /\ tries' = [tries EXCEPT ![t] = @ + 1]
    /\ RequestCall(t)
    /\ UNCHANGED <<fn, gesture, data, xor, due, wrecked, rhr, rx, view>>

OutOfTries(t) == at[t] = "out" /\ pc[t] = "retry" /\ tries[t] > MaxTries

\* write_LED_dataframe and the interrupt just return; write_RX_data frees
\* what it has first.
GiveUp(t) ==
    /\ OutOfTries(t)
    /\ Label(t, "returning")
    /\ IF InFn(t, RX) THEN FreeCall(t) ELSE Abandon(t)
    /\ UNCHANGED <<fn, tries, gesture, data, xor, due, wrecked, rhr, rx, view>>

\* The steps inside in_ssc_request and in_ssc_free.
Access(t) ==
    /\ SscStep(t)
    /\ UNCHANGED <<callVars, due, wrecked, rhr, rx, view>>

\* Return from a function that calls nothing further.
Leave(t) ==
    /\ pc[t] = "returning"
    /\ ~(t \in RxWriters /\ InFn(t, IRQ))
    /\ Abandon(t)
    /\ Enter(t, "none", "idle")
    /\ gesture' = [u \in RxWriters |-> IF u = t THEN "none" ELSE gesture[u]]
    /\ data' = [u \in RxWriters \cup Timers |-> IF u = t THEN {} ELSE data[u]]
    /\ UNCHANGED <<xor, due, wrecked, rhr, rx, view>>

-----------------------------------------------------------------------------
(* write_LED_dataframe *)

StartLed(t) ==
    /\ pc[t] = "idle"
    /\ Enter(t, LED, "first")
    /\ RequestCall(t)
    /\ UNCHANGED <<gesture, data, xor, due, wrecked, rhr, rx, view>>

\* The LED states are printed, and the device freed.
ShowLeds(t) ==
    /\ InFn(t, LED) /\ InTime(t) /\ Holds(t)
    /\ Label(t, "returning")
    /\ FreeCall(t)
    /\ UNCHANGED <<fn, tries, gesture, data, xor, due, wrecked, rhr, rx, view>>

-----------------------------------------------------------------------------
(* insync_keypanel_interrupt *)

\* (mutant: the frame replaces what is in the register)
DepositOver(t) ==
    /\ pc[t] = "deposit"
    /\ rhr' = data[t]
    /\ Label(t, "first")
    /\ RequestCall(t)
    /\ UNCHANGED <<fn, tries, gesture, data, xor, due, wrecked, rx, view>>

Deposit(t) ==
    /\ pc[t] = "deposit"
    /\ rhr' = rhr \cup data[t]
    /\ Label(t, "first")
    /\ RequestCall(t)
    /\ UNCHANGED <<fn, tries, gesture, data, xor, due, wrecked, rx, view>>

\* (mutant: the handle is not waited for)
LatchUnowned(t) ==
    /\ InFn(t, IRQ) /\ InTime(t) /\ kp[t] # NoPointer /\ at[t] = "out"
    /\ rx' = rhr
    /\ rhr' = {}
    /\ xor' = [xor EXCEPT ![t] = Differ(rhr, rx)]
    /\ Label(t, "decode")
    /\ UNCHANGED <<sscVars, fn, tries, gesture, data, due, wrecked, view>>

\* (mutant: the register is not cleared)
LatchKeeps(t) ==
    /\ InFn(t, IRQ) /\ InTime(t) /\ Holds(t) /\ at[t] = "out"
    /\ rx' = rhr
    /\ xor' = [xor EXCEPT ![t] = Differ(rhr, rx)]
    /\ Label(t, "decode")
    /\ UNCHANGED <<sscVars, fn, tries, gesture, data, due, wrecked, rhr, view>>

\* process_RX_data_frame up to its loop.
Latch(t) ==
    /\ InFn(t, IRQ) /\ InTime(t) /\ Holds(t) /\ at[t] = "out"
    /\ rx' = rhr
    /\ rhr' = {}
    /\ xor' = [xor EXCEPT ![t] = Differ(rhr, rx)]
    /\ Label(t, "decode")
    /\ UNCHANGED <<sscVars, fn, tries, gesture, data, due, wrecked, view>>

Report(t) ==
    /\ pc[t] = "decode" /\ xor[t] # {}
    /\ LET k == Min(xor[t]) IN
         /\ view' = IF k \in rx THEN view \cup {k} ELSE view \ {k}
         /\ xor' = [xor EXCEPT ![t] = @ \ {k}]
    /\ UNCHANGED <<sscVars, fn, pc, tries, gesture, data, due, wrecked, rhr, rx>>

\* (mutant: the handler returns with changes still to report)
DecodedEarly(t) ==
    /\ pc[t] = "decode"
    /\ Label(t, "returning")
    /\ FreeCall(t)
    /\ UNCHANGED <<fn, tries, gesture, data, xor, due, wrecked, rhr, rx, view>>

\* (mutant: the handler returns without in_ssc_free)
DecodedNoFree(t) ==
    /\ pc[t] = "decode" /\ xor[t] = {}
    /\ Label(t, "returning")
    /\ UNCHANGED <<sscVars, fn, tries, gesture, data, xor, due, wrecked, rhr, rx, view>>

Decoded(t) ==
    /\ pc[t] = "decode" /\ xor[t] = {}
    /\ Label(t, "returning")
    /\ FreeCall(t)
    /\ UNCHANGED <<fn, tries, gesture, data, xor, due, wrecked, rhr, rx, view>>

-----------------------------------------------------------------------------
(* write_RX_data and simulate_key_event *)

Pending(tm) == due[tm] # Off
Played  == \A tm \in Timers : ~Pending(tm) /\ pc[tm] = "idle"
Resting == Played /\ \A t \in Tasks : pc[t] = "idle"

StartRx(t) ==
    /\ pc[t] = "idle"
    /\ \E g \in Gestures, k \in Keys :
         /\ gesture' = [gesture EXCEPT ![t] = g]
         /\ data' = [data EXCEPT ![t] = {k}]
    /\ Enter(t, RX, "first")
    /\ RequestCall(t)
    /\ UNCHANGED <<xor, due, wrecked, rhr, rx, view>>

\* The handle is taken only to be given back before the gesture starts.
RxGranted(t) ==
    /\ InFn(t, RX) /\ InTime(t) /\ Holds(t)
    /\ Label(t, "granted")
    /\ FreeCall(t)
    /\ UNCHANGED <<fn, tries, gesture, data, xor, due, wrecked, rhr, rx, view>>

\* first_press or press_and_hold: init_timer( &tm_up1 ), then the KEY_DOWN by
\* a direct call of the interrupt handler.
FirstPress(t) ==
    /\ pc[t] = "granted" /\ at[t] = "out"
    /\ wrecked' = Pending(<<"up", 1>>)
    /\ Enter(t, IRQ, "deposit")
    /\ UNCHANGED <<sscVars, gesture, data, xor, due, rhr, rx, view>>

\* Back from the handler: press( 2 ), press( 3 ), press( 4 ), add_timer.
ArmTimers(t) ==
    /\ t \in RxWriters /\ InFn(t, IRQ) /\ pc[t] = "returning"
    /\ LET armed == {tm \in Timers : tm[2] <= Presses[gesture[t]]} IN
         /\ wrecked' = \E tm \in armed : Pending(tm)
         /\ due' = [tm \in Timers |-> IF tm \in armed THEN Delay(gesture[t], tm) ELSE due[tm]]
         /\ data' = [u \in RxWriters \cup Timers |->
                       CASE u = t -> {}
                         [] u \in armed -> IF u[1] = "down" THEN data[t] ELSE {}
                         [] OTHER -> data[u]]
    /\ gesture' = [gesture EXCEPT ![t] = "none"]
    /\ Abandon(t)
    /\ Enter(t, "none", "idle")
    /\ UNCHANGED <<xor, rhr, rx, view>>

-----------------------------------------------------------------------------
(* The timers.  A call of the handler lasts at most its retries of 1 ms,   *)
(* little against a step of time.                                          *)

Fire(tm) ==
    /\ due[tm] = 0 /\ pc[tm] = "idle"
    /\ due' = [due EXCEPT ![tm] = Off]
    /\ Enter(tm, IRQ, "deposit")
    /\ UNCHANGED <<sscVars, gesture, data, xor, wrecked, rhr, rx, view>>

Tick ==
    /\ \E tm \in Timers : Pending(tm)
    /\ \A tm \in Timers : due[tm] # 0
    /\ \A t \in Tasks : InFn(t, IRQ) => at[t] = "oops"
    /\ due' = [tm \in Timers |-> IF Pending(tm) THEN due[tm] - 1 ELSE Off]
    /\ UNCHANGED <<sscVars, callVars, wrecked, rhr, rx, view>>

ProbePublish ==
    /\ ~listed
    /\ Publish
    /\ UNCHANGED <<callVars, due, wrecked, rhr, rx, view>>

-----------------------------------------------------------------------------
Interrupt(t) == Deposit(t) \/ Latch(t) \/ Report(t) \/ Decoded(t)
Calls(t)     == Retry(t) \/ GiveUp(t) \/ Access(t) \/ Leave(t)

\* What becomes of a timer wheel with a pending timer initialised again is
\* not modelled: nothing happens any more.
Next ==
    /\ ~wrecked
    /\ \/ \E t \in Tasks : Calls(t)
       \/ \E t \in LedWriters : StartLed(t) \/ ShowLeds(t)
       \/ \E t \in RxWriters : StartRx(t) \/ RxGranted(t) \/ FirstPress(t) \/ ArmTimers(t)
       \/ \E t \in RxWriters \cup Timers : Interrupt(t)
       \/ \E tm \in Timers : Fire(tm)
       \/ Tick
       \/ ProbePublish

Spec == Init /\ [][Next]_vars

-----------------------------------------------------------------------------
\* The types of the driver's state and of the locals of its functions.
TypeOK ==
    /\ SscTypeOK
    /\ fn \in [Tasks -> Functions]
    /\ pc \in [Tasks -> {"idle", "first", "retry", "returning", "granted", "deposit", "decode"}]
    /\ tries \in [Tasks -> 0..(MaxTries + 1)]
    /\ gesture \in [RxWriters -> Gestures \cup {"none"}]
    /\ data \in [RxWriters \cup Timers -> SUBSET Keys]
    /\ xor \in [RxWriters \cup Timers -> SUBSET Keys]
    /\ due \in [Timers -> 0..7 \cup {Off}]
    /\ wrecked \in BOOLEAN
    /\ rhr \subseteq Keys /\ rx \subseteq Keys /\ view \subseteq Keys

\* Two callers of the handler never decode at the same time: rx_frame and the
\* events have one writer, the one that holds the handle.
OneDecoder ==
    \A s, t \in RxWriters \cup Timers :
        pc[s] = "decode" => Holds(s) /\ (pc[t] = "decode" => s = t)

\* Why there is one: where each task is in in_ssc_request and in_ssc_free goes
\* with where it is in the function that called them, and a task decodes between
\* the two, with the device in hand.  It is also the only one whose xor holds
\* changes, and a call is entered with no retries counted.
CallInv ==
    \A t \in Tasks :
        /\ at[t] \in {"rqspin", "rqlook", "rqtake"} => pc[t] \in {"first", "retry"}
        /\ at[t] \in {"frspin", "frdrop"} => pc[t] \in {"returning", "granted"}
        /\ pc[t] \in {"first", "deposit"} => tries[t] = 0
        /\ pc[t] = "decode" => Holds(t) /\ at[t] = "out"

\* What user space has been told and what the one decoder has still to tell it
\* make up the last frame that was latched.
DecodeInv ==
    /\ \A t \in RxWriters \cup Timers :
         IF pc[t] = "decode" THEN view = Differ(rx, xor[t]) ELSE xor[t] = {}
    /\ (\A t \in RxWriters \cup Timers : pc[t] # "decode") => view = rx

\* The inductive invariant.
IInv == TypeOK /\ SscInv /\ CallInv /\ DecodeInv

\* A key press put into RX_HOLDING_REGISTER is not lost to a later frame: it
\* leaves the register only into rx_frame.
PressStaysInRegister ==
    [][\A k \in rhr : k \in rhr' \/ k \in rx']_vars

Tracker == INSTANCE KeyTracker WITH frame <- rx

\* However the gesture writers and the timers interleave, the events they
\* dispatch track the frames they latch.
TrackerSpec == Tracker!Spec

\* No timer of a gesture is initialised while it is still pending.
NoPendingInit == ~wrecked
=============================================================================
