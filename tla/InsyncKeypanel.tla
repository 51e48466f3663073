--------------------------- MODULE InsyncKeypanel ---------------------------
(***************************************************************************)
(* The keypanel driver insync_keypanel.c once its probe has enabled the    *)
(* interrupts: tasks that write LED frames to the sysfs file TX_DATA, the  *)
(* interrupt handler that turns received key frames into input events, the *)
(* SSC hardware they share, and the reader of the events.                  *)
(***************************************************************************)
EXTENDS SscAccess, FiniteSets

CONSTANTS
    MaxTries,   \* 7: the last retry of write_LED_dataframe that may be waited on
    NumKeys,    \* 19: IN_KP_NUM_KEYS
    FewKeys,    \* 10: the alpha-numeric keys, which the decoder looks at first
    Rotations,  \* the bytes the rotary encoder can put in a frame
    Leds        \* the LED frames a task may write

ASSUME TriesAssumption == MaxTries \in Nat
ASSUME KeysAssumption  == NumKeys \in Nat /\ FewKeys \in 0..NumKeys
ASSUME RotationsAssumption == Rotations \subseteq 0..255 /\ 0 \in Rotations

Keys == 0..(NumKeys - 1)

\* A received data frame: the key state bits and the rotary encoder byte.
Frames == [keys : SUBSET Keys, rotary : Rotations]
Quiet  == [keys |-> {}, rotary |-> 0]

\* Events, as the reader unpacks them from VVVVVVVV EEEKKKKK.
KeyEvents    == [id : {"KEY_DOWN", "KEY_UP"}, key : Keys]
RotaryEvents == [id : {"RIGHT_TURN", "LEFT_TURN"}, value : Rotations]
NoEvent      == [id |-> "none"]

VARIABLES
    \* the tasks in write_LED_dataframe
    pc,         \* where the task is in the function
    tries,      \* its local counter
    led,        \* its LED_states
    \* the SSC
    rhr,        \* Receive Holding Register
    sr,         \* the enabled interrupts that are pending in the Status Register
    thr,        \* Transmit Holding Register, as last written
    \* the device structure and the locals of the interrupt handler
    rx,         \* rx_frame
    ipc,        \* where the interrupt handler is
    xor, keyId, max,
    \* user space
    event,      \* the last event dispatched
    view        \* the keys that are down, as the events tell it

writerVars == <<pc, tries, led>>
isrVars    == <<rx, ipc, xor, keyId, max, event, view>>
vars       == <<sscVars, writerVars, rhr, sr, thr, isrVars>>

Differ(S, T) == (S \ T) \cup (T \ S)

\* probe() has run up to the list_add_tail: the registers are set up and the
\* interrupts enabled, but the device is not on ssc_list yet.
Init ==
    /\ SscInit
    /\ pc = [t \in Tasks |-> "idle"]
    /\ tries = [t \in Tasks |-> 0]
    /\ led \in [Tasks -> Leds]
    /\ rhr = Quiet /\ sr = {} /\ thr \in Leds
    /\ rx = Quiet
    /\ ipc = "off" /\ xor = {} /\ keyId = 0 /\ max = FewKeys
    /\ event = NoEvent /\ view = {}

-----------------------------------------------------------------------------
(* write_LED_dataframe *)

\* A well-formed write: mask the LED states and ask for the device.
StartWrite(t) ==
    /\ pc[t] = "idle"
    /\ \E l \in Leds : led' = [led EXCEPT ![t] = l]
    /\ pc' = [pc EXCEPT ![t] = "first"]
    /\ tries' = [tries EXCEPT ![t] = 0]
    /\ RequestCall(t)
    /\ UNCHANGED <<rhr, sr, thr, isrVars>>

\* (mutant: one retry too many)
InTimeOffByOne(t) == pc[t] = "first" \/ (pc[t] = "retry" /\ tries[t] <= MaxTries + 1)

\* The request has returned and the retry loop may go on: it was the one
\* before the loop, or no more than MaxTries were made in it.
InTime(t) == pc[t] = "first" \/ (pc[t] = "retry" /\ tries[t] <= MaxTries)

\* (mutant: the tries are not counted)
RetryUncounted(t) ==
    /\ InTime(t)
    /\ kp[t] \in ErrPtrs
    /\ pc' = [pc EXCEPT ![t] = "retry"]
    /\ RequestCall(t)
    /\ UNCHANGED <<tries, led, rhr, sr, thr, isrVars>>

\* Another turn of the while loop (the mdelay of the one before included).
Retry(t) ==
    /\ InTime(t)
    /\ kp[t] \in ErrPtrs
    /\ pc' = [pc EXCEPT ![t] = "retry"]
    /\ tries' = [tries EXCEPT ![t] = @ + 1]
    /\ RequestCall(t)
    /\ UNCHANGED <<led, rhr, sr, thr, isrVars>>

\* (mutant: return without in_ssc_free, as vkeypanel.c has it)
GiveUpNoFree(t) ==
    /\ pc[t] = "retry" /\ tries[t] > MaxTries
    /\ pc' = [pc EXCEPT ![t] = "failed"]
    /\ Abandon(t)
    /\ UNCHANGED <<tries, led, rhr, sr, thr, isrVars>>

\* "could not get a handle on ssc0": in_ssc_free( keypanel ), return -1.
GiveUp(t) ==
    /\ pc[t] = "retry" /\ tries[t] > MaxTries
    /\ pc' = [pc EXCEPT ![t] = "failed"]
    /\ FreeCall(t)
    /\ UNCHANGED <<tries, led, rhr, sr, thr, isrVars>>

\* (mutant: the pointer is not looked at before the register is written)
TransmitUnchecked(t) ==
    /\ InTime(t)
    /\ thr' = led[t]
    /\ pc' = [pc EXCEPT ![t] = "sent"]
    /\ FreeCall(t)
    /\ UNCHANGED <<tries, led, rhr, sr, isrVars>>

Transmit(t) ==
    /\ InTime(t)
    /\ Holds(t)
    /\ thr' = led[t]
    /\ pc' = [pc EXCEPT ![t] = "sent"]
    /\ FreeCall(t)
    /\ UNCHANGED <<tries, led, rhr, sr, isrVars>>

EndWrite(t) ==
    /\ pc[t] \in {"sent", "failed"}
    /\ Abandon(t)
    /\ pc' = [pc EXCEPT ![t] = "idle"]
    /\ UNCHANGED <<tries, led, rhr, sr, thr, isrVars>>

\* The steps inside in_ssc_request and in_ssc_free.
Access(t) ==
    /\ SscStep(t)
    /\ UNCHANGED <<writerVars, rhr, sr, thr, isrVars>>

Writer(t) ==
    StartWrite(t) \/ Retry(t) \/ GiveUp(t) \/ Transmit(t) \/ EndWrite(t) \/ Access(t)

ProbePublish ==
    /\ ~listed
    /\ Publish
    /\ UNCHANGED <<writerVars, rhr, sr, thr, isrVars>>

-----------------------------------------------------------------------------
(* The SSC receives a frame every 50 ms.  One that is still unread is      *)
(* overwritten, and the overrun noted.                                     *)
FrameArrives ==
    /\ rhr' \in Frames
    /\ sr' = sr \cup {"ENDRX"} \cup (IF "ENDRX" \in sr THEN {"OVRUN"} ELSE {})
    /\ UNCHANGED <<sscVars, writerVars, thr, isrVars>>

-----------------------------------------------------------------------------
(* insync_keypanel_interrupt *)

IsrGoto(from, to) == ipc = from /\ ipc' = to

\* (mutant: only the overrun interrupt is enabled)
IsrEnterOverrun ==
    /\ "OVRUN" \in sr
    /\ IsrGoto("off", "status")
    /\ IF SmpBuild THEN OutsideLock ELSE UNCHANGED sscVars
    /\ UNCHANGED <<writerVars, rhr, sr, thr, rx, xor, keyId, max, event, view>>

IsrEnter ==
    /\ sr # {}
    /\ IsrGoto("off", "status")
    /\ IF SmpBuild THEN OutsideLock ELSE UNCHANGED sscVars
    /\ UNCHANGED <<writerVars, rhr, sr, thr, rx, xor, keyId, max, event, view>>

\* Reading the Status Register clears the overrun.
IsrStatus ==
    /\ ipc = "status"
    /\ sr' = sr \ {"OVRUN"}
    /\ ipc' = IF "ENDRX" \in sr THEN "frame" ELSE "return"
    /\ UNCHANGED <<sscVars, writerVars, rhr, thr, rx, xor, keyId, max, event, view>>

\* "xor < 1024": all the changed keys are alpha-numeric ones.
\* (mutant: some changed key is one)
LoopEndAny(changed) == IF \E k \in changed : k < FewKeys THEN FewKeys ELSE NumKeys
LoopEnd(changed)    == IF \A k \in changed : k < FewKeys THEN FewKeys ELSE NumKeys

\* (mutant: only the keys that are down count as changed)
IsrLatchDowns ==
    /\ IsrGoto("frame", "keys")
    /\ rx' = rhr
    /\ sr' = sr \ {"ENDRX"}
    /\ xor' = rhr.keys \ rx.keys
    /\ keyId' = 0
    /\ max' = LoopEnd(xor')
    /\ UNCHANGED <<sscVars, writerVars, rhr, thr, event, view>>

\* process_RX_data_frame up to its loop: the rx_frame of before becomes the
\* prev_rx_frame that xor is taken from.  Reading RHR acknowledges ENDRX.
IsrLatch ==
    /\ IsrGoto("frame", "keys")
    /\ rx' = rhr
    /\ sr' = sr \ {"ENDRX"}
    /\ xor' = Differ(rhr.keys, rx.keys)
    /\ keyId' = 0
    /\ max' = LoopEnd(xor')
    /\ UNCHANGED <<sscVars, writerVars, rhr, thr, event, view>>

\* The reader of the events keeps the set of keys that are down.
Dispatch(id, k) ==
    /\ event' = [id |-> id, key |-> k]
    /\ view' = IF id = "KEY_DOWN" THEN view \cup {k} ELSE view \ {k}

Looping == xor # {} /\ keyId < max

\* (mutant: every key is reported, changed or not)
IsrKeyAlways ==
    /\ ipc = "keys" /\ Looping
    /\ Dispatch(IF keyId \in rx.keys THEN "KEY_DOWN" ELSE "KEY_UP", keyId)
    /\ xor' = xor \ {keyId}
    /\ keyId' = keyId + 1
    /\ UNCHANGED <<sscVars, writerVars, rhr, sr, thr, rx, ipc, max>>

IsrKey ==
    /\ ipc = "keys" /\ Looping
    /\ keyId \in xor
    /\ Dispatch(IF keyId \in rx.keys THEN "KEY_DOWN" ELSE "KEY_UP", keyId)
    /\ xor' = xor \ {keyId}
    /\ keyId' = keyId + 1
    /\ UNCHANGED <<sscVars, writerVars, rhr, sr, thr, rx, ipc, max>>

IsrSkip ==
    /\ ipc = "keys" /\ Looping
    /\ keyId \notin xor
    /\ keyId' = keyId + 1
    /\ UNCHANGED <<sscVars, writerVars, rhr, sr, thr, rx, ipc, xor, max, event, view>>

\* encoder is an unsigned int: "encoder > 0" is "encoder != 0".
RotaryId(r) == IF r > 0 THEN "RIGHT_TURN" ELSE "LEFT_TURN"

\* (mutant: the handler goes on after the first key event)
IsrRotaryEarly ==
    /\ IsrGoto("keys", "return")
    /\ event' = IF rx.rotary # 0
                  THEN [id |-> RotaryId(rx.rotary), value |-> rx.rotary]
                  ELSE event
    /\ UNCHANGED <<sscVars, writerVars, rhr, sr, thr, rx, xor, keyId, max, view>>

IsrRotary ==
    /\ ~Looping
    /\ IsrGoto("keys", "return")
    /\ event' = IF rx.rotary # 0
                  THEN [id |-> RotaryId(rx.rotary), value |-> rx.rotary]
                  ELSE event
    /\ UNCHANGED <<sscVars, writerVars, rhr, sr, thr, rx, xor, keyId, max, view>>

IsrReturn ==
    /\ IsrGoto("return", "off")
    /\ IF SmpBuild THEN OutsideUnlock ELSE UNCHANGED sscVars
    /\ UNCHANGED <<writerVars, rhr, sr, thr, rx, xor, keyId, max, event, view>>

Isr == IsrEnter \/ IsrStatus \/ IsrLatch \/ IsrKey \/ IsrSkip \/ IsrRotary \/ IsrReturn

-----------------------------------------------------------------------------
Next == (\E t \in Tasks : Writer(t)) \/ ProbePublish \/ FrameArrives \/ Isr

Spec == Init /\ [][Next]_vars

\* On the one CPU of the target an interrupt is served when it is raised, a
\* task that is called runs on, and a task is only scheduled when no other is
\* inside a spin_lock.  Nobody has to write, and no frame has to come.
Fairness ==
    /\ WF_vars(Isr)
    /\ \A t \in Tasks :
         /\ WF_vars(Retry(t) \/ GiveUp(t) \/ Transmit(t) \/ EndWrite(t))
         /\ WF_vars(Access(t))
         /\ SF_vars(Access(t) /\ lock' = t)

LiveSpec == Spec /\ Fairness

-----------------------------------------------------------------------------
\* The types of the driver's state, the local variables of its functions and
\* the registers; the bound on tries is the one of the retry loop.
TypeOK ==
    /\ SscTypeOK
    /\ pc \in [Tasks -> {"idle", "first", "retry", "sent", "failed"}]
    /\ tries \in [Tasks -> 0..(MaxTries + 1)]
    /\ led \in [Tasks -> Leds]
    /\ rhr \in Frames /\ sr \subseteq {"ENDRX", "OVRUN"} /\ thr \in Leds
    /\ rx \in Frames
    /\ ipc \in {"off", "status", "frame", "keys", "return"}
    /\ xor \subseteq Keys /\ keyId \in 0..NumKeys /\ max \in {FewKeys, NumKeys}
    /\ event \in KeyEvents \cup RotaryEvents \cup {NoEvent}
    /\ view \subseteq Keys

\* The handle is never lost and never imagined: the device is marked in use
\* exactly while some task still holds it and will give it back.
HandleOwned == user = 1 <=> \E t \in Tasks : Holds(t)

\* "for serialized access to the SSC": the register is only written by the
\* task that holds the handle, alone, with the LED states it was given.
SerializedStep ==
    thr' # thr => \E t \in Tasks : /\ Holds(t) /\ thr' = led[t]
                                   /\ \A s \in Tasks \ {t} : ~Holds(s)
SerializedAccess == [][SerializedStep]_vars

\* When the handler is not at work on a frame, the events sent so far add up
\* to exactly the key states of the last frame it read; while it is, to those
\* short of the changes still in xor.
ViewFollowsFrame ==
    view = IF ipc = "keys" THEN Differ(rx.keys, xor) ELSE rx.keys

\* The loop that is cut short at max has never left a change behind.
NoChangeLeft == ipc = "return" => xor = {}

\* Why: xor holds what user space has yet to hear, all of it still ahead of
\* the loop and below its end.
DecodeInv ==
    /\ ViewFollowsFrame
    /\ IF ipc = "keys" THEN \A k \in xor : keyId <= k /\ k < max ELSE xor = {}

\* Why the handle is never lost: where each task is in in_ssc_request and
\* in_ssc_free goes with where it is in write_LED_dataframe, and a task that
\* is not waiting for its request to be answered has given its handle up.
CallInv ==
    \A t \in Tasks :
        /\ at[t] \in {"rqspin", "rqlook", "rqtake"} => pc[t] \in {"first", "retry"}
        /\ at[t] \in {"frspin", "frdrop"} => pc[t] \in {"sent", "failed"}
        /\ at[t] = "out" /\ pc[t] \in {"idle", "sent", "failed"} => ~Holds(t)
        /\ pc[t] = "first" => tries[t] = 0

\* The inductive invariant: where every task and the handler are, what they
\* hold and what user space knows agree.
IInv == TypeOK /\ SscInv /\ HandleOwned /\ CallInv /\ DecodeInv

\* Every key event tells user space something it did not know.
NoRedundantEvent == [][IsrKey => view' # view]_vars

Tracker == INSTANCE KeyTracker WITH frame <- rx.keys

\* The handler implements the promised key tracking.
TrackerSpec == Tracker!Spec

\* When the panel comes to rest, user space ends up with its true picture,
\* whatever frames were overrun on the way.
KeysConverge == \A S \in SUBSET Keys : <>[](rhr.keys = S) => <>[](view = S)

\* A write ends: the retries are bounded.  (It may end in the death of the
\* task, see FreeGetsHandle.)
WriteEnds == \A t \in Tasks : pc[t] = "first" ~> (pc[t] = "idle" \/ at[t] = "oops")

\* What a write that gives up does: "printk( ... failed: could not get a
\* handle on ssc0 )" and "return -1".  It must not hand in_ssc_free a pointer
\* that is not a device.
FreeGetsHandle == \A t \in Tasks : at[t] = "frdrop" => Holds(t)
=============================================================================
