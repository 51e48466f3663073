----------------------------- MODULE KeyTracker -----------------------------
(***************************************************************************)
(* What the decoder of the key-state frames promises user space.  The      *)
(* panel sends whole frames of key states; user space only sees events.    *)
(* A frame is latched when the events of the one before it have all been   *)
(* delivered, and each event then moves the picture user space has of the  *)
(* panel by exactly one key towards the latched frame: none is reported    *)
(* twice, none is skipped, none is invented.  InsyncKeypanel and           *)
(* VKeypanel both implement this.                                          *)
(***************************************************************************)
CONSTANT Keys

VARIABLES
    frame,   \* the keys that are down in the latched frame
    view     \* the keys that are down as the events so far tell it

Differ(S, T) == (S \ T) \cup (T \ S)

Init == frame = {} /\ view = {}

Latch(f) ==
    /\ view = frame
    /\ frame' = f
    /\ UNCHANGED view

Report(k) ==
    /\ k \in Differ(view, frame)
    /\ view' = Differ(view, {k})
    /\ UNCHANGED frame

Next ==
    \/ \E f \in SUBSET Keys : Latch(f)
    \/ \E k \in Keys : Report(k)

Spec == Init /\ [][Next]_<<frame, view>>
=============================================================================
