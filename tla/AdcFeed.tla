------------------------------ MODULE AdcFeed ------------------------------
(***************************************************************************)
(* What the ADC drivers and the program that reads them promise together:  *)
(* a reading is posted with the channel it belongs to, and the program     *)
(* learns of every posted reading, in the order of posting.                *)
(***************************************************************************)
EXTENDS Sequences

CONSTANTS
    Ids,       \* the channels
    Samples,   \* the readings that can be posted, records [id, reading]
    Unknown    \* no reading of the channel has been processed

VARIABLES
    posted,    \* the readings on their way
    told       \* the last reading of each channel that was processed

Init ==
    /\ posted = <<>>
    /\ told = [c \in Ids |-> Unknown]

Post(s) ==
    /\ posted' = Append(posted, s)
    /\ UNCHANGED told

Take ==
    /\ posted # <<>>
    /\ told' = [told EXCEPT ![Head(posted).id] = Head(posted).reading]
    /\ posted' = Tail(posted)

Next == (\E s \in Samples : Post(s)) \/ Take

Spec == Init /\ [][Next]_<<posted, told>>
=============================================================================
