------------------------------- MODULE Vadcc -------------------------------
(***************************************************************************)
(* The virtual ADC driver vadcc.c: tasks write pairs "channel,reading" to  *)
(* the sysfs file ADCC_CDR, and the driver reports them as the ADC driver  *)
(* would.  Nothing keeps two writes apart.                                 *)
(***************************************************************************)
EXTENDS AdcReader

CONSTANTS
    Writers,   \* the tasks that write to ADCC_CDR
    Pairs      \* the pairs of numbers they write

ASSUME PairsAssumption == Pairs \subseteq Int \X Int
ASSUME WritersAssumption == IsFiniteSet(Writers)

VARIABLES
    wpc,       \* where a writer is in write_vadcc
    x, y       \* its local variables, as sscanf leaves them

vadccVars == <<wpc, x, y>>
vars == <<feedVars, vadccVars>>

Init ==
    /\ ReaderInit
    /\ wpc = [w \in Writers |-> "idle"]
    /\ x = [w \in Writers |-> 0] /\ y = [w \in Writers |-> 0]

\* y << 3 in 32 bits; of a negative result only the sign matters.
ShiftLeft3(n) == LET low == n % 2^29 IN IF low < 2^28 THEN 8 * low ELSE -1

\* ( y << 3 ) | x, for an x that passes the check below.
Packed(w) == ShiftLeft3(y[w]) + x[w]

\* (mutant: the upper limit is not looked at)
AcceptsAnyReading(w) == x[w] \in Channels /\ ShiftLeft3(y[w]) >= 0 /\ Packed(w) > 0

\* "y > 0  &&  x >= 0  &&  x < 8  &&  y < ADC_DATA_MAX", of the packed y.
Accepts(w) == x[w] \in Channels /\ ShiftLeft3(y[w]) >= 0 /\ Packed(w) \in 1..ADC_DATA_MAX - 1

Goto(w, from, to) == wpc[w] = from /\ wpc' = [wpc EXCEPT ![w] = to]

\* (mutant: y is static)
WriteStatic(w) ==
    /\ HasRoom
    /\ Goto(w, "idle", "check")
    /\ \E p \in Pairs :
        /\ x' = [x EXCEPT ![w] = p[1]]
        /\ y' = [u \in Writers |-> p[2]]
    /\ UNCHANGED feedVars

Write(w) ==
    /\ HasRoom
    /\ Goto(w, "idle", "check")
    /\ \E p \in Pairs :
        /\ x' = [x EXCEPT ![w] = p[1]]
        /\ y' = [y EXCEPT ![w] = p[2]]
    /\ UNCHANGED feedVars

Reject(w) ==
    /\ ~Accepts(w)
    /\ Goto(w, "check", "idle")
    /\ UNCHANGED <<feedVars, x, y>>

Report(w) ==
    /\ Accepts(w)
    /\ Goto(w, "check", "sync")
    /\ ReportAbs(Packed(w))
    /\ UNCHANGED <<x, y>>

Finish(w) ==
    /\ Goto(w, "sync", "idle")
    /\ InputSync
    /\ UNCHANGED <<x, y>>

Next ==
    \/ \E w \in Writers : Write(w) \/ Reject(w) \/ Report(w) \/ Finish(w)
    \/ ReaderTurn /\ UNCHANGED vadccVars

Spec == Init /\ [][Next]_vars

-----------------------------------------------------------------------------
\* The types of the writers' locals and of the values they report.
TypeOK ==
    /\ wpc \in [Writers -> {"idle", "check", "sync"}]
    /\ x \in [Writers -> Int] /\ y \in [Writers -> Int]
    /\ whole \in BOOLEAN /\ absval \in 0..ADC_DATA_MAX - 1 /\ sync \in BOOLEAN
    /\ Len(queue) <= QueueCap + 2 * Cardinality(Writers)

\* The program is told a reading of a channel only if somebody wrote the two as
\* one pair: the channel of one writer never goes with the reading of another,
\* however their calls and their reports are mixed. Of a reading with more than
\* 29 bits it is told the low ones, which "y << 3" leaves.
NothingInvented ==
    \A c \in Channels :
        told[c] # Unknown => \E p \in Pairs : c = p[1] /\ told[c] = p[2] % 2^29

\* What the writers may report: the pairs that pass the check, packed.
Reported ==
    {v \in 1..ADC_DATA_MAX - 1 : \E p \in Pairs :
        p[1] \in Channels /\ ShiftLeft3(p[2]) >= 0 /\ v = ShiftLeft3(p[2]) + p[1]}

\* A writer has a pair in hand; one that is about to sync has reported.
WriterInv ==
    \A w \in Writers :
        /\ wpc[w] # "idle" => <<x[w], y[w]>> \in Pairs
        /\ wpc[w] = "sync" => absval # 0

\* The room that is kept for the writers under way: two events before the
\* report, one before the sync.
At(place) == {w \in Writers : wpc[w] = place}
RoomKept ==
    Len(queue) + 2 * Cardinality(At("check")) + Cardinality(At("sync"))
      <= QueueCap + 2 * Cardinality(Writers)

\* The inductive invariant.
IInv ==
    /\ TypeOK
    /\ Reports(Reported)
    /\ WriterInv
    /\ RoomKept
    /\ told \in [Channels -> Readings \cup {Unknown}]
    /\ StaleHarmless => NothingInvented
=============================================================================
