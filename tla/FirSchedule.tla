----------------------------- MODULE FirSchedule -----------------------------
(***************************************************************************)
(* How the FirEngine builder places FIR filters on the time slots of its   *)
(* multiply-accumulate units (MACs): the calculations of                   *)
(* firenginedescbind.cpp, as operators on the descriptions of the MACs.    *)
(*                                                                         *)
(* Time slots are numbered from 0 and wrap around; FIRs are numbered from  *)
(* 0 in the order of the specification file; MACs are counted from 1.      *)
(* A FIR is [taps, half]: its number of coefficients and the whole part of *)
(* 2 * ClockFreq / SampleFreq, which is all that bindFir compares.         *)
(***************************************************************************)
EXTENDS Integers, Sequences, FiniteSetsExt

CONSTANTS
    NumTimeSlots,   \* m_NumTimeSlots, option -t of the program
    MaxInputs       \* the inputs a MAC can have, 15 in the code

\* The last power of two that RoundUpToPowerOfTwo knows bounds the slots; the
\* generator asserts that there are 256 at most.
ASSUME SlotsAssumption == NumTimeSlots \in Nat \ {0} /\ NumTimeSlots <= 2^30
ASSUME InputsAssumption == MaxInputs \in Nat \ {0}

Slots == 0 .. NumTimeSlots - 1

\* m_FirUpdateLatency
FirUpdateLatency == 2

\* The most Fifos a MAC can have.
MaxFifos == 256

\* m_FirIndex is -1 in an empty update slot and in a null coefficient.
NoFir == -1
NoCoeff == [fir |-> NoFir, tap |-> 0]

\* A MAC with all its slots empty. m_vInputFirs and m_vOutputFirs always
\* hold the same FIRs, in the same order: inputs stands for both.
EmptyMac ==
    [inputs |-> <<>>,
     coeff  |-> [s \in Slots |-> NoCoeff],
     update |-> [s \in Slots |-> NoFir],
     fifos  |-> <<>>]

CeilDiv(a, b) == (a + b - 1) \div b

RoundUpToPowerOfTwo(x) == Min({n \in {2^i : i \in 0 .. 30} : x <= n})

-----------------------------------------------------------------------------

\* The clocks between two samples, as floor(ClockFreq / SampleFreq).
ClocksPerSample(fir) == fir.half \div 2

\* (mutant: the number of updates in a round is rounded down)
IntervalRoundedUp(fir) ==
    LET clocks == Min({ClocksPerSample(fir), NumTimeSlots})
    IN  NumTimeSlots \div (NumTimeSlots \div clocks)

\* The distance of two updates of a FIR: at most the time between two of its
\* samples, and such that the updates fit the round of time slots.
Interval(fir) ==
    LET clocks == Min({ClocksPerSample(fir), NumTimeSlots})
    IN  NumTimeSlots \div CeilDiv(NumTimeSlots, clocks)

\* The slots of the updates of a FIR whose first update is at origin.
UpdateSlots(origin, interval) ==
    {s \in Slots : s >= origin /\ (s - origin) % interval = 0}

\* The slot of tap taps - 1 - i of the row that ends at update slot u.
RowSlot(u, i) == (u - i) % NumTimeSlots

RowSlots(fir, origin, interval) ==
    {RowSlot(u, i) : u \in UpdateSlots(origin, interval), i \in 0 .. fir.taps - 1}

\* (mutant: the slots of the coefficients are not looked at)
CanBindAnyRow(macs, fir, m, origin, interval) ==
    \/ m > Len(macs)
    \/ LET mac == macs[m]
       IN  /\ Len(mac.inputs) # MaxInputs
           /\ Len(mac.fifos) # MaxFifos
           /\ \A u \in UpdateSlots(origin, interval) : mac.update[u] = NoFir

\* (mutant: a MAC with all its inputs in use takes one more)
CanBindOneMore(macs, fir, m, origin, interval) ==
    \/ m > Len(macs)
    \/ LET mac == macs[m]
       IN  /\ Len(mac.inputs) <= MaxInputs
           /\ Len(mac.fifos) # MaxFifos
           /\ \A u \in UpdateSlots(origin, interval) :
                /\ mac.update[u] = NoFir
                /\ mac.update[(u - FirUpdateLatency) % NumTimeSlots] = NoFir
           /\ \A s \in RowSlots(fir, origin, interval) : mac.coeff[s].fir = NoFir

\* canBind: the FIR's update and coefficient slots are free, and so is the
\* update slot of the read that precedes each update.
CanBind(macs, fir, m, origin, interval) ==
    \/ m > Len(macs)
    \/ LET mac == macs[m]
       IN  /\ Len(mac.inputs) # MaxInputs
           /\ Len(mac.fifos) # MaxFifos
           /\ \A u \in UpdateSlots(origin, interval) :
                /\ mac.update[u] = NoFir
                /\ mac.update[(u - FirUpdateLatency) % NumTimeSlots] = NoFir
           /\ \A s \in RowSlots(fir, origin, interval) : mac.coeff[s].fir = NoFir

\* findValidBinding: the lowest MAC, a new one included, and on it the lowest
\* origin that canBind accepts.
ValidBinding(macs, fir, interval) ==
    LET origins(m) ==
            {o \in 0 .. interval - 1 : CanBind(macs, fir, m, o, interval)}
        first == Min({m \in 1 .. Len(macs) + 1 : origins(m) # {}})
    IN  [mac |-> first, origin |-> Min(origins(first))]

\* The coefficient that bind leaves in slot s: rows are written in the order
\* of their update slots, so the last row that covers the slot stays.
BoundCoeff(fir, f, origin, interval, s) ==
    LET u == Max({v \in UpdateSlots(origin, interval) :
                    \E i \in 0 .. fir.taps - 1 : RowSlot(v, i) = s})
    IN  [fir |-> f, tap |-> fir.taps - 1 - ((u - s) % NumTimeSlots)]

\* bind: FIR f, described by fir, takes its slots and a Fifo.
BindTo(mac, fir, f, origin, interval) ==
    [inputs |-> Append(mac.inputs, f),
     update |-> [s \in Slots |->
                    IF s \in UpdateSlots(origin, interval) THEN f ELSE mac.update[s]],
     coeff  |-> [s \in Slots |->
                    IF s \in RowSlots(fir, origin, interval)
                    THEN BoundCoeff(fir, f, origin, interval, s)
                    ELSE mac.coeff[s]],
     fifos  |-> Append(mac.fifos,
                       [fir   |-> f,
                        depth |-> fir.taps,
                        words |-> RoundUpToPowerOfTwo(fir.taps)])]

\* The MACs after FIR f has been bound.
Bound(macs, fir, f) ==
    LET interval == Interval(fir)
        binding  == ValidBinding(macs, fir, interval)
        old      == IF binding.mac > Len(macs) THEN Append(macs, EmptyMac) ELSE macs
    IN  [old EXCEPT ![binding.mac] = BindTo(@, fir, f, binding.origin, interval)]

=============================================================================
