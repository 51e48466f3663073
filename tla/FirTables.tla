------------------------------ MODULE FirTables ------------------------------
(***************************************************************************)
(* The tables that the FirEngine builder writes into the Verilog of a MAC: *)
(* firenginemacdesc.cpp, as functions of the description of the MAC. A     *)
(* table has one entry for each time slot.                                 *)
(***************************************************************************)
EXTENDS FirSchedule, SequencesExt

\* The position of FIR f among the inputs of the MAC, from 0.
InputIndex(mac, f) == Min({i \in DOMAIN mac.inputs : mac.inputs[i] = f}) - 1

\* The position of the Fifo of FIR f in the MAC's list, from 0.
FifoIndex(fifos, f) == Min({i \in DOMAIN fifos : fifos[i].fir = f}) - 1

NoChannel == 15

\* The code takes it for granted: a channel number is never that of no channel.
ASSUME ChannelsAssumption == MaxInputs <= NoChannel

ChannelSelect(mac) ==
    [s \in Slots |-> IF mac.update[s] = NoFir
                     THEN NoChannel
                     ELSE InputIndex(mac, mac.update[s])]

\* FIRST_ENGINE and LAST_ENGINE have the same entries as DOUPDATE.
DoUpdate(mac) == [s \in Slots |-> mac.update[s] # NoFir]

FirstTap(mac) == [s \in Slots |-> mac.coeff[s].fir # NoFir /\ mac.coeff[s].tap = 0]

\* MUL_MODE: 0 starts a sum, 1 adds to it.
MulMode(mac) ==
    [s \in Slots |->
        IF mac.coeff[s].fir # NoFir /\ mac.coeff[s].tap = 0 THEN 0 ELSE 1]

RdFifoNum(mac) ==
    [s \in Slots |-> IF mac.coeff[s].fir = NoFir
                     THEN 0
                     ELSE FifoIndex(mac.fifos, mac.coeff[s].fir)]

UpdateFifoNum(mac) ==
    [s \in Slots |-> IF mac.update[s] = NoFir
                     THEN 0
                     ELSE FifoIndex(mac.fifos, mac.update[s])]

-----------------------------------------------------------------------------

\* sortFifosInDescendingSizeOrder: std::sort does not say in which order it
\* leaves Fifos of the same size, so every such order is possible.
DescendingOrders(fifos) ==
    {q \in SetToSeqs(ToSet(fifos)) :
        \A i \in 1 .. Len(q) - 1 : q[i].words >= q[i + 1].words}

\* alignAddressOnOrAfter, for a quantum that is a power of two.
AlignUp(address, quantum) == CeilDiv(address, quantum) * quantum

\* (mutant: a Fifo takes as many words as it has coefficients)
FifoOffsetsByDepth(fifos) ==
    LET offset[i \in 1 .. Len(fifos)] ==
            IF i = 1
            THEN 0
            ELSE AlignUp(offset[i - 1] + fifos[i - 1].depth, fifos[i].words)
    IN  offset

\* The address of each Fifo in the data buffer, and of its coefficients in
\* the coefficient buffer.
FifoOffsets(fifos) ==
    LET offset[i \in 1 .. Len(fifos)] ==
            IF i = 1
            THEN 0
            ELSE AlignUp(offset[i - 1] + fifos[i - 1].words, fifos[i].words)
    IN  offset

\* The words of the coefficient buffer.
BufferDepth(fifos) == FifoOffsets(fifos)[Len(fifos)] + Last(fifos).words

\* The coefficient at each address, NoCoeff in the words that are padding.
CoeffValues(fifos) ==
    [a \in 0 .. BufferDepth(fifos) - 1 |->
        LET i == Max({k \in DOMAIN fifos : FifoOffsets(fifos)[k] <= a})
            j == a - FifoOffsets(fifos)[i]
        IN  IF j < fifos[i].depth THEN [fir |-> fifos[i].fir, tap |-> j] ELSE NoCoeff]

\* The assertions of the generator: the depth of each Fifo fits the six bits
\* of FIFOSIZES (a depth of 0 does not: depth - 1 is then all ones), the
\* coefficients fit the buffer and the slots the two digits of their numbers.
Generable(fifos) ==
    /\ \A i \in DOMAIN fifos : fifos[i].depth \in 1 .. 64
    /\ BufferDepth(fifos) <= 1024
    /\ NumTimeSlots <= 256

\* The words of the circular buffer that the generated Verilog derives from
\* the length of a Fifo: the power of two above length - 1, but at least 2.
RegionSize(depth) == Max({2, RoundUpToPowerOfTwo(depth)})

RegionOrigin(address, depth) == address - (address % RegionSize(depth))

-----------------------------------------------------------------------------

\* What the circuit of a MAC can rely on, of the slots: its inputs are FIRs and
\* differ, each has its Fifo, nothing else is in the slots; each update ends a
\* whole row, and updates come as often as samples; the first slot has one.
WholeMac(mac, filters) ==
    LET channels == 0 .. Len(mac.inputs) - 1
        input(c) == mac.inputs[c + 1]
        fir(c)   == filters[input(c) + 1]
    IN  /\ mac.inputs \in Seq({i - 1 : i \in DOMAIN filters}) /\ Len(mac.inputs) <= NoChannel
        /\ mac.fifos \in Seq([fir : Nat, depth : Nat, words : Nat]) /\ Len(mac.fifos) = Len(mac.inputs)
        /\ \A c \in channels :
            /\ \A e \in channels \ {c} : input(c) # input(e)
            /\ mac.fifos[c + 1].fir = input(c) /\ mac.fifos[c + 1].depth = fir(c).taps
            /\ \A s \in Slots : \E d \in 0 .. ClocksPerSample(fir(c)) - 1 : mac.update[RowSlot(s, -d)] = input(c)
        /\ \A s \in Slots :
            /\ mac.update[s] # NoFir => \E c \in channels : mac.update[s] = input(c)
            /\ mac.coeff[s].fir # NoFir => \E c \in channels : mac.coeff[s].fir = input(c)
        /\ \A s \in Slots, c \in channels : mac.update[s] = input(c) =>
            \A i \in 0 .. fir(c).taps - 1 :
                mac.coeff[RowSlot(s, i)] = [fir |-> input(c), tap |-> fir(c).taps - 1 - i]
        /\ mac.update[0] # NoFir

\* The same of the Fifos: the assertions of the generator hold, the circular
\* buffers are aligned, apart and within the data buffer, and hold the coefficients.
WholeBuffers(fifos) ==
    LET base(i)   == FifoOffsets(fifos)[i]
        size(i)   == RegionSize(fifos[i].depth)
        region(i) == base(i) .. base(i) + size(i) - 1
    IN  /\ Generable(fifos) /\ BufferDepth(fifos) \in Nat
        /\ \A i \in DOMAIN fifos :
            /\ base(i) \in Nat /\ base(i) % size(i) = 0 /\ region(i) \subseteq 0 .. BufferDepth(fifos) - 1
            /\ \A k \in 0 .. fifos[i].depth - 1 :
                CoeffValues(fifos)[base(i) + k] = [fir |-> fifos[i].fir, tap |-> k]
            /\ \A j \in DOMAIN fifos \ {i} : region(i) \cap region(j) = {}

=============================================================================
