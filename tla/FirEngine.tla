------------------------------ MODULE FirEngine ------------------------------
(***************************************************************************)
(* The clocked circuit of one MAC, as the FirEngine builder generates it   *)
(* (firenginemacdescgen.cpp, lines 209 to 855): a pipeline over the time   *)
(* slots that takes samples from several channels into circular buffers    *)
(* and computes one filter output for each.                                *)
(*                                                                         *)
(* A step is a clock edge: every register takes its next value from the    *)
(* registers before the edge, and the sources may change the input pins.   *)
(* A name ending in _psN is the register that the Verilog reads in stage N *)
(* of the pipeline. A product is the pair of a coefficient and a sample; a *)
(* sum is the sequence of the products added up since one that replaced    *)
(* the sum before. Of a sample only its number matters, 0 for the zeros of *)
(* an empty buffer.                                                        *)
(*                                                                         *)
(* Left out, because no output depends on them: buffer B and the D input   *)
(* of the pre-adder (PREADD_MODE is 0 in every slot), the chain to the     *)
(* next MAC (a slot that updates is always FIRST_ENGINE), the coefficient  *)
(* write port, which the generated top level ties to 0, and the scaling of *)
(* the sums.                                                               *)
(***************************************************************************)
EXTENDS FirTables

CONSTANTS
    Filters,    \* the FIRs of the specification, all bound to one MAC
    MaxSamples, \* bound: the samples each source sends
    ResetSamples,   \* bound: the same, if there is a reset after power-up
    MaxResets   \* bound: the resets after the one at power-up

Mac == FoldLeftDomain(LAMBDA macs, i : Bound(macs, Filters[i], i - 1), <<>>, Filters)[1]

ASSUME FiltersAssumption == Filters \in Seq([taps : Nat, half : Nat])
ASSUME OneMacAssumption == Len(Mac.inputs) = Len(Filters)
ASSUME BoundsAssumption ==
    /\ {MaxSamples, ResetSamples} \subseteq [DOMAIN Filters -> Nat] /\ MaxResets \in Nat
    /\ \A i \in DOMAIN Filters : ResetSamples[i] <= MaxSamples[i]

\* The parameters of the generated module.
Fifos == CHOOSE order \in DescendingOrders(Mac.fifos) : TRUE
CHANNEL_SELECT == ChannelSelect(Mac)
DOUPDATE == DoUpdate(Mac)
FIRST_TAP == FirstTap(Mac)
MUL_MODE == MulMode(Mac)
RDFIFONUM == RdFifoNum(Mac)
UPDATEFIFONUM == UpdateFifoNum(Mac)
FIFOSIZES ==
    [n \in 0 .. Len(Fifos) - 1 |->
        [offset |-> FifoOffsets(Fifos)[n + 1], last |-> Fifos[n + 1].depth - 1]]

\* The registers of slot numbers and addresses have the width that holds the
\* slots and the words, so they count modulo a power of two.
SlotNumbers == 0 .. RoundUpToPowerOfTwo(NumTimeSlots) - 1
Addresses == 0 .. RoundUpToPowerOfTwo(BufferDepth(Fifos)) - 1
COEFF_VALUES ==
    [a \in Addresses |-> IF a < BufferDepth(Fifos) THEN CoeffValues(Fifos)[a] ELSE NoCoeff]

\* An entry of a table; the bits above those of the last slot are 0.
Entry(table, s, zero) == IF s \in Slots THEN table[s] ELSE zero

Channels == 0 .. Len(Mac.inputs) - 1
Fir(c) == Filters[Mac.inputs[c + 1] + 1]
Period(c) == ClocksPerSample(Fir(c))
MaxTaps == Max({Filters[i].taps : i \in DOMAIN Filters})

\* The Fifo of a channel: its number, its address, its coefficients.
Fifo(c) == FifoIndex(Fifos, Mac.inputs[c + 1])
Base(c) == FIFOSIZES[Fifo(c)].offset
Depth(c) == FIFOSIZES[Fifo(c)].last + 1
Size(c) == RegionSize(Depth(c))
Region(c) == Base(c) .. Base(c) + Size(c) - 1

\* Slot s updates channel c.
Updates(s, c) == Mac.update[s] = Mac.inputs[c + 1]

\* What the builder guarantees of a MAC whose FIRs have an interval that divides
\* the slots, and more than one coefficient (MacsFit of FirBuilder).
ASSUME BuiltAssumption == WholeMac(Mac, Filters)
ASSUME GeneratedAssumption == WholeBuffers(Fifos)

\* What the circuit needs, and the builder does not see to: a number of slots
\* that the counter can count, Fifos whose sort changes nothing, four taps, and
\* three slots between the rows of a FIR.
ASSUME CircuitAssumption ==
    /\ RoundUpToPowerOfTwo(NumTimeSlots) = NumTimeSlots
    /\ Fifos = Mac.fifos
    /\ \A c \in Channels : Fir(c).taps >= 4
    /\ \A s \in Slots, c \in Channels : Updates(s, c) =>
        \A k \in 1 .. Fir(c).taps + 2 : ~Updates(RowSlot(s, k), c)

VARIABLES
    rst,        \* pin iRst
    pin,        \* pins iData<c>Changed and iData<c>
    ps,         \* timeSlice_psN, N from -1 to 9
    latch,      \* data<c>_ps1, data<c>Changed_ps1 and prevData<c>Changed
    channelSel_ps1,
    chosen_ps2, \* chosenData_ps2 and chosenDataChanged_ps2
    doUpdate,   \* doUpdate_ps2 and doUpdate_EnableCounter
    commit,     \* commit_psN, N from 3 to 9
    wrdata,     \* dataBuffA1_wrdata
    dataBuff,   \* dataBuffA_contents
    fifoDesc,   \* fifoDescBuffA_contents
    descRead,   \* fifoDescBuffA_rdaddr, _rddata_int and _rddata
    descWrite,  \* fifoDescBuff_wraddr
    firstTap_ps2,
    rdaddr,     \* coefBuff_rdaddr and dataBuffA0_rdaddr
    rddata,     \* the two registers behind each of the buffers
    nextAddr,   \* dataBuffAB1NextAddr and FifoLengthMinusOne, with their delays
    updateAddr, \* dataBuffAB1UpdateAddr
    dsp,        \* the registers A, B, AD, M and P (the result) of the DSP48E2
    channelSel_ps9,
    out,        \* oData<c>, dataOut<c>Changed and oData<c>Changed
    \* What has happened so far:
    sent,       \* the samples each source has sent
    since,      \* the clocks since its last sample, up to its period
    pushed,     \* the samples written to the buffer of each channel
    outputs,    \* the edges of oData<c>Changed
    resets      \* the resets after power-up

inputs == <<rst, pin, sent, since, resets>>
pipeline == <<ps, latch, channelSel_ps1, chosen_ps2, doUpdate, commit, wrdata>>
buffers == <<dataBuff, fifoDesc, descRead, descWrite, firstTap_ps2, rdaddr, rddata, nextAddr, updateAddr>>
results == <<dsp, channelSel_ps9, out, pushed, outputs>>
vars == <<inputs, pipeline, buffers, results>>

\* A register of a block with "posedge iClk or posedge iRst".
Clocked(reset, next) == IF rst \/ rst' THEN reset ELSE next

-----------------------------------------------------------------------------

\* The samples a source sends: bounds, and not the same after a reset.
Limit == IF resets = 0 THEN MaxSamples ELSE ResetSamples

\* The sources, which are not part of the FirEngine: each sends its samples in
\* order, at most one in its period, by flipping its Changed pin; it starts a
\* period after the reset at power-up. A later reset does not stop it.
Source(arrivals, reset) ==
    /\ rst' = reset
    /\ reset /\ ~rst => resets < MaxResets /\ \A c \in Channels : sent[c] <= ResetSamples[c + 1]
    /\ resets' = IF reset /\ ~rst THEN resets + 1 ELSE resets
    /\ \A c \in arrivals : since[c] = Period(c) /\ sent[c] < Limit[c + 1]
    /\ sent' = [c \in Channels |-> IF c \in arrivals THEN sent[c] + 1 ELSE sent[c]]
    /\ pin' = [c \in Channels |->
                IF c \in arrivals
                THEN [changed |-> ~pin[c].changed, data |-> sent'[c]]
                ELSE pin[c]]
    /\ since' = [c \in Channels |->
                CASE rst /\ resets = 0 -> 0
                  [] c \in arrivals      -> 1
                  [] OTHER               -> Min({since[c] + 1, Period(c)})]

\* The time-slice counter and its delayed copies.
TimeSlices ==
    ps' = Clocked([n \in -1 .. 9 |-> 0],
                  [n \in -1 .. 9 |->
                    IF n = -1 THEN (ps[-1] + 1) % Cardinality(SlotNumbers) ELSE ps[n - 1]])

\* (mutant: the previous flag is updated whether or not the channel is selected)
LatchAlways ==
    latch' = [c \in Channels |->
                Clocked([data |-> 0, changed |-> FALSE, prev |-> FALSE],
                        [data    |-> IF latch[c].prev # pin[c].changed
                                     THEN pin[c].data ELSE latch[c].data,
                         changed |-> pin[c].changed,
                         prev    |-> latch[c].changed])]

\* "only when a channel is selected is the prevDataChanged flag updated"
Latch ==
    latch' = [c \in Channels |->
                Clocked([data |-> 0, changed |-> FALSE, prev |-> FALSE],
                        [data    |-> IF latch[c].prev # pin[c].changed
                                     THEN pin[c].data ELSE latch[c].data,
                         changed |-> pin[c].changed,
                         prev    |-> IF channelSel_ps1 = c
                                     THEN latch[c].changed ELSE latch[c].prev])]

Choose ==
    /\ channelSel_ps1' = Entry(CHANNEL_SELECT, ps[0], 0)
    /\ chosen_ps2' =
        Clocked([data |-> 0, changed |-> FALSE],
                IF channelSel_ps1 \in Channels
                THEN LET l == latch[channelSel_ps1]
                     IN  [data |-> l.data, changed |-> l.changed # l.prev]
                ELSE [data |-> 0, changed |-> FALSE])

\* (mutant: updates are enabled at once after a reset)
EnableUpdateAtOnce ==
    doUpdate' = Clocked([on |-> FALSE, enable |-> 0],
                        [on     |-> Entry(DOUPDATE, ps[1], FALSE),
                         enable |-> Min({doUpdate.enable + 1, 3})])

\* "DoUpdate must be disabled for a few cycles after reset"
EnableUpdate ==
    doUpdate' = Clocked([on |-> FALSE, enable |-> 0],
                        [on     |-> doUpdate.enable = 3 /\ Entry(DOUPDATE, ps[1], FALSE),
                         enable |-> Min({doUpdate.enable + 1, 3})])

Commit ==
    /\ commit' = [n \in 3 .. 9 |->
                    Clocked(FALSE, IF n = 3
                                   THEN doUpdate.on /\ chosen_ps2.changed
                                   ELSE commit[n - 1])]
    /\ wrdata' = chosen_ps2.data

-----------------------------------------------------------------------------

\* The data buffer is written on a commit; both buffers are read through two
\* registers.
DataBuffers ==
    /\ dataBuff' = IF commit[3] THEN [dataBuff EXCEPT ![updateAddr] = wrdata] ELSE dataBuff
    /\ rddata' = [coefInt |-> COEFF_VALUES[rdaddr.coef],
                  coef    |-> rddata.coefInt,
                  dataInt |-> dataBuff[rdaddr.data],
                  data    |-> rddata.dataInt]

\* The position of a Fifo moves to the word just written.
FifoDescs ==
    /\ fifoDesc' = IF commit[3] THEN [fifoDesc EXCEPT ![descWrite] = nextAddr[3]] ELSE fifoDesc
    /\ descRead' = [addr |-> Entry(RDFIFONUM, ps[-1], 0),
                    int  |-> fifoDesc[descRead.addr],
                    data |-> descRead.int]
    /\ descWrite' = Entry(UPDATEFIFONUM, ps[2], 0)
    /\ firstTap_ps2' = Entry(FIRST_TAP, ps[1], FALSE)

CurrSize == RegionSize(descRead.data.last + 1)
CurrOrigin == RegionOrigin(descRead.data.offset, descRead.data.last + 1)

\* (mutant: the samples are not read in a circle)
ReadAddressesStraight ==
    rdaddr' = IF firstTap_ps2
              THEN [coef |-> CurrOrigin, data |-> descRead.data.offset]
              ELSE [coef |-> (rdaddr.coef + 1) % Cardinality(Addresses),
                    data |-> rdaddr.data - 1]

\* A row reads its coefficients upwards from the origin and its samples
\* downwards from the newest one.
ReadAddresses ==
    rdaddr' = IF firstTap_ps2
              THEN [coef |-> CurrOrigin, data |-> descRead.data.offset]
              ELSE [coef |-> (rdaddr.coef + 1) % Cardinality(Addresses),
                    data |-> CurrOrigin + ((rdaddr.data - 1) % CurrSize)]

\* The word where the next sample goes: computed from the Fifo that the slot
\* reads, used two slots (for the address) and three (for the position) later.
\* In the other slots the address is that of a word for the next MAC in the
\* chain, which nothing here reads.
UpdateAddresses ==
    /\ nextAddr' = <<[offset |-> CurrOrigin + ((descRead.data.offset + 1) % CurrSize),
                      last   |-> descRead.data.last],
                     nextAddr[1],
                     nextAddr[2]>>
    /\ updateAddr' = IF doUpdate.on THEN nextAddr[3].offset ELSE updateAddr

-----------------------------------------------------------------------------

\* (mutant: the mode comes a clock early)
DspModeEarly ==
    dsp' = [a      |-> rddata.coef,
            b      |-> rddata.data,
            ad     |-> dsp.b,
            m      |-> <<dsp.a, dsp.ad>>,
            result |-> IF Entry(MUL_MODE, ps[7], 0) = 0
                       THEN <<dsp.m>>
                       ELSE IF dsp.result = <<>> \/ Len(dsp.result) = MaxTaps
                       THEN <<>>
                       ELSE Append(dsp.result, dsp.m)]

\* The DSP48E2, a primitive with the registers that its parameters give it:
\* a coefficient has AREG before the multiplier, a sample BREG and ADREG, for
\* BMULTSEL takes it from the pre-adder; then MREG, and P, the sum with 0 or
\* with itself.  Nothing makes up for the difference: a product is that of the
\* sample of a slot and the coefficient of the next.  A sum of more products
\* than any FIR has taps is none of them: <<>>.
Dsp ==
    dsp' = [a      |-> rddata.coef,
            b      |-> rddata.data,
            ad     |-> dsp.b,
            m      |-> <<dsp.a, dsp.ad>>,
            result |-> IF Entry(MUL_MODE, ps[8], 0) = 0
                       THEN <<dsp.m>>
                       ELSE IF dsp.result = <<>> \/ Len(dsp.result) = MaxTaps
                       THEN <<>>
                       ELSE Append(dsp.result, dsp.m)]

\* (mutant: the commit of the stage before)
OutputsEarly ==
    /\ channelSel_ps9' = Entry(CHANNEL_SELECT, ps[8], 0)
    /\ out' = [c \in Channels |->
                Clocked([data |-> <<>>, new |-> FALSE, changed |-> FALSE],
                        [data    |-> IF channelSel_ps9 = c THEN dsp.result ELSE out[c].data,
                         new     |-> channelSel_ps9 = c /\ commit[8],
                         changed |-> out[c].changed # out[c].new])]

\* "'Changed' signal is delayed by 1 cycle from data"
Outputs ==
    /\ channelSel_ps9' = Entry(CHANNEL_SELECT, ps[8], 0)
    /\ out' = [c \in Channels |->
                Clocked([data |-> <<>>, new |-> FALSE, changed |-> FALSE],
                        [data    |-> IF channelSel_ps9 = c THEN dsp.result ELSE out[c].data,
                         new     |-> channelSel_ps9 = c /\ commit[9],
                         changed |-> out[c].changed # out[c].new])]

History ==
    /\ pushed' = [c \in Channels |->
                    IF commit[3] /\ Updates(ps[3], c)
                    THEN Append(pushed[c], wrdata)
                    ELSE pushed[c]]
    /\ outputs' = [c \in Channels |->
                    IF out[c].new /\ ~rst /\ ~rst' THEN outputs[c] + 1 ELSE outputs[c]]

-----------------------------------------------------------------------------

\* Power-up, with iRst high. The registers without a reset are undefined in
\* the circuit; while iRst is high the clock gives each of them a value.
Init ==
    /\ rst = TRUE
    /\ pin = [c \in Channels |-> [changed |-> FALSE, data |-> 0]]
    /\ ps = [n \in -1 .. 9 |-> 0]
    /\ latch = [c \in Channels |-> [data |-> 0, changed |-> FALSE, prev |-> FALSE]]
    /\ channelSel_ps1 = NoChannel
    /\ chosen_ps2 = [data |-> 0, changed |-> FALSE]
    /\ doUpdate = [on |-> FALSE, enable |-> 0]
    /\ commit = [n \in 3 .. 9 |-> FALSE]
    /\ wrdata = 0
    /\ dataBuff = [a \in Addresses |-> 0]
    /\ fifoDesc = FIFOSIZES
    /\ descRead = [addr |-> 0, int |-> FIFOSIZES[0], data |-> FIFOSIZES[0]]
    /\ descWrite = 0
    /\ firstTap_ps2 = FALSE
    /\ rdaddr = [coef |-> 0, data |-> 0]
    /\ rddata = [coefInt |-> NoCoeff, coef |-> NoCoeff, dataInt |-> 0, data |-> 0]
    /\ nextAddr = <<FIFOSIZES[0], FIFOSIZES[0], FIFOSIZES[0]>>
    /\ updateAddr = 0
    /\ dsp = [a |-> NoCoeff, b |-> 0, ad |-> 0, m |-> <<NoCoeff, 0>>, result |-> <<>>]
    /\ channelSel_ps9 = NoChannel
    /\ out = [c \in Channels |-> [data |-> <<>>, new |-> FALSE, changed |-> FALSE]]
    /\ sent = [c \in Channels |-> 0]
    /\ since = [c \in Channels |-> 0]
    /\ pushed = [c \in Channels |-> <<>>]
    /\ outputs = [c \in Channels |-> 0]
    /\ resets = 0

Clock(arrivals, reset) ==
    /\ Source(arrivals, reset)
    /\ TimeSlices /\ Latch /\ Choose /\ EnableUpdate /\ Commit
    /\ DataBuffers /\ FifoDescs /\ ReadAddresses /\ UpdateAddresses
    /\ Dsp /\ Outputs /\ History

Next == \E arrivals \in SUBSET Channels, reset \in BOOLEAN : Clock(arrivals, reset)

\* The clock runs, and iRst does not stay high for ever: written without WF, for
\* the step is always enabled and changes something unless iRst is held.
Spec == Init /\ [][Next]_vars /\ []<><<Next>>_vars

-----------------------------------------------------------------------------

Samples == 0 .. Max(ToSet(MaxSamples))

TypeOK ==
    /\ rst \in BOOLEAN /\ resets \in 0 .. MaxResets
    /\ ps \in [-1 .. 9 -> SlotNumbers]
    /\ pin \in [Channels -> [changed : BOOLEAN, data : Samples]]
    /\ latch \in [Channels -> [data : Samples, changed : BOOLEAN, prev : BOOLEAN]]
    /\ commit \in [3 .. 9 -> BOOLEAN]
    /\ dataBuff \in [Addresses -> Samples]
    /\ fifoDesc \in [0 .. Len(Fifos) - 1 -> [offset : Addresses, last : 0 .. 63]]
    /\ rdaddr.coef \in Addresses /\ rdaddr.data \in Addresses /\ updateAddr \in Addresses
    /\ \A c \in Channels : Len(out[c].data) <= MaxTaps

\* The filter's answer to a sequence of samples, as the products of one row:
\* each coefficient with its own sample, the newest first, and 0 before them.
Window(c, samples) ==
    [k \in 1 .. Depth(c) |->
        <<[fir |-> Mac.inputs[c + 1], tap |-> k - 1],
          IF k <= Len(samples) THEN samples[Len(samples) + 1 - k] ELSE 0>>]

\* "FIRST_TAP: '1' for first tap of the section of FIR in this FirEngine"
\* (firenginemacdescgen.cpp:177): a row is the filter, so every edge of an
\* oData<c>Changed announces the filter's answer to the samples taken before
\* the newest one.  The code does not do this; what it does is below.
AnswersAreWindows ==
    [][\A c \in Channels :
        out'[c].changed # out[c].changed /\ ~rst' =>
            out[c].data = Window(c, Front(pushed[c]))]_vars

\* A sum with the samples of a filter's answer, in order, each multiplied by the
\* coefficient of the next tap; the last has one from outside of the row.
ShiftedWindow(c, samples, sum) ==
    LET window == Window(c, samples)
    IN  /\ Len(sum) = Depth(c)
        /\ \A k \in 1 .. Depth(c) : sum[k][2] = window[k][2]
        /\ \A k \in 1 .. Depth(c) - 1 : sum[k][1] = window[k + 1][1]

\* Every edge of an oData<c>Changed announces a sum over exactly the samples
\* taken before the newest one, in order, none left out or taken from another
\* channel, though each with the coefficient of the next tap; the data was
\* stable when the edge comes (firenginemacdescgen.cpp:694), and it stays so
\* for that clock. A reset between does not change this.
AnswersHoldSamples ==
    [][\A c \in Channels :
        out'[c].changed # out[c].changed /\ ~rst' =>
            /\ ShiftedWindow(c, Front(pushed[c]), out[c].data)
            /\ out'[c].data = out[c].data]_vars

\* The samples of a channel are taken in the order in which they were sent,
\* each once, and a new one is taken before the next but one is sent; only a
\* reset can repeat or lose one.
TakenInOrder ==
    resets = 0 =>
        \A c \in Channels :
            /\ pushed[c] = [k \in 1 .. Len(pushed[c]) |-> k]
            /\ Len(pushed[c]) \in sent[c] - 2 .. sent[c]
            /\ outputs[c] \in Len(pushed[c]) - 1 .. Len(pushed[c])

\* The position of a Fifo and the contents of its circular buffer agree: the
\* position is where the last sample of the channel was written, the samples
\* before it lie in the words below, and no other channel writes there.
BufferHoldsWindow ==
    \A c \in Channels :
        LET size == Size(c)
            n    == Len(pushed[c])
        IN  /\ fifoDesc[Fifo(c)] = [offset |-> Base(c) + (n % size), last |-> Depth(c) - 1]
            /\ \A k \in 0 .. size - 1 :
                dataBuff[Base(c) + ((n - k) % size)] = IF k < n THEN pushed[c][n - k] ELSE 0

\* Every sample sent is answered: it never lasts for ever that a source has
\* sent more than its channel has answered, unless there is a reset.
EverySampleAnswered ==
    []<>(resets > 0 \/ \A c \in Channels : outputs[c] = sent[c])

=============================================================================
