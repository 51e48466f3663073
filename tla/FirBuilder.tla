----------------------------- MODULE FirBuilder -----------------------------
(***************************************************************************)
(* The FirEngine builder, from the specification file to the tables of the *)
(* generated Verilog: it reads the lines of the file, binds the FIRs in    *)
(* the order of their numbers, and generates the MACs one file at a time   *)
(* (firenginebuilder.cpp, firenginespec.cpp, firenginedescbind.cpp,        *)
(* firenginedesc.cpp, firenginemacdescgen.cpp).                            *)
(*                                                                         *)
(* A line of the file is one of those readFromFile accepts, or one that it *)
(* rejects; the characters of a line are not modelled, and the values of   *)
(* the coefficients neither, only their number.                            *)
(***************************************************************************)
EXTENDS FirTables

CONSTANTS
    FirNumbers,     \* the numbers i of FIR[i] in the file
    TapCounts,      \* the numbers of coefficients a line may list
    Rates,          \* the sample rates of the file, as the field half of a FIR
    DefaultRate     \* the rate of a FIR that no line gives one, 16 MHz

ASSUME NumbersAssumption == FirNumbers \subseteq Nat
ASSUME LinesAssumption == TapCounts \subseteq Nat /\ Rates \subseteq Nat
ASSUME DefaultAssumption == DefaultRate \in Nat

VARIABLES
    phase,  \* what buildFirEngine is doing, or how it ended
    spec,   \* m_vFirSpec
    macs,   \* m_vFirEngineMacDesc
    numFirs,    \* m_NumFirs: the FIRs bound so far
    rtl     \* the MACs generated so far: the description whose control tables
            \* were taken, and the order of the Fifos in FIFOSIZES

vars == <<phase, spec, macs, numFirs, rtl>>

DefaultFir == [taps |-> 0, half |-> DefaultRate]

Init ==
    /\ phase = "reading"
    /\ spec = <<>>
    /\ macs = <<>>
    /\ numFirs = 0
    /\ rtl = <<>>

-----------------------------------------------------------------------------

\* A line that names FIR[i] makes the FIRs up to i exist.
Grown(i) ==
    [k \in 1 .. Max({Len(spec), i + 1}) |-> IF k <= Len(spec) THEN spec[k] ELSE DefaultFir]

ReadSampleRate(i, half) ==
    /\ phase = "reading"
    /\ spec' = [Grown(i) EXCEPT ![i + 1].half = half]
    /\ UNCHANGED <<phase, macs, numFirs, rtl>>

ReadCoeff(i, taps) ==
    /\ phase = "reading"
    /\ spec' = [Grown(i) EXCEPT ![i + 1].taps = taps]
    /\ UNCHANGED <<phase, macs, numFirs, rtl>>

\* Any other line is a syntax error, which ends the program.
SyntaxError ==
    /\ phase = "reading"
    /\ phase' = "failed"
    /\ UNCHANGED <<spec, macs, numFirs, rtl>>

EndOfFile ==
    /\ phase = "reading"
    /\ phase' = "binding"
    /\ UNCHANGED <<spec, macs, numFirs, rtl>>

-----------------------------------------------------------------------------

NextFir == spec[numFirs + 1]

\* The test of the sample frequency lets a FIR pass that has less than one
\* clock for each sample: the rounding of the interval then divides by zero.
TooFast(fir) == fir.half = 0
NoClock(fir) == fir.half > 0 /\ ClocksPerSample(fir) = 0
\* (mutant: off by one)
TooLongByOne(fir) == ClocksPerSample(fir) > 0 /\ Interval(fir) + 1 < fir.taps

TooLong(fir) == ClocksPerSample(fir) > 0 /\ Interval(fir) < fir.taps

BindFir ==
    /\ phase = "binding"
    /\ numFirs < Len(spec)
    /\ ~TooFast(NextFir) /\ ~NoClock(NextFir) /\ ~TooLong(NextFir)
    /\ macs' = Bound(macs, NextFir, numFirs)
    /\ numFirs' = numFirs + 1
    /\ UNCHANGED <<phase, spec, rtl>>

\* The two exceptions of bindFir, caught by main.
RejectFir ==
    /\ phase = "binding"
    /\ numFirs < Len(spec)
    /\ TooFast(NextFir) \/ TooLong(NextFir)
    /\ phase' = "failed"
    /\ UNCHANGED <<spec, macs, numFirs, rtl>>

DivideByZero ==
    /\ phase = "binding"
    /\ numFirs < Len(spec)
    /\ NoClock(NextFir)
    /\ phase' = "aborted"
    /\ UNCHANGED <<spec, macs, numFirs, rtl>>

StartGenerating ==
    /\ phase = "binding"
    /\ numFirs = Len(spec)
    /\ phase' = "generating"
    /\ UNCHANGED <<spec, macs, numFirs, rtl>>

-----------------------------------------------------------------------------

NextMac == macs[Len(rtl) + 1]

\* The tables of the slots are taken from the Fifos in the order of their
\* binding, those of the Fifos and coefficients after the sort.
GenerateMac ==
    /\ phase = "generating"
    /\ Len(rtl) < Len(macs)
    /\ \E order \in DescendingOrders(NextMac.fifos) :
        /\ Generable(order)
        /\ rtl' = Append(rtl, [channel |-> ChannelSelect(NextMac),
                               update  |-> DoUpdate(NextMac),
                               first   |-> FirstTap(NextMac),
                               mul     |-> MulMode(NextMac),
                               rdFifo  |-> RdFifoNum(NextMac),
                               upFifo  |-> UpdateFifoNum(NextMac),
                               fifos   |-> order])
    /\ UNCHANGED <<phase, spec, macs, numFirs>>

\* A failed assertion ends the program; the files written before it stay.
AssertionFails ==
    /\ phase = "generating"
    /\ Len(rtl) < Len(macs)
    /\ \E order \in DescendingOrders(NextMac.fifos) : ~Generable(order)
    /\ phase' = "aborted"
    /\ UNCHANGED <<spec, macs, numFirs, rtl>>

Finish ==
    /\ phase = "generating"
    /\ Len(rtl) = Len(macs)
    /\ phase' = "generated"
    /\ UNCHANGED <<spec, macs, numFirs, rtl>>

Next ==
    \/ \E i \in FirNumbers, half \in Rates : ReadSampleRate(i, half)
    \/ \E i \in FirNumbers, taps \in TapCounts : ReadCoeff(i, taps)
    \/ SyntaxError
    \/ EndOfFile
    \/ BindFir
    \/ RejectFir
    \/ DivideByZero
    \/ StartGenerating
    \/ GenerateMac
    \/ AssertionFails
    \/ Finish

Spec == Init /\ [][Next]_vars

-----------------------------------------------------------------------------

Firs == 0 .. numFirs - 1
Fir(f) == spec[f + 1]

MacDescs ==
    {mac \in [inputs : Seq(Firs),
              update : [Slots -> Firs \cup {NoFir}],
              coeff  : [Slots -> [fir : Firs \cup {NoFir}, tap : Nat]],
              fifos  : Seq([fir : Firs, depth : Nat, words : Nat \ {0}])] :
        Len(mac.inputs) = Len(mac.fifos) /\ Len(mac.inputs) <= MaxInputs}

RtlTables ==
    [channel : [Slots -> Nat], update : [Slots -> BOOLEAN], first : [Slots -> BOOLEAN],
     mul : [Slots -> {0, 1}], rdFifo : [Slots -> Nat], upFifo : [Slots -> Nat],
     fifos : Seq([fir : Firs, depth : Nat, words : Nat \ {0}])]

\* The type invariant; the channel numbers of a MAC never reach the number
\* that stands for no channel, and every FIR is an input of exactly one MAC.
TypeOK ==
    /\ phase \in {"reading", "binding", "generating", "generated", "failed", "aborted"}
    /\ spec \in Seq([taps : Nat, half : Nat])
    /\ numFirs \in 0 .. Len(spec)
    /\ macs \in Seq(MacDescs)
    /\ \A f \in Firs : \E m \in DOMAIN macs :
        /\ f \in ToSet(macs[m].inputs)
        /\ \A n \in DOMAIN macs \ {m} : f \notin ToSet(macs[n].inputs)
    /\ rtl \in Seq(RtlTables) /\ Len(rtl) <= Len(macs)

\* Where the interval divides the round of time slots, as the comment at
\* firenginedescbind.cpp:138 means it to, each update of a FIR ends a whole
\* row: one slot for each coefficient, in order, in the slots before it. No
\* row of the FIR overlaps another, nor the row of a FIR bound later.
RowsWhole ==
    \A m \in DOMAIN macs : \A u \in Slots :
        LET f == macs[m].update[u]
        IN  f # NoFir /\ NumTimeSlots % Interval(Fir(f)) = 0 =>
                \A i \in 0 .. Fir(f).taps - 1 :
                    macs[m].coeff[RowSlot(u, i)] = [fir |-> f, tap |-> Fir(f).taps - 1 - i]

\* The slots within which a FIR is updated, from any slot on.
Due(fir) == IF NumTimeSlots % Interval(fir) = 0
            THEN Min({ClocksPerSample(fir), NumTimeSlots})
            ELSE 2 * Interval(fir) - 1

\* A MAC updates FIR f so often.
Served(mac, f) ==
    \A s \in Slots : \E d \in 0 .. Due(Fir(f)) - 1 : mac.update[RowSlot(s, -d)] = f

\* firspec.h:17 calls the sample rate the rate at which samples will be
\* processed. Where the interval divides the round of time slots, a FIR is
\* updated, from any slot on, before the clocks between two of its samples are
\* over (a round, if that is less). Where it does not, the round starts again
\* before or after the next update is due: it comes less than two intervals on.
UpdatedInTime == \A f \in Firs : \E m \in DOMAIN macs : Served(macs[m], f)

\* Binding a FIR takes free slots only: what is placed for the FIRs bound
\* before stays as it is (the checks of canBind against the writes of bind).
SlotsKept ==
    [][\A m \in DOMAIN macs : \A s \in Slots :
        /\ macs[m].coeff[s].fir # NoFir => macs'[m].coeff[s] = macs[m].coeff[s]
        /\ macs[m].update[s] # NoFir => macs'[m].update[s] = macs[m].update[s]]_vars

\* The Fifo that the generated MAC reads in a slot with a coefficient is the
\* Fifo of that coefficient's FIR ("Lookup which Fifo is used for a
\* particular FIR", firenginemacdesc.h:29), and so for the updates: the
\* numbers in the tables count the Fifos in the order of FIFOSIZES.
OwnFifo(m) ==
    \A s \in Slots :
        /\ macs[m].coeff[s].fir # NoFir =>
            rtl[m].fifos[rtl[m].rdFifo[s] + 1].fir = macs[m].coeff[s].fir
        /\ macs[m].update[s] # NoFir =>
            rtl[m].fifos[rtl[m].upFifo[s] + 1].fir = macs[m].update[s]

SlotsReadOwnFifo == \A m \in DOMAIN rtl : OwnFifo(m)

\* The circular buffers that the generated Verilog cuts out of the data
\* buffer lie within it, begin at the Fifos' own addresses and do not
\* overlap; and from there, where the Verilog starts to read them, lie the
\* coefficients of the Fifo's FIR, in the order of its taps. Only two FIRs of
\* one tap share words: their Fifos have one and their circular buffers two.
RegionsApart ==
    \A m \in DOMAIN rtl :
        LET fifos  == rtl[m].fifos
            offset == FifoOffsets(fifos)
            origin(i) == RegionOrigin(offset[i], fifos[i].depth)
            region(i) == origin(i) .. origin(i) + RegionSize(fifos[i].depth) - 1
        IN  \A i \in DOMAIN fifos :
                /\ fifos[i].depth > 1 =>
                    /\ origin(i) = offset[i] /\ region(i) \subseteq 0 .. BufferDepth(fifos) - 1
                    /\ \A k \in 0 .. fifos[i].depth - 1 :
                        CoeffValues(fifos)[origin(i) + k] = [fir |-> fifos[i].fir, tap |-> k]
                /\ \A j \in DOMAIN fifos \ {i} :
                    fifos[i].depth > 1 \/ fifos[j].depth > 1 => region(i) \cap region(j) = {}

\* A MAC that is generated is one whose circuit works, as far as the builder can
\* see to it: its slots if the intervals of its FIRs divide the round of time
\* slots, its buffers if they have more than one coefficient.
MacsFit ==
    \A m \in DOMAIN rtl :
        /\ (\A f \in ToSet(macs[m].inputs) : NumTimeSlots % Interval(Fir(f)) = 0) => WholeMac(macs[m], spec)
        /\ (\A i \in DOMAIN rtl[m].fifos : rtl[m].fifos[i].depth > 1) => WholeBuffers(rtl[m].fifos)

\* Whatever the file holds, a build that completes has a whole MAC for each
\* FIR: no FIR without coefficients (a gap in the numbers of the file makes
\* one), and none with more coefficients than clocks between its updates.
OnlyWholeFirs ==
    phase = "generated" =>
        /\ numFirs = Len(spec)
        /\ \A f \in Firs : Fir(f).taps \in 1 .. Interval(Fir(f))
        /\ \A m \in DOMAIN macs : \A i \in DOMAIN macs[m].inputs :
            \E s \in Slots : rtl[m].update[s] /\ rtl[m].channel[s] = i - 1

\* What the phases have finished.
PhaseInv ==
    /\ phase = "reading" => macs = <<>> /\ numFirs = 0
    /\ phase \in {"reading", "binding"} => rtl = <<>>
    /\ phase \in {"generating", "generated"} => numFirs = Len(spec)
    /\ phase = "generated" => Len(rtl) = Len(macs)

\* The FIRs that are bound have passed the tests of bindFir.
FirsFit == \A f \in Firs : ClocksPerSample(Fir(f)) > 0 /\ Fir(f).taps <= Interval(Fir(f))

\* What a MAC holds belongs to its inputs: they differ, each has its Fifo, and
\* each is served in time; and nothing else is in its slots.
InputsServed(mac) ==
    /\ \A i, j \in DOMAIN mac.inputs : mac.inputs[i] = mac.inputs[j] => i = j
    /\ \A i \in DOMAIN mac.inputs :
        /\ mac.fifos[i].fir = mac.inputs[i]
        /\ mac.fifos[i].depth = Fir(mac.inputs[i]).taps
        /\ mac.fifos[i].words = RoundUpToPowerOfTwo(mac.fifos[i].depth)
        /\ Served(mac, mac.inputs[i])
    /\ \A s \in Slots :
        /\ mac.update[s] \in ToSet(mac.inputs) \cup {NoFir}
        /\ mac.coeff[s].fir \in ToSet(mac.inputs) \cup {NoFir}

\* What was generated for a MAC, after its assertions.
RtlWhole ==
    \A m \in DOMAIN rtl :
        /\ rtl[m].update = DoUpdate(macs[m]) /\ rtl[m].channel = ChannelSelect(macs[m])
        /\ rtl[m].fifos \in DescendingOrders(macs[m].fifos) /\ Generable(rtl[m].fifos)

\* The inductive invariant.
IInv ==
    /\ TypeOK
    /\ PhaseInv
    /\ FirsFit
    /\ \A m \in DOMAIN macs : InputsServed(macs[m])
    /\ RowsWhole
    /\ RtlWhole
=============================================================================
