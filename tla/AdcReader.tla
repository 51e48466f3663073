----------------------------- MODULE AdcReader -----------------------------
(***************************************************************************)
(* The way of an ADC reading from input_report_abs to adc_process_reading: *)
(* the kernel's input core, the event device adc_test.c has open, and the  *)
(* loop of adc_test.c.  InsyncAdcc and Vadcc put their drivers before it.  *)
(***************************************************************************)
EXTENDS Integers, SequencesExt, FiniteSetsExt

CONSTANTS
    QueueCap,       \* bound: the drivers report while at most so many events wait
    EventDevices,   \* the event devices considered, values of whole
    Stale           \* an event the uninitialised adc_ev may hold

ASSUME QueueAssumption == QueueCap \in Nat /\ EventDevices \subseteq BOOLEAN
ASSUME StaleAssumption == Stale.value \in Int

Channels == 0..7
Readings == 0..1023
\* "13 bits <= 10 bit reading and 3 bit id".
ADC_DATA_MAX == 8191
Unknown  == -1

\* The events of one report: an ABS_Y with its value, and a SYN_REPORT.
Abs(v) == [type |-> "EV_ABS", value |-> v]
Syn    == [type |-> "EV_SYN", value |-> 0]
IsAbs(e) == e.type = "EV_ABS"

\* (mutant: the channel is given 4 bits)
PackWide(reading, id) == 16 * reading + id

\* (mutant: ADC_READING_MASK is 0x0FF8)
AdcReadingNarrow(e) == (e.value \div 8) % 512

\* The 10 bits of the reading over the 3 bits of the channel.
Pack(reading, id) == 8 * reading + id
AdcId(e)      == e.value % 8
AdcReading(e) == (e.value \div 8) % 1024

VARIABLES
    whole,    \* TRUE: the event device shows a report when its SYN_REPORT is there;
              \* FALSE: it shows each event at once, as older kernels do
    absval,   \* the last value of ABS_Y the input core passed on
    sync,     \* it has passed on nothing since the last SYN_REPORT
    queue,    \* the events the event device holds for the reader
    ev,       \* adc_ev[2] of adc_test.c
    told      \* what adc_process_reading was last given for each channel

feedVars == <<whole, absval, sync, queue, ev, told>>

\* The reader has opened the device, no reading has been reported.
ReaderInit ==
    /\ whole \in EventDevices
    /\ absval = 0 /\ sync = FALSE /\ queue = <<>>
    /\ ev = <<Stale, Stale>>
    /\ told = [c \in Channels |-> Unknown]

\* input_report_abs: a value that is the last one again is dropped.
ReportAbs(v) ==
    /\ absval' = v
    /\ sync' = (sync /\ v = absval)
    /\ queue' = IF v = absval THEN queue ELSE Append(queue, Abs(v))
    /\ UNCHANGED <<whole, ev, told>>

\* input_sync: a report of nothing is dropped.
InputSync ==
    /\ sync' = TRUE
    /\ queue' = IF sync THEN queue ELSE Append(queue, Syn)
    /\ UNCHANGED <<whole, absval, ev, told>>

HasRoom == Len(queue) <= QueueCap

-----------------------------------------------------------------------------
(* One turn of the loop of main.  read() waits for an event and returns as *)
(* many of the two asked for as there are.                                 *)

Visible == IF whole THEN Max({0} \cup {i \in DOMAIN queue : queue[i] = Syn})
                    ELSE Len(queue)
Fetched == Min({2, Visible})

\* A short read leaves the second element of adc_ev as it was.
Filled == SubSeq(queue, 1, Fetched) \o SubSeq(ev, Fetched + 1, 2)

\* (mutant: the mix-up is not looked for)
ChosenFirst(e) == IF IsAbs(e[1]) THEN 1 ELSE 0

\* The element that holds the ADC data, 0 for none.
Chosen(e) == IF IsAbs(e[1]) THEN 1 ELSE IF IsAbs(e[2]) THEN 2 ELSE 0

ReaderTurn ==
    /\ Visible > 0
    /\ ev' = Filled
    /\ queue' = SubSeq(queue, Fetched + 1, Len(queue))
    /\ told' = IF Chosen(Filled) = 0 THEN told
               ELSE LET e == Filled[Chosen(Filled)]
                    IN  [told EXCEPT ![AdcId(e)] = AdcReading(e)]
    /\ UNCHANGED <<whole, absval, sync>>

-----------------------------------------------------------------------------
\* A turn that reads an ADC event processes an ADC event it has read, and the
\* only one: whatever way the events are split over reads, none is skipped.
NoReadingSkipped ==
    [][ReaderTurn => LET abs == {i \in 1..Fetched : IsAbs(queue[i])}
                     IN  abs # {} => abs = {Chosen(ev')}]_feedVars

\* The events that report one of the values, and the end of a report.
Events(values) == {Abs(v) : v \in values} \cup {Syn}

\* What adc_ev holds before it was read is not taken for a reading: the event
\* device shows whole reports, so that the first read fills both elements, or
\* it is not an ABS event.
StaleHarmless == EventDevices \subseteq {TRUE} \/ ~IsAbs(Stale)

\* Where the events come from: the queue and adc_ev hold events that report one
\* of the values; until adc_ev is full, what was first reported is still there.
Reports(values) ==
    /\ queue \in Seq(Events(values))
    /\ ev \in Seq(Events(values) \cup {Stale}) /\ Len(ev) = 2
    /\ StaleHarmless =>
         \/ ev \in Seq(Events(values)) \/ ~IsAbs(Stale)
         \/ whole /\ IF queue = <<>> THEN absval = 0 ELSE IsAbs(queue[1])
=============================================================================
