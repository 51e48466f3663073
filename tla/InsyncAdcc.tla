----------------------------- MODULE InsyncAdcc -----------------------------
(***************************************************************************)
(* The ADC driver insync_adcc.c: the channels that probe enables, the      *)
(* conversions, and the interrupt handler, which serves one channel each   *)
(* time it is called while the others go on converting.                    *)
(***************************************************************************)
EXTENDS AdcReader, FiniteSetsExt

CONSTANTS
    ChannelMask,   \* the module parameter adc_channel_mask
    Measured       \* the values the conversions of each channel can give

ASSUME MaskAssumption == ChannelMask \subseteq Channels
ASSUME MeasuredAssumption == Measured \in [Channels -> SUBSET Readings]

VARIABLES
    enabled,       \* the channels enabled, in CHSR and in IMR
    eoc,           \* the end-of-conversion bits in SR
    cdr,           \* the channel data registers
    ipc,           \* where the interrupt handler is
    status, absx, absy

adcVars == <<enabled, eoc, cdr, ipc, status, absx, absy>>
vars    == <<feedVars, adcVars>>

Init ==
    /\ ReaderInit
    /\ enabled = {} /\ eoc = {} /\ cdr = [c \in Channels |-> 0]
    /\ ipc = "unregistered" /\ status = {} /\ absx = 0 /\ absy = 0

\* The loop of probe over the channels.
LoopChannels == {i \in Channels : i < 7}

\* probe, from the loop to the return.
Probe ==
    /\ ipc = "unregistered"
    /\ ipc' = "off"
    /\ enabled' = LoopChannels \cap ChannelMask
    /\ UNCHANGED <<feedVars, eoc, cdr, status, absx, absy>>

\* The ADC ends a conversion, one of those a trigger starts on every enabled
\* channel.  A reading that was not fetched is overwritten.
Convert(c) ==
    /\ c \in enabled
    /\ \E r \in Measured[c] : cdr' = [cdr EXCEPT ![c] = r]
    /\ eoc' = eoc \cup {c}
    /\ UNCHANGED <<feedVars, enabled, ipc, status, absx, absy>>

-----------------------------------------------------------------------------
(* insync_adcc_interrupt *)

IsrStatus ==
    /\ ipc = "off" /\ eoc # {} /\ HasRoom
    /\ ipc' = "read"
    /\ status' = eoc
    /\ absy' = 0
    /\ UNCHANGED <<feedVars, enabled, eoc, cdr, absx>>

\* (mutant: the channel that was converted first in the status is taken for
\* the one that is read)
IsrReadOther ==
    /\ ipc = "read"
    /\ ipc' = "report"
    /\ absx' = Min(status)
    /\ absy' = cdr[Max(status)]
    /\ eoc' = eoc \ {Max(status)}
    /\ UNCHANGED <<feedVars, enabled, cdr, status>>

\* (mutant: all the bits of the status are taken as served)
IsrReadAck ==
    /\ ipc = "read"
    /\ ipc' = "report"
    /\ absx' = Min(status)
    /\ absy' = cdr[Min(status)]
    /\ eoc' = eoc \ status
    /\ UNCHANGED <<feedVars, enabled, cdr, status>>

\* The lowest channel of the status; reading its CDR acknowledges it.
IsrRead ==
    /\ ipc = "read"
    /\ ipc' = "report"
    /\ absx' = Min(status)
    /\ absy' = cdr[Min(status)]
    /\ eoc' = eoc \ {Min(status)}
    /\ UNCHANGED <<feedVars, enabled, cdr, status>>

IsrReport ==
    /\ ipc = "report" /\ absy > 0
    /\ ipc' = "sync"
    /\ ReportAbs(Pack(absy, absx))
    /\ UNCHANGED <<enabled, eoc, cdr, status, absx, absy>>

\* "generate event only if the ADC reading is non-zero"
IsrZero ==
    /\ ipc = "report" /\ absy = 0
    /\ ipc' = "off"
    /\ UNCHANGED <<feedVars, enabled, eoc, cdr, status, absx, absy>>

IsrSync ==
    /\ ipc = "sync"
    /\ ipc' = "off"
    /\ InputSync
    /\ UNCHANGED <<enabled, eoc, cdr, status, absx, absy>>

Isr == IsrStatus \/ IsrRead \/ IsrReport \/ IsrZero \/ IsrSync

Reader == ReaderTurn /\ UNCHANGED adcVars

Next == Probe \/ (\E c \in Channels : Convert(c)) \/ Isr \/ Reader

Spec == Init /\ [][Next]_vars

\* An interrupt that is raised is served and the reader reads on; no trigger
\* has to come.
LiveSpec == Spec /\ WF_vars(Isr) /\ WF_vars(Reader)

-----------------------------------------------------------------------------
\* The types of the driver's state and of its event stream.
TypeOK ==
    /\ whole \in BOOLEAN
    /\ absval \in 0..ADC_DATA_MAX /\ sync \in BOOLEAN /\ Len(queue) <= QueueCap + 2
    /\ enabled \subseteq Channels /\ eoc \subseteq enabled /\ status \subseteq enabled
    /\ cdr \in [Channels -> Readings]
    /\ ipc \in {"unregistered", "off", "read", "report", "sync"}
    /\ absx \in Channels /\ absy \in Readings
    /\ told \in [Channels -> Readings \cup {Unknown}]

\* The readings on their way to the reader, when it gets whole reports: the
\* first event of each report.
Posted == [i \in 1 .. (Len(queue) + 1) \div 2 |->
             LET e == queue[2 * i - 1] IN [id |-> AdcId(e), reading |-> AdcReading(e)]]

Feed == INSTANCE AdcFeed WITH
          Ids     <- Channels,
          Samples <- UNION {[id : {c}, reading : Measured[c] \ {0}] : c \in Channels},
          posted  <- IF whole THEN Posted ELSE <<>>,
          told    <- IF whole THEN told ELSE [c \in Channels |-> Unknown]

\* From an event device that shows whole reports, every reading that is
\* reported is processed, in order, with its channel, although its two events
\* may be read apart or with those of another.
FeedSpec == Feed!Spec

\* No reading is ever processed for a channel that did not measure it,
\* whatever was converted between the read of SR and that of CDR.
OwnReadings == \A c \in Channels : told[c] \in Measured[c] \cup {Unknown}

\* When the conversions stop, a reader of whole reports has the last reading of
\* every channel, unless that is 0, for which the driver sends nothing.
LastReadingTold ==
    whole /\ <>[](eoc = {}) => <>[](\A c \in enabled : cdr[c] > 0 => told[c] = cdr[c])

\* What the handler may report: the readings of each channel, packed with it.
Reported == UNION {{Pack(r, c) : r \in Measured[c] \ {0}} : c \in Channels}

\* What the handler has in hand is the channel's own, and there is room for
\* the two events of its report; nothing is enabled before probe.
IsrInv ==
    /\ ipc = "unregistered" => enabled = {}
    /\ \A c \in Channels : cdr[c] \in Measured[c] \cup {0}
    /\ ipc = "read" => status # {}
    /\ ipc = "report" => absy \in Measured[absx] \cup {0}
    /\ ipc = "sync" => absval # 0
    /\ ipc \in {"read", "report"} => Len(queue) <= QueueCap
    /\ ipc = "sync" => Len(queue) <= QueueCap + 1

\* Between two ABS events there is a SYN_REPORT.
ReportsApart ==
    \A i \in 1 .. Len(queue) :
        IsAbs(queue[i]) => IF i < Len(queue) THEN ~IsAbs(queue[i + 1]) ELSE ipc = "sync" /\ ~sync

\* A reader of whole reports finds the ABS events at the odd places: only the
\* SYN_REPORT that the handler is about to send is missing.
WholeReports ==
    whole =>
        /\ \A i \in 1 .. Len(queue) : IsAbs(queue[i]) <=> i % 2 = 1
        /\ Len(queue) % 2 = IF ipc = "sync" /\ ~sync THEN 1 ELSE 0
        /\ ipc = "sync" \/ sync \/ absval = 0

\* The inductive invariant.
IInv ==
    /\ TypeOK
    /\ Reports(Reported)
    /\ IsrInv
    /\ ReportsApart
    /\ WholeReports
    /\ StaleHarmless => OwnReadings
=============================================================================
