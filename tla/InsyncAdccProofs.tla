-------------------------- MODULE InsyncAdccProofs --------------------------
(***************************************************************************)
(* The ADC driver and the program that reads it, for any channel mask, any *)
(* measured values, any queue and any contents of the uninitialised        *)
(* adc_ev.                                                                 *)
(***************************************************************************)
EXTENDS InsyncAdcc, AdcReaderProofs

\* Packing and unpacking: the channel and the reading come back.
LEMMA Unpacked ==
  ASSUME NEW c \in Channels, NEW r \in Readings
  PROVE  /\ AdcId(Abs(Pack(r, c))) = c
         /\ AdcReading(Abs(Pack(r, c))) = r
         /\ Pack(r, c) \in 0 .. ADC_DATA_MAX
         /\ r # 0 => Pack(r, c) # 0
<1>1. (8 * r + c) % 8 = c /\ (8 * r + c) \div 8 = r /\ r % 1024 = r
  BY DEF Channels, Readings
<1>2. 8 * r + c \in 0 .. ADC_DATA_MAX /\ (r # 0 => 8 * r + c # 0)
  BY DEF Channels, Readings, ADC_DATA_MAX
<1>3. AdcId(Abs(Pack(r, c))) = c
  BY <1>1 DEF AdcId, Abs, Pack
<1>4. AdcReading(Abs(Pack(r, c))) = r
  BY <1>1 DEF AdcReading, Abs, Pack
<1>5. Pack(r, c) \in 0 .. ADC_DATA_MAX /\ (r # 0 => Pack(r, c) # 0)
  BY <1>2 DEF Pack
<1> QED
  BY <1>3, <1>4, <1>5

LEMMA ReportedValue ==
  ASSUME NEW v \in Reported
  PROVE  /\ \E c \in Channels : \E r \in Measured[c] \ {0} : r \in Readings /\ v = Pack(r, c)
         /\ v \in 0 .. ADC_DATA_MAX
         /\ v # 0
<1>0. PICK c \in Channels : \E q \in Measured[c] \ {0} : v = Pack(q, c)
  BY DEF Reported
<1>1. PICK r \in Measured[c] \ {0} : v = Pack(r, c)
  BY <1>0
<1>2. r \in Readings
  BY MeasuredAssumption
<1>3. v \in 0 .. ADC_DATA_MAX /\ v # 0
  BY <1>1, <1>2, Unpacked
<1>4. \E q \in Measured[c] \ {0} : q \in Readings /\ v = Pack(q, c)
  BY <1>1, <1>2
<1> QED
  BY <1>3, <1>4

LEMMA ReportedInts == \A v \in Reported : v \in Int
<1> TAKE v \in Reported
<1>1. v \in 0 .. ADC_DATA_MAX
  BY ReportedValue
<1> QED
  BY <1>1

\* What the handler is about to report is one of the values.
LEMMA HandlerReports ==
  ASSUME TypeOK, IsrInv, IsrReport
  PROVE  Pack(absy, absx) \in Reported
<1>1. absx \in Channels /\ absy \in Measured[absx] \ {0}
  BY DEF IsrReport, TypeOK, IsrInv, Readings
<1> QED
  BY <1>1 DEF Reported

LEMMA LowestChannel ==
  ASSUME NEW S \in SUBSET Channels, S # {}
  PROVE  Min(S) \in S
<1>1. S \subseteq Nat
  BY DEF Channels
<1> QED
  BY <1>1, MinOfNats, Zenon

-----------------------------------------------------------------------------
(* What each step does to the state of the handler *)

LEMMA InitInv == Init => IInv
<1> SUFFICES ASSUME Init PROVE IInv
  OBVIOUS
<1>1. Reports(Reported)
  BY StartReports DEF Init
<1>2. TypeOK
  <2>1. 0 \in Readings /\ 0 \in Channels /\ 0 \in 0 .. ADC_DATA_MAX
    BY DataMax DEF Readings, Channels
  <2>2. whole \in BOOLEAN /\ sync \in BOOLEAN
    BY QueueAssumption DEF Init, ReaderInit
  <2>3. Len(queue) <= QueueCap + 2
    BY QueueAssumption DEF Init, ReaderInit
  <2>4. cdr \in [Channels -> Readings]
    BY <2>1 DEF Init
  <2>5. told \in [Channels -> Readings \cup {Unknown}]
    BY DEF Init, ReaderInit
  <2> QED
    BY <2>1, <2>2, <2>3, <2>4, <2>5 DEF Init, ReaderInit, TypeOK
<1>3. queue = <<>> /\ absval = 0 /\ told = [c \in Channels |-> Unknown]
  BY DEF Init, ReaderInit
<1>4. IsrInv
  BY QueueAssumption DEF Init, IsrInv
<1>5. ReportsApart /\ WholeReports /\ OwnReadings
  BY <1>3 DEF ReportsApart, WholeReports, OwnReadings, Init
<1> QED
  BY <1>1, <1>2, <1>4, <1>5 DEF IInv

\* The steps that leave the event stream alone.
LEMMA ConvertStep ==
  ASSUME TypeOK, IsrInv, NEW c \in Channels, Convert(c)
  PROVE  TypeOK' /\ IsrInv'
<1>1. PICK r \in Measured[c] : cdr' = [cdr EXCEPT ![c] = r]
  BY DEF Convert
<1>2. r \in Readings
  BY MeasuredAssumption
<1>3. /\ cdr' \in [Channels -> Readings]
      /\ \A d \in Channels : cdr'[d] \in Measured[d] \cup {0}
  BY <1>1, <1>2 DEF TypeOK, IsrInv
<1>4. eoc' \subseteq enabled'
  BY DEF Convert, TypeOK
<1>5. UNCHANGED <<feedVars, enabled, ipc, status, absx, absy>>
  BY DEF Convert
<1> QED
  <2>1. TypeOK'
    BY <1>3, <1>4, <1>5 DEF TypeOK, feedVars
  <2>2. IsrInv'
    BY <1>3, <1>5 DEF IsrInv, feedVars
  <2> QED
    BY <2>1, <2>2

LEMMA ReadStep ==
  ASSUME TypeOK, IsrInv, IsrRead
  PROVE  TypeOK' /\ IsrInv'
<1>1. Min(status) \in status /\ Min(status) \in Channels
  <2>1. status \in SUBSET Channels /\ status # {}
    BY DEF TypeOK, IsrInv, IsrRead
  <2> QED
    BY <2>1, LowestChannel
<1>2. absx' \in Channels /\ absy' \in Readings /\ absy' \in Measured[absx'] \cup {0}
  BY <1>1 DEF IsrRead, TypeOK, IsrInv
<1>3. eoc' \subseteq enabled' /\ ipc = "read" /\ ipc' = "report"
  BY DEF IsrRead, TypeOK
<1>4. UNCHANGED <<feedVars, enabled, cdr, status>>
  BY DEF IsrRead
<1> QED
  BY <1>2, <1>3, <1>4 DEF TypeOK, IsrInv, feedVars

LEMMA QuietStep ==
  ASSUME TypeOK, IsrInv, Probe \/ IsrStatus \/ IsrZero \/ UNCHANGED vars
  PROVE  TypeOK' /\ IsrInv' /\ UNCHANGED feedVars /\ (ipc' = "sync" <=> ipc = "sync")
<1>1. CASE Probe
  <2>1. eoc = {} /\ status = {} /\ enabled' \subseteq Channels
    BY <1>1, MaskAssumption DEF Probe, LoopChannels, TypeOK, IsrInv
  <2>2. /\ ipc = "unregistered" /\ ipc' = "off"
        /\ UNCHANGED <<feedVars, eoc, cdr, status, absx, absy>>
    BY <1>1 DEF Probe
  <2> QED
    BY <2>1, <2>2 DEF TypeOK, IsrInv, feedVars
<1>2. CASE IsrStatus
  <2>1. absy' = 0 /\ 0 \in Readings /\ Len(queue) <= QueueCap
    BY <1>2 DEF IsrStatus, HasRoom, Readings
  <2>2. /\ ipc = "off" /\ ipc' = "read" /\ status' = eoc /\ eoc # {}
        /\ UNCHANGED <<feedVars, enabled, eoc, cdr, absx>>
    BY <1>2 DEF IsrStatus
  <2>3. TypeOK'
    BY <2>1, <2>2 DEF TypeOK, feedVars
  <2>4. IsrInv'
    BY <2>1, <2>2 DEF IsrInv, feedVars
  <2> QED
    BY <2>2, <2>3, <2>4
<1>3. CASE IsrZero
  BY <1>3 DEF IsrZero, TypeOK, IsrInv, feedVars
<1>4. CASE UNCHANGED vars
  BY <1>4 DEF vars, adcVars, TypeOK, IsrInv, feedVars
<1> QED
  BY <1>1, <1>2, <1>3, <1>4

LEMMA QuietInv ==
  ASSUME IInv,
         Probe \/ (\E c \in Channels : Convert(c)) \/ IsrStatus \/ IsrRead \/ IsrZero \/ UNCHANGED vars
  PROVE  IInv'
<1>1. TypeOK' /\ IsrInv' /\ UNCHANGED feedVars /\ (ipc' = "sync" <=> ipc = "sync")
  BY ConvertStep, ReadStep, QuietStep DEF IInv, Convert, IsrRead
<1>2. ReportsApart' /\ WholeReports'
  BY <1>1 DEF IInv, ReportsApart, WholeReports, feedVars
<1> QED
  BY <1>1, <1>2 DEF IInv, Reports, OwnReadings, feedVars

\* The handler's ABS event goes behind a SYN_REPORT.
LEMMA ReportInv ==
  ASSUME IInv, IsrReport
  PROVE  IInv'
<1> DEFINE v == Pack(absy, absx)
<1>1. v \in Reported /\ v \in 0 .. ADC_DATA_MAX /\ v # 0
  BY HandlerReports, ReportedValue DEF IInv
<1>2. Reports(Reported)' /\ absval' # 0
  BY <1>1, AbsReports DEF IInv, IsrReport
<1>3. queue \in Seq(Events(Reported)) /\ Abs(v) \in Events(Reported) /\ IsAbs(Abs(v))
  BY <1>1 DEF IInv, Reports, Events, Abs, IsAbs
<1>4. /\ ipc = "report" /\ ipc' = "sync"
      /\ UNCHANGED <<whole, ev, told, enabled, eoc, cdr, status, absx, absy>>
      /\ absval' = v /\ sync' = (sync /\ v = absval)
      /\ queue' = IF v = absval THEN queue ELSE Append(queue, Abs(v))
  BY DEF IsrReport, ReportAbs
<1>5. Len(queue) <= QueueCap /\ Len(queue') <= QueueCap + 1 /\ Len(queue) \in Nat
  BY <1>3, <1>4, QueueAssumption DEF IInv, IsrInv
<1>6. TypeOK'
  <2>1. Len(queue') <= QueueCap + 2
    <3>1. Len(queue') \in Nat
      BY <1>2 DEF Reports
    <3> QED
      BY <1>5, <3>1, QueueAssumption
  <2>2. absval' \in 0 .. ADC_DATA_MAX /\ sync' \in BOOLEAN
    <3>1. sync \in BOOLEAN
      BY DEF IInv, TypeOK
    <3> HIDE DEF v
    <3> QED
      BY <1>1, <1>4, <3>1
  <2>3. ipc' \in {"unregistered", "off", "read", "report", "sync"}
    BY <1>4
  <2>4. TypeOK
    BY DEF IInv
  <2>5. /\ whole' \in BOOLEAN
        /\ enabled' \subseteq Channels /\ eoc' \subseteq enabled' /\ status' \subseteq enabled'
        /\ cdr' \in [Channels -> Readings]
        /\ absx' \in Channels /\ absy' \in Readings
        /\ told' \in [Channels -> Readings \cup {Unknown}]
    BY <1>4, <2>4 DEF TypeOK
  <2> QED
    BY <2>1, <2>2, <2>3, <2>5 DEF TypeOK
<1>7. IsrInv'
  <2>1. IsrInv
    BY DEF IInv
  <2> HIDE DEF v
  <2> QED
    BY <1>2, <1>4, <1>5, <2>1 DEF IsrInv
<1>8. \A i \in 1 .. Len(queue) : IsAbs(queue[i]) => i < Len(queue) /\ ~IsAbs(queue[i + 1])
  BY <1>4 DEF IInv, ReportsApart
<1>9. whole => Len(queue) % 2 = 0 /\ (sync \/ absval = 0)
  BY <1>4 DEF IInv, WholeReports
<1>10. CASE v = absval
  <2>1. queue' = queue /\ absval' = absval /\ sync' = sync
    BY <1>4, <1>10 DEF IInv, TypeOK
  <2>2. ReportsApart'
    BY <1>8, <2>1 DEF ReportsApart
  <2>3. WholeReports'
    BY <1>1, <1>4, <1>9, <1>10, <2>1 DEF IInv, WholeReports
  <2> QED
    BY <1>2, <1>4, <1>6, <1>7, <2>2, <2>3 DEF IInv, OwnReadings
<1>11. CASE v # absval
  <2>1. /\ Len(queue') = Len(queue) + 1 /\ queue'[Len(queue) + 1] = Abs(v)
        /\ \A i \in 1 .. Len(queue) : queue'[i] = queue[i]
    BY <1>3, <1>4, <1>11
  <2>2. ReportsApart'
    <3>1. ipc' = "sync" /\ ~sync'
      BY <1>4, <1>11
    <3>2. ASSUME NEW i \in 1 .. Len(queue), IsAbs(queue'[i])
          PROVE  i < Len(queue') /\ ~IsAbs(queue'[i + 1])
      BY <1>5, <1>8, <2>1, <3>2
    <3> QED
      BY <1>5, <2>1, <3>1, <3>2 DEF ReportsApart
  <2>3. WholeReports'
    <3>1. ipc' = "sync" /\ ~sync' /\ whole' = whole
      BY <1>4, <1>11
    <3>2. whole => Len(queue') % 2 = 1
      BY <1>5, <1>9, <2>1
    <3>3. whole => \A i \in 1 .. Len(queue) : IsAbs(queue'[i]) <=> i % 2 = 1
      BY <2>1 DEF IInv, WholeReports
    <3>4. whole => \A i \in 1 .. Len(queue') : IsAbs(queue'[i]) <=> i % 2 = 1
      BY <1>3, <1>5, <2>1, <3>2, <3>3
    <3> QED
      BY <3>1, <3>2, <3>4 DEF WholeReports
  <2> QED
    BY <1>2, <1>4, <1>6, <1>7, <2>2, <2>3 DEF IInv, OwnReadings
<1> QED
  BY <1>2, <1>4, <1>6, <1>7, <1>10, <1>11 DEF IInv, OwnReadings

\* The SYN_REPORT goes behind that ABS event, or is dropped with it.
LEMMA SyncInv ==
  ASSUME IInv, IsrSync
  PROVE  IInv'
<1>1. Reports(Reported)' /\ absval' # 0
  BY SyncReports DEF IInv, IsrInv, IsrSync
<1>2. queue \in Seq(Events(Reported)) /\ Syn \in Events(Reported) /\ ~IsAbs(Syn)
  BY DEF IInv, Reports, Events, Syn, IsAbs
<1>3. /\ ipc = "sync" /\ ipc' = "off" /\ sync' = TRUE
      /\ UNCHANGED <<whole, absval, ev, told, enabled, eoc, cdr, status, absx, absy>>
      /\ queue' = IF sync THEN queue ELSE Append(queue, Syn)
  BY DEF IsrSync, InputSync
<1>4. Len(queue') <= QueueCap + 2 /\ Len(queue) \in Nat
  BY <1>2, <1>3, QueueAssumption DEF IInv, IsrInv
<1>5. TypeOK' /\ IsrInv'
  <2>1. TypeOK /\ IsrInv
    BY DEF IInv
  <2>2. TypeOK'
    BY <1>3, <1>4, <2>1 DEF TypeOK
  <2>3. IsrInv'
    BY <1>3, <1>4, <2>1 DEF IsrInv
  <2> QED
    BY <2>2, <2>3
<1>6. CASE sync
  BY <1>1, <1>3, <1>5, <1>6 DEF IInv, ReportsApart, WholeReports, OwnReadings
<1>7. CASE ~sync
  <2>1. /\ Len(queue') = Len(queue) + 1 /\ queue'[Len(queue) + 1] = Syn
        /\ \A i \in 1 .. Len(queue) : queue'[i] = queue[i]
    BY <1>2, <1>3, <1>7
  <2>2. ReportsApart'
    <3>1. ASSUME NEW i \in 1 .. Len(queue), IsAbs(queue'[i])
          PROVE  i < Len(queue') /\ ~IsAbs(queue'[i + 1])
      BY <1>2, <1>4, <2>1, <3>1 DEF IInv, ReportsApart
    <3> QED
      BY <1>2, <1>4, <2>1, <3>1 DEF ReportsApart
  <2>3. WholeReports'
    <3>1. whole => Len(queue) % 2 = 1 /\ Len(queue') % 2 = 0
      BY <1>3, <1>4, <1>7, <2>1 DEF IInv, WholeReports
    <3>2. whole => \A i \in 1 .. Len(queue) : IsAbs(queue'[i]) <=> i % 2 = 1
      BY <2>1 DEF IInv, WholeReports
    <3>3. whole => \A i \in 1 .. Len(queue') : IsAbs(queue'[i]) <=> i % 2 = 1
      BY <1>2, <1>4, <2>1, <3>1, <3>2
    <3> QED
      BY <1>3, <3>1, <3>3 DEF WholeReports
  <2> QED
    BY <1>1, <1>3, <1>5, <2>2, <2>3 DEF IInv, OwnReadings
<1> QED
  BY <1>6, <1>7

-----------------------------------------------------------------------------
(* What a turn of the reader does *)

\* What is needed of the buffers to speak of their elements.
LEMMA Buffers ==
  ASSUME IInv
  PROVE  /\ queue \in Seq(Events(Reported)) /\ queue \in Seq(Events(Reported) \cup {Stale})
         /\ ev \in Seq(Events(Reported) \cup {Stale}) /\ Len(ev) = 2
BY SeqMonotonic DEF IInv, Reports

\* Of an event device that shows whole reports, a turn reads one report.
LEMMA WholeTurn ==
  ASSUME IInv, ReaderTurn, whole
  PROVE  /\ Fetched = 2 /\ Len(queue) >= 2
         /\ Filled = <<queue[1], queue[2]>>
         /\ Chosen(Filled) = 1
<1>1. Fetched \in 1 .. 2 /\ Fetched <= Len(queue) /\ Visible > 0 /\ Len(queue) \in Nat
  BY Buffers, TurnQueue DEF ReaderTurn
<1>2. IsAbs(queue[1])
  <2>1. 1 \in 1 .. Len(queue) /\ 1 % 2 = 1
    BY <1>1
  <2> QED
    BY <2>1 DEF IInv, WholeReports
<1>3. queue[1] # Syn
  BY <1>1, <1>2, Buffers, EventKinds
<1>4. Visible \in Nat /\ Visible # 1
  BY <1>1, <1>3, Buffers, VisibleRange
<1>5. Fetched = 2
  BY <1>1, <1>4, Buffers, FetchedRange
<1>6. Filled = <<queue[1], queue[2]>>
  BY <1>1, <1>5, Buffers, FilledElements
<1> QED
  BY <1>1, <1>2, <1>5, <1>6 DEF Chosen

\* A turn takes reports off the front and processes one of the values.
LEMMA TurnInv ==
  ASSUME IInv, Reader
  PROVE  IInv'
<1>1. ReaderTurn /\ UNCHANGED <<whole, absval, sync, adcVars>>
  BY DEF Reader, ReaderTurn
<1>2. /\ Fetched \in 1 .. 2 /\ Fetched <= Len(queue) /\ Len(queue) \in Nat
      /\ Len(queue') = Len(queue) - Fetched
      /\ \A i \in 1 .. Len(queue') : queue'[i] = queue[i + Fetched]
  BY <1>1, Buffers, TurnQueue
<1>3. Reported \in SUBSET Int
  BY ReportedInts, Zenon
<1>4. Reports(Reported)'
  BY <1>1, TurnReports DEF IInv
<1>5. TypeOK'
  <2>1. told' \in [Channels -> Readings \cup {Unknown}]
    BY <1>1, <1>3, TurnTold DEF IInv, TypeOK
  <2>2. Len(queue') <= QueueCap + 2
    BY <1>2, QueueAssumption DEF IInv, TypeOK
  <2>3. TypeOK
    BY DEF IInv
  <2> QED
    BY <1>1, <2>1, <2>2, <2>3 DEF TypeOK, adcVars
<1>6. IsrInv'
  BY <1>1, <1>2, QueueAssumption DEF IInv, IsrInv, adcVars
<1>7. ReportsApart'
  <2> SUFFICES ASSUME NEW i \in 1 .. Len(queue'), IsAbs(queue'[i])
               PROVE  IF i < Len(queue') THEN ~IsAbs(queue'[i + 1]) ELSE ipc' = "sync" /\ ~sync'
    BY DEF ReportsApart
  <2> DEFINE j == i + Fetched
  <2>1. j \in 1 .. Len(queue) /\ IsAbs(queue[j]) /\ (i < Len(queue') <=> j < Len(queue))
    BY <1>2
  <2>2. IF j < Len(queue) THEN ~IsAbs(queue[j + 1]) ELSE ipc = "sync" /\ ~sync
    BY <2>1 DEF IInv, ReportsApart
  <2>3. i < Len(queue') => queue'[i + 1] = queue[j + 1]
    <3>1. i < Len(queue') => i + 1 \in 1 .. Len(queue') /\ (i + 1) + Fetched = j + 1
      BY <1>2
    <3> QED
      BY <1>2, <3>1
  <2> QED
    BY <1>1, <2>1, <2>2, <2>3 DEF adcVars
<1>8. WholeReports'
  <2> SUFFICES ASSUME whole
               PROVE  WholeReports'
    BY <1>1 DEF WholeReports
  <2>1. Fetched = 2
    BY <1>1, WholeTurn
  <2>2. Len(queue') % 2 = Len(queue) % 2
    BY <1>2, <2>1
  <2>3. ASSUME NEW i \in 1 .. Len(queue')
        PROVE  IsAbs(queue'[i]) <=> i % 2 = 1
    <3>1. i + 2 \in 1 .. Len(queue) /\ (i + 2) % 2 = i % 2
      BY <1>2, <2>1
    <3>2. queue'[i] = queue[i + 2]
      BY <1>2, <2>1
    <3> QED
      BY <3>1, <3>2 DEF IInv, WholeReports
  <2> QED
    BY <1>1, <2>2, <2>3 DEF IInv, WholeReports, adcVars
<1>9. StaleHarmless => OwnReadings'
  <2> SUFFICES ASSUME StaleHarmless
               PROVE  OwnReadings'
    OBVIOUS
  <2>1. OwnReadings
    BY DEF IInv
  <2>2. CASE told' = told
    BY <2>1, <2>2 DEF OwnReadings
  <2>3. CASE told' # told
    <3>1. PICK e \in Events(Reported) :
                 IsAbs(e) /\ told' = [told EXCEPT ![AdcId(e)] = AdcReading(e)]
      BY <1>1, <2>3, TurnReports DEF IInv
    <3>2. e.value \in Reported /\ e = Abs(e.value)
      BY <3>1, EventKinds
    <3>3. PICK c \in Channels : \E r \in Measured[c] \ {0} : r \in Readings /\ e.value = Pack(r, c)
      BY <3>2, ReportedValue
    <3>4. PICK r \in Measured[c] : r \in Readings /\ e.value = Pack(r, c)
      BY <3>3
    <3>5. AdcId(e) = c /\ AdcReading(e) = r
      BY <3>2, <3>4, Unpacked
    <3>6. told' = [told EXCEPT ![c] = r]
      BY <3>1, <3>5
    <3>7. told \in [Channels -> Readings \cup {Unknown}]
      BY DEF IInv, TypeOK
    <3> QED
      BY <2>1, <3>4, <3>6, <3>7 DEF OwnReadings
  <2> QED
    BY <2>2, <2>3
<1> QED
  BY <1>4, <1>5, <1>6, <1>7, <1>8, <1>9 DEF IInv, StaleHarmless

LEMMA NextInv == IInv /\ [Next]_vars => IInv'
BY QuietInv, ReportInv, SyncInv, TurnInv DEF Next, Isr

\* The inductive invariant holds: the events on their way report values of the
\* right channel, an ABS event has no other next to it, and an event device that
\* shows whole reports has them at the odd places.
THEOREM Invariance == Spec => []IInv
BY InitInv, NextInv, PTL DEF Spec

-----------------------------------------------------------------------------
\* The state of the driver, of the event stream and of the reader has its types,
\* and the handler never overfills the event device.
THEOREM TypeCorrect == Spec => []TypeOK
<1>1. IInv => TypeOK
  BY DEF IInv
<1> QED
  BY <1>1, Invariance, PTL

\* Whatever is converted between the read of SR and that of CDR, and however the
\* events are split over reads, no channel is given a reading of another; unless
\* what the uninitialised adc_ev holds looks like an ABS event and the event
\* device shows events one by one.
THEOREM ReadingsOwn == Spec => [](StaleHarmless => OwnReadings)
<1>1. IInv => (StaleHarmless => OwnReadings)
  BY DEF IInv
<1> QED
  BY <1>1, Invariance, PTL

\* The two events of a read never are two ABS events, so the loop that processes
\* one of them skips none.
LEMMA TurnSkipsNone ==
  ASSUME IInv, ReaderTurn
  PROVE  LET abs == {i \in 1 .. Fetched : IsAbs(queue[i])}
         IN  abs # {} => abs = {Chosen(ev')}
<1>1. Fetched \in 1 .. 2 /\ Fetched <= Len(queue) /\ Visible > 0 /\ Len(queue) \in Nat
  BY Buffers, TurnQueue DEF ReaderTurn
<1>2. /\ ev' = Filled /\ Filled[1] = queue[1]
      /\ Fetched = 2 => Filled[2] = queue[2]
  BY <1>1, Buffers, FilledElements DEF ReaderTurn
<1>3. Fetched = 2 => ~(IsAbs(queue[1]) /\ IsAbs(queue[2]))
  <2>1. Fetched = 2 => 1 \in 1 .. Len(queue) /\ 1 < Len(queue) /\ 1 + 1 = 2
    BY <1>1
  <2> QED
    BY <2>1 DEF IInv, ReportsApart
<1>4. CASE IsAbs(queue[1])
  <2>1. Chosen(ev') = 1
    BY <1>2, <1>4 DEF Chosen
  <2> QED
    BY <1>1, <1>3, <1>4, <2>1
<1>5. CASE ~IsAbs(queue[1]) /\ Fetched = 2 /\ IsAbs(queue[2])
  <2>1. Chosen(ev') = 2
    BY <1>2, <1>5 DEF Chosen
  <2> QED
    BY <1>5, <2>1
<1> QED
  BY <1>1, <1>4, <1>5

\* Every ADC event that is read is processed, one in each turn.
THEOREM NoneSkipped == Spec => NoReadingSkipped
<1>1. IInv /\ [Next]_vars =>
        [ReaderTurn => LET abs == {i \in 1 .. Fetched : IsAbs(queue[i])}
                       IN  abs # {} => abs = {Chosen(ev')}]_feedVars
  BY TurnSkipsNone
<1> QED
  BY <1>1, Invariance, PTL DEF Spec, NoReadingSkipped

-----------------------------------------------------------------------------
(* The refinement of the feed *)

\* What the feed has posted and told of, in the state of the driver.
FeedPosted == IF whole THEN Posted ELSE <<>>
FeedTold   == IF whole THEN told ELSE [c \in Channels |-> Unknown]
FeedSamples == UNION {[id : {c}, reading : Measured[c] \ {0}] : c \in Channels}

LEMMA FunctionIsSeq ==
  ASSUME NEW S, NEW n \in Nat, NEW s \in [1 .. n -> S]
  PROVE  s \in Seq(S)
BY SeqDef

LEMMA PostedIsSeq ==
  ASSUME IInv
  PROVE  /\ Len(queue) \in Nat
         /\ Posted \in Seq([id : Int, reading : Int])
         /\ Len(Posted) = (Len(queue) + 1) \div 2
<1> DEFINE n == (Len(queue) + 1) \div 2
<1>1. Len(queue) \in Nat /\ n \in Nat /\ \A i \in 1 .. n : 2 * i - 1 \in 1 .. Len(queue)
  BY Buffers
<1>2. \A e \in Events(Reported) : AdcId(e) \in Int /\ AdcReading(e) \in Int
  <2>1. \A e \in Events(Reported) : e.value \in Int
    <3> TAKE e \in Events(Reported)
    <3>1. CASE e = Syn
      BY <3>1 DEF Syn
    <3>2. CASE e # Syn
      <4>1. e.value \in Reported
        BY <3>2, EventKinds
      <4> QED
        BY <4>1, ReportedInts, Zenon
    <3> QED
      BY <3>1, <3>2
  <2> QED
    BY <2>1 DEF AdcId, AdcReading
<1>3. \A i \in 1 .. n : queue[2 * i - 1] \in Events(Reported)
  BY <1>1, Buffers, ElementOfSeq
<1>4. Posted \in [1 .. n -> [id : Int, reading : Int]]
  <2> HIDE DEF n
  <2> QED
    BY <1>2, <1>3 DEF n, Posted
<1> HIDE DEF n
<1>5. Posted \in Seq([id : Int, reading : Int])
  <2>1. n \in Nat
    BY <1>1 DEF n
  <2> HIDE DEF Posted
  <2> QED
    BY <2>1, <1>4, FunctionIsSeq
<1>6. Len(Posted) = n
  <2>1. Len(Posted) \in Nat /\ DOMAIN Posted = 1 .. Len(Posted) /\ n \in Nat
    BY <1>1, <1>5, LenProperties DEF n
  <2>0. \A p \in Nat : p >= 1 => p \in 1 .. p
    OBVIOUS
  <2>2. \A l, m \in Nat : 1 .. l = 1 .. m => l = m
    <3> SUFFICES ASSUME NEW l \in Nat, NEW m \in Nat, 1 .. l = 1 .. m PROVE l = m
      OBVIOUS
    <3>1. l >= 1 => l \in 1 .. m
      BY <2>0, Zenon
    <3>2. m >= 1 => m \in 1 .. l
      BY <2>0, Zenon
    <3> QED
      BY <3>1, <3>2
  <2>3. 1 .. Len(Posted) = 1 .. n
    BY <2>1, <1>4, Zenon
  <2> QED
    BY <2>1, <2>2, <2>3, Zenon
<1> QED
  BY <1>1, <1>5, <1>6 DEF n

\* Numbers of ABS events: the halves of even numbers.
LEMMA Halves ==
  ASSUME NEW m \in Nat, m % 2 = 0
  PROVE  \E k \in Nat : m = 2 * k /\ (m + 1) \div 2 = k /\ (m + 2) \div 2 = k + 1
<1>1. PICK k \in Nat : m = 2 * k
  <2>1. m = 2 * (m \div 2) /\ m \div 2 \in Nat
    OBVIOUS
  <2> QED
    BY <2>1
<1>2. (2 * k + 1) \div 2 = k /\ (2 * k + 2) \div 2 = k + 1
  OBVIOUS
<1> QED
  BY <1>1, <1>2

\* Between reports the report of a new value posts the reading the handler has in
\* hand; that of the last value again posts nothing.
LEMMA ReportPosts ==
  ASSUME IInv, IInv', IsrReport, whole
  PROVE  (\E s \in FeedSamples : Posted' = Append(Posted, s)) \/ Posted' = Posted
<1> DEFINE v == Pack(absy, absx)
           s == [id |-> absx, reading |-> absy]
           n == (Len(queue) + 1) \div 2
<1>1. /\ absx \in Channels /\ absy \in Readings /\ absy \in Measured[absx] \ {0}
      /\ queue' = IF v = absval THEN queue ELSE Append(queue, Abs(v))
      /\ Len(queue) % 2 = 0
  <2>1. absx \in Channels /\ absy \in Readings /\ absy > 0
    BY DEF IInv, TypeOK, IsrReport
  <2>2. absy \in Measured[absx] \cup {0} /\ ipc = "report"
    BY DEF IInv, IsrInv, IsrReport
  <2>3. absy # 0
    BY <2>1 DEF Readings
  <2>4. Len(queue) % 2 = 0
    BY <2>2 DEF IInv, WholeReports
  <2>5. queue' = IF v = absval THEN queue ELSE Append(queue, Abs(v))
    BY DEF IsrReport, ReportAbs
  <2> HIDE DEF v
  <2> QED
    BY <2>1, <2>2, <2>3, <2>4, <2>5
<1>2. CASE v = absval
  BY <1>1, <1>2 DEF Posted
<1>3. CASE v # absval
  <2>1. s \in FeedSamples
    BY <1>1 DEF FeedSamples
  <2>2. AdcId(Abs(v)) = absx /\ AdcReading(Abs(v)) = absy
    BY <1>1, Unpacked
  <2>3. /\ Len(queue) \in Nat /\ Len(queue') = Len(queue) + 1
        /\ queue'[Len(queue) + 1] = Abs(v)
        /\ \A i \in 1 .. Len(queue) : queue'[i] = queue[i]
    BY <1>1, <1>3, Buffers
  <2>4. /\ n \in Nat /\ (Len(queue') + 1) \div 2 = n + 1 /\ 2 * (n + 1) - 1 = Len(queue) + 1
        /\ \A i \in 1 .. n : 2 * i - 1 \in 1 .. Len(queue)
    <3>1. PICK k \in Nat : /\ Len(queue) = 2 * k /\ (Len(queue) + 1) \div 2 = k
                          /\ (Len(queue) + 2) \div 2 = k + 1
      BY <1>1, <2>3, Halves
    <3>2. Len(queue') + 1 = Len(queue) + 2 /\ n = k
      BY <2>3, <3>1
    <3> QED
      BY <3>1, <3>2
  <2>5. Posted' = [i \in 1 .. n + 1 |-> IF i = n + 1 THEN s ELSE Posted[i]]
    <3> DEFINE f(q, i) == [id |-> AdcId(q[2 * i - 1]), reading |-> AdcReading(q[2 * i - 1])]
    <3>1. Posted' = [i \in 1 .. n + 1 |-> f(queue', i)]
      BY <2>4 DEF Posted
    <3>2. \A i \in 1 .. n : f(queue', i) = Posted[i]
      BY <2>3, <2>4 DEF Posted
    <3>3. f(queue', n + 1) = s
      BY <2>2, <2>3, <2>4
    <3>4. \A i \in 1 .. n + 1 : i = n + 1 \/ i \in 1 .. n
      BY <2>4
    <3> HIDE DEF f, n, s
    <3> QED
      BY <3>1, <3>2, <3>3, <3>4
  <2>6. Append(Posted, s) = [i \in 1 .. n + 1 |-> IF i = n + 1 THEN s ELSE Posted[i]]
    <3>1. Len(Posted) = n /\ Posted \in Seq([id : Int, reading : Int])
      BY PostedIsSeq
    <3>2. s \in [id : Int, reading : Int]
      BY <1>1 DEF Channels, Readings
    <3>3. /\ Append(Posted, s) \in Seq([id : Int, reading : Int])
          /\ Len(Append(Posted, s)) = n + 1
          /\ \A i \in 1 .. n : Append(Posted, s)[i] = Posted[i]
          /\ Append(Posted, s)[n + 1] = s
      BY <3>1, <3>2, AppendProperties
    <3> HIDE DEF n, s
    <3>4. Append(Posted, s) \in [1 .. n + 1 -> [id : Int, reading : Int]]
      BY <3>3, LenProperties
    <3>5. \A i \in 1 .. n + 1 : i = n + 1 \/ i \in 1 .. n
      BY <2>4
    <3> QED
      BY <3>3, <3>4, <3>5
  <2> QED
    BY <2>1, <2>5, <2>6
<1> QED
  BY <1>2, <1>3

\* A SYN_REPORT goes to an even place.
LEMMA SyncPosts ==
  ASSUME IInv, IsrSync, whole
  PROVE  Posted' = Posted
<1>1. /\ queue' = IF sync THEN queue ELSE Append(queue, Syn)
      /\ ~sync => Len(queue) % 2 = 1
  BY DEF IInv, WholeReports, IsrSync, InputSync
<1>2. CASE sync
  BY <1>1, <1>2 DEF Posted
<1>3. CASE ~sync
  <2> DEFINE n == (Len(queue) + 1) \div 2
  <2>1. /\ Len(queue) \in Nat /\ Len(queue') = Len(queue) + 1
        /\ \A i \in 1 .. Len(queue) : queue'[i] = queue[i]
    BY <1>1, <1>3, Buffers
  <2>2. /\ (Len(queue') + 1) \div 2 = n
        /\ \A i \in 1 .. n : 2 * i - 1 \in 1 .. Len(queue)
    BY <1>1, <1>3, <2>1
  <2> QED
    BY <2>1, <2>2 DEF Posted
<1> QED
  BY <1>2, <1>3

\* A turn takes the reading that was posted first.
LEMMA TurnTakes ==
  ASSUME IInv, ReaderTurn, whole
  PROVE  /\ Posted # <<>> /\ Posted' = Tail(Posted)
         /\ told' = [told EXCEPT ![Head(Posted).id] = Head(Posted).reading]
<1> DEFINE n == (Len(queue) + 1) \div 2
<1>1. /\ Fetched = 2 /\ Len(queue) >= 2 /\ Len(queue) \in Nat
      /\ Filled = <<queue[1], queue[2]>> /\ Chosen(Filled) = 1
  BY WholeTurn, Buffers
<1>2. /\ Len(queue') = Len(queue) - 2
      /\ \A i \in 1 .. Len(queue') : queue'[i] = queue[i + 2]
  BY <1>1, Buffers, TurnQueue
<1>3. /\ n \in Nat /\ n >= 1 /\ (Len(queue') + 1) \div 2 = n - 1
      /\ \A i \in 1 .. n - 1 : 2 * i - 1 \in 1 .. Len(queue') /\ (2 * i - 1) + 2 = 2 * (i + 1) - 1
  <2>1. Len(queue) % 2 = 0 \/ Len(queue) % 2 = 1
    BY <1>1
  <2>2. n \in Nat /\ n >= 1 /\ (Len(queue') + 1) \div 2 = n - 1
    BY <1>1, <1>2
  <2>3. 2 * n <= Len(queue) + 1
    BY <1>1
  <2> HIDE DEF n
  <2> QED
    BY <1>1, <1>2, <2>2, <2>3
<1>4. Len(Posted) = n /\ Posted # <<>> /\ Posted \in Seq([id : Int, reading : Int])
  BY <1>1, <1>3, PostedIsSeq
<1>5. Head(Posted) = [id |-> AdcId(queue[1]), reading |-> AdcReading(queue[1])]
  <2>1. Head(Posted) = Posted[1] /\ 2 * 1 - 1 = 1 /\ 1 \in 1 .. n
    BY <1>3, <1>4
  <2> QED
    BY <2>1 DEF Posted
<1>6. Posted' = [i \in 1 .. n - 1 |-> Posted[i + 1]]
  <2>1. Posted' = [i \in 1 .. n - 1 |-> [id |-> AdcId(queue'[2 * i - 1]),
                                      reading |-> AdcReading(queue'[2 * i - 1])]]
    BY <1>3 DEF Posted
  <2>2. \A i \in 1 .. n - 1 :
          Posted[i + 1] = [id |-> AdcId(queue'[2 * i - 1]), reading |-> AdcReading(queue'[2 * i - 1])]
    <3> TAKE i \in 1 .. n - 1
    <3>1. queue'[2 * i - 1] = queue[2 * (i + 1) - 1] /\ i + 1 \in 1 .. n
      BY <1>2, <1>3
    <3> QED
      BY <3>1 DEF Posted
  <2> HIDE DEF n
  <2> QED
    BY <2>1, <2>2
<1>7. Tail(Posted) = [i \in 1 .. n - 1 |-> Posted[i + 1]]
  <2>1. /\ Tail(Posted) \in Seq([id : Int, reading : Int]) /\ Len(Tail(Posted)) = n - 1
        /\ \A i \in 1 .. n - 1 : Tail(Posted)[i] = Posted[i + 1]
    BY <1>4, HeadTailProperties
  <2> HIDE DEF n
  <2>2. Tail(Posted) \in [1 .. n - 1 -> [id : Int, reading : Int]]
    BY <2>1, LenProperties
  <2> QED
    BY <2>1, <2>2
<1>8. told' = [told EXCEPT ![AdcId(queue[1])] = AdcReading(queue[1])]
  <2>1. Filled[Chosen(Filled)] = queue[1]
    BY <1>1
  <2>2. told' = [told EXCEPT ![AdcId(Filled[Chosen(Filled)])] = AdcReading(Filled[Chosen(Filled)])]
    BY <1>1 DEF ReaderTurn
  <2> QED
    BY <2>1, <2>2
<1>9. Head(Posted).id = AdcId(queue[1]) /\ Head(Posted).reading = AdcReading(queue[1])
  BY <1>5
<1> QED
  BY <1>4, <1>6, <1>7, <1>8, <1>9

\* The report of a new value posts, a turn takes, and what is left is hidden;
\* where single events are shown, the feed is not looked at.
LEMMA FeedStep ==
  ASSUME IInv, IInv', [Next]_vars
  PROVE  [Feed!Next]_<<FeedPosted, FeedTold>>
<1>1. CASE ~whole
  <2>1. UNCHANGED whole
    BY DEF Next, Probe, Convert, Isr, IsrStatus, IsrRead, IsrReport, IsrZero, IsrSync,
           ReportAbs, InputSync, Reader, ReaderTurn, feedVars, vars
  <2> QED
    BY <1>1, <2>1 DEF FeedPosted, FeedTold
<1>2. CASE whole /\ IsrReport
  <2>1. whole' /\ told' = told
    BY <1>2 DEF IsrReport, ReportAbs
  <2>2. (\E s \in FeedSamples : Posted' = Append(Posted, s)) \/ Posted' = Posted
    BY <1>2, ReportPosts
  <2> QED
    BY <1>2, <2>1, <2>2 DEF FeedPosted, FeedTold, FeedSamples, Feed!Next, Feed!Post
<1>3. CASE whole /\ IsrSync
  <2>1. whole' /\ told' = told
    BY <1>3 DEF IsrSync, InputSync
  <2> QED
    BY <1>3, <2>1, SyncPosts DEF FeedPosted, FeedTold
<1>4. CASE whole /\ Reader
  <2>1. whole' /\ ReaderTurn
    BY <1>4 DEF Reader, ReaderTurn
  <2> QED
    BY <1>4, <2>1, TurnTakes DEF FeedPosted, FeedTold, Feed!Next, Feed!Take
<1>5. CASE \/ Probe \/ (\E c \in Channels : Convert(c)) \/ IsrStatus \/ IsrRead \/ IsrZero
           \/ UNCHANGED vars
  <2>1. UNCHANGED feedVars
    BY <1>5 DEF Probe, Convert, IsrStatus, IsrRead, IsrZero, vars
  <2> QED
    BY <2>1 DEF feedVars, FeedPosted, FeedTold, Posted
<1> QED
  BY <1>1, <1>2, <1>3, <1>4, <1>5 DEF Next, Isr

\* From an event device that shows whole reports, the program learns of every
\* reading that is reported, in the order of the reports.
THEOREM ImplementsFeed == Spec => FeedSpec
<1>1. Init => Feed!Init
  <2> SUFFICES ASSUME Init PROVE Feed!Init
    OBVIOUS
  <2>1. queue = <<>> /\ told = [c \in Channels |-> Unknown]
    BY DEF Init, ReaderInit
  <2>2. Posted = <<>>
    BY <2>1 DEF Posted
  <2> QED
    BY <2>1, <2>2 DEF Feed!Init
<1>2. IInv /\ IInv' /\ [Next]_vars => [Feed!Next]_<<FeedPosted, FeedTold>>
  BY FeedStep
<1> QED
  BY <1>1, <1>2, Invariance, PTL DEF Spec, FeedSpec, Feed!Spec, FeedPosted, FeedTold
=============================================================================
