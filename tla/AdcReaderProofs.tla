--------------------------- MODULE AdcReaderProofs ---------------------------
(***************************************************************************)
(* The input core, the event device and the loop of adc_test.c, which the  *)
(* two ADC drivers have behind them: what their steps do to the events on  *)
(* their way, for events of any values.                                    *)
(***************************************************************************)
EXTENDS AdcReader, SequenceTheorems, WellFoundedInduction, TLAPS

\* A set of naturals that is not empty has a least member, and Min is it.
LEMMA MinOfNats ==
  ASSUME NEW S, S \subseteq Nat, S # {}
  PROVE  Min(S) \in S /\ \A x \in S : Min(S) <= x
<1> DEFINE R == {ss \in Nat \X Nat : ss[1] < ss[2]}
<1>1. OpToRel(<, Nat) = R
  BY Zenon DEF OpToRel
<1>2. IsWellFoundedOn(R, Nat)
  BY <1>1, NatLessThanWellFounded, Zenon
<1>3. PICK m \in S : \A x \in S : <<x, m>> \notin R
  BY <1>2, WFMin, Zenon
<1>4. \A x, y \in Nat : x < y => <<x, y>> \in R
  OBVIOUS
<1>5. \A x \in S : m <= x
  <2> TAKE x \in S
  <2>1. ~ (x < m)
    BY <1>3, <1>4, Zenon
  <2> QED
    BY <2>1
<1> QED
  BY <1>5 DEF Min

\* The smaller of two.
LEMMA MinOfTwo ==
  ASSUME NEW a \in Int, NEW b \in Int
  PROVE  Min({a, b}) = IF a <= b THEN a ELSE b
BY DEF Min

\* A set of integers between two bounds, if it is not empty, has a greatest
\* member, and Max is it.
LEMMA MaxOfRange ==
  ASSUME NEW a \in Int, NEW b \in Int, NEW S, S \subseteq a .. b, S # {}
  PROVE  Max(S) \in S /\ \A x \in S : x <= Max(S)
<1> DEFINE T == {b - x : x \in S}
<1>0. \A x \in S : b - x \in Nat
  OBVIOUS
<1>1. T \subseteq Nat /\ T # {}
  BY <1>0
<1>2. Min(T) \in T /\ \A y \in T : Min(T) <= y
  BY <1>1, MinOfNats
<1>3. PICK m \in S : Min(T) = b - m
  BY <1>2
<1>4. \A x \in S : m >= x
  <2> TAKE x \in S
  <2>1. b - m <= b - x
    BY <1>2, <1>3
  <2> QED
    BY <2>1
<1> QED
  BY <1>4 DEF Max

LEMMA DataMax == ADC_DATA_MAX \in Nat /\ ADC_DATA_MAX - 1 \in Nat
BY DEF ADC_DATA_MAX

\* A report event is either an ABS event with one of the values or a SYN_REPORT.
LEMMA EventKinds ==
  ASSUME NEW V, NEW e \in Events(V)
  PROVE  /\ IsAbs(e) => e.value \in V /\ e = Abs(e.value)
         /\ IsAbs(e) <=> e # Syn
BY DEF Events, IsAbs, Abs, Syn

\* What the reader can see of the queue ends with it, and, where reports are
\* shown whole, with the last SYN_REPORT.
LEMMA VisibleRange ==
  ASSUME NEW S, queue \in Seq(S)
  PROVE  /\ Visible \in 0 .. Len(queue)
         /\ whole /\ Visible > 0 => queue[Visible] = Syn
         /\ whole => \A i \in 1 .. Len(queue) : queue[i] = Syn => i <= Visible
<1>1. Len(queue) \in Nat /\ DOMAIN queue = 1 .. Len(queue)
  OBVIOUS
<1>2. CASE ~whole
  BY <1>1, <1>2 DEF Visible
<1>3. CASE whole
  <2> DEFINE M == {0} \cup {i \in DOMAIN queue : queue[i] = Syn}
  <2>1. M \subseteq 0 .. Len(queue) /\ M # {}
    BY <1>1
  <2>2. Visible = Max(M)
    BY <1>3 DEF Visible
  <2>3. Max(M) \in M /\ \A i \in M : i <= Max(M)
    <3> HIDE DEF M
    <3>1. 0 \in Int /\ Len(queue) \in Int
      BY <1>1
    <3> QED
      BY <3>1, <2>1, MaxOfRange, Zenon
  <2> QED
    BY <1>1, <2>1, <2>2, <2>3
<1> QED
  BY <1>2, <1>3

\* read() fetches one event or two.
LEMMA FetchedRange ==
  ASSUME NEW S, queue \in Seq(S)
  PROVE  /\ Fetched \in 0 .. 2 /\ Fetched <= Visible /\ Fetched <= Len(queue)
         /\ Visible >= 2 => Fetched = 2
         /\ Visible = 1 => Fetched = 1
<1>1. Visible \in 0 .. Len(queue) /\ Len(queue) \in Nat
  BY VisibleRange
<1>2. Fetched = IF 2 <= Visible THEN 2 ELSE Visible
  BY <1>1, MinOfTwo DEF Fetched
<1> QED
  BY <1>1, <1>2

\* The buffer after a read: what was fetched, then what was there.
LEMMA FilledElements ==
  ASSUME NEW S, queue \in Seq(S), ev \in Seq(S), Len(ev) = 2, Visible > 0
  PROVE  /\ Filled \in Seq(S) /\ Len(Filled) = 2
         /\ Filled[1] = queue[1]
         /\ Filled[2] = IF Fetched = 2 THEN queue[2] ELSE ev[2]
         /\ Fetched = 2 => Filled = <<queue[1], queue[2]>>
<1>1. Fetched \in 1 .. 2 /\ Fetched <= Len(queue) /\ Len(queue) \in Nat
  BY VisibleRange, FetchedRange
<1> DEFINE new == SubSeq(queue, 1, Fetched)
           old == SubSeq(ev, Fetched + 1, 2)
<1>2. /\ new \in Seq(S) /\ Len(new) = Fetched
      /\ \A i \in 1 .. Fetched : new[i] = queue[i]
  <2>1. \A i \in 1 .. Fetched : queue[i] \in S
    BY <1>1
  <2> QED
    BY <1>1, <2>1, SubSeqProperties
<1>3. /\ old \in Seq(S) /\ Len(old) = 2 - Fetched
      /\ \A i \in 1 .. 2 - Fetched : old[i] = ev[Fetched + i]
  <2>1. \A i \in Fetched + 1 .. 2 : ev[i] \in S
    <3> TAKE i \in Fetched + 1 .. 2
    <3>1. i \in 1 .. Len(ev)
      BY <1>1
    <3> QED
      BY <3>1, ElementOfSeq
  <2>2. /\ SubSeq(ev, Fetched + 1, 2) \in Seq(S)
        /\ Len(old) = IF Fetched + 1 <= 2 THEN 2 - (Fetched + 1) + 1 ELSE 0
        /\ \A i \in 1 .. 2 - (Fetched + 1) + 1 : old[i] = ev[Fetched + 1 + i - 1]
    BY <1>1, <2>1, SubSeqProperties
  <2> QED
    BY <1>1, <2>2
<1>4. /\ new \o old \in Seq(S) /\ Len(new \o old) = 2
      /\ \A i \in 1 .. 2 : (new \o old)[i] = IF i <= Fetched THEN new[i] ELSE old[i - Fetched]
  <2>1. /\ new \o old \in Seq(S)
        /\ Len(new \o old) = Len(new) + Len(old)
        /\ \A i \in 1 .. Len(new) + Len(old) :
             (new \o old)[i] = IF i <= Len(new) THEN new[i] ELSE old[i - Len(new)]
    BY <1>2, <1>3, ConcatProperties
  <2> HIDE DEF new, old
  <2> QED
    BY <1>1, <1>2, <1>3, <2>1
<1>5. Filled = new \o old
  BY DEF Filled
<1>6. /\ Filled \in Seq(S) /\ Len(Filled) = 2
      /\ Filled[1] = queue[1]
      /\ Filled[2] = IF Fetched = 2 THEN queue[2] ELSE ev[2]
  <2> HIDE DEF new, old
  <2> QED
    BY <1>1, <1>2, <1>3, <1>4, <1>5
<1>7. ASSUME Fetched = 2 PROVE Filled = <<queue[1], queue[2]>>
  BY <1>6, <1>7
<1> QED
  BY <1>6, <1>7

\* What a turn leaves in the queue.
LEMMA TurnQueue ==
  ASSUME NEW S, queue \in Seq(S), ReaderTurn
  PROVE  /\ queue' \in Seq(S)
         /\ Fetched \in 1 .. 2 /\ Fetched <= Len(queue)
         /\ Len(queue') = Len(queue) - Fetched
         /\ \A i \in 1 .. Len(queue') : queue'[i] = queue[i + Fetched]
<1>1. Fetched \in 1 .. 2 /\ Fetched <= Len(queue) /\ Len(queue) \in Nat
  BY VisibleRange, FetchedRange DEF ReaderTurn
<1>2. \A i \in Fetched + 1 .. Len(queue) : queue[i] \in S
  BY <1>1
<1>3. /\ queue' \in Seq(S)
      /\ Len(queue') = IF Fetched + 1 <= Len(queue)
                         THEN Len(queue) - (Fetched + 1) + 1 ELSE 0
      /\ \A i \in 1 .. Len(queue) - (Fetched + 1) + 1 : queue'[i] = queue[Fetched + 1 + i - 1]
  <2>1. queue' = SubSeq(queue, Fetched + 1, Len(queue))
    BY DEF ReaderTurn
  <2> QED
    BY <1>1, <1>2, <2>1, SubSeqProperties
<1> QED
  BY <1>1, <1>3

-----------------------------------------------------------------------------
(* Where the events come from *)

LEMMA StartReports ==
  ASSUME NEW V, ReaderInit
  PROVE  Reports(V)
<1>1. ev \in Seq({Stale}) /\ Len(ev) = 2
  BY DEF ReaderInit
<1>2. ev \in Seq(Events(V) \cup {Stale})
  BY <1>1, SeqMonotonic
<1>3. StaleHarmless => ~IsAbs(Stale) \/ whole
  BY DEF ReaderInit, StaleHarmless
<1> QED
  BY <1>1, <1>2, <1>3 DEF ReaderInit, Reports

\* The input core passes on what it is given, or nothing.
LEMMA AbsReports ==
  ASSUME NEW V, Reports(V), NEW v \in V, v # 0, ReportAbs(v)
  PROVE  Reports(V)' /\ absval' # 0
<1>1. Abs(v) \in Events(V) /\ IsAbs(Abs(v))
  BY DEF Events, Abs, IsAbs
<1>2. queue' \in Seq(Events(V))
  BY <1>1 DEF Reports, ReportAbs
<1>3. CASE v = absval
  BY <1>1, <1>2, <1>3 DEF Reports, ReportAbs
<1>4. CASE v # absval
  <2>1. queue' # <<>> /\ queue'[1] = IF queue = <<>> THEN Abs(v) ELSE queue[1]
    BY <1>1, <1>4 DEF Reports, ReportAbs
  <2> QED
    BY <1>1, <1>2, <2>1 DEF Reports, ReportAbs
<1> QED
  BY <1>3, <1>4

\* A SYN_REPORT is never the first event, for it ends a report.
LEMMA SyncReports ==
  ASSUME NEW V, Reports(V), absval # 0, InputSync
  PROVE  Reports(V)' /\ absval' # 0
<1>1. Syn \in Events(V)
  BY DEF Events
<1>2. queue' \in Seq(Events(V))
  BY <1>1 DEF Reports, InputSync
<1>3. queue # <<>> => queue' # <<>> /\ queue'[1] = queue[1]
  BY <1>1 DEF Reports, InputSync
<1> QED
  BY <1>2, <1>3 DEF Reports, InputSync

\* A turn of the reader processes nothing, or an ABS event that was reported.
LEMMA TurnReports ==
  ASSUME NEW V, Reports(V), ReaderTurn
  PROVE  /\ Reports(V)'
         /\ \/ told' = told
            \/ \E e \in Events(V) \cup {Stale} :
                 /\ told' = [told EXCEPT ![AdcId(e)] = AdcReading(e)]
                 /\ StaleHarmless => e \in Events(V) /\ IsAbs(e)
<1> DEFINE E == Events(V)
<1>1. queue \in Seq(E) /\ queue \in Seq(E \cup {Stale}) /\ ev \in Seq(E \cup {Stale}) /\ Len(ev) = 2
  BY SeqMonotonic DEF Reports
<1>2. queue' \in Seq(E) /\ Fetched \in 1 .. 2 /\ Fetched <= Len(queue)
  BY <1>1, TurnQueue
<1>3. Visible > 0 /\ ev' = Filled /\ UNCHANGED whole
  BY DEF ReaderTurn
<1>4. ev' \in Seq(E \cup {Stale}) /\ Len(ev') = 2
  BY <1>1, <1>3, FilledElements
<1>5. ev'[1] = queue[1] /\ ev'[1] \in E
  BY <1>1, <1>2, <1>3, FilledElements
<1>6. ev'[2] = (IF Fetched = 2 THEN queue[2] ELSE ev[2]) /\ ev'[2] \in E \cup {Stale}
  BY <1>1, <1>2, <1>3, FilledElements
<1>7. ev \in Seq(E) => ev' \in Seq(E)
  BY <1>1, <1>3, FilledElements
<1>8. ASSUME whole, IsAbs(queue[1])
      PROVE  ev' \in Seq(E)
  <2>1. queue[1] # Syn
    BY <1>1, <1>2, <1>8, EventKinds
  <2>2. Visible # 1
    BY <1>1, <1>3, <1>8, <2>1, VisibleRange
  <2>3. Fetched = 2
    BY <1>1, <1>3, <2>2, VisibleRange, FetchedRange
  <2>4. ev' = <<queue[1], queue[2]>>
    BY <1>1, <1>3, <2>3, FilledElements
  <2> QED
    BY <1>1, <1>2, <2>3, <2>4
<1>9. StaleHarmless => ev' \in Seq(E) \/ ~IsAbs(Stale)
  <2>1. queue # <<>>
    BY <1>2
  <2> QED
    BY <1>7, <1>8, <2>1 DEF Reports
<1>10. Reports(V)'
  BY <1>2, <1>4, <1>9 DEF Reports, StaleHarmless
<1>11. CASE Chosen(Filled) = 0
  BY <1>10, <1>11 DEF ReaderTurn
<1>12. CASE Chosen(Filled) # 0
  <2> DEFINE e == Filled[Chosen(Filled)]
  <2>1. told' = [told EXCEPT ![AdcId(e)] = AdcReading(e)]
    BY <1>12 DEF ReaderTurn
  <2>2. IsAbs(e) /\ e \in E \cup {Stale}
    BY <1>12, <1>3, <1>5, <1>6 DEF Chosen
  <2>3. ev' \in Seq(E) => e \in E
    <3>1. ev' \in Seq(E) => ev'[2] \in E
      <4>1. Len(ev') = 2
        BY <1>4
      <4> QED
        BY <4>1, ElementOfSeq
    <3> QED
      BY <3>1, <1>12, <1>3, <1>5 DEF Chosen
  <2>4. StaleHarmless => e \in E
    BY <2>2, <2>3, <1>9
  <2> QED
    BY <1>10, <2>1, <2>2, <2>4
<1> QED
  BY <1>11, <1>12

\* Whatever is processed is processed for a channel, as a reading.
LEMMA TurnTold ==
  ASSUME NEW V \in SUBSET Int, Reports(V), ReaderTurn,
         told \in [Channels -> Readings \cup {Unknown}]
  PROVE  told' \in [Channels -> Readings \cup {Unknown}]
<1>1. ASSUME NEW e \in Events(V) \cup {Stale}
      PROVE  AdcReading(e) \in Readings
  <2>1. e.value \in Int
    BY StaleAssumption DEF Events, Abs, Syn
  <2> QED
    BY <2>1 DEF AdcReading, Readings
<1> QED
  BY <1>1, TurnReports
=============================================================================
