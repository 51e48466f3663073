---------------------------- MODULE VadccProofs ----------------------------
(***************************************************************************)
(* The virtual ADC driver and the program that reads it, for any finite    *)
(* number of writers, whatever numbers they write, any queue and any       *)
(* contents of the uninitialised adc_ev.                                   *)
(***************************************************************************)
EXTENDS Vadcc, AdcReaderProofs, FiniteSetTheorems

\* A value that may be reported gives back the channel, and the reading as the
\* shift has left it.
LEMMA ReportedValue ==
  ASSUME NEW v \in Reported
  PROVE  /\ v \in 1 .. ADC_DATA_MAX - 1
         /\ AdcId(Abs(v)) \in Channels
         /\ \E p \in Pairs : AdcId(Abs(v)) = p[1] /\ AdcReading(Abs(v)) = p[2] % 2^29
<1>0. PICK p \in Pairs : p[1] \in Channels /\ ShiftLeft3(p[2]) >= 0 /\ v = ShiftLeft3(p[2]) + p[1]
  BY DEF Reported
<1> DEFINE c == p[1]
           n == p[2]
<1>1. c \in Channels /\ n \in Int /\ ShiftLeft3(n) >= 0 /\ v = ShiftLeft3(n) + c
  BY <1>0, PairsAssumption
<1>9. c = p[1] /\ n = p[2]
  OBVIOUS
<1> HIDE DEF c, n
<1>2. v \in 1 .. ADC_DATA_MAX - 1
  BY DEF Reported
<1> DEFINE low == n % 2^29
<1>3. low \in Nat
  BY <1>1
<1>4. ShiftLeft3(n) = 8 * low
  <2>1. ShiftLeft3(n) = IF low < 2^28 THEN 8 * low ELSE -1
    BY DEF ShiftLeft3
  <2> HIDE DEF low
  <2> QED
    BY <1>1, <2>1
<1>5. v % 8 = c /\ (v \div 8) % 1024 = low
  <2>1. v = 8 * low + c /\ c \in 0 .. 7 /\ low \in 0 .. 1023
    <3>1. c \in 0 .. 7
      BY <1>1 DEF Channels
    <3>2. v = 8 * low + c
      BY <1>1, <1>4
    <3> HIDE DEF low
    <3>3. low <= 1023
      BY <1>2, <1>3, <3>1, <3>2 DEF ADC_DATA_MAX
    <3>4. low \in 0 .. 1023
      BY <1>3, <3>3
    <3> QED
      BY <3>1, <3>2, <3>4
  <2>2. \A l \in 0 .. 1023, d \in 0 .. 7 : (8 * l + d) % 8 = d /\ ((8 * l + d) \div 8) % 1024 = l
    OBVIOUS
  <2> HIDE DEF low
  <2> QED
    BY <2>1, <2>2
<1>6. AdcId(Abs(v)) = c /\ AdcReading(Abs(v)) = low
  <2> HIDE DEF low
  <2> QED
    BY <1>5 DEF AdcId, AdcReading, Abs
<1>7. \E q \in Pairs : AdcId(Abs(v)) = q[1] /\ AdcReading(Abs(v)) = q[2] % 2^29
  BY <1>6, <1>9
<1>8. AdcId(Abs(v)) \in Channels
  BY <1>1, <1>6
<1> QED
  BY <1>2, <1>7, <1>8

\* What a writer has passed the check with is such a value.
LEMMA WriterReports ==
  ASSUME TypeOK, WriterInv, NEW w \in Writers, Report(w)
  PROVE  Packed(w) \in Reported
<1>1. <<x[w], y[w]>> \in Pairs
  <2>1. wpc[w] # "idle"
    BY DEF Report, Goto
  <2> QED
    BY <2>1 DEF WriterInv
<1>2. /\ x[w] \in Channels /\ ShiftLeft3(y[w]) >= 0
      /\ Packed(w) \in 1 .. ADC_DATA_MAX - 1
  BY DEF Report, Accepts
<1> DEFINE pair == <<x[w], y[w]>>
           v    == Packed(w)
           Passes(u) == \E p \in Pairs :
                          p[1] \in Channels /\ ShiftLeft3(p[2]) >= 0 /\ u = ShiftLeft3(p[2]) + p[1]
<1>3. pair \in Pairs /\ pair[1] = x[w] /\ pair[2] = y[w]
  BY <1>1
<1>4. v = ShiftLeft3(y[w]) + x[w]
  BY DEF Packed
<1>5. Reported = {u \in 1 .. ADC_DATA_MAX - 1 : Passes(u)}
  BY DEF Reported
<1>6. v \in 1 .. ADC_DATA_MAX - 1
  BY <1>2
<1> HIDE DEF pair, v
<1>7. Passes(v)
  BY <1>2, <1>3, <1>4, Zenon
<1> HIDE DEF Passes
<1> QED
  BY <1>5, <1>6, <1>7 DEF v

\* A writer moves from one place to another.
LEMMA Moved ==
  ASSUME TypeOK, NEW w \in Writers, NEW from, NEW to, Goto(w, from, to)
  PROVE  \A place : At(place)' = IF place = to THEN At(place) \cup {w}
                                ELSE IF place = from THEN At(place) \ {w} ELSE At(place)
BY DEF TypeOK, Goto, At

LEMMA Counts ==
  ASSUME NEW S \in SUBSET Writers
  PROVE  /\ IsFiniteSet(S) /\ Cardinality(S) \in Nat
         /\ \A w \in Writers :
              /\ Cardinality(S \cup {w}) = IF w \in S THEN Cardinality(S) ELSE Cardinality(S) + 1
              /\ Cardinality(S \ {w}) = IF w \in S THEN Cardinality(S) - 1 ELSE Cardinality(S)
<1>1. IsFiniteSet(S)
  BY WritersAssumption, FS_Subset
<1> QED
  BY <1>1, FS_CardinalityType, FS_AddElement, FS_RemoveElement

\* The writers at two places are different ones.
LEMMA TwoPlaces ==
  ASSUME NEW S \in SUBSET Writers, NEW T \in SUBSET Writers, S \cap T = {}
  PROVE  Cardinality(S) + Cardinality(T) <= Cardinality(Writers)
<1>1. IsFiniteSet(S) /\ IsFiniteSet(T)
  BY Counts
<1>2. Cardinality(S \cup T) = Cardinality(S) + Cardinality(T) - Cardinality(S \cap T)
  BY <1>1, FS_Union
<1>3. Cardinality(S \cap T) = 0
  BY FS_EmptySet
<1>4. Cardinality(S \cup T) <= Cardinality(Writers)
  BY WritersAssumption, FS_Subset
<1>5. Cardinality(S) \in Nat /\ Cardinality(T) \in Nat
  BY Counts
<1> QED
  BY <1>2, <1>3, <1>4, <1>5

-----------------------------------------------------------------------------
LEMMA InitInv == Init => IInv
<1> SUFFICES ASSUME Init PROVE IInv
  OBVIOUS
<1>1. Reports(Reported)
  BY StartReports DEF Init
<1>2. queue = <<>> /\ told = [c \in Channels |-> Unknown]
  BY DEF Init, ReaderInit
<1>3. Cardinality(Writers) \in Nat /\ QueueCap \in Nat
  BY WritersAssumption, FS_CardinalityType, QueueAssumption
<1>4. TypeOK
  <2>1. whole \in BOOLEAN /\ absval = 0 /\ sync = FALSE
    BY QueueAssumption DEF Init, ReaderInit
  <2>2. /\ wpc \in [Writers -> {"idle", "check", "sync"}]
        /\ x \in [Writers -> Int] /\ y \in [Writers -> Int]
    BY DEF Init
  <2>3. absval \in 0 .. ADC_DATA_MAX - 1
    BY <2>1, DataMax
  <2>5. sync \in BOOLEAN
    BY <2>1
  <2>4. Len(queue) <= QueueCap + 2 * Cardinality(Writers)
    BY <1>2, <1>3
  <2> QED
    BY <2>1, <2>2, <2>3, <2>4, <2>5 DEF TypeOK
<1>5. WriterInv
  BY DEF Init, WriterInv
<1>6. RoomKept
  <2>1. At("check") = {} /\ At("sync") = {}
    BY DEF Init, At
  <2>2. Cardinality(At("check")) = 0 /\ Cardinality(At("sync")) = 0 /\ Len(queue) = 0
    BY <1>2, <2>1, FS_EmptySet
  <2> QED
    BY <1>3, <2>2 DEF RoomKept
<1>7. told \in [Channels -> Readings \cup {Unknown}] /\ NothingInvented
  BY <1>2 DEF NothingInvented
<1> QED
  BY <1>1, <1>4, <1>5, <1>6, <1>7 DEF IInv

\* The room is kept by the steps of a writer: it starts while there is room, and
\* each of its two steps adds one event at most.
LEMMA WriteRoom ==
  ASSUME IInv, NEW w \in Writers, HasRoom, Goto(w, "idle", "check"), UNCHANGED queue
  PROVE  RoomKept'
<1>1. At("check")' = At("check") \cup {w} /\ At("sync")' = At("sync")
  BY Moved DEF IInv
<1>2. At("check")' \cap At("sync")' = {} /\ At("check")' \subseteq Writers /\ At("sync")' \subseteq Writers
  BY DEF At
<1>3. Cardinality(At("check")') + Cardinality(At("sync")') <= Cardinality(Writers)
  BY <1>2, TwoPlaces
<1>4. /\ Cardinality(At("check")') \in Nat /\ Cardinality(At("sync")') \in Nat
      /\ Cardinality(Writers) \in Nat
  BY <1>2, Counts
<1>5. Len(queue) \in Nat /\ Len(queue') <= QueueCap /\ QueueCap \in Nat
  BY QueueAssumption DEF IInv, Reports, HasRoom
<1> QED
  BY <1>3, <1>4, <1>5 DEF RoomKept

LEMMA StepRoom ==
  ASSUME IInv, NEW w \in Writers, NEW s,
         \/ Goto(w, "check", "sync") /\ queue' \in {queue, Append(queue, s)}
         \/ Goto(w, "sync", "idle") /\ queue' \in {queue, Append(queue, s)}
         \/ Goto(w, "check", "idle") /\ queue' = queue
  PROVE  RoomKept'
<1>1. At("check") \in SUBSET Writers /\ At("sync") \in SUBSET Writers
  BY DEF At
<1>2. /\ Cardinality(At("check")) \in Nat /\ Cardinality(At("sync")) \in Nat
      /\ Cardinality(Writers) \in Nat /\ QueueCap \in Nat
      /\ Len(queue) \in Nat /\ (queue' \in {queue, Append(queue, s)} => Len(queue') \in Nat /\ Len(queue') <= Len(queue) + 1)
  <2>1. Len(queue) \in Nat /\ Len(Append(queue, s)) = Len(queue) + 1
    BY DEF IInv, Reports
  <2> QED
    BY <1>1, <2>1, Counts, QueueAssumption
<1>3. CASE Goto(w, "check", "sync") /\ queue' \in {queue, Append(queue, s)}
  <2>1. At("check")' = At("check") \ {w} /\ At("sync")' = At("sync") \cup {w}
    BY <1>3, Moved DEF IInv
  <2>2. w \in At("check") /\ w \notin At("sync")
    BY <1>3 DEF At, Goto
  <2>3. /\ Cardinality(At("check")') = Cardinality(At("check")) - 1
        /\ Cardinality(At("sync")') = Cardinality(At("sync")) + 1
    BY <1>1, <2>1, <2>2, Counts
  <2>4. RoomKept /\ Len(queue') <= Len(queue) + 1 /\ Len(queue') \in Nat
    <3>1. queue' \in {queue, Append(queue, s)}
      BY <1>3
    <3> QED
      BY <1>2, <3>1 DEF IInv
  <2>5. Len(queue) + 2 * Cardinality(At("check")) + Cardinality(At("sync")) <= QueueCap + 2 * Cardinality(Writers)
    BY <2>4 DEF RoomKept
  <2>6. Len(queue') + 2 * Cardinality(At("check")') + Cardinality(At("sync")') <= QueueCap + 2 * Cardinality(Writers)
    <3>1. \A l, k, p, q, n \in Nat :
            k <= l + 1 /\ l + 2 * p + q <= n => k + 2 * (p - 1) + (q + 1) <= n
      OBVIOUS
    <3>2. QueueCap + 2 * Cardinality(Writers) \in Nat
      BY <1>2
    <3> QED
      BY <1>2, <2>3, <2>4, <2>5, <3>1, <3>2, Zenon
  <2> QED
    BY <2>6 DEF RoomKept
<1>4. CASE Goto(w, "sync", "idle") /\ queue' \in {queue, Append(queue, s)}
  <2>1. At("check")' = At("check") /\ At("sync")' = At("sync") \ {w} /\ w \in At("sync")
    <3>1. w \in At("sync")
      BY <1>4 DEF At, Goto
    <3> QED
      BY <1>4, <3>1, Moved DEF IInv
  <2>2. Cardinality(At("sync")') = Cardinality(At("sync")) - 1
    BY <1>1, <2>1, Counts
  <2> QED
    BY <1>2, <1>4, <2>1, <2>2 DEF IInv, RoomKept
<1>5. CASE Goto(w, "check", "idle") /\ queue' = queue
  <2>1. At("check")' = At("check") \ {w} /\ At("sync")' = At("sync") /\ w \in At("check")
    <3>1. w \in At("check")
      BY <1>5 DEF At, Goto
    <3> QED
      BY <1>5, <3>1, Moved DEF IInv
  <2>2. Cardinality(At("check")') = Cardinality(At("check")) - 1
    BY <1>1, <2>1, Counts
  <2> QED
    BY <1>2, <1>5, <2>1, <2>2 DEF IInv, RoomKept
<1> QED
  BY <1>3, <1>4, <1>5

\* So the queue has its bound.
LEMMA RoomBoundNext ==
  ASSUME RoomKept', Len(queue') \in Nat
  PROVE  Len(queue') <= QueueCap + 2 * Cardinality(Writers)
<1>1. At("check")' \in SUBSET Writers /\ At("sync")' \in SUBSET Writers
  BY DEF At
<1>2. /\ Cardinality(At("check")') \in Nat /\ Cardinality(At("sync")') \in Nat
      /\ Cardinality(Writers) \in Nat /\ QueueCap \in Nat
  BY <1>1, Counts, QueueAssumption
<1> QED
  BY <1>2 DEF RoomKept

-----------------------------------------------------------------------------
(* The steps *)

\* A writer that goes on with the pair it has.
LEMMA WriterMoves ==
  ASSUME TypeOK, WriterInv, NEW w \in Writers, NEW to \in {"idle", "check", "sync"},
         NEW from \in {"check", "sync"}, Goto(w, from, to), UNCHANGED <<x, y>>,
         absval' = absval \/ absval' # 0, to = "sync" => absval' # 0
  PROVE  /\ wpc' \in [Writers -> {"idle", "check", "sync"}]
         /\ x' \in [Writers -> Int] /\ y' \in [Writers -> Int]
         /\ WriterInv'
<1>1. wpc' \in [Writers -> {"idle", "check", "sync"}]
  BY DEF TypeOK, Goto
<1>2. x' \in [Writers -> Int] /\ y' \in [Writers -> Int]
  BY DEF TypeOK
<1>3. ASSUME NEW u \in Writers
      PROVE  /\ wpc'[u] # "idle" => <<x'[u], y'[u]>> \in Pairs
             /\ wpc'[u] = "sync" => absval' # 0
  <2>1. wpc'[u] = (IF u = w THEN to ELSE wpc[u]) /\ wpc[w] # "idle"
    BY DEF TypeOK, Goto
  <2>2. wpc'[u] # "idle" => wpc[u] # "idle"
    BY <2>1
  <2>3. wpc'[u] = "sync" => absval' # 0
    BY <2>1 DEF WriterInv
  <2> QED
    BY <2>2, <2>3 DEF WriterInv
<1> QED
  BY <1>1, <1>2, <1>3 DEF WriterInv

\* A writer that only looks at its pair.
LEMMA LookInv ==
  ASSUME IInv, NEW w \in Writers, Write(w) \/ Reject(w)
  PROVE  IInv'
<1>1. UNCHANGED feedVars
  BY DEF Write, Reject
<1>2. RoomKept'
  BY <1>1, WriteRoom, StepRoom DEF Write, Reject, feedVars
<1>3. TypeOK' /\ WriterInv'
  <2>1. CASE Write(w)
    <3>1. PICK p \in Pairs : x' = [x EXCEPT ![w] = p[1]] /\ y' = [y EXCEPT ![w] = p[2]]
      BY <2>1 DEF Write
    <3>2. p[1] \in Int /\ p[2] \in Int /\ p = <<p[1], p[2]>>
      BY PairsAssumption
    <3>3. wpc[w] = "idle" /\ wpc' = [wpc EXCEPT ![w] = "check"]
      BY <2>1 DEF Write, Goto
    <3>4. TypeOK /\ WriterInv
      BY DEF IInv
    <3>5. /\ wpc' \in [Writers -> {"idle", "check", "sync"}]
          /\ x' \in [Writers -> Int] /\ y' \in [Writers -> Int]
      BY <3>1, <3>2, <3>3, <3>4 DEF TypeOK
    <3>6. TypeOK'
      BY <1>1, <3>4, <3>5 DEF TypeOK, feedVars
    <3>7. ASSUME NEW u \in Writers
          PROVE  /\ wpc'[u] # "idle" => <<x'[u], y'[u]>> \in Pairs
                 /\ wpc'[u] = "sync" => absval' # 0
      <4>1. CASE u = w
        BY <3>1, <3>2, <3>3, <3>4, <4>1 DEF TypeOK
      <4>2. CASE u # w
        <5>1. /\ x'[u] = x[u] /\ y'[u] = y[u] /\ wpc'[u] = wpc[u]
              /\ absval' = absval
          BY <1>1, <3>1, <3>2, <3>3, <3>4, <4>2 DEF TypeOK, feedVars
        <5> QED
          BY <3>4, <5>1 DEF WriterInv
      <4> QED
        BY <4>1, <4>2
    <3> QED
      BY <3>6, <3>7 DEF WriterInv
  <2>2. CASE Reject(w)
    <3>1. Goto(w, "check", "idle") /\ UNCHANGED <<x, y>>
      BY <2>2 DEF Reject
    <3>2. TypeOK /\ WriterInv
      BY DEF IInv
    <3>3. /\ absval' = absval /\ whole' \in BOOLEAN /\ absval' \in 0 .. ADC_DATA_MAX - 1 /\ sync' \in BOOLEAN
          /\ Len(queue') <= QueueCap + 2 * Cardinality(Writers)
      BY <1>1, <3>2 DEF feedVars, TypeOK
    <3>4. /\ wpc' \in [Writers -> {"idle", "check", "sync"}]
          /\ x' \in [Writers -> Int] /\ y' \in [Writers -> Int]
          /\ WriterInv'
      BY <3>1, <3>2, <3>3, WriterMoves
    <3> QED
      BY <3>3, <3>4 DEF TypeOK
  <2> QED
    BY <2>1, <2>2
<1> QED
  BY <1>1, <1>2, <1>3 DEF IInv, Reports, NothingInvented, feedVars

LEMMA ReportInv ==
  ASSUME IInv, NEW w \in Writers, Report(w)
  PROVE  IInv'
<1> DEFINE v == Packed(w)
<1>1. v \in Reported /\ v \in 1 .. ADC_DATA_MAX - 1
  BY WriterReports, ReportedValue DEF IInv
<1>2. Reports(Reported)' /\ absval' # 0
  <2>1. v # 0
    <3> HIDE DEF v
    <3> QED
      BY <1>1
  <2> QED
    BY <1>1, <2>1, AbsReports DEF IInv, Report
<1>3. /\ wpc[w] = "check" /\ wpc' = [wpc EXCEPT ![w] = "sync"] /\ UNCHANGED <<x, y>>
      /\ absval' = v /\ sync' = (sync /\ v = absval) /\ UNCHANGED <<whole, ev, told>>
      /\ queue' \in {queue, Append(queue, Abs(v))}
  BY DEF Report, Goto, ReportAbs
<1>4. RoomKept'
  BY <1>3, StepRoom DEF Report
<1>5. Len(queue') <= QueueCap + 2 * Cardinality(Writers)
  <2>1. Len(queue') \in Nat
    BY <1>2 DEF Reports
  <2> QED
    BY <1>4, <2>1, RoomBoundNext
<1>6. TypeOK' /\ WriterInv'
  <2> HIDE DEF v
  <2>1. absval' \in 0 .. ADC_DATA_MAX - 1
    BY <1>1, <1>3
  <2>2. TypeOK /\ WriterInv
    BY DEF IInv
  <2>3. whole' \in BOOLEAN /\ sync' \in BOOLEAN /\ UNCHANGED <<x, y>>
    BY <1>3, <2>2 DEF TypeOK
  <2>4. Goto(w, "check", "sync")
    BY DEF Report
  <2>5. /\ wpc' \in [Writers -> {"idle", "check", "sync"}]
        /\ x' \in [Writers -> Int] /\ y' \in [Writers -> Int]
        /\ WriterInv'
    BY <1>2, <2>2, <2>3, <2>4, WriterMoves
  <2> QED
    BY <1>5, <2>1, <2>3, <2>5 DEF TypeOK
<1> QED
  BY <1>2, <1>3, <1>4, <1>6 DEF IInv, NothingInvented

LEMMA FinishInv ==
  ASSUME IInv, NEW w \in Writers, Finish(w)
  PROVE  IInv'
<1>1. /\ wpc[w] = "sync" /\ wpc' = [wpc EXCEPT ![w] = "idle"] /\ UNCHANGED <<x, y>>
      /\ sync' = TRUE /\ UNCHANGED <<whole, absval, ev, told>>
      /\ queue' \in {queue, Append(queue, Syn)}
  BY DEF Finish, Goto, InputSync
<1>2. Reports(Reported)' /\ absval' # 0
  <2>1. absval # 0
    BY <1>1 DEF IInv, WriterInv
  <2> QED
    BY <2>1, SyncReports DEF IInv, Finish
<1>3. RoomKept'
  BY <1>1, StepRoom DEF Finish
<1>4. Len(queue') <= QueueCap + 2 * Cardinality(Writers)
  <2>1. Len(queue') \in Nat
    BY <1>2 DEF Reports
  <2> QED
    BY <1>3, <2>1, RoomBoundNext
<1>5. TypeOK' /\ WriterInv'
  <2>1. TypeOK /\ WriterInv
    BY DEF IInv
  <2>2. whole' \in BOOLEAN /\ sync' \in BOOLEAN /\ absval' \in 0 .. ADC_DATA_MAX - 1
    BY <1>1, <2>1 DEF TypeOK
  <2>3. Goto(w, "sync", "idle") /\ UNCHANGED <<x, y>> /\ absval' = absval
    BY <1>1 DEF Finish
  <2>4. /\ wpc' \in [Writers -> {"idle", "check", "sync"}]
        /\ x' \in [Writers -> Int] /\ y' \in [Writers -> Int]
        /\ WriterInv'
    BY <2>1, <2>3, WriterMoves
  <2> QED
    BY <1>4, <2>2, <2>4 DEF TypeOK
<1> QED
  BY <1>1, <1>2, <1>3, <1>5 DEF IInv, NothingInvented

\* The reader is told of a value that was reported.
LEMMA TurnInv ==
  ASSUME IInv, ReaderTurn, UNCHANGED vadccVars
  PROVE  IInv'
<1>1. queue \in Seq(Events(Reported)) /\ UNCHANGED <<whole, absval, sync>>
  BY DEF IInv, Reports, ReaderTurn
<1>2. Reports(Reported)'
  BY TurnReports DEF IInv
<1>3. Len(queue') \in Nat /\ Len(queue') <= Len(queue) /\ Len(queue) \in Nat
  <2>1. /\ Fetched \in 1 .. 2 /\ Len(queue') = Len(queue) - Fetched
        /\ queue' \in Seq(Events(Reported))
    BY <1>1, TurnQueue
  <2> QED
    BY <1>1, <2>1
<1>4. RoomKept' /\ Len(queue') <= QueueCap + 2 * Cardinality(Writers)
  <2>1. At("check")' = At("check") /\ At("sync")' = At("sync")
    BY DEF At, vadccVars
  <2>2. At("check") \in SUBSET Writers /\ At("sync") \in SUBSET Writers
    BY DEF At
  <2>3. /\ Cardinality(At("check")) \in Nat /\ Cardinality(At("sync")) \in Nat
        /\ Cardinality(Writers) \in Nat /\ QueueCap \in Nat
    BY <2>2, Counts, QueueAssumption
  <2> QED
    BY <1>3, <2>1, <2>3 DEF IInv, RoomKept
<1>5. TypeOK' /\ WriterInv'
  <2>1. TypeOK /\ WriterInv
    BY DEF IInv
  <2>2. TypeOK'
    BY <1>1, <1>4, <2>1 DEF TypeOK, vadccVars
  <2>3. WriterInv'
    BY <1>1, <2>1 DEF WriterInv, vadccVars
  <2> QED
    BY <2>2, <2>3
<1>6. told' \in [Channels -> Readings \cup {Unknown}]
  <2>1. Reported \in SUBSET Int
    <3> SUFFICES ASSUME NEW v \in Reported PROVE v \in Int
      OBVIOUS
    <3>1. v \in 1 .. ADC_DATA_MAX - 1
      BY ReportedValue
    <3> QED
      BY <3>1
  <2> QED
    BY <2>1, TurnTold DEF IInv
<1>7. ASSUME StaleHarmless
      PROVE  NothingInvented'
  <2>1. NothingInvented
    BY <1>7 DEF IInv
  <2>2. CASE told' = told
    BY <2>1, <2>2 DEF NothingInvented
  <2>3. CASE told' # told
    <3>1. PICK e \in Events(Reported) :
                 IsAbs(e) /\ told' = [told EXCEPT ![AdcId(e)] = AdcReading(e)]
      BY <1>7, <2>3, TurnReports DEF IInv
    <3>2. e.value \in Reported /\ e = Abs(e.value)
      BY <3>1, EventKinds
    <3>3. AdcId(e) \in Channels /\ \E p \in Pairs : AdcId(e) = p[1] /\ AdcReading(e) = p[2] % 2^29
      BY <3>2, ReportedValue
    <3>4. told \in [Channels -> Readings \cup {Unknown}]
      BY DEF IInv
    <3> QED
      BY <2>1, <3>1, <3>3, <3>4 DEF NothingInvented
  <2> QED
    BY <2>2, <2>3
<1> QED
  BY <1>2, <1>4, <1>5, <1>6, <1>7 DEF IInv, StaleHarmless

LEMMA NextInv == IInv /\ [Next]_vars => IInv'
<1> SUFFICES ASSUME IInv, [Next]_vars PROVE IInv'
  OBVIOUS
<1>1. CASE UNCHANGED vars
  <2>1. TypeOK /\ Reports(Reported) /\ WriterInv /\ RoomKept /\ UNCHANGED <<feedVars, vadccVars>>
    BY <1>1 DEF IInv, vars
  <2>2. TypeOK'
    BY <2>1 DEF TypeOK, feedVars, vadccVars
  <2>3. WriterInv'
    BY <2>1 DEF WriterInv, feedVars, vadccVars
  <2>4. RoomKept'
    BY <2>1 DEF RoomKept, At, feedVars, vadccVars
  <2>5. Reports(Reported)'
    BY <2>1 DEF Reports, feedVars
  <2>6. told' = told /\ (NothingInvented' <=> NothingInvented) /\ (StaleHarmless' <=> StaleHarmless)
    BY <2>1 DEF NothingInvented, StaleHarmless, feedVars
  <2> QED
    BY <2>2, <2>3, <2>4, <2>5, <2>6 DEF IInv
<1>2. CASE Next
  BY <1>2, LookInv, ReportInv, FinishInv, TurnInv DEF Next
<1> QED
  BY <1>1, <1>2

\* The inductive invariant holds: the events on their way report pairs that
\* somebody wrote and that passed the check, and the queue has room for the
\* reports of all the writers under way.
THEOREM Invariance == Spec => []IInv
BY InitInv, NextInv, PTL DEF Spec

-----------------------------------------------------------------------------
\* The locals of the writers and the event stream have their types, and the
\* writers together never put more than two events each over the bound.
THEOREM TypeCorrect == Spec => []TypeOK
<1>1. IInv => TypeOK
  BY DEF IInv
<1> QED
  BY <1>1, Invariance, PTL

\* However the calls and reports of any number of writers are mixed, a channel and
\* a reading the program is told of were written together, as one pair, unless
\* what the uninitialised adc_ev holds looks like an ABS event and the event
\* device shows events one by one.
THEOREM ToldIsWritten == Spec => [](StaleHarmless => NothingInvented)
<1>1. IInv => (StaleHarmless => NothingInvented)
  BY DEF IInv
<1> QED
  BY <1>1, Invariance, PTL
=============================================================================
