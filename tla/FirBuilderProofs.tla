-------------------------- MODULE FirBuilderProofs --------------------------
(***************************************************************************)
(* The binding of FIRs to MACs and time slots, for any specification file, *)
(* any number of time slots and of inputs.                                 *)
(***************************************************************************)
EXTENDS FirBuilder, SequenceTheorems, FiniteSetTheorems, WellFoundedInduction, TLAPS

(* Arithmetic, and the operators Min and Max *)

\* A set of naturals that is not empty has a least member, and Min is it.
LEMMA MinOfNats ==
  ASSUME NEW S, S \subseteq Nat, S # {}
  PROVE  Min(S) \in S /\ \A x \in S : Min(S) <= x
<1> DEFINE R == {ss \in Nat \X Nat : ss[1] < ss[2]}
<1>1. OpToRel(<, Nat) = R
  BY Zenon DEF OpToRel
<1>2. IsWellFoundedOn(R, Nat)
  BY <1>1, NatLessThanWellFounded, Zenon
<1>3. PICK m \in S : \A x \in S : <<x, m>> \notin R
  BY <1>2, WFMin, Zenon
<1>4. \A x, y \in Nat : x < y => <<x, y>> \in R
  OBVIOUS
<1>5. \A x \in S : m <= x
  <2> TAKE x \in S
  <2>1. ~ (x < m)
    BY <1>3, <1>4, Zenon
  <2> QED
    BY <2>1
<1> QED
  BY <1>5 DEF Min

\* The smaller of two.
LEMMA MinOfTwo ==
  ASSUME NEW a \in Int, NEW b \in Int
  PROVE  Min({a, b}) = IF a <= b THEN a ELSE b
BY DEF Min

\* The greater of two.
LEMMA MaxOfTwo ==
  ASSUME NEW a \in Int, NEW b \in Int
  PROVE  Max({a, b}) \in {a, b} /\ Max({a, b}) >= a /\ Max({a, b}) >= b
<1>1. Max({a, b}) = IF a >= b THEN a ELSE b
  BY DEF Max
<1> QED
  BY <1>1

\* A set of integers between two bounds, if it is not empty, has a greatest
\* member, and Max is it.
LEMMA MaxOfRange ==
  ASSUME NEW a \in Int, NEW b \in Int, NEW S, S \subseteq a .. b, S # {}
  PROVE  Max(S) \in S /\ \A x \in S : x <= Max(S)
<1> DEFINE T == {b - x : x \in S}
<1>0. \A x \in S : b - x \in Nat
  OBVIOUS
<1>1. T \subseteq Nat /\ T # {}
  BY <1>0
<1>2. Min(T) \in T /\ \A y \in T : Min(T) <= y
  BY <1>1, MinOfNats
<1>3. PICK m \in S : Min(T) = b - m
  BY <1>2
<1>4. \A x \in S : m >= x
  <2> TAKE x \in S
  <2>1. b - m <= b - x
    BY <1>2, <1>3
  <2> QED
    BY <2>1
<1> QED
  BY <1>4 DEF Max

LEMMA DivMod ==
  ASSUME NEW a \in Int, NEW d \in Nat \ {0}
  PROVE  /\ a % d \in 0 .. d - 1
         /\ a \div d \in Int
         /\ a = d * (a \div d) + (a % d)
OBVIOUS

\* A multiple that is less than its unit is nothing.
LEMMA SmallMultiple ==
  ASSUME NEW d \in Nat \ {0}, NEW t \in Int, t * d < d, -d < t * d
  PROVE  t = 0
OBVIOUS

LEMMA NoRemainder ==
  ASSUME NEW a \in Int, NEW d \in Nat \ {0}
  PROVE  a % d = 0 <=> \E k \in Int : a = k * d
<1>1. ASSUME a % d = 0 PROVE \E k \in Int : a = k * d
  <2>1. a = (a \div d) * d /\ a \div d \in Int
    BY <1>1, DivMod
  <2> QED
    BY <2>1
<1>2. ASSUME NEW k \in Int, a = k * d PROVE a % d = 0
  BY <1>2
<1> QED
  BY <1>1, <1>2

LEMMA PowersOfTwo == \A i \in 0 .. 30 : 2^i \in Nat \ {0}
<1> DEFINE Positive(i) == 2^i \in Nat \ {0}
<1>1. /\ Positive(0) /\ Positive(1) /\ Positive(2) /\ Positive(3) /\ Positive(4) /\ Positive(5)
      /\ Positive(6) /\ Positive(7) /\ Positive(8) /\ Positive(9) /\ Positive(10) /\ Positive(11)
      /\ Positive(12) /\ Positive(13) /\ Positive(14) /\ Positive(15) /\ Positive(16) /\ Positive(17)
      /\ Positive(18) /\ Positive(19) /\ Positive(20) /\ Positive(21) /\ Positive(22) /\ Positive(23)
      /\ Positive(24) /\ Positive(25) /\ Positive(26) /\ Positive(27) /\ Positive(28) /\ Positive(29)
      /\ Positive(30)
  OBVIOUS
<1>2. \A i \in 0 .. 30 :
        \/ i = 0 \/ i = 1 \/ i = 2 \/ i = 3 \/ i = 4 \/ i = 5 \/ i = 6 \/ i = 7
        \/ i = 8 \/ i = 9 \/ i = 10 \/ i = 11 \/ i = 12 \/ i = 13 \/ i = 14 \/ i = 15
        \/ i = 16 \/ i = 17 \/ i = 18 \/ i = 19 \/ i = 20 \/ i = 21 \/ i = 22 \/ i = 23
        \/ i = 24 \/ i = 25 \/ i = 26 \/ i = 27 \/ i = 28 \/ i = 29 \/ i = 30
  OBVIOUS
<1>3. \A i \in 0 .. 30 : Positive(i)
  <2> HIDE DEF Positive
  <2> QED
    BY <1>1, <1>2
<1> QED
  BY <1>3

\* What does not exceed the slots is rounded up to a power of two.
LEMMA WordsCount ==
  ASSUME NEW n \in 0 .. NumTimeSlots
  PROVE  RoundUpToPowerOfTwo(n) \in Nat \ {0}
<1> DEFINE S == {p \in {2^i : i \in 0 .. 30} : n <= p}
<1>1. 2^30 \in S
  BY SlotsAssumption, PowersOfTwo
<1>2. S \subseteq Nat /\ 0 \notin S
  BY PowersOfTwo
<1>3. Min(S) \in S
  BY <1>1, <1>2, MinOfNats
<1> QED
  BY <1>2, <1>3 DEF RoundUpToPowerOfTwo

-----------------------------------------------------------------------------
(* The slots of a FIR *)

\* A slot counted back or forth from another, once around at most.
LEMMA AroundSlots ==
  ASSUME NEW a \in Int
  PROVE  /\ a % NumTimeSlots \in Slots
         /\ a \in Slots => a % NumTimeSlots = a
         /\ a + NumTimeSlots \in Slots => a % NumTimeSlots = a + NumTimeSlots
         /\ a - NumTimeSlots \in Slots => a % NumTimeSlots = a - NumTimeSlots
BY SlotsAssumption DEF Slots

LEMMA RowSlotIn ==
  ASSUME NEW u \in Slots, NEW i \in Int
  PROVE  RowSlot(u, i) \in Slots /\ RowSlot(u, -i) \in Slots
<1>1. u - i \in Int /\ u - (-i) \in Int
  BY SlotsAssumption DEF Slots
<1> QED
  BY <1>1, AroundSlots DEF RowSlot

LEMMA RowSlotValue ==
  ASSUME NEW u \in Slots, NEW i \in 0 .. NumTimeSlots - 1
  PROVE  /\ RowSlot(u, i) \in Slots
         /\ RowSlot(u, i) = IF i <= u THEN u - i ELSE u - i + NumTimeSlots
         /\ RowSlot(u, RowSlot(u, i)) = i
<1>1. NumTimeSlots \in Nat \ {0}
  BY SlotsAssumption
<1>2. RowSlot(u, i) \in Slots /\ RowSlot(u, i) = IF i <= u THEN u - i ELSE u - i + NumTimeSlots
  <2>1. u \in 0 .. NumTimeSlots - 1 /\ u - i \in Int
    BY <1>1 DEF Slots
  <2>2. i <= u => u - i \in Slots
    BY <1>1, <2>1 DEF Slots
  <2>3. ~(i <= u) => (u - i) + NumTimeSlots \in Slots
    BY <1>1, <2>1 DEF Slots
  <2> QED
    BY <2>1, <2>2, <2>3, AroundSlots DEF RowSlot
<1>3. RowSlot(u, RowSlot(u, i)) = i
  <2>1. (u - RowSlot(u, i)) % NumTimeSlots = i
    <3>1. CASE i <= u
      <4>1. u - RowSlot(u, i) = i /\ i \in Slots
        BY <1>1, <1>2, <3>1 DEF Slots
      <4> QED
        BY <4>1, AroundSlots
    <3>2. CASE ~(i <= u)
      <4>1. u - RowSlot(u, i) = i - NumTimeSlots /\ i - NumTimeSlots \in Int
            /\ (i - NumTimeSlots) + NumTimeSlots = i /\ i \in Slots
        BY <1>1, <1>2, <3>2 DEF Slots
      <4> QED
        BY <4>1, AroundSlots
    <3> QED
      BY <3>1, <3>2
  <2> QED
    BY <2>1 DEF RowSlot
<1> QED
  BY <1>2, <1>3

\* The interval of a FIR is at most the round, and at most the time between two
\* of its samples.
LEMMA IntervalRange ==
  ASSUME NEW fir, ClocksPerSample(fir) \in Nat \ {0}
  PROVE  /\ Interval(fir) \in 1 .. NumTimeSlots
         /\ Min({ClocksPerSample(fir), NumTimeSlots}) \in Interval(fir) .. NumTimeSlots
<1> DEFINE N == NumTimeSlots
           c == Min({ClocksPerSample(fir), N})
           q == CeilDiv(N, c)
<1>1. N \in Nat \ {0}
  BY SlotsAssumption
<1>2. c \in 1 .. N
  BY <1>1, MinOfTwo
<1> HIDE DEF c
<1>3. q \in 1 .. N /\ q * c >= N
  <2> DEFINE a == N + c - 1
  <2>1. a \in Nat /\ q = a \div c
    BY <1>1, <1>2 DEF CeilDiv
  <2>2. a = c * (a \div c) + (a % c) /\ a % c \in 0 .. c - 1 /\ a \div c \in Int
    <3>1. c \in Nat \ {0} /\ a \in Int
      BY <1>2, <2>1
    <3> HIDE DEF a
    <3> QED
      BY <3>1, DivMod
  <2>3. q \in Int /\ c * q >= N
    BY <1>1, <1>2, <2>1, <2>2
  <2>4. q >= 1
    BY <1>1, <1>2, <2>3
  <2>5. q <= N
    <3>1. c * q <= N + c - 1
      BY <1>1, <1>2, <2>1, <2>2
    <3>2. q >= N + 1 => c * q >= c * (N + 1)
      BY <1>1, <1>2, <2>3
    <3>3. c * (N + 1) >= N + c
      BY <1>1, <1>2
    <3> HIDE DEF q
    <3> QED
      BY <1>1, <1>2, <2>3, <3>1, <3>2, <3>3
  <2> QED
    BY <1>1, <1>2, <2>3, <2>4, <2>5
<1> HIDE DEF q
<1>4. /\ N = q * (N \div q) + (N % q)
      /\ N % q \in 0 .. q - 1 /\ N \div q \in Int
  BY <1>1, <1>3, DivMod
<1>5. N \div q >= 1 /\ N \div q <= N /\ N \div q <= c
  <2> DEFINE d == N \div q
  <2>1. N >= q * d /\ N < q * (d + 1) /\ d \in Int
    BY <1>1, <1>3, <1>4
  <2> HIDE DEF d
  <2>2. d >= 1
    BY <1>1, <1>3, <2>1
  <2>3. d <= c
    BY <1>1, <1>2, <1>3, <2>1
  <2>4. d >= 1 /\ d <= N /\ d <= c
    BY <1>1, <1>2, <2>1, <2>2, <2>3
  <2> QED
    BY <2>4 DEF d
<1>6. Interval(fir) = N \div q
  BY DEF Interval, q, c
<1> QED
  BY <1>1, <1>2, <1>4, <1>5, <1>6 DEF c

LEMMA UpdateSlot ==
  ASSUME NEW I \in 1 .. NumTimeSlots, NEW o \in 0 .. I - 1
  PROVE  /\ UpdateSlots(o, I) \subseteq Slots
         /\ o \in UpdateSlots(o, I)
         /\ \A s \in Slots, k \in Int : s = o + k * I /\ s >= o => s \in UpdateSlots(o, I)
         /\ \A s \in UpdateSlots(o, I) : \E k \in Int : s = o + k * I
<1>1. I \in Nat \ {0} /\ o \in Slots
  BY SlotsAssumption DEF Slots
<1>2. \A s \in Slots : s \in Int
  BY SlotsAssumption DEF Slots
<1>3. ASSUME NEW s \in Slots, NEW k \in Int, s = o + k * I, s >= o
      PROVE  s \in UpdateSlots(o, I)
  <2>1. s - o \in Int /\ s - o = k * I
    BY <1>1, <1>2, <1>3
  <2> QED
    BY <1>1, <1>3, <2>1, NoRemainder DEF UpdateSlots
<1>4. ASSUME NEW s \in UpdateSlots(o, I)
      PROVE  \E k \in Int : s = o + k * I
  <2>1. s \in Int /\ s - o \in Int /\ (s - o) % I = 0
    BY <1>2 DEF UpdateSlots
  <2>2. PICK k \in Int : s - o = k * I
    BY <1>1, <2>1, NoRemainder
  <2>3. s = o + k * I
    BY <1>1, <2>1, <2>2
  <2> QED
    BY <2>3
<1>5. o \in UpdateSlots(o, I)
  <2>1. o = o + 0 * I /\ 0 \in Int /\ o >= o
    BY <1>1
  <2> QED
    BY <1>1, <1>3, <2>1
<1> QED
  BY <1>3, <1>4, <1>5 DEF UpdateSlots

\* findValidBinding always finds a place: a new MAC has one.
LEMMA BindingFound ==
  ASSUME NEW ms, Len(ms) \in Nat, NEW fir, NEW I \in 1 .. NumTimeSlots
  PROVE  LET b == ValidBinding(ms, fir, I)
         IN  /\ b.mac \in 1 .. Len(ms) + 1 /\ b.origin \in 0 .. I - 1
             /\ CanBind(ms, fir, b.mac, b.origin, I)
<1> DEFINE origins(m) == {o \in 0 .. I - 1 : CanBind(ms, fir, m, o, I)}
           M == {m \in 1 .. Len(ms) + 1 : origins(m) # {}}
<1>1. I \in Nat \ {0}
  BY SlotsAssumption
<1>2. Len(ms) + 1 \in M
  <2>1. 0 \in 0 .. I - 1 /\ Len(ms) + 1 > Len(ms) /\ Len(ms) + 1 \in 1 .. Len(ms) + 1
    BY <1>1
  <2>2. 0 \in origins(Len(ms) + 1)
    BY <2>1 DEF CanBind
  <2> QED
    BY <2>1, <2>2
<1>3. Min(M) \in M
  <2>1. M \subseteq Nat
    OBVIOUS
  <2> HIDE DEF M
  <2> QED
    BY <1>2, <2>1, MinOfNats
<1>4. Min(origins(Min(M))) \in origins(Min(M))
  <2>1. origins(Min(M)) # {} /\ origins(Min(M)) \subseteq Nat
    BY <1>1, <1>3
  <2> QED
    BY <2>1, MinOfNats
<1>5. ValidBinding(ms, fir, I) = [mac |-> Min(M), origin |-> Min(origins(Min(M)))]
  BY DEF ValidBinding
<1>6. Min(M) \in 1 .. Len(ms) + 1
  BY <1>3
<1>7. /\ Min(origins(Min(M))) \in 0 .. I - 1
      /\ CanBind(ms, fir, Min(M), Min(origins(Min(M))), I)
  BY <1>4
<1> HIDE DEF M, origins
<1> QED
  BY <1>5, <1>6, <1>7

\* The coefficient that stays in a slot of a row is that of one of the rows.
LEMMA RowCovers ==
  ASSUME NEW fir, fir.taps \in Nat, NEW I \in 1 .. NumTimeSlots, fir.taps <= I,
         NEW o \in 0 .. I - 1, NEW s \in RowSlots(fir, o, I)
  PROVE  /\ s \in Slots
         /\ \E u \in UpdateSlots(o, I), i \in 0 .. fir.taps - 1 :
              /\ RowSlot(u, i) = s
              /\ \A f : BoundCoeff(fir, f, o, I, s) = [fir |-> f, tap |-> fir.taps - 1 - i]
<1> DEFINE V == {v \in UpdateSlots(o, I) : \E i \in 0 .. fir.taps - 1 : RowSlot(v, i) = s}
           u == Max(V)
<1>1. V # {}
  BY DEF RowSlots
<1>2. V \subseteq 0 .. NumTimeSlots - 1
  BY UpdateSlot DEF Slots
<1>3. u \in V
  <2>1. 0 \in Int /\ NumTimeSlots - 1 \in Int
    BY SlotsAssumption
  <2> HIDE DEF V
  <2> QED
    BY <1>1, <1>2, <2>1, MaxOfRange
<1>4. PICK i \in 0 .. fir.taps - 1 : RowSlot(u, i) = s
  BY <1>3
<1>5. u \in UpdateSlots(o, I) /\ u \in Slots
  BY <1>3, UpdateSlot
<1>6. i \in 0 .. NumTimeSlots - 1
  BY SlotsAssumption
<1>7. s \in Slots /\ RowSlot(u, s) = i
  BY <1>4, <1>5, <1>6, RowSlotValue
<1>8. \A f : BoundCoeff(fir, f, o, I, s) = [fir |-> f, tap |-> fir.taps - 1 - i]
  <2>1. \A f : BoundCoeff(fir, f, o, I, s) =
                [fir |-> f, tap |-> fir.taps - 1 - ((u - s) % NumTimeSlots)]
    BY DEF BoundCoeff
  <2>2. (u - s) % NumTimeSlots = i
    BY <1>7 DEF RowSlot
  <2> QED
    BY <2>1, <2>2
<1> HIDE DEF u
<1> QED
  BY <1>4, <1>5, <1>7, <1>8

\* Where the interval divides the round, two rows have no slot in common.
LEMMA RowsDiffer ==
  ASSUME NEW I \in 1 .. NumTimeSlots, NumTimeSlots % I = 0, NEW o \in 0 .. I - 1,
         NEW u \in UpdateSlots(o, I), NEW v \in UpdateSlots(o, I),
         NEW i \in 0 .. I - 1, NEW j \in 0 .. I - 1,
         RowSlot(u, i) = RowSlot(v, j)
  PROVE  u = v /\ i = j
<1>1. I \in Nat \ {0} /\ NumTimeSlots \in Nat \ {0} /\ i \in 0 .. NumTimeSlots - 1 /\ j \in 0 .. NumTimeSlots - 1
  BY SlotsAssumption
<1>2. u \in Slots /\ v \in Slots
  BY UpdateSlot
<1>3. PICK q \in Int : NumTimeSlots = q * I
  <2>1. NumTimeSlots \in Int
    BY <1>1
  <2> QED
    BY <1>1, <2>1, NoRemainder
<1>4. PICK k \in Int : u = o + k * I
  BY UpdateSlot
<1>5. PICK l \in Int : v = o + l * I
  BY UpdateSlot
<1>6. PICK e \in {-1, 0, 1} : u - i = v - j + e * NumTimeSlots
  <2>1. /\ RowSlot(u, i) = IF i <= u THEN u - i ELSE u - i + NumTimeSlots
        /\ RowSlot(v, j) = IF j <= v THEN v - j ELSE v - j + NumTimeSlots
    BY <1>1, <1>2, RowSlotValue
  <2>2. u - i = v - j \/ u - i = v - j + NumTimeSlots \/ u - i = v - j - NumTimeSlots
    <3> DEFINE r == RowSlot(u, i)
    <3>1. r \in Int /\ u \in Int /\ v \in Int
      BY <1>1, <1>2, RowSlotValue DEF Slots
    <3>2. r = u - i \/ r = u - i + NumTimeSlots
      BY <2>1
    <3>3. r = v - j \/ r = v - j + NumTimeSlots
      BY <2>1
    <3> HIDE DEF r
    <3> QED
      BY <1>1, <3>1, <3>2, <3>3
  <2> QED
    BY <1>1, <1>2, <2>2 DEF Slots
<1> DEFINE t == k - l - e * q
<1>7. t \in Int /\ t * I = i - j
  <2>1. e * NumTimeSlots = (e * q) * I /\ e \in Int /\ e * q \in Int
    BY <1>1, <1>3
  <2>2. (k - l - e * q) * I = k * I - l * I - (e * q) * I
    BY <1>1, <2>1
  <2> QED
    BY <1>1, <1>2, <1>4, <1>5, <1>6, <2>1, <2>2 DEF Slots
<1>8. t = 0
  <2>1. t * I < I /\ -I < t * I
    BY <1>1, <1>7
  <2> HIDE DEF t
  <2> QED
    BY <1>1, <1>7, <2>1, SmallMultiple
<1>9. i = j
  <2> HIDE DEF t
  <2> QED
    BY <1>1, <1>7, <1>8
<1> QED
  BY <1>1, <1>2, <1>6, <1>9 DEF Slots

\* From any slot on, an update is not far.
LEMMA UpdateSoon ==
  ASSUME NEW fir, ClocksPerSample(fir) \in Nat \ {0},
         NEW o \in 0 .. Interval(fir) - 1, NEW s \in Slots
  PROVE  \E d \in 0 .. Due(fir) - 1 : RowSlot(s, -d) \in UpdateSlots(o, Interval(fir))
<1> DEFINE I == Interval(fir)
           N == NumTimeSlots
<1>1. I \in 1 .. N /\ N \in Nat \ {0} /\ s \in Int /\ s \in 0 .. N - 1
  <2>1. I \in 1 .. N
    BY IntervalRange
  <2>2. N \in Nat \ {0} /\ s \in Int /\ s \in 0 .. N - 1
    BY SlotsAssumption DEF Slots
  <2> QED
    BY <2>1, <2>2
<1>2. Due(fir) \in Int /\ Due(fir) >= I /\ (N % I # 0 => Due(fir) = 2 * I - 1)
  BY <1>1, IntervalRange DEF Due
<1> DEFINE c == (o - s) % I
<1>3. c \in 0 .. I - 1 /\ \E k \in Int : s + c = o + k * I
  <2>1. o - s \in Int /\ I \in Nat \ {0}
    BY <1>1
  <2>2. /\ c \in 0 .. I - 1
        /\ o - s = I * ((o - s) \div I) + c /\ (o - s) \div I \in Int
    <3> HIDE DEF I
    <3> QED
      BY <2>1, DivMod
  <2> DEFINE h == (o - s) \div I
  <2>3. -h \in Int /\ s + c = o + (-h) * I
    <3> HIDE DEF I, c, h
    <3> QED
      BY <1>1, <2>1, <2>2 DEF h
  <2> QED
    BY <2>2, <2>3
<1> HIDE DEF I, c
<1>4. PICK k \in Int : s + c = o + k * I
  BY <1>3
<1>5. s + c >= o
  <2>1. k >= 0
    <3>1. k <= -1 => k * I <= -I
      BY <1>1
    <3> QED
      BY <1>1, <1>3, <1>4, <3>1 DEF I
  <2>2. k * I >= 0
    BY <1>1, <2>1
  <2> QED
    BY <1>1, <1>3, <1>4, <2>2 DEF I
<1>6. CASE s + c < N
  <2>1. s + c \in Slots /\ s + c \in Int
    BY <1>1, <1>3, <1>6 DEF Slots
  <2>2. RowSlot(s, -c) = s + c
    <3>1. s - (-c) = s + c
      BY <1>1, <1>3
    <3> QED
      BY <2>1, <3>1, AroundSlots DEF RowSlot
  <2>3. s + c \in UpdateSlots(o, I)
    BY <1>1, <1>4, <1>5, <2>1, UpdateSlot DEF I
  <2>4. c \in 0 .. Due(fir) - 1
    BY <1>1, <1>2, <1>3
  <2> QED
    BY <2>2, <2>3, <2>4 DEF I
<1>7. CASE s + c >= N
  <2> DEFINE d == o + N - s
  <2>1. o \in UpdateSlots(o, I) /\ o \in Slots /\ o \in 0 .. I - 1
    BY <1>1, UpdateSlot DEF I
  <2>2. RowSlot(s, -d) = o
    <3>1. s - (-d) = o + N /\ o + N \in Int /\ (o + N) - N = o
      BY <1>1, <2>1
    <3> QED
      BY <2>1, <3>1, AroundSlots DEF RowSlot
  <2>3. d \in 0 .. 2 * I - 2
    BY <1>1, <1>3, <1>7, <2>1
  <2>4. N % I = 0 => d = c
    <3> SUFFICES ASSUME N % I = 0 PROVE d = c
      OBVIOUS
    <3>1. PICK q \in Int : N = q * I
      <4>1. N \in Int /\ I \in Nat \ {0}
        BY <1>1
      <4> QED
        BY <4>1, NoRemainder
    <3> DEFINE t == k - q
    <3>2. t \in Int /\ t * I = s + c - N - o
      <4>1. (k - q) * I = k * I - q * I
        BY <1>1
      <4> QED
        BY <1>1, <1>3, <1>4, <2>1, <3>1, <4>1
    <3>3. t * I < I /\ -I < t * I
      BY <1>1, <1>3, <1>7, <2>1, <3>2
    <3>4. t = 0
      <4> HIDE DEF t
      <4> QED
        BY <1>1, <3>2, <3>3, SmallMultiple
    <3> QED
      <4> HIDE DEF t
      <4> QED
        BY <1>1, <1>3, <2>1, <3>2, <3>4
  <2>5. d \in 0 .. Due(fir) - 1
    BY <1>1, <1>2, <1>3, <2>3, <2>4
  <2> HIDE DEF d
  <2> QED
    BY <2>1, <2>2, <2>5 DEF I
<1> QED
  BY <1>1, <1>3, <1>6, <1>7

-----------------------------------------------------------------------------
(* What the generator takes from a MAC *)

LEMMA SameLength ==
  ASSUME NEW l \in Nat, NEW m \in Nat, 1 .. l = 1 .. m
  PROVE  l = m
<1>1. (l >= 1 => l \in 1 .. m) /\ (m >= 1 => m \in 1 .. l)
  OBVIOUS
<1> QED
  BY <1>1

LEMMA AppendElements ==
  ASSUME NEW S, NEW q \in Seq(S), NEW x
  PROVE  /\ Len(q) \in Nat /\ DOMAIN q = 1 .. Len(q)
         /\ Len(Append(q, x)) = Len(q) + 1 /\ DOMAIN Append(q, x) = 1 .. Len(q) + 1
         /\ \A i \in 1 .. Len(q) : Append(q, x)[i] = q[i]
         /\ Append(q, x)[Len(q) + 1] = x
         /\ ToSet(Append(q, x)) = ToSet(q) \cup {x}
<1>1. /\ Len(q) \in Nat /\ DOMAIN q = 1 .. Len(q)
      /\ Len(Append(q, x)) = Len(q) + 1 /\ DOMAIN Append(q, x) = 1 .. Len(q) + 1
      /\ \A i \in 1 .. Len(q) : Append(q, x)[i] = q[i]
      /\ Append(q, x)[Len(q) + 1] = x
  OBVIOUS
<1>2. 1 .. Len(q) + 1 = (1 .. Len(q)) \cup {Len(q) + 1}
  BY <1>1
<1>3. ToSet(Append(q, x)) = ToSet(q) \cup {x}
  BY <1>1, <1>2 DEF ToSet
<1> QED
  BY <1>1, <1>3

\* The position of an input is a channel number, and that of its Fifo the number
\* of a Fifo.
LEMMA Positions ==
  ASSUME NEW mac, Len(mac.inputs) \in Nat, DOMAIN mac.inputs = 1 .. Len(mac.inputs),
         DOMAIN mac.fifos = DOMAIN mac.inputs,
         \A i \in DOMAIN mac.inputs : mac.fifos[i].fir = mac.inputs[i],
         NEW f \in ToSet(mac.inputs)
  PROVE  /\ \E i \in DOMAIN mac.inputs : mac.inputs[i] = f /\ InputIndex(mac, f) = i - 1
         /\ InputIndex(mac, f) \in Nat
         /\ FifoIndex(mac.fifos, f) \in Nat
<1> DEFINE S == {i \in DOMAIN mac.inputs : mac.inputs[i] = f}
<1>1. S # {} /\ S \subseteq Nat /\ 0 \notin S
  BY DEF ToSet
<1>2. Min(S) \in S
  BY <1>1, MinOfNats
<1>3. InputIndex(mac, f) = Min(S) - 1
  BY DEF InputIndex
<1>4. {i \in DOMAIN mac.fifos : mac.fifos[i].fir = f} = S
  OBVIOUS
<1>5. FifoIndex(mac.fifos, f) = Min(S) - 1
  BY <1>4 DEF FifoIndex
<1>6. Min(S) - 1 \in Nat
  <2> DEFINE k == Min(S)
  <2>1. k \in Nat /\ k # 0
    <3> HIDE DEF S
    <3> QED
      BY <1>1, <1>2
  <2>2. k - 1 \in Nat
    <3> HIDE DEF k
    <3> QED
      BY <2>1
  <2> QED
    BY <2>2
<1> QED
  BY <1>2, <1>3, <1>5, <1>6

\* The order of the Fifos has each of them, and the larger ones first.
LEMMA OrderComplete ==
  ASSUME NEW T, NEW fifos \in Seq(T), NEW order \in DescendingOrders(fifos)
  PROVE  /\ order \in Seq(T) /\ \A i \in DOMAIN fifos : \E j \in DOMAIN order : order[j] = fifos[i]
         /\ \A j \in DOMAIN order : \E i \in DOMAIN fifos : order[j] = fifos[i]
         /\ \A j \in 1 .. Len(order) - 1 : order[j].words >= order[j + 1].words
<1> DEFINE S == ToSet(fifos)
           n == Cardinality(S)
<1>1. S \subseteq T /\ Len(fifos) \in Nat
  BY DEF ToSet
<1>2. IsFiniteSet(S)
  <2>1. DOMAIN fifos = 1 .. Len(fifos) /\ IsFiniteSet(1 .. Len(fifos))
    BY <1>1, FS_Interval
  <2>2. fifos \in Surjection(DOMAIN fifos, S)
    BY DEF ToSet, Surjection
  <2> QED
    BY <2>1, <2>2, FS_Surjection
<1>3. n \in Nat /\ IsFiniteSet(1 .. n) /\ Cardinality(1 .. n) = n
  <2>1. n \in Nat
    BY <1>2, FS_CardinalityType
  <2> HIDE DEF n
  <2> QED
    BY <2>1, FS_Interval
<1>4. order \in [1 .. n -> S] /\ \A i, j \in 1 .. n : i # j => order[i] # order[j]
  BY DEF DescendingOrders, SetToSeqs
<1>5. order \in Surjection(1 .. n, S)
  <2>1. order \in Injection(1 .. n, S)
    BY <1>4 DEF Injection, IsInjective
  <2> HIDE DEF S
  <2> QED
    BY <1>2, <1>3, <2>1, FS_Injection DEF n
<1>6. order \in [1 .. n -> T]
  <2> HIDE DEF n, S
  <2> QED
    BY <1>1, <1>4
<1>7. order \in Seq(T)
  BY <1>3, <1>6, SeqDef
<1>8. \A x \in S : \E j \in 1 .. n : order[j] = x
  BY <1>5 DEF Surjection
<1>9. \A j \in 1 .. Len(order) - 1 : order[j].words >= order[j + 1].words
  BY DEF DescendingOrders
<1> HIDE DEF n
<1>10. DOMAIN order = 1 .. n
  BY <1>4
<1>11. \A i \in DOMAIN fifos : \E j \in DOMAIN order : order[j] = fifos[i]
  BY <1>8, <1>10 DEF ToSet
<1>12. \A j \in DOMAIN order : \E i \in DOMAIN fifos : order[j] = fifos[i]
  BY <1>4, <1>10 DEF ToSet
<1> QED
  BY <1>7, <1>9, <1>11, <1>12

-----------------------------------------------------------------------------
(* The layout of the buffers of a MAC *)

\* The offset that FifoOffsets gives Fifo i, from the offsets before it.
OffsetOf(fifos, offset, i) ==
    IF i = 1 THEN 0 ELSE AlignUp(offset[i - 1] + fifos[i - 1].words, fifos[i].words)

\* FifoOffsets is defined: there are such offsets, for any number of Fifos.
LEMMA OffsetsDefined ==
  ASSUME NEW fifos, Len(fifos) \in Nat
  PROVE  FifoOffsets(fifos) = [i \in 1 .. Len(fifos) |-> OffsetOf(fifos, FifoOffsets(fifos), i)]
<1> DEFINE L == Len(fifos)
           Def(n) == \E g : g = [i \in 1 .. n |-> OffsetOf(fifos, g, i)]
           Bad == {n \in 0 .. L : ~Def(n)}
<1>1. Def(0)
  <2> DEFINE g == [i \in 1 .. 0 |-> 0]
  <2>1. g = [i \in 1 .. 0 |-> OffsetOf(fifos, g, i)]
    OBVIOUS
  <2> QED
    BY <2>1
<1>2. ASSUME NEW n \in Nat, Def(n)
      PROVE  Def(n + 1)
  <2>1. PICK g : g = [i \in 1 .. n |-> OffsetOf(fifos, g, i)]
    BY <1>2
  <2> DEFINE h == [i \in 1 .. n + 1 |-> IF i \in 1 .. n THEN g[i] ELSE OffsetOf(fifos, g, i)]
  <2>2. \A i \in 1 .. n + 1 : i = 1 \/ i - 1 \in 1 .. n
    OBVIOUS
  <2>3. \A i \in 1 .. n : i \in 1 .. n + 1 /\ h[i] = g[i]
    OBVIOUS
  <2>4. \A i \in 1 .. n + 1 : OffsetOf(fifos, h, i) = OffsetOf(fifos, g, i)
    BY <2>2, <2>3 DEF OffsetOf
  <2>5. \A i \in 1 .. n : g[i] = OffsetOf(fifos, g, i)
    BY <2>1
  <2>6. \A i \in 1 .. n + 1 : h[i] = OffsetOf(fifos, g, i)
    BY <2>5
  <2>7. h = [i \in 1 .. n + 1 |-> OffsetOf(fifos, h, i)]
    <3>1. h = [i \in 1 .. n + 1 |-> h[i]]
      OBVIOUS
    <3> HIDE DEF h
    <3> QED
      BY <2>4, <2>6, <3>1
  <2> QED
    BY <2>7
<1> HIDE DEF Def
<1>3. Bad = {}
  <2> SUFFICES ASSUME Bad # {} PROVE FALSE
    OBVIOUS
  <2>1. Bad \subseteq Nat
    OBVIOUS
  <2>2. Min(Bad) \in Bad /\ \A n \in Bad : Min(Bad) <= n
    BY <2>1, MinOfNats
  <2>3. PICK b \in 0 .. L : ~Def(b) /\ \A n \in 0 .. L : ~Def(n) => b <= n
    BY <2>2
  <2>4. CASE b = 0
    BY <1>1, <2>3, <2>4
  <2>5. CASE b # 0
    <3>1. b - 1 \in Nat /\ b - 1 \in 0 .. L /\ ~(b <= b - 1) /\ (b - 1) + 1 = b
      BY <2>5
    <3>2. Def(b - 1)
      BY <2>3, <3>1
    <3>3. Def((b - 1) + 1)
      BY <1>2, <3>1, <3>2
    <3> QED
      BY <2>3, <3>1, <3>3
  <2> QED
    BY <2>4, <2>5
<1>4. Def(L)
  BY <1>3
<1>5. \E g : g = [i \in 1 .. L |-> OffsetOf(fifos, g, i)]
  BY <1>4 DEF Def
<1> QED
  BY <1>5, Zenon DEF FifoOffsets, OffsetOf

\* The words of a Fifo that can be generated: the least power of two that holds
\* its coefficients.
FifoWords == {1, 2, 4, 8, 16, 32, 64}

LEMMA SmallPowers == \A i \in 0 .. 30 : 2^i > 64 \/ 2^i \in FifoWords
<1> DEFINE Small(i) == 2^i > 64 \/ 2^i \in FifoWords
<1>1. /\ Small(0) /\ Small(1) /\ Small(2) /\ Small(3) /\ Small(4) /\ Small(5)
      /\ Small(6) /\ Small(7) /\ Small(8) /\ Small(9) /\ Small(10) /\ Small(11)
      /\ Small(12) /\ Small(13) /\ Small(14) /\ Small(15) /\ Small(16) /\ Small(17)
      /\ Small(18) /\ Small(19) /\ Small(20) /\ Small(21) /\ Small(22) /\ Small(23)
      /\ Small(24) /\ Small(25) /\ Small(26) /\ Small(27) /\ Small(28) /\ Small(29)
      /\ Small(30)
  BY DEF FifoWords
<1>2. \A i \in 0 .. 30 :
        \/ i = 0 \/ i = 1 \/ i = 2 \/ i = 3 \/ i = 4 \/ i = 5 \/ i = 6 \/ i = 7
        \/ i = 8 \/ i = 9 \/ i = 10 \/ i = 11 \/ i = 12 \/ i = 13 \/ i = 14 \/ i = 15
        \/ i = 16 \/ i = 17 \/ i = 18 \/ i = 19 \/ i = 20 \/ i = 21 \/ i = 22 \/ i = 23
        \/ i = 24 \/ i = 25 \/ i = 26 \/ i = 27 \/ i = 28 \/ i = 29 \/ i = 30
  OBVIOUS
<1>3. \A i \in 0 .. 30 : Small(i)
  <2> HIDE DEF Small
  <2> QED
    BY <1>1, <1>2
<1> QED
  BY <1>3

LEMMA WordsOfDepth ==
  ASSUME NEW depth \in 1 .. 64
  PROVE  /\ RoundUpToPowerOfTwo(depth) \in FifoWords /\ depth <= RoundUpToPowerOfTwo(depth)
         /\ depth > 1 => /\ RoundUpToPowerOfTwo(depth) > 1
                         /\ RegionSize(depth) = RoundUpToPowerOfTwo(depth)
         /\ depth = 1 => RoundUpToPowerOfTwo(depth) = 1 /\ RegionSize(depth) = 2
<1> DEFINE S == {n \in {2^i : i \in 0 .. 30} : depth <= n}
           words == Min(S)
<1>1. S \subseteq Nat
  BY PowersOfTwo
<1>2. 64 \in S /\ (depth = 1 => 1 \in S)
  <2>1. 64 = 2^6 /\ 1 = 2^0 /\ depth <= 64
    OBVIOUS
  <2> QED
    BY <2>1
<1>3. words \in S /\ \A x \in S : words <= x
  BY <1>1, <1>2, MinOfNats
<1>4. words \in FifoWords /\ depth <= words
  <2>1. PICK i \in 0 .. 30 : words = 2^i
    BY <1>3
  <2>2. words <= 64 /\ words \in Nat /\ depth <= words
    BY <1>1, <1>2, <1>3
  <2> HIDE DEF words
  <2>3. words > 64 \/ words \in FifoWords
    BY <2>1, SmallPowers, Zenon
  <2> QED
    BY <2>2, <2>3
<1>5. depth = 1 => words <= 1
  BY <1>2, <1>3
<1>6. words = RoundUpToPowerOfTwo(depth)
  BY DEF RoundUpToPowerOfTwo
<1> HIDE DEF words
<1>7. words \in Int /\ words >= 1 /\ (words > 1 => words >= 2)
  BY <1>4 DEF FifoWords
<1>8. Max({2, words}) = IF 2 >= words THEN 2 ELSE words
  BY <1>7 DEF Max
<1>9. RegionSize(depth) = Max({2, words})
  BY <1>6 DEF RegionSize
<1> QED
  BY <1>4, <1>5, <1>6, <1>7, <1>8, <1>9

\* The words after a Fifo that begins at a multiple of its words are aligned for
\* each Fifo that is not larger.
LEMMA Aligned ==
  ASSUME NEW a \in FifoWords, NEW b \in FifoWords, b <= a, NEW x \in Nat, x % a = 0
  PROVE  /\ x + a \in Nat /\ (x + a) % b = 0 /\ AlignUp(x + a, b) = x + a
         /\ a > 1 => x % 2 = 0
<1> USE DEF FifoWords, AlignUp, CeilDiv
<1>1. CASE b = 1
  BY <1>1
<1>2. CASE b = 2
  BY <1>2
<1>3. CASE b = 4
  BY <1>3
<1>4. CASE b = 8
  BY <1>4
<1>5. CASE b = 16
  BY <1>5
<1>6. CASE b = 32
  BY <1>6
<1>7. CASE b = 64
  BY <1>7
<1> QED
  BY <1>1, <1>2, <1>3, <1>4, <1>5, <1>6, <1>7

\* The Fifos of a generated MAC, as FIFOSIZES lists them.
LaidOut(fifos) ==
    /\ Len(fifos) \in Nat /\ DOMAIN fifos = 1 .. Len(fifos)
    /\ \A i \in 1 .. Len(fifos) :
        /\ fifos[i].depth \in 1 .. 64
        /\ fifos[i].words = RoundUpToPowerOfTwo(fifos[i].depth)
    /\ \A i \in 1 .. Len(fifos) - 1 : fifos[i].words >= fifos[i + 1].words

\* The Fifos follow each other without a gap, each at a multiple of its words.
LEMMA FifosFollow ==
  ASSUME NEW fifos, LaidOut(fifos)
  PROVE  /\ \A i \in 1 .. Len(fifos) :
              FifoOffsets(fifos)[i] \in Nat /\ FifoOffsets(fifos)[i] % fifos[i].words = 0
         /\ \A i \in 1 .. Len(fifos) - 1 :
              FifoOffsets(fifos)[i + 1] = FifoOffsets(fifos)[i] + fifos[i].words
<1> DEFINE L == Len(fifos)
           off == FifoOffsets(fifos)
           w(i) == fifos[i].words
           Ok(i) == off[i] \in Nat /\ off[i] % w(i) = 0
           Bad == {i \in 1 .. L : ~Ok(i)}
<1>1. L \in Nat /\ \A i \in 1 .. L - 1 : i \in 1 .. L /\ i + 1 \in 1 .. L
  BY DEF LaidOut
<1>2. \A i \in 1 .. L : off[i] = OffsetOf(fifos, off, i)
  BY <1>1, OffsetsDefined, Zenon
<1>3. \A i \in 1 .. L : w(i) \in FifoWords
  BY WordsOfDepth DEF LaidOut
<1>4. ASSUME NEW i \in 1 .. L - 1, Ok(i)
      PROVE  off[i + 1] = off[i] + w(i) /\ Ok(i + 1)
  <2>1. i + 1 \in 1 .. L /\ i + 1 # 1 /\ (i + 1) - 1 = i
    BY <1>1
  <2>2. off[i + 1] = AlignUp(off[i] + w(i), w(i + 1))
    BY <1>2, <2>1 DEF OffsetOf
  <2>3. w(i) \in FifoWords /\ w(i + 1) \in FifoWords /\ w(i + 1) <= w(i)
    <3>1. w(i) \in FifoWords /\ w(i + 1) \in FifoWords /\ w(i) >= w(i + 1)
      BY <1>1, <1>3 DEF LaidOut
    <3> HIDE DEF w
    <3> QED
      BY <3>1 DEF FifoWords
  <2> HIDE DEF w, off
  <2> QED
    BY <1>4, <2>2, <2>3, Aligned
<1>5. Ok(1) \/ L = 0
  <2>1. CASE L # 0
    <3>1. 1 \in 1 .. L
      BY <1>1, <2>1
    <3>2. off[1] = 0
      BY <1>2, <3>1 DEF OffsetOf
    <3>3. w(1) \in FifoWords
      BY <1>3, <3>1
    <3>4. 0 % w(1) = 0
      <4> HIDE DEF w
      <4> QED
        BY <3>3 DEF FifoWords
    <3> QED
      BY <3>2, <3>4
  <2> QED
    BY <2>1
<1> HIDE DEF Ok, off, w
<1>6. Bad = {}
  <2> SUFFICES ASSUME Bad # {} PROVE FALSE
    OBVIOUS
  <2>1. Min(Bad) \in Bad /\ \A i \in Bad : Min(Bad) <= i
    <3>1. Bad \subseteq Nat
      OBVIOUS
    <3> QED
      BY <3>1, MinOfNats
  <2>2. PICK b \in 1 .. L : ~Ok(b) /\ \A i \in 1 .. L : ~Ok(i) => b <= i
    BY <2>1
  <2>3. b # 1
    BY <1>5, <2>2
  <2>4. b - 1 \in 1 .. L - 1 /\ b - 1 \in 1 .. L /\ ~(b <= b - 1) /\ (b - 1) + 1 = b
    BY <1>1, <2>3
  <2>5. Ok(b - 1)
    BY <2>2, <2>4
  <2>6. Ok((b - 1) + 1)
    BY <1>4, <2>4, <2>5
  <2> QED
    BY <2>2, <2>4, <2>6
<1>7. \A i \in 1 .. L : Ok(i)
  BY <1>6
<1> QED
  BY <1>1, <1>4, <1>7 DEF Ok, off, w

LEMMA FifosOrdered ==
  ASSUME NEW fifos, LaidOut(fifos), NEW i \in 1 .. Len(fifos), NEW j \in 1 .. Len(fifos), i < j
  PROVE  /\ FifoOffsets(fifos)[j] >= FifoOffsets(fifos)[i] + fifos[i].words
         /\ fifos[j].words <= fifos[i].words
<1> DEFINE L == Len(fifos)
           off == FifoOffsets(fifos)
           w(n) == fifos[n].words
           Ok(n) == off[n] >= off[i] + w(i) /\ w(n) <= w(i)
           Bad == {n \in i + 1 .. L : ~Ok(n)}
<1>1. L \in Nat /\ i \in 1 .. L - 1 /\ j \in i + 1 .. L
  BY DEF LaidOut
<1>2. /\ \A n \in 1 .. L : off[n] \in Nat
      /\ \A n \in 1 .. L - 1 : off[n + 1] = off[n] + w(n)
  BY FifosFollow
<1>3. \A n \in 1 .. L : w(n) \in Nat
  <2>1. \A n \in 1 .. L : w(n) \in FifoWords
    BY WordsOfDepth DEF LaidOut
  <2> HIDE DEF w
  <2> QED
    BY <2>1 DEF FifoWords
<1>4. \A n \in 1 .. L - 1 : w(n) >= w(n + 1)
  BY DEF LaidOut
<1> HIDE DEF off, w
<1>5. Ok(i + 1)
  <2>1. i \in 1 .. L /\ i + 1 \in 1 .. L
    BY <1>1
  <2>2. off[i + 1] = off[i] + w(i) /\ off[i] \in Nat /\ w(i) \in Nat /\ w(i + 1) \in Nat /\ w(i) >= w(i + 1)
    BY <1>1, <1>2, <1>3, <1>4, <2>1
  <2> QED
    BY <2>2
<1>6. ASSUME NEW n \in i + 1 .. L - 1, Ok(n)
      PROVE  Ok(n + 1)
  <2>1. n \in 1 .. L - 1 /\ n \in 1 .. L /\ n + 1 \in 1 .. L /\ i \in 1 .. L
    BY <1>1
  <2>2. /\ off[n + 1] = off[n] + w(n) /\ off[n] \in Nat /\ off[i] \in Nat /\ w(i) \in Nat
        /\ w(n) \in Nat /\ w(n + 1) \in Nat /\ w(n) >= w(n + 1)
    BY <1>2, <1>3, <1>4, <2>1
  <2> QED
    BY <1>6, <2>2
<1> HIDE DEF Ok
<1>7. Bad = {}
  <2> SUFFICES ASSUME Bad # {} PROVE FALSE
    OBVIOUS
  <2>1. Min(Bad) \in Bad /\ \A n \in Bad : Min(Bad) <= n
    <3>1. Bad \subseteq Nat
      BY <1>1
    <3> QED
      BY <3>1, MinOfNats
  <2>2. PICK b \in i + 1 .. L : ~Ok(b) /\ \A n \in i + 1 .. L : ~Ok(n) => b <= n
    BY <2>1
  <2>3. b # i + 1
    BY <1>5, <2>2
  <2>4. b - 1 \in i + 1 .. L - 1 /\ b - 1 \in i + 1 .. L /\ ~(b <= b - 1) /\ (b - 1) + 1 = b
    BY <1>1, <2>3
  <2>5. Ok(b - 1)
    BY <2>2, <2>4
  <2>6. Ok((b - 1) + 1)
    BY <1>6, <2>4, <2>5
  <2> QED
    BY <2>2, <2>4, <2>6
<1>8. Ok(j)
  BY <1>1, <1>7
<1> QED
  BY <1>8 DEF Ok, off, w

\* A Fifo of more than one word begins where its circular buffer does, and ends
\* in the coefficient buffer; one of a single word lies behind all of those.
LEMMA FifoRegions ==
  ASSUME NEW fifos, LaidOut(fifos), NEW i \in 1 .. Len(fifos)
  PROVE  /\ FifoOffsets(fifos)[i] \in Nat /\ fifos[i].words \in Nat /\ BufferDepth(fifos) \in Nat
         /\ fifos[i].depth \in 1 .. fifos[i].words
         /\ FifoOffsets(fifos)[i] + fifos[i].words <= BufferDepth(fifos)
         /\ fifos[i].depth > 1 =>
              /\ RegionSize(fifos[i].depth) = fifos[i].words
              /\ RegionOrigin(FifoOffsets(fifos)[i], fifos[i].depth) = FifoOffsets(fifos)[i]
              /\ FifoOffsets(fifos)[i] % 2 = 0 /\ fifos[i].words % 2 = 0
         /\ fifos[i].depth = 1 =>
              /\ fifos[i].words = 1 /\ RegionSize(fifos[i].depth) = 2
              /\ RegionOrigin(FifoOffsets(fifos)[i], fifos[i].depth)
                   = FifoOffsets(fifos)[i] - (FifoOffsets(fifos)[i] % 2)
<1> DEFINE L == Len(fifos)
           off == FifoOffsets(fifos)
           d == fifos[i].depth
           w == fifos[i].words
<1>1. L \in Nat /\ L \in 1 .. L /\ (i = L \/ i < L)
  <2>1. L \in Nat /\ i \in 1 .. L
    BY DEF LaidOut
  <2> HIDE DEF L
  <2> QED
    BY <2>1
<1>2. /\ \A n \in 1 .. L : off[n] \in Nat
      /\ off[i] % w = 0
  BY FifosFollow
<1>3. d \in 1 .. 64 /\ w = RoundUpToPowerOfTwo(d) /\ fifos[L].words \in FifoWords
  <2>1. \A j \in 1 .. Len(fifos) :
            fifos[j].depth \in 1 .. 64 /\ fifos[j].words = RoundUpToPowerOfTwo(fifos[j].depth)
    BY DEF LaidOut
  <2>2. fifos[L].depth \in 1 .. 64 /\ fifos[L].words = RoundUpToPowerOfTwo(fifos[L].depth)
    BY <1>1, Zenon DEF LaidOut
  <2>3. fifos[L].words \in FifoWords
    BY <2>2, WordsOfDepth
  <2> QED
    BY <2>1, <2>3
<1>4. /\ w \in FifoWords /\ d <= w
      /\ d > 1 => w > 1 /\ RegionSize(d) = w
      /\ d = 1 => w = 1 /\ RegionSize(d) = 2
  BY <1>3, WordsOfDepth
<1>5. BufferDepth(fifos) = off[L] + fifos[L].words
  BY DEF BufferDepth, Last
<1>6. i < L => off[L] >= off[i] + w
  BY <1>1, FifosOrdered
<1> HIDE DEF off, d, w
<1>7. w > 1 => off[i] % 2 = 0 /\ w % 2 = 0
  BY <1>2, <1>4 DEF FifoWords
<1>8. w \in Nat /\ fifos[L].words \in Nat
  BY <1>3, <1>4 DEF FifoWords
<1>9. BufferDepth(fifos) \in Nat /\ off[i] + w <= BufferDepth(fifos)
  <2>1. off[i] \in Nat /\ off[L] \in Nat
    BY <1>1, <1>2
  <2>2. CASE i = L
    BY <1>5, <1>8, <2>1, <2>2 DEF w
  <2>3. CASE i < L
    BY <1>5, <1>6, <1>8, <2>1, <2>3
  <2> QED
    BY <1>1, <2>2, <2>3
<1>10. d > 1 => RegionOrigin(off[i], d) = off[i]
  BY <1>2, <1>4 DEF RegionOrigin
<1>11. d = 1 => RegionOrigin(off[i], d) = off[i] - (off[i] % 2)
  BY <1>4 DEF RegionOrigin
<1>12. d \in 1 .. w /\ (d = 1 \/ d > 1)
  BY <1>3, <1>4, <1>8
<1>13. /\ off[i] \in Nat /\ w \in Nat /\ BufferDepth(fifos) \in Nat
       /\ d \in 1 .. w /\ off[i] + w <= BufferDepth(fifos)
       /\ d > 1 => /\ RegionSize(d) = w /\ RegionOrigin(off[i], d) = off[i]
                   /\ off[i] % 2 = 0 /\ w % 2 = 0
       /\ d = 1 => w = 1 /\ RegionSize(d) = 2 /\ RegionOrigin(off[i], d) = off[i] - (off[i] % 2)
  BY <1>2, <1>4, <1>7, <1>8, <1>9, <1>10, <1>11, <1>12
<1> QED
  BY <1>13, Zenon DEF off, d, w

\* The circular buffer that the Verilog gives Fifo i.
Origin(fifos, i) == RegionOrigin(FifoOffsets(fifos)[i], fifos[i].depth)
Region(fifos, i) == Origin(fifos, i) .. Origin(fifos, i) + RegionSize(fifos[i].depth) - 1

LEMMA BuffersOrdered ==
  ASSUME NEW fifos, LaidOut(fifos), NEW i \in 1 .. Len(fifos), NEW j \in 1 .. Len(fifos), i < j,
         fifos[i].depth > 1 \/ fifos[j].depth > 1
  PROVE  Region(fifos, i) \cap Region(fifos, j) = {}
<1> DEFINE oi == FifoOffsets(fifos)[i]
           oj == FifoOffsets(fifos)[j]
           wi == fifos[i].words
           wj == fifos[j].words
           di == fifos[i].depth
           dj == fifos[j].depth
<1>1. oj >= oi + wi /\ wj <= wi
  BY FifosOrdered
<1>2. /\ oi \in Nat /\ wi \in Nat /\ di \in 1 .. wi
      /\ di > 1 => RegionSize(di) = wi /\ RegionOrigin(oi, di) = oi /\ oi % 2 = 0 /\ wi % 2 = 0
      /\ di = 1 => wi = 1
  BY FifoRegions
<1>3. /\ oj \in Nat /\ wj \in Nat /\ dj \in 1 .. wj
      /\ dj > 1 => RegionOrigin(oj, dj) = oj /\ RegionSize(dj) = wj
      /\ dj = 1 => RegionOrigin(oj, dj) = oj - (oj % 2) /\ RegionSize(dj) = 2
  BY FifoRegions
<1>4. di > 1 \/ dj > 1
  OBVIOUS
<1>5. Region(fifos, i) = RegionOrigin(oi, di) .. RegionOrigin(oi, di) + RegionSize(di) - 1
  BY DEF Region, Origin
<1>6. Region(fifos, j) = RegionOrigin(oj, dj) .. RegionOrigin(oj, dj) + RegionSize(dj) - 1
  BY DEF Region, Origin
<1> HIDE DEF oi, oj, wi, wj, di, dj
<1>7. di > 1
  BY <1>1, <1>2, <1>3, <1>4
<1>8. RegionOrigin(oi, di) + RegionSize(di) = oi + wi /\ oi + wi \in Nat
  BY <1>2, <1>7
<1>9. RegionOrigin(oj, dj) \in Int /\ RegionOrigin(oj, dj) >= oi + wi
  <2>1. CASE dj > 1
    BY <1>1, <1>2, <1>3, <2>1
  <2>2. CASE dj = 1
    <3>1. oj - (oj % 2) >= oi + wi /\ oj - (oj % 2) \in Int
      BY <1>1, <1>2, <1>3, <1>7
    <3> QED
      BY <1>3, <2>2, <3>1
  <2> QED
    BY <1>3, <2>1, <2>2
<1>10. RegionOrigin(oi, di) = oi /\ RegionSize(di) = wi
  BY <1>2, <1>7
<1>11. \A x \in Region(fifos, i) : x \in Int /\ x < oi + wi
  BY <1>2, <1>5, <1>10
<1>12. \A x \in Region(fifos, j) : x >= oi + wi
  <2>1. RegionSize(dj) \in Int
    BY <1>3
  <2> DEFINE o == RegionOrigin(oj, dj)
             z == RegionSize(dj)
  <2>2. o \in Int /\ z \in Int /\ o >= oi + wi /\ oi + wi \in Int
    BY <1>8, <1>9, <2>1
  <2>3. Region(fifos, j) = o .. o + z - 1
    BY <1>6
  <2> HIDE DEF o, z
  <2> QED
    BY <2>2, <2>3
<1> QED
  BY <1>2, <1>11, <1>12

\* From the origin of a circular buffer on lie the coefficients of its FIR.
LEMMA CoeffsInPlace ==
  ASSUME NEW fifos, LaidOut(fifos), NEW i \in 1 .. Len(fifos), fifos[i].depth > 1,
         NEW k \in 0 .. fifos[i].depth - 1
  PROVE  CoeffValues(fifos)[Origin(fifos, i) + k] = [fir |-> fifos[i].fir, tap |-> k]
<1> DEFINE off == FifoOffsets(fifos)
           a == off[i] + k
           S == {n \in DOMAIN fifos : off[n] <= a}
           w == fifos[i].words
           d == fifos[i].depth
<1>1. /\ off[i] \in Nat /\ w \in Nat /\ BufferDepth(fifos) \in Nat /\ d \in 1 .. w
      /\ off[i] + w <= BufferDepth(fifos)
      /\ Origin(fifos, i) = off[i]
  BY FifoRegions DEF Origin
<1>2. DOMAIN fifos = 1 .. Len(fifos) /\ Len(fifos) \in Nat
  BY DEF LaidOut
<1>3. k \in Nat /\ k < d /\ a \in 0 .. BufferDepth(fifos) - 1 /\ off[i] <= a /\ a < off[i] + w /\ a - off[i] = k
  <2>1. k \in 0 .. d - 1
    OBVIOUS
  <2> DEFINE o == off[i]
             depth == BufferDepth(fifos)
  <2>2. o \in Nat /\ w \in Nat /\ depth \in Nat /\ d \in 1 .. w /\ o + w <= depth
    BY <1>1
  <2> HIDE DEF o, w, d, depth
  <2>3. k \in Nat /\ k < d /\ d <= w
    BY <2>1, <2>2
  <2>4. o + k \in 0 .. depth - 1 /\ o <= o + k /\ o + k < o + w /\ (o + k) - o = k
    BY <2>2, <2>3
  <2> QED
    BY <2>3, <2>4 DEF o, depth
<1>4. S \subseteq 1 .. Len(fifos) /\ i \in S
  BY <1>2, <1>3
<1>5. Max(S) \in S /\ i <= Max(S)
  <2>1. 1 \in Int /\ Len(fifos) \in Int
    BY <1>2
  <2> HIDE DEF S
  <2> QED
    BY <1>4, <2>1, MaxOfRange
<1>6. Max(S) = i
  <2> SUFFICES ASSUME NEW n \in S, i < n PROVE FALSE
    <3>1. \A n \in S : ~(i < n) => i = n \/ n < i
      BY <1>4
    <3>2. \A n \in S : n \in Int /\ i \in Int
      BY <1>4
    <3> QED
      BY <1>5, <3>1, <3>2
  <2>1. n \in 1 .. Len(fifos) /\ off[n] <= a
    BY <1>2
  <2>2. off[n] >= off[i] + w
    BY <2>1, FifosOrdered
  <2>3. off[n] \in Nat
    BY <2>1, FifosFollow
  <2> HIDE DEF off, w, a
  <2> QED
    BY <1>1, <1>3, <2>1, <2>2, <2>3
<1>7. CoeffValues(fifos)[a] =
        IF a - off[Max(S)] < fifos[Max(S)].depth
        THEN [fir |-> fifos[Max(S)].fir, tap |-> a - off[Max(S)]]
        ELSE NoCoeff
  BY <1>3 DEF CoeffValues
<1>8. CoeffValues(fifos)[a] = [fir |-> fifos[i].fir, tap |-> k]
  BY <1>3, <1>6, <1>7
<1> QED
  BY <1>1, <1>8

-----------------------------------------------------------------------------
(* The step that binds a FIR *)

\* Where the next FIR goes, and what the MAC there has before.
Period == Interval(NextFir)
Place  == ValidBinding(macs, NextFir, Period)
Base   == IF Place.mac > Len(macs) THEN EmptyMac ELSE macs[Place.mac]
NewMac == BindTo(Base, NextFir, numFirs, Place.origin, Period)
Updates == UpdateSlots(Place.origin, Period)
Rows   == RowSlots(NextFir, Place.origin, Period)

LEMMA FirTypes ==
  ASSUME TypeOK
  PROVE  /\ numFirs \in Nat /\ numFirs \notin Firs /\ NoFir \notin Firs
         /\ \A f \in Firs : f \in Nat /\ Fir(f) \in [taps : Nat, half : Nat]
         /\ numFirs < Len(spec) => NextFir \in [taps : Nat, half : Nat]
<1>1. Len(spec) \in Nat /\ numFirs \in Nat /\ numFirs <= Len(spec)
  BY DEF TypeOK
<1>2. \A f \in Firs : f \in Nat /\ f + 1 \in 1 .. Len(spec)
  BY <1>1 DEF Firs
<1>3. numFirs < Len(spec) => numFirs + 1 \in 1 .. Len(spec)
  BY <1>1
<1>4. \A i \in 1 .. Len(spec) : spec[i] \in [taps : Nat, half : Nat]
  <2>1. spec \in Seq([taps : Nat, half : Nat])
    BY DEF TypeOK
  <2> QED
    BY <2>1, ElementOfSeq
<1> QED
  BY <1>1, <1>2, <1>3, <1>4 DEF Firs, NoFir, Fir, NextFir

\* The FIR that is bound has passed the tests, so its interval is defined.
LEMMA FirPasses ==
  ASSUME TypeOK, BindFir
  PROVE  /\ NextFir \in [taps : Nat, half : Nat]
         /\ ClocksPerSample(NextFir) \in Nat \ {0}
         /\ Period \in 1 .. NumTimeSlots /\ Period \in Nat /\ NextFir.taps <= Period
<1>1. NextFir \in [taps : Nat, half : Nat]
  BY FirTypes DEF BindFir
<1>2. NextFir.half \in Nat /\ NextFir.half # 0 /\ NextFir.taps \in Nat
  BY <1>1 DEF BindFir, TooFast
<1>3. ClocksPerSample(NextFir) \in Nat
  BY <1>2 DEF ClocksPerSample
<1>4. ClocksPerSample(NextFir) # 0
  BY <1>2 DEF BindFir, NoClock
<1>5. Period \in 1 .. NumTimeSlots
  BY <1>3, <1>4, IntervalRange DEF Period
<1>6. ~ (Interval(NextFir) < NextFir.taps)
  BY <1>3, <1>4 DEF BindFir, TooLong
<1>7. Period \in Int
  BY <1>5
<1> QED
  BY <1>1, <1>2, <1>3, <1>4, <1>5, <1>6, <1>7 DEF Period

\* The next FIR finds its slots free.
LEMMA PlaceFree ==
  ASSUME TypeOK, BindFir
  PROVE  /\ Place.mac \in 1 .. Len(macs) + 1 /\ Place.origin \in 0 .. Period - 1
         /\ Base \in MacDescs /\ Len(Base.inputs) # MaxInputs
         /\ \A u \in Updates : Base.update[u] = NoFir
         /\ \A s \in Rows : Base.coeff[s].fir = NoFir
         /\ Updates \subseteq Slots /\ Rows \subseteq Slots
<1>1. Len(macs) \in Nat /\ \A m \in 1 .. Len(macs) : macs[m] \in MacDescs
  BY DEF TypeOK
<1>2. /\ Place.mac \in 1 .. Len(macs) + 1 /\ Place.origin \in 0 .. Period - 1
      /\ CanBind(macs, NextFir, Place.mac, Place.origin, Period)
  BY <1>1, FirPasses, BindingFound DEF Place
<1>3. Updates \subseteq Slots
  BY DEF Updates, UpdateSlots
<1>4. Rows \subseteq Slots
  BY <1>2, FirPasses, RowCovers DEF Rows
<1>5. CASE Place.mac > Len(macs)
  <2>1. Base = EmptyMac
    BY <1>5 DEF Base
  <2>2. <<>> \in Seq(Firs) /\ <<>> \in Seq([fir : Firs, depth : Nat, words : Nat \ {0}]) /\ Len(<<>>) = 0
    OBVIOUS
  <2>3. [s \in Slots |-> NoFir] \in [Slots -> Firs \cup {NoFir}]
    OBVIOUS
  <2>4. [s \in Slots |-> NoCoeff] \in [Slots -> [fir : Firs \cup {NoFir}, tap : Nat]]
    BY DEF NoCoeff
  <2>5. EmptyMac \in MacDescs /\ Len(EmptyMac.inputs) = 0
    BY <2>2, <2>3, <2>4, InputsAssumption DEF EmptyMac, MacDescs
  <2>6. \A s \in Slots : EmptyMac.update[s] = NoFir /\ EmptyMac.coeff[s].fir = NoFir
    BY DEF EmptyMac, NoCoeff
  <2> QED
    BY <1>2, <1>3, <1>4, <2>1, <2>5, <2>6, InputsAssumption
<1>6. CASE ~(Place.mac > Len(macs))
  <2>1. Base = macs[Place.mac] /\ Place.mac \in 1 .. Len(macs)
    BY <1>1, <1>2, <1>6 DEF Base
  <2>2. /\ Len(Base.inputs) # MaxInputs
        /\ \A u \in Updates : Base.update[u] = NoFir
        /\ \A s \in Rows : Base.coeff[s].fir = NoFir
    BY <1>2, <1>6, <2>1 DEF CanBind, Updates, Rows
  <2> QED
    BY <1>1, <1>2, <1>3, <1>4, <2>1, <2>2
<1> QED
  BY <1>5, <1>6

\* What bindFir changes.
LEMMA BindChanges ==
  ASSUME TypeOK, BindFir
  PROVE  /\ phase = "binding" /\ UNCHANGED <<phase, spec, rtl>>
         /\ numFirs < Len(spec) /\ numFirs' = numFirs + 1 /\ Fir(numFirs) = NextFir
         /\ Len(macs) \in Nat /\ Len(macs') \in Nat /\ Len(macs) <= Len(macs')
         /\ DOMAIN macs = 1 .. Len(macs) /\ DOMAIN macs' = 1 .. Len(macs')
         /\ Place.mac \in DOMAIN macs' /\ macs'[Place.mac] = NewMac
         /\ Place.mac \in DOMAIN macs => Base = macs[Place.mac]
         /\ Place.mac \notin DOMAIN macs => Base = EmptyMac
         /\ \A m \in DOMAIN macs' \ {Place.mac} : m \in DOMAIN macs /\ macs'[m] = macs[m]
         /\ \A S : NewMac \in S /\ (\A m \in DOMAIN macs : macs[m] \in S) => macs' \in Seq(S)
<1>1. /\ phase = "binding" /\ UNCHANGED <<phase, spec, rtl>>
      /\ numFirs < Len(spec) /\ numFirs' = numFirs + 1 /\ Fir(numFirs) = NextFir
      /\ macs' = Bound(macs, NextFir, numFirs)
  BY DEF BindFir, Fir, NextFir
<1>2. macs \in Seq(MacDescs) /\ Len(macs) \in Nat /\ DOMAIN macs = 1 .. Len(macs)
  BY DEF TypeOK
<1>3. Place.mac \in 1 .. Len(macs) + 1
  BY PlaceFree
<1> DEFINE n == Place.mac
           L == IF n > Len(macs) THEN Len(macs) + 1 ELSE Len(macs)
           old == IF n > Len(macs) THEN Append(macs, EmptyMac) ELSE macs
<1>4. macs' = [old EXCEPT ![n] = BindTo(old[n], NextFir, numFirs, Place.origin, Period)]
  BY <1>1 DEF Bound, Place, Period
<1>5. Base = IF n > Len(macs) THEN EmptyMac ELSE macs[n]
  BY DEF Base
<1> HIDE DEF n
<1>6. /\ n \in 1 .. L /\ L \in Nat /\ Len(macs) <= L
      /\ n > Len(macs) => n = Len(macs) + 1
  BY <1>2, <1>3 DEF n
<1>7. /\ DOMAIN old = 1 .. L /\ old[n] = Base
      /\ \A m \in 1 .. L : m # n => m \in 1 .. Len(macs) /\ old[m] = macs[m]
  <2>1. CASE n > Len(macs)
    <3>1. /\ DOMAIN Append(macs, EmptyMac) = 1 .. Len(macs) + 1
          /\ Append(macs, EmptyMac)[Len(macs) + 1] = EmptyMac
          /\ \A m \in 1 .. Len(macs) : Append(macs, EmptyMac)[m] = macs[m]
      BY <1>2, AppendElements
    <3>2. \A m \in 1 .. Len(macs) + 1 : m # Len(macs) + 1 => m \in 1 .. Len(macs)
      BY <1>2
    <3> QED
      BY <1>5, <1>6, <2>1, <3>1, <3>2
  <2>2. CASE ~(n > Len(macs))
    BY <1>2, <1>5, <2>2
  <2> QED
    BY <2>1, <2>2
<1> HIDE DEF L, old
<1>8. /\ DOMAIN macs' = 1 .. L /\ macs'[n] = NewMac
      /\ \A m \in 1 .. L : m # n => m \in 1 .. Len(macs) /\ macs'[m] = macs[m]
      /\ macs' = [m \in 1 .. L |-> macs'[m]]
  BY <1>4, <1>6, <1>7 DEF NewMac
<1>9. ASSUME NEW S, NewMac \in S, \A m \in DOMAIN macs : macs[m] \in S
      PROVE  macs' \in Seq(S)
  <2>1. \A m \in 1 .. L : macs'[m] \in S
    BY <1>2, <1>8, <1>9
  <2>2. macs' \in [1 .. L -> S]
    BY <1>8, <2>1
  <2> QED
    BY <1>6, <2>2, SeqDef
<1>10. Len(macs') = L
  <2>1. macs' \in Seq({NewMac} \cup {macs[m] : m \in DOMAIN macs})
    BY <1>9
  <2>2. Len(macs') \in Nat /\ DOMAIN macs' = 1 .. Len(macs')
    BY <2>1, LenProperties
  <2> QED
    BY <1>6, <1>8, <2>2, SameLength
<1>11. n \in DOMAIN macs => Base = macs[n]
  BY <1>2, <1>5
<1>12. n \notin DOMAIN macs => Base = EmptyMac
  BY <1>2, <1>5, <1>6 DEF L
<1> QED
  BY <1>1, <1>2, <1>6, <1>8, <1>9, <1>10, <1>11, <1>12 DEF n

LEMMA FirsGrow ==
  ASSUME TypeOK, BindFir
  PROVE  Firs' = Firs \cup {numFirs} /\ \A f \in Firs' : Fir(f)' = Fir(f)
<1>1. numFirs \in Nat /\ numFirs' = numFirs + 1 /\ UNCHANGED spec
  BY BindChanges, FirTypes
<1>2. 0 .. (numFirs + 1) - 1 = (0 .. numFirs - 1) \cup {numFirs}
  BY <1>1
<1> QED
  BY <1>1, <1>2 DEF Firs, Fir

\* What the MAC of the next FIR has after it.
LEMMA NewMacParts ==
  ASSUME TypeOK, BindFir
  PROVE  /\ NewMac.inputs = Append(Base.inputs, numFirs)
         /\ NewMac.fifos = Append(Base.fifos, [fir   |-> numFirs,
                                            depth |-> NextFir.taps,
                                            words |-> RoundUpToPowerOfTwo(NextFir.taps)])
         /\ \A s \in Slots : NewMac.update[s] = IF s \in Updates THEN numFirs ELSE Base.update[s]
         /\ \A s \in Slots \ Rows : NewMac.coeff[s] = Base.coeff[s]
         /\ \A s \in Rows : \E u \in Updates, i \in 0 .. NextFir.taps - 1 :
              /\ RowSlot(u, i) = s
              /\ NewMac.coeff[s] = [fir |-> numFirs, tap |-> NextFir.taps - 1 - i]
         /\ NewMac = [inputs |-> NewMac.inputs, update |-> [s \in Slots |-> NewMac.update[s]],
                     coeff |-> [s \in Slots |-> NewMac.coeff[s]], fifos |-> NewMac.fifos]
<1>1. Rows \subseteq Slots
  BY PlaceFree
<1>2. /\ NewMac.inputs = Append(Base.inputs, numFirs)
      /\ NewMac.fifos = Append(Base.fifos, [fir   |-> numFirs,
                                         depth |-> NextFir.taps,
                                         words |-> RoundUpToPowerOfTwo(NextFir.taps)])
      /\ NewMac.update = [s \in Slots |-> IF s \in Updates THEN numFirs ELSE Base.update[s]]
      /\ NewMac.coeff = [s \in Slots |->
                           IF s \in Rows
                           THEN BoundCoeff(NextFir, numFirs, Place.origin, Period, s)
                           ELSE Base.coeff[s]]
      /\ NewMac = [inputs |-> NewMac.inputs, update |-> NewMac.update,
                  coeff |-> NewMac.coeff, fifos |-> NewMac.fifos]
  BY DEF NewMac, BindTo, Updates, Rows
<1>3. ASSUME NEW s \in Rows
      PROVE  \E u \in Updates, i \in 0 .. NextFir.taps - 1 :
               /\ RowSlot(u, i) = s
               /\ NewMac.coeff[s] = [fir |-> numFirs, tap |-> NextFir.taps - 1 - i]
  <2>1. NewMac.coeff[s] = BoundCoeff(NextFir, numFirs, Place.origin, Period, s)
    BY <1>1, <1>2
  <2>2. \E u \in Updates, i \in 0 .. NextFir.taps - 1 :
          /\ RowSlot(u, i) = s
          /\ \A f : BoundCoeff(NextFir, f, Place.origin, Period, s)
                     = [fir |-> f, tap |-> NextFir.taps - 1 - i]
    BY FirPasses, PlaceFree, RowCovers DEF Rows, Updates
  <2> QED
    BY <2>1, <2>2
<1>4. /\ \A s \in Slots : NewMac.update[s] = IF s \in Updates THEN numFirs ELSE Base.update[s]
      /\ \A s \in Slots \ Rows : NewMac.coeff[s] = Base.coeff[s]
      /\ NewMac.update = [s \in Slots |-> NewMac.update[s]]
      /\ NewMac.coeff = [s \in Slots |-> NewMac.coeff[s]]
  BY <1>2
<1> QED
  BY <1>2, <1>3, <1>4

LEMMA MacParts ==
  ASSUME NEW mac \in MacDescs
  PROVE  /\ mac.inputs \in Seq(Firs) /\ Len(mac.inputs) \in Nat /\ DOMAIN mac.inputs = 1 .. Len(mac.inputs)
         /\ mac.fifos \in Seq([fir : Firs, depth : Nat, words : Nat \ {0}])
         /\ DOMAIN mac.fifos = DOMAIN mac.inputs /\ Len(mac.inputs) = Len(mac.fifos)
         /\ Len(mac.inputs) <= MaxInputs
         /\ ToSet(mac.inputs) \subseteq Firs
         /\ \A s \in Slots : mac.update[s] \in Firs \cup {NoFir}
         /\ \A s \in Slots : mac.coeff[s] \in [fir : Firs \cup {NoFir}, tap : Nat]
         /\ mac = [inputs |-> mac.inputs, update |-> mac.update, coeff |-> mac.coeff, fifos |-> mac.fifos]
         /\ mac.update \in [Slots -> Firs \cup {NoFir}]
         /\ mac.coeff \in [Slots -> [fir : Firs \cup {NoFir}, tap : Nat]]
<1>1. /\ mac.inputs \in Seq(Firs) /\ mac.fifos \in Seq([fir : Firs, depth : Nat, words : Nat \ {0}])
      /\ mac.update \in [Slots -> Firs \cup {NoFir}]
      /\ mac.coeff \in [Slots -> [fir : Firs \cup {NoFir}, tap : Nat]]
      /\ mac = [inputs |-> mac.inputs, update |-> mac.update, coeff |-> mac.coeff, fifos |-> mac.fifos]
      /\ Len(mac.inputs) = Len(mac.fifos) /\ Len(mac.inputs) <= MaxInputs
  BY DEF MacDescs
<1>2. /\ Len(mac.inputs) \in Nat /\ DOMAIN mac.inputs = 1 .. Len(mac.inputs)
      /\ DOMAIN mac.fifos = 1 .. Len(mac.fifos)
      /\ \A i \in 1 .. Len(mac.inputs) : mac.inputs[i] \in Firs
  BY <1>1, LenProperties
<1>3. ToSet(mac.inputs) \subseteq Firs
  BY <1>2 DEF ToSet
<1> QED
  BY <1>1, <1>2, <1>3

\* The descriptions of MACs stay descriptions with one more FIR.
LEMMA MacDescsGrow ==
  ASSUME TypeOK, BindFir, NEW mac \in MacDescs
  PROVE  mac \in MacDescs'
<1>1. Firs \subseteq Firs'
  BY FirsGrow
<1>2. mac.inputs \in Seq(Firs')
  BY <1>1, MacParts, SeqMonotonic
<1>3. mac.fifos \in Seq([fir : Firs', depth : Nat, words : Nat \ {0}])
  <2>1. [fir : Firs, depth : Nat, words : Nat \ {0}] \subseteq [fir : Firs', depth : Nat, words : Nat \ {0}]
    BY <1>1
  <2>2. mac.fifos \in Seq([fir : Firs, depth : Nat, words : Nat \ {0}])
    BY MacParts
  <2> QED
    BY <2>1, <2>2, SeqMonotonic, Zenon
<1>4. mac.update \in [Slots -> Firs' \cup {NoFir}]
  BY <1>1, MacParts
<1>5. mac.coeff \in [Slots -> [fir : Firs' \cup {NoFir}, tap : Nat]]
  BY <1>1, MacParts
<1>6. /\ mac = [inputs |-> mac.inputs, update |-> mac.update, coeff |-> mac.coeff, fifos |-> mac.fifos]
      /\ Len(mac.inputs) = Len(mac.fifos) /\ Len(mac.inputs) <= MaxInputs
  BY MacParts
<1> QED
  BY <1>2, <1>3, <1>4, <1>5, <1>6 DEF MacDescs

LEMMA NewMacDesc ==
  ASSUME TypeOK, BindFir
  PROVE  NewMac \in MacDescs'
<1>1. Base \in MacDescs /\ Base \in MacDescs' /\ Len(Base.inputs) # MaxInputs
  BY PlaceFree, MacDescsGrow
<1>2. Firs' = Firs \cup {numFirs} /\ numFirs \in Firs'
  BY FirsGrow
<1>3. /\ Base.inputs \in Seq(Firs') /\ Base.fifos \in Seq([fir : Firs', depth : Nat, words : Nat \ {0}])
      /\ Len(Base.inputs) = Len(Base.fifos) /\ Len(Base.inputs) <= MaxInputs /\ Len(Base.inputs) \in Nat
  BY <1>1 DEF MacDescs
<1>4. NewMac.inputs \in Seq(Firs') /\ Len(NewMac.inputs) = Len(Base.inputs) + 1
  <2>1. NewMac.inputs = Append(Base.inputs, numFirs)
    BY NewMacParts
  <2> QED
    BY <1>2, <1>3, <2>1, AppendProperties
<1> DEFINE fifo == [fir |-> numFirs, depth |-> NextFir.taps, words |-> RoundUpToPowerOfTwo(NextFir.taps)]
<1>5. fifo \in [fir : Firs', depth : Nat, words : Nat \ {0}]
  <2>1. NextFir.taps \in Nat /\ NextFir.taps \in 0 .. NumTimeSlots
    BY FirPasses, SlotsAssumption
  <2> QED
    BY <1>2, <2>1, WordsCount
<1>6. /\ NewMac.fifos \in Seq([fir : Firs', depth : Nat, words : Nat \ {0}])
      /\ Len(NewMac.fifos) = Len(Base.fifos) + 1
  <2>1. NewMac.fifos = Append(Base.fifos, fifo)
    BY NewMacParts
  <2> HIDE DEF fifo
  <2> QED
    BY <1>3, <1>5, <2>1, AppendProperties
<1>7. \A s \in Slots : NewMac.update[s] \in Firs' \cup {NoFir}
  BY <1>1, <1>2, NewMacParts, MacParts
<1>8. \A s \in Slots : NewMac.coeff[s] \in [fir : Firs' \cup {NoFir}, tap : Nat]
  <2> TAKE s \in Slots
  <2>1. CASE s \in Rows
    <3>1. PICK i \in 0 .. NextFir.taps - 1 :
                 NewMac.coeff[s] = [fir |-> numFirs, tap |-> NextFir.taps - 1 - i]
      BY <2>1, NewMacParts
    <3>2. NextFir.taps - 1 - i \in Nat
      BY FirPasses
    <3> QED
      BY <1>2, <3>1, <3>2
  <2>2. CASE s \notin Rows
    BY <1>1, <1>2, <2>2, NewMacParts, MacParts
  <2> QED
    BY <2>1, <2>2
<1>9. Len(NewMac.inputs) = Len(NewMac.fifos) /\ Len(NewMac.inputs) <= MaxInputs
  BY <1>1, <1>3, <1>4, <1>6, InputsAssumption
<1>10. /\ NewMac = [inputs |-> NewMac.inputs, update |-> NewMac.update, coeff |-> NewMac.coeff, fifos |-> NewMac.fifos]
       /\ NewMac.update \in [Slots -> Firs' \cup {NoFir}]
       /\ NewMac.coeff \in [Slots -> [fir : Firs' \cup {NoFir}, tap : Nat]]
  BY <1>7, <1>8, NewMacParts
<1> QED
  BY <1>4, <1>6, <1>9, <1>10 DEF MacDescs

\* The inputs of the new FIR's MAC are those it had, and the FIR.
LEMMA NewInputs ==
  ASSUME TypeOK, BindFir
  PROVE  /\ ToSet(NewMac.inputs) = ToSet(Base.inputs) \cup {numFirs}
         /\ ToSet(Base.inputs) \subseteq Firs
         /\ Place.mac \notin DOMAIN macs => ToSet(Base.inputs) = {}
<1>1. Base \in MacDescs
  BY PlaceFree
<1>2. Place.mac \notin DOMAIN macs => Base.inputs = <<>>
  BY BindChanges DEF EmptyMac
<1>3. Base.inputs \in Seq(Firs) /\ ToSet(Base.inputs) \subseteq Firs
  BY <1>1, MacParts
<1>4. NewMac.inputs = Append(Base.inputs, numFirs)
  BY NewMacParts
<1>5. ToSet(Append(Base.inputs, numFirs)) = ToSet(Base.inputs) \cup {numFirs}
  BY <1>3, AppendElements
<1>6. ToSet(<<>>) = {}
  BY DEF ToSet
<1> QED
  BY <1>2, <1>3, <1>4, <1>5, <1>6

LEMMA BindTypes ==
  ASSUME TypeOK, BindFir, rtl = <<>>
  PROVE  TypeOK'
<1>1. /\ phase' = "binding" /\ UNCHANGED <<spec, rtl>> /\ numFirs' = numFirs + 1
      /\ numFirs \in Nat /\ numFirs < Len(spec) /\ Len(spec) \in Nat
  BY BindChanges, FirTypes DEF TypeOK
<1>2. macs' \in Seq(MacDescs')
  <2>1. \A m \in DOMAIN macs : macs[m] \in MacDescs'
    <3>1. \A m \in DOMAIN macs : macs[m] \in MacDescs
      BY DEF TypeOK
    <3> QED
      BY <3>1, MacDescsGrow
  <2> QED
    BY <2>1, NewMacDesc, BindChanges
<1>3. ASSUME NEW f \in Firs'
      PROVE  \E m \in DOMAIN macs' :
               /\ f \in ToSet(macs'[m].inputs)
               /\ \A n \in DOMAIN macs' \ {m} : f \notin ToSet(macs'[n].inputs)
  <2>1. \A m \in DOMAIN macs : ToSet(macs[m].inputs) \subseteq Firs
    <3>1. \A m \in DOMAIN macs : macs[m] \in MacDescs
      BY DEF TypeOK
    <3> QED
      BY <3>1, MacParts
  <2>2. CASE f = numFirs
    <3>1. f \in ToSet(macs'[Place.mac].inputs)
      BY <2>2, NewInputs, BindChanges
    <3>2. ASSUME NEW n \in DOMAIN macs' \ {Place.mac} PROVE f \notin ToSet(macs'[n].inputs)
      BY <2>1, <2>2, FirTypes, BindChanges
    <3> QED
      BY <3>1, <3>2, BindChanges
  <2>3. CASE f # numFirs
    <3>1. f \in Firs
      BY <2>3, FirsGrow
    <3>2. PICK m \in DOMAIN macs :
                 /\ f \in ToSet(macs[m].inputs)
                 /\ \A n \in DOMAIN macs \ {m} : f \notin ToSet(macs[n].inputs)
      BY <3>1 DEF TypeOK
    <3>3. m \in DOMAIN macs' /\ f \in ToSet(macs'[m].inputs)
      BY <3>2, NewInputs, BindChanges
    <3>4. ASSUME NEW n \in DOMAIN macs' \ {m} PROVE f \notin ToSet(macs'[n].inputs)
      <4>1. CASE n = Place.mac
        BY <2>3, <3>2, <4>1, NewInputs, BindChanges
      <4>2. CASE n # Place.mac
        BY <3>2, <4>2, BindChanges
      <4> QED
        BY <4>1, <4>2
    <3> QED
      BY <3>3, <3>4
  <2> QED
    BY <2>2, <2>3
<1>4. rtl' \in Seq(RtlTables') /\ Len(rtl') <= Len(macs')
  <2>1. rtl' = <<>> /\ Len(<<>>) = 0 /\ Len(macs') \in Nat
    BY <1>1, BindChanges
  <2> QED
    BY <2>1
<1>5. spec' \in Seq([taps : Nat, half : Nat]) /\ numFirs' \in 0 .. Len(spec')
  BY <1>1 DEF TypeOK
<1> QED
  BY <1>1, <1>2, <1>3, <1>4, <1>5 DEF TypeOK

LEMMA BaseServed ==
  ASSUME TypeOK, BindFir, \A m \in DOMAIN macs : InputsServed(macs[m])
  PROVE  InputsServed(Base)
<1>1. CASE Place.mac \in DOMAIN macs
  BY <1>1, BindChanges
<1>2. CASE Place.mac \notin DOMAIN macs
  <2>1. /\ EmptyMac.inputs = <<>> /\ DOMAIN EmptyMac.inputs = {}
        /\ \A s \in Slots : EmptyMac.update[s] = NoFir /\ EmptyMac.coeff[s].fir = NoFir
    BY DEF EmptyMac, NoCoeff
  <2> QED
    BY <1>2, <2>1, BindChanges DEF InputsServed
<1> QED
  BY <1>1, <1>2

\* The inputs of a MAC differ, each has its Fifo and is served, and nothing else is
\* in its slots: also where the next FIR goes.
LEMMA BindInputs ==
  ASSUME TypeOK, BindFir, \A m \in DOMAIN macs : InputsServed(macs[m])
  PROVE  \A m \in DOMAIN macs' : InputsServed(macs[m])'
<1> SUFFICES ASSUME NEW m \in DOMAIN macs'
             PROVE  InputsServed(macs[m])'
  OBVIOUS
<1>1. UNCHANGED spec
  BY BindChanges
<1>2. CASE m # Place.mac
  <2>1. macs'[m] = macs[m] /\ InputsServed(macs[m])
    BY <1>2, BindChanges
  <2> QED
    BY <1>1, <2>1 DEF InputsServed, Served, Fir
<1>3. CASE m = Place.mac
  <2> DEFINE k == Len(Base.inputs)
  <2>1. macs'[m] = NewMac /\ InputsServed(Base) /\ Base \in MacDescs
    BY <1>3, BindChanges, BaseServed, PlaceFree
  <2>2. /\ k \in Nat /\ DOMAIN Base.inputs = 1 .. k /\ DOMAIN NewMac.inputs = 1 .. k + 1
        /\ \A i \in 1 .. k : NewMac.inputs[i] = Base.inputs[i] /\ Base.inputs[i] \in Firs
        /\ NewMac.inputs[k + 1] = numFirs
        /\ \A i \in 1 .. k + 1 : i \in 1 .. k \/ i = k + 1
    <3>1. Base.inputs \in Seq(Firs) /\ NewMac.inputs = Append(Base.inputs, numFirs)
      BY <2>1, MacParts, NewMacParts
    <3>2. \A i \in 1 .. k : Base.inputs[i] \in Firs
      BY <3>1, ElementOfSeq
    <3> QED
      BY <3>1, <3>2, AppendElements
  <2>3. /\ \A i \in 1 .. k : NewMac.fifos[i] = Base.fifos[i]
        /\ NewMac.fifos[k + 1].fir = numFirs /\ NewMac.fifos[k + 1].depth = NextFir.taps
        /\ NewMac.fifos[k + 1].words = RoundUpToPowerOfTwo(NextFir.taps)
    <3> DEFINE fifo == [fir |-> numFirs, depth |-> NextFir.taps, words |-> RoundUpToPowerOfTwo(NextFir.taps)]
    <3>1. /\ Base.fifos \in Seq([fir : Firs, depth : Nat, words : Nat \ {0}]) /\ Len(Base.fifos) = k
          /\ NewMac.fifos = Append(Base.fifos, fifo)
      BY <2>1, MacParts, NewMacParts
    <3>2. /\ \A i \in 1 .. k : NewMac.fifos[i] = Base.fifos[i]
          /\ NewMac.fifos[k + 1] = fifo
      <4> HIDE DEF fifo
      <4> QED
        BY <3>1, AppendElements
    <3> QED
      BY <3>2
  <2>4. numFirs \notin Firs /\ Fir(numFirs) = NextFir
    BY FirTypes, BindChanges
  <2>5. \A i, j \in 1 .. k + 1 : NewMac.inputs[i] = NewMac.inputs[j] => i = j
    <3>1. \A i, j \in 1 .. k : Base.inputs[i] = Base.inputs[j] => i = j
      BY <2>1, <2>2 DEF InputsServed
    <3>2. \A i \in 1 .. k : NewMac.inputs[i] # NewMac.inputs[k + 1]
      BY <2>2, <2>4
    <3>3. \A i, j \in 1 .. k : NewMac.inputs[i] = NewMac.inputs[j] => i = j
      BY <2>2, <3>1
    <3>4. \A i \in 1 .. k + 1 : i \in 1 .. k \/ i = k + 1
      BY <2>2
    <3> HIDE DEF k
    <3> QED
      BY <3>2, <3>3, <3>4
  <2>6. ASSUME NEW i \in 1 .. k
        PROVE  /\ NewMac.fifos[i].fir = NewMac.inputs[i]
               /\ NewMac.fifos[i].depth = Fir(NewMac.inputs[i]).taps
               /\ NewMac.fifos[i].words = RoundUpToPowerOfTwo(NewMac.fifos[i].depth)
               /\ Served(NewMac, NewMac.inputs[i])
    <3>1. /\ Base.fifos[i].fir = Base.inputs[i]
          /\ Base.fifos[i].depth = Fir(Base.inputs[i]).taps
          /\ Base.fifos[i].words = RoundUpToPowerOfTwo(Base.fifos[i].depth)
          /\ Served(Base, Base.inputs[i])
      BY <2>1, <2>2 DEF InputsServed
    <3> DEFINE f == Base.inputs[i]
    <3>2. f # NoFir
      BY <2>2, FirTypes
    <3>3. \A s \in Slots : Base.update[s] = f => NewMac.update[s] = f
      BY <3>2, NewMacParts, PlaceFree
    <3>4. \A s \in Slots, d \in 0 .. Due(Fir(f)) - 1 : RowSlot(s, -d) \in Slots
      BY RowSlotIn
    <3>5. Served(NewMac, f)
      BY <3>1, <3>3, <3>4 DEF Served
    <3> QED
      BY <2>2, <2>3, <3>1, <3>5
  <2>7. /\ NewMac.fifos[k + 1].fir = NewMac.inputs[k + 1]
        /\ NewMac.fifos[k + 1].depth = Fir(NewMac.inputs[k + 1]).taps
        /\ NewMac.fifos[k + 1].words = RoundUpToPowerOfTwo(NewMac.fifos[k + 1].depth)
        /\ Served(NewMac, NewMac.inputs[k + 1])
    <3>1. ASSUME NEW s \in Slots
          PROVE  \E d \in 0 .. Due(NextFir) - 1 : NewMac.update[RowSlot(s, -d)] = numFirs
      <4>1. PICK d \in 0 .. Due(NextFir) - 1 : RowSlot(s, -d) \in Updates
        BY FirPasses, PlaceFree, UpdateSoon DEF Updates, Period
      <4>2. NewMac.update[RowSlot(s, -d)] = numFirs
        BY <4>1, PlaceFree, NewMacParts
      <4> QED
        BY <4>2
    <3> QED
      BY <2>2, <2>3, <2>4, <3>1 DEF Served
  <2>8. ASSUME NEW s \in Slots
        PROVE  /\ NewMac.update[s] \in ToSet(NewMac.inputs) \cup {NoFir}
               /\ NewMac.coeff[s].fir \in ToSet(NewMac.inputs) \cup {NoFir}
    <3>1. /\ Base.update[s] \in ToSet(Base.inputs) \cup {NoFir}
          /\ Base.coeff[s].fir \in ToSet(Base.inputs) \cup {NoFir}
      BY <2>1 DEF InputsServed
    <3>2. NewMac.update[s] \in {numFirs, Base.update[s]}
      BY NewMacParts
    <3>3. NewMac.coeff[s].fir \in {numFirs, Base.coeff[s].fir}
      <4>1. CASE s \in Rows
        <5>1. PICK i \in 0 .. NextFir.taps - 1 :
                     NewMac.coeff[s] = [fir |-> numFirs, tap |-> NextFir.taps - 1 - i]
          BY <4>1, NewMacParts
        <5> QED
          BY <5>1
      <4>2. CASE s \notin Rows
        BY <4>2, NewMacParts
      <4> QED
        BY <4>1, <4>2
    <3> QED
      BY <3>1, <3>2, <3>3, NewInputs
  <2> HIDE DEF k
  <2>9. /\ \A i, j \in DOMAIN NewMac.inputs : NewMac.inputs[i] = NewMac.inputs[j] => i = j
        /\ \A i \in DOMAIN NewMac.inputs :
            /\ NewMac.fifos[i].fir = NewMac.inputs[i]
            /\ NewMac.fifos[i].depth = Fir(NewMac.inputs[i]).taps
            /\ NewMac.fifos[i].words = RoundUpToPowerOfTwo(NewMac.fifos[i].depth)
            /\ Served(NewMac, NewMac.inputs[i])
    BY <2>2, <2>5, <2>6, <2>7
  <2> QED
    BY <1>1, <2>1, <2>8, <2>9 DEF InputsServed, Served, Fir
<1> QED
  BY <1>2, <1>3

LEMMA BindFits ==
  ASSUME TypeOK, BindFir, FirsFit
  PROVE  FirsFit'
<1>1. ASSUME NEW f \in Firs'
      PROVE  ClocksPerSample(Fir(f)') > 0 /\ Fir(f)'.taps <= Interval(Fir(f)')
  <2>1. Fir(f)' = Fir(f)
    BY FirsGrow
  <2>2. CASE f = numFirs
    <3>1. Fir(f) = NextFir /\ ClocksPerSample(NextFir) > 0 /\ NextFir.taps <= Interval(NextFir)
      BY <2>2, FirPasses, BindChanges DEF Period
    <3> QED
      BY <2>1, <3>1
  <2>3. CASE f \in Firs
    BY <2>1, <2>3 DEF FirsFit
  <2> QED
    BY <2>2, <2>3, FirsGrow
<1> QED
  BY <1>1 DEF FirsFit

\* The rows of the FIRs stay whole, and so are those of the next.
LEMMA BindRows ==
  ASSUME TypeOK, BindFir, FirsFit, \A m \in DOMAIN macs : InputsServed(macs[m]), RowsWhole
  PROVE  RowsWhole'
<1> SUFFICES ASSUME NEW m \in DOMAIN macs', NEW u \in Slots, macs'[m].update[u] # NoFir,
                    NumTimeSlots % Interval(Fir(macs'[m].update[u])) = 0,
                    NEW i \in 0 .. Fir(macs'[m].update[u]).taps - 1
             PROVE  macs'[m].coeff[RowSlot(u, i)]
                      = [fir |-> macs'[m].update[u], tap |-> Fir(macs'[m].update[u]).taps - 1 - i]
  <2>1. UNCHANGED spec
    BY BindChanges
  <2> QED
    BY <2>1 DEF RowsWhole, Fir
<1> DEFINE f == macs'[m].update[u]
<1>1. CASE m # Place.mac
  <2>1. m \in DOMAIN macs /\ macs'[m] = macs[m]
    BY <1>1, BindChanges
  <2> QED
    BY <2>1 DEF RowsWhole
<1>2. CASE m = Place.mac /\ u \in Updates
  <2>1. macs'[m] = NewMac /\ f = numFirs /\ Fir(f) = NextFir
    BY <1>2, NewMacParts, BindChanges
  <2>2. i \in 0 .. NextFir.taps - 1
    BY <2>1
  <2>3. RowSlot(u, i) \in Rows
    BY <1>2, <2>2 DEF Rows, RowSlots, Updates
  <2>4. PICK v \in Updates, j \in 0 .. NextFir.taps - 1 :
               /\ RowSlot(v, j) = RowSlot(u, i)
               /\ NewMac.coeff[RowSlot(u, i)] = [fir |-> numFirs, tap |-> NextFir.taps - 1 - j]
    BY <2>3, NewMacParts
  <2>5. i = j
    <3>1. NumTimeSlots % Period = 0
      BY <2>1 DEF Period
    <3>2. i \in 0 .. Period - 1 /\ j \in 0 .. Period - 1
      BY <2>2, FirPasses
    <3> QED
      BY <1>2, <2>4, <3>1, <3>2, FirPasses, PlaceFree, RowsDiffer DEF Updates
  <2> QED
    BY <2>1, <2>4, <2>5
<1>3. CASE m = Place.mac /\ u \notin Updates
  <2>1. macs'[m] = NewMac /\ f = Base.update[u]
    BY <1>3, NewMacParts, BindChanges
  <2>2. Place.mac \in DOMAIN macs /\ Base = macs[Place.mac]
    <3>1. Base # EmptyMac
      BY <2>1 DEF EmptyMac
    <3> QED
      BY <3>1, BindChanges
  <2>3. Base.coeff[RowSlot(u, i)] = [fir |-> f, tap |-> Fir(f).taps - 1 - i]
    BY <2>1, <2>2 DEF RowsWhole
  <2>4. RowSlot(u, i) \in Slots /\ RowSlot(u, i) \notin Rows
    <3>1. f \in Firs
      BY <2>1, PlaceFree, MacParts
    <3>2. i \in Int
      OBVIOUS
    <3>3. Base.coeff[RowSlot(u, i)].fir # NoFir
      BY <2>3
    <3> QED
      BY <3>2, <3>3, RowSlotIn, PlaceFree
  <2>5. NewMac.coeff[RowSlot(u, i)] = Base.coeff[RowSlot(u, i)]
    BY <2>4, NewMacParts
  <2> QED
    BY <2>1, <2>3, <2>5
<1> QED
  BY <1>1, <1>2, <1>3

-----------------------------------------------------------------------------
(* The inductive invariant *)

\* While nothing is bound there is nothing to say of the FIRs.
LEMMA NothingBound ==
  ASSUME macs = <<>>, numFirs = 0, rtl = <<>>
  PROVE  /\ Firs = {} /\ DOMAIN macs = {} /\ DOMAIN rtl = {}
         /\ macs \in Seq(MacDescs) /\ rtl \in Seq(RtlTables) /\ Len(rtl) = 0 /\ Len(macs) = 0
         /\ FirsFit /\ RowsWhole /\ RtlWhole /\ \A m \in DOMAIN macs : InputsServed(macs[m])
<1>1. Firs = {}
  BY DEF Firs
<1>2. DOMAIN macs = {} /\ DOMAIN rtl = {} /\ Len(rtl) = 0 /\ Len(macs) = 0
  OBVIOUS
<1>3. macs \in Seq(MacDescs) /\ rtl \in Seq(RtlTables)
  BY EmptySeq
<1> QED
  BY <1>1, <1>2, <1>3 DEF FirsFit, RowsWhole, RtlWhole

LEMMA InitInv == Init => IInv
<1> SUFFICES ASSUME Init PROVE IInv
  OBVIOUS
<1>1. phase = "reading" /\ spec = <<>> /\ macs = <<>> /\ numFirs = 0 /\ rtl = <<>>
  BY DEF Init
<1>2. spec \in Seq([taps : Nat, half : Nat]) /\ Len(spec) = 0
  BY <1>1
<1>3. TypeOK
  BY <1>1, <1>2, NothingBound DEF TypeOK
<1> QED
  BY <1>1, <1>3, NothingBound DEF IInv, PhaseInv

\* The lines of the file that make FIRs.
LEMMA GrownLines ==
  ASSUME TypeOK, NEW i \in Nat
  PROVE  Grown(i) \in Seq([taps : Nat, half : Nat]) /\ i + 1 \in 1 .. Len(Grown(i))
<1> DEFINE n == Max({Len(spec), i + 1})
           T == [taps : Nat, half : Nat]
<1>1. Len(spec) \in Nat /\ i + 1 \in Nat
  BY DEF TypeOK
<1>2. n \in {Len(spec), i + 1} /\ n >= i + 1
  BY <1>1, MaxOfTwo
<1>3. n \in Nat /\ i + 1 \in 1 .. n
  <2> HIDE DEF n
  <2> QED
    BY <1>1, <1>2
<1>4. DefaultFir \in T
  BY DefaultAssumption DEF DefaultFir
<1>5. \A k \in 1 .. n : (IF k <= Len(spec) THEN spec[k] ELSE DefaultFir) \in T
  <2>1. \A k \in 1 .. Len(spec) : spec[k] \in T
    <3>1. spec \in Seq(T)
      BY DEF TypeOK
    <3> QED
      BY <3>1, ElementOfSeq
  <2> HIDE DEF n, T
  <2> QED
    BY <1>1, <1>3, <1>4, <2>1
<1>6. Grown(i) = [k \in 1 .. n |-> IF k <= Len(spec) THEN spec[k] ELSE DefaultFir]
  BY DEF Grown
<1> HIDE DEF n, T
<1>7. Grown(i) \in [1 .. n -> T]
  BY <1>5, <1>6
<1>8. Grown(i) \in Seq(T)
  BY <1>3, <1>7, SeqDef
<1>9. Len(Grown(i)) = n
  <2>1. Len(Grown(i)) \in Nat /\ DOMAIN Grown(i) = 1 .. Len(Grown(i))
    BY <1>8, LenProperties
  <2> QED
    BY <1>3, <1>7, <2>1, SameLength
<1> QED
  BY <1>3, <1>8, <1>9 DEF T

LEMMA ReadInv ==
  ASSUME IInv, phase = "reading", UNCHANGED <<phase, macs, numFirs, rtl>>,
         spec' \in Seq([taps : Nat, half : Nat])
  PROVE  IInv'
<1>1. macs = <<>> /\ numFirs = 0 /\ rtl = <<>>
  BY DEF IInv, PhaseInv
<1>2. macs' = <<>> /\ numFirs' = 0 /\ rtl' = <<>> /\ phase' = "reading"
  BY <1>1
<1>3. /\ Firs' = {} /\ DOMAIN macs' = {} /\ DOMAIN rtl' = {}
      /\ macs' \in Seq(MacDescs') /\ rtl' \in Seq(RtlTables') /\ Len(rtl') = 0 /\ Len(macs') = 0
      /\ FirsFit' /\ RowsWhole' /\ RtlWhole' /\ (\A m \in DOMAIN macs : InputsServed(macs[m]))'
  <2>1. Firs' = {} /\ DOMAIN macs' = {} /\ DOMAIN rtl' = {} /\ Len(rtl') = 0 /\ Len(macs') = 0
    BY <1>2 DEF Firs
  <2>2. macs' \in Seq(MacDescs') /\ rtl' \in Seq(RtlTables')
    BY <1>2, EmptySeq
  <2> QED
    BY <2>1, <2>2 DEF FirsFit, RowsWhole, RtlWhole
<1>4. Len(spec') \in Nat
  BY LenProperties
<1>5. TypeOK'
  BY <1>2, <1>3, <1>4 DEF TypeOK
<1> QED
  BY <1>2, <1>3, <1>5 DEF IInv, PhaseInv

\* A step that only ends a phase.
LEMMA PhaseStep ==
  ASSUME IInv, UNCHANGED <<spec, macs, numFirs, rtl>>, PhaseInv',
         phase' \in {"reading", "binding", "generating", "generated", "failed", "aborted"}
  PROVE  IInv'
<1>1. Firs' = Firs /\ MacDescs' = MacDescs /\ RtlTables' = RtlTables
  BY DEF Firs, MacDescs, RtlTables
<1>2. TypeOK'
  BY <1>1 DEF IInv, TypeOK
<1>3. FirsFit'
  BY <1>1 DEF IInv, FirsFit, Fir
<1>4. (\A m \in DOMAIN macs : InputsServed(macs[m]))'
  BY DEF IInv, InputsServed, Served, Fir
<1>5. RowsWhole'
  BY DEF IInv, RowsWhole, Fir
<1>6. RtlWhole'
  BY DEF IInv, RtlWhole
<1> QED
  BY <1>2, <1>3, <1>4, <1>5, <1>6 DEF IInv

LEMMA BindInv ==
  ASSUME IInv, BindFir
  PROVE  IInv'
<1>1. /\ TypeOK /\ PhaseInv /\ FirsFit /\ RowsWhole /\ \A m \in DOMAIN macs : InputsServed(macs[m])
      /\ phase = "binding" /\ rtl = <<>>
  BY BindChanges DEF IInv, PhaseInv
<1>2. phase' = "binding" /\ rtl' = <<>>
  BY <1>1, BindChanges
<1>3. TypeOK' /\ FirsFit' /\ RowsWhole' /\ (\A m \in DOMAIN macs : InputsServed(macs[m]))'
  BY <1>1, BindTypes, BindFits, BindRows, BindInputs
<1>4. RtlWhole' /\ PhaseInv'
  BY <1>2 DEF RtlWhole, PhaseInv
<1> QED
  BY <1>3, <1>4 DEF IInv

\* What GenerateMac adds, for some order of the Fifos.
Generated(order) ==
    [channel |-> ChannelSelect(NextMac), update |-> DoUpdate(NextMac),
     first |-> FirstTap(NextMac), mul |-> MulMode(NextMac),
     rdFifo |-> RdFifoNum(NextMac), upFifo |-> UpdateFifoNum(NextMac), fifos |-> order]

LEMMA TablesTyped ==
  ASSUME NEW mac \in MacDescs, InputsServed(mac)
  PROVE  /\ ChannelSelect(mac) \in [Slots -> Nat] /\ DoUpdate(mac) \in [Slots -> BOOLEAN]
         /\ FirstTap(mac) \in [Slots -> BOOLEAN] /\ MulMode(mac) \in [Slots -> {0, 1}]
         /\ RdFifoNum(mac) \in [Slots -> Nat] /\ UpdateFifoNum(mac) \in [Slots -> Nat]
<1>1. \A f \in ToSet(mac.inputs) : InputIndex(mac, f) \in Nat /\ FifoIndex(mac.fifos, f) \in Nat
  <2>1. /\ Len(mac.inputs) \in Nat /\ DOMAIN mac.inputs = 1 .. Len(mac.inputs)
        /\ DOMAIN mac.fifos = DOMAIN mac.inputs
        /\ \A i \in DOMAIN mac.inputs : mac.fifos[i].fir = mac.inputs[i]
    BY MacParts DEF InputsServed
  <2> QED
    BY <2>1, Positions
<1>2. \A s \in Slots : /\ mac.update[s] = NoFir \/ mac.update[s] \in ToSet(mac.inputs)
                       /\ mac.coeff[s].fir = NoFir \/ mac.coeff[s].fir \in ToSet(mac.inputs)
  BY DEF InputsServed
<1>3. ChannelSelect(mac) \in [Slots -> Nat]
  BY <1>1, <1>2 DEF ChannelSelect, NoChannel
<1>4. DoUpdate(mac) \in [Slots -> BOOLEAN] /\ FirstTap(mac) \in [Slots -> BOOLEAN]
  BY DEF DoUpdate, FirstTap
<1>5. MulMode(mac) \in [Slots -> {0, 1}]
  BY DEF MulMode
<1>6. RdFifoNum(mac) \in [Slots -> Nat]
  BY <1>1, <1>2 DEF RdFifoNum
<1>7. UpdateFifoNum(mac) \in [Slots -> Nat]
  BY <1>1, <1>2 DEF UpdateFifoNum
<1> QED
  BY <1>3, <1>4, <1>5, <1>6, <1>7

LEMMA GenerateInv ==
  ASSUME IInv, GenerateMac
  PROVE  IInv'
<1>1. PICK order \in DescendingOrders(NextMac.fifos) : Generable(order) /\ rtl' = Append(rtl, Generated(order))
  BY DEF GenerateMac, Generated
<1>2. phase = "generating" /\ Len(rtl) < Len(macs) /\ UNCHANGED <<phase, spec, macs, numFirs>>
  BY DEF GenerateMac
<1>3. TypeOK /\ FirsFit /\ RowsWhole /\ RtlWhole /\ \A m \in DOMAIN macs : InputsServed(macs[m])
  BY DEF IInv
<1> DEFINE k == Len(rtl) + 1
<1>4. /\ rtl \in Seq(RtlTables) /\ Len(rtl) \in Nat /\ Len(macs) \in Nat
      /\ k \in DOMAIN macs /\ NextMac = macs[k] /\ NextMac \in MacDescs /\ InputsServed(NextMac)
  <2>1. /\ rtl \in Seq(RtlTables) /\ Len(rtl) \in Nat
        /\ Len(macs) \in Nat /\ DOMAIN macs = 1 .. Len(macs) /\ macs \in Seq(MacDescs)
    BY <1>3, LenProperties DEF TypeOK
  <2>2. k \in 1 .. Len(macs)
    BY <1>2, <2>1
  <2>3. macs[k] \in MacDescs
    BY <2>1, <2>2, ElementOfSeq
  <2> QED
    BY <1>3, <2>1, <2>2, <2>3 DEF NextMac
<1>5. order \in Seq([fir : Firs, depth : Nat, words : Nat \ {0}])
  <2> DEFINE T == [fir : Firs, depth : Nat, words : Nat \ {0}]
             q == NextMac.fifos
  <2>1. q \in Seq(T)
    BY <1>4, MacParts
  <2>2. order \in DescendingOrders(q)
    BY <1>1
  <2> HIDE DEF T, q
  <2>3. order \in Seq(T)
    BY <2>1, <2>2, OrderComplete
  <2> QED
    BY <2>3 DEF T
<1>6. Generated(order) \in RtlTables
  BY <1>4, <1>5, TablesTyped DEF Generated, RtlTables
<1>7. /\ rtl' \in Seq(RtlTables) /\ Len(rtl') = k /\ DOMAIN rtl' = 1 .. k
      /\ rtl'[k] = Generated(order) /\ \A m \in 1 .. Len(rtl) : rtl'[m] = rtl[m]
  BY <1>1, <1>4, <1>6, AppendElements, AppendProperties
<1>8. Firs' = Firs /\ MacDescs' = MacDescs /\ RtlTables' = RtlTables
  BY <1>2 DEF Firs, MacDescs, RtlTables
<1>9. TypeOK'
  <2>1. Len(rtl') <= Len(macs')
    BY <1>2, <1>4, <1>7
  <2> QED
    BY <1>2, <1>3, <1>7, <1>8, <2>1 DEF TypeOK
<1>10. PhaseInv'
  BY <1>2 DEF IInv, PhaseInv
<1>11. FirsFit' /\ RowsWhole' /\ (\A m \in DOMAIN macs : InputsServed(macs[m]))'
  <2>1. FirsFit'
    BY <1>2, <1>3, <1>8 DEF FirsFit, Fir
  <2>2. RowsWhole'
    BY <1>2, <1>3 DEF RowsWhole, Fir
  <2>3. (\A m \in DOMAIN macs : InputsServed(macs[m]))'
    BY <1>2, <1>3 DEF InputsServed, Served, Fir
  <2> QED
    BY <2>1, <2>2, <2>3
<1>12. ASSUME NEW m \in 1 .. k
       PROVE  /\ rtl'[m].update = DoUpdate(macs[m]) /\ rtl'[m].channel = ChannelSelect(macs[m])
              /\ rtl'[m].fifos \in DescendingOrders(macs[m].fifos) /\ Generable(rtl'[m].fifos)
  <2>1. CASE m = k
    BY <1>1, <1>4, <1>7, <2>1 DEF Generated
  <2>2. CASE m # k
    <3>1. m \in 1 .. Len(rtl) /\ m \in DOMAIN rtl
      BY <1>4, <2>2
    <3> QED
      BY <1>3, <1>7, <3>1 DEF RtlWhole
  <2> QED
    BY <2>1, <2>2
<1>13. RtlWhole'
  BY <1>2, <1>7, <1>12 DEF RtlWhole
<1> QED
  BY <1>9, <1>10, <1>11, <1>13 DEF IInv

LEMMA NextInv == IInv /\ [Next]_vars => IInv'
<1> SUFFICES ASSUME IInv, [Next]_vars PROVE IInv'
  OBVIOUS
<1>1. ASSUME NEW i \in FirNumbers, NEW half \in Rates, ReadSampleRate(i, half) PROVE IInv'
  <2>1. i \in Nat /\ half \in Nat
    BY NumbersAssumption, LinesAssumption
  <2>2. Grown(i) \in Seq([taps : Nat, half : Nat]) /\ i + 1 \in 1 .. Len(Grown(i))
    BY <2>1, GrownLines DEF IInv
  <2>3. Grown(i)[i + 1] \in [taps : Nat, half : Nat]
    BY <2>2, ElementOfSeq
  <2>4. [Grown(i)[i + 1] EXCEPT !.half = half] \in [taps : Nat, half : Nat]
    BY <2>1, <2>3
  <2>5. spec' \in Seq([taps : Nat, half : Nat])
    <3>1. spec' = [Grown(i) EXCEPT ![i + 1] = [Grown(i)[i + 1] EXCEPT !.half = half]]
      BY <1>1 DEF ReadSampleRate
    <3> QED
      BY <2>2, <2>4, <3>1, ExceptSeq
  <2> QED
    BY <1>1, <2>5, ReadInv DEF ReadSampleRate
<1>2. ASSUME NEW i \in FirNumbers, NEW taps \in TapCounts, ReadCoeff(i, taps) PROVE IInv'
  <2>1. i \in Nat /\ taps \in Nat
    BY NumbersAssumption, LinesAssumption
  <2>2. Grown(i) \in Seq([taps : Nat, half : Nat]) /\ i + 1 \in 1 .. Len(Grown(i))
    BY <2>1, GrownLines DEF IInv
  <2>3. Grown(i)[i + 1] \in [taps : Nat, half : Nat]
    BY <2>2, ElementOfSeq
  <2>4. [Grown(i)[i + 1] EXCEPT !.taps = taps] \in [taps : Nat, half : Nat]
    BY <2>1, <2>3
  <2>5. spec' \in Seq([taps : Nat, half : Nat])
    <3>1. spec' = [Grown(i) EXCEPT ![i + 1] = [Grown(i)[i + 1] EXCEPT !.taps = taps]]
      BY <1>2 DEF ReadCoeff
    <3> QED
      BY <2>2, <2>4, <3>1, ExceptSeq
  <2> QED
    BY <1>2, <2>5, ReadInv DEF ReadCoeff
<1>3. CASE SyntaxError
  BY <1>3, PhaseStep DEF SyntaxError, IInv, PhaseInv
<1>4. CASE EndOfFile
  BY <1>4, PhaseStep DEF EndOfFile, IInv, PhaseInv
<1>5. CASE BindFir
  BY <1>5, BindInv
<1>6. CASE RejectFir
  BY <1>6, PhaseStep DEF RejectFir, IInv, PhaseInv
<1>7. CASE DivideByZero
  BY <1>7, PhaseStep DEF DivideByZero, IInv, PhaseInv
<1>8. CASE StartGenerating
  BY <1>8, PhaseStep DEF StartGenerating, IInv, PhaseInv
<1>9. CASE GenerateMac
  BY <1>9, GenerateInv
<1>10. CASE AssertionFails
  BY <1>10, PhaseStep DEF AssertionFails, IInv, PhaseInv
<1>11. CASE Finish
  BY <1>11, PhaseStep DEF Finish, IInv, PhaseInv
<1>12. CASE UNCHANGED vars
  <2>1. PhaseInv' /\ phase' = phase
    BY <1>12 DEF vars, IInv, PhaseInv
  <2> QED
    BY <1>12, <2>1, PhaseStep DEF vars, IInv, TypeOK
<1> QED
  BY <1>1, <1>2, <1>3, <1>4, <1>5, <1>6, <1>7, <1>8, <1>9, <1>10, <1>11, <1>12 DEF Next

-----------------------------------------------------------------------------
(* The theorems *)

\* In every state that the builder reaches, for any file and any number of time
\* slots, a MAC holds what belongs to its inputs and no more, each input is
\* updated in time, the rows are whole and what was generated is of whole FIRs.
THEOREM Invariance == Spec => []IInv
<1>1. Init => IInv
  BY InitInv
<1>2. IInv /\ [Next]_vars => IInv'
  BY NextInv
<1> QED
  BY <1>1, <1>2, PTL DEF Spec

\* The descriptions of the MACs stay well formed: no MAC has more inputs than the
\* channel numbers can tell apart, and every FIR is an input of exactly one MAC
\* (findValidBinding, bind).
THEOREM TypeCorrect == Spec => []TypeOK
<1>1. IInv => TypeOK
  BY DEF IInv
<1> QED
  BY <1>1, Invariance, PTL

\* Where the interval divides the round of time slots, each update of a FIR ends a
\* row with all its coefficients in order (bind, firenginedescbind.cpp).
THEOREM RowsAreWhole == Spec => []RowsWhole
<1>1. IInv => RowsWhole
  BY DEF IInv
<1> QED
  BY <1>1, Invariance, PTL

LEMMA EveryFirServed == IInv => UpdatedInTime
<1> SUFFICES ASSUME IInv, NEW f \in Firs
             PROVE  \E m \in DOMAIN macs : Served(macs[m], f)
  BY DEF UpdatedInTime
<1>1. PICK m \in DOMAIN macs : f \in ToSet(macs[m].inputs)
  BY DEF IInv, TypeOK
<1>2. PICK i \in DOMAIN macs[m].inputs : macs[m].inputs[i] = f
  BY <1>1 DEF ToSet
<1>3. InputsServed(macs[m])
  BY DEF IInv
<1> QED
  BY <1>2, <1>3 DEF InputsServed

\* Every FIR that is bound is updated, from any time slot on, before the clocks
\* between two of its samples are over, or within two intervals where the interval
\* does not divide the round of time slots (calculateUpdateInterval, bind).
THEOREM UpdatesInTime == Spec => []UpdatedInTime
BY EveryFirServed, Invariance, PTL

LEMMA WholeFirs == IInv => OnlyWholeFirs
<1> SUFFICES ASSUME IInv, phase = "generated"
             PROVE  /\ numFirs = Len(spec)
                    /\ \A f \in Firs : Fir(f).taps \in 1 .. Interval(Fir(f))
                    /\ \A m \in DOMAIN macs : \A i \in DOMAIN macs[m].inputs :
                        \E s \in Slots : rtl[m].update[s] /\ rtl[m].channel[s] = i - 1
  BY DEF OnlyWholeFirs
<1>1. numFirs = Len(spec) /\ Len(rtl) = Len(macs)
  BY DEF IInv, PhaseInv
<1>2. TypeOK /\ FirsFit /\ RtlWhole /\ \A m \in DOMAIN macs : InputsServed(macs[m])
  BY DEF IInv
<1>3. DOMAIN rtl = DOMAIN macs /\ \A m \in DOMAIN macs : macs[m] \in MacDescs
  <2>1. rtl \in Seq(RtlTables) /\ macs \in Seq(MacDescs)
    BY <1>2 DEF TypeOK
  <2> QED
    BY <1>1, <2>1, LenProperties, ElementOfSeq
<1>4. ASSUME NEW f \in Firs
      PROVE  Fir(f).taps \in 1 .. Interval(Fir(f))
  <2>1. PICK m \in DOMAIN macs : f \in ToSet(macs[m].inputs)
    BY <1>2 DEF TypeOK
  <2>2. PICK i \in DOMAIN macs[m].inputs : macs[m].inputs[i] = f
    BY <2>1 DEF ToSet
  <2>3. macs[m].fifos[i].depth = Fir(f).taps /\ i \in DOMAIN macs[m].fifos
    BY <1>2, <1>3, <2>2, MacParts DEF InputsServed
  <2>4. Fir(f).taps \in 1 .. 64
    <3> DEFINE T == [fir : Firs, depth : Nat, words : Nat \ {0}]
    <3>1. /\ macs[m].fifos \in Seq(T) /\ rtl[m].fifos \in DescendingOrders(macs[m].fifos)
          /\ \A j \in DOMAIN rtl[m].fifos : rtl[m].fifos[j].depth \in 1 .. 64
      <4>1. macs[m].fifos \in Seq(T)
        BY <1>3, MacParts
      <4>2. rtl[m].fifos \in DescendingOrders(macs[m].fifos) /\ Generable(rtl[m].fifos)
        BY <1>2, <1>3 DEF RtlWhole
      <4>3. \A j \in DOMAIN rtl[m].fifos : rtl[m].fifos[j].depth \in 1 .. 64
        BY <4>2 DEF Generable
      <4> QED
        BY <4>1, <4>2, <4>3
    <3> HIDE DEF T
    <3>2. PICK j \in DOMAIN rtl[m].fifos : rtl[m].fifos[j] = macs[m].fifos[i]
      BY <2>3, <3>1, OrderComplete
    <3> QED
      BY <2>3, <3>1, <3>2
  <2>5. Fir(f) \in [taps : Nat, half : Nat] /\ ClocksPerSample(Fir(f)) > 0 /\ Fir(f).taps <= Interval(Fir(f))
    BY <1>2, FirTypes DEF FirsFit
  <2>6. Interval(Fir(f)) \in Int
    <3>1. ClocksPerSample(Fir(f)) \in Nat \ {0}
      BY <2>5 DEF ClocksPerSample
    <3>2. Interval(Fir(f)) \in 1 .. NumTimeSlots
      BY <3>1, IntervalRange
    <3> QED
      BY <3>2
  <2> QED
    BY <2>4, <2>5, <2>6
<1>5. ASSUME NEW m \in DOMAIN macs, NEW i \in DOMAIN macs[m].inputs
      PROVE  \E s \in Slots : rtl[m].update[s] /\ rtl[m].channel[s] = i - 1
  <2> DEFINE mac == macs[m]
             f == mac.inputs[i]
  <2>1. InputsServed(mac) /\ mac \in MacDescs
    BY <1>2, <1>3
  <2>2. f \in ToSet(mac.inputs) /\ f \in Firs /\ f # NoFir
    <3>1. f \in ToSet(mac.inputs)
      BY DEF ToSet
    <3> QED
      BY <1>2, <2>1, <3>1, FirTypes, MacParts
  <2>3. PICK s \in Slots : mac.update[s] = f
    <3>1. 0 \in Slots
      BY SlotsAssumption DEF Slots
    <3>2. PICK d \in 0 .. Due(Fir(f)) - 1 : mac.update[RowSlot(0, -d)] = f
      BY <2>1, <3>1 DEF InputsServed, Served
    <3>3. RowSlot(0, -d) \in Slots
      <4>1. -d \in Int
        OBVIOUS
      <4> QED
        BY <3>1, <4>1, RowSlotIn
    <3> QED
      BY <3>2, <3>3
  <2>4. InputIndex(mac, f) = i - 1
    <3>1. PICK j \in DOMAIN mac.inputs : mac.inputs[j] = f /\ InputIndex(mac, f) = j - 1
      BY <2>1, <2>2, MacParts, Positions DEF InputsServed
    <3>2. j = i
      BY <2>1, <3>1 DEF InputsServed
    <3> QED
      BY <3>1, <3>2
  <2>5. rtl[m].update = DoUpdate(mac) /\ rtl[m].channel = ChannelSelect(mac)
    BY <1>2, <1>3 DEF RtlWhole
  <2>6. rtl[m].update[s]
    BY <2>2, <2>3, <2>5 DEF DoUpdate
  <2>7. rtl[m].channel[s] = i - 1
    BY <2>2, <2>3, <2>4, <2>5 DEF ChannelSelect
  <2> QED
    BY <2>6, <2>7
<1> QED
  BY <1>1, <1>4, <1>5

\* A build that completes has bound every FIR of the file, each with coefficients
\* and no more of them than clocks between its updates, and every input of a MAC
\* has a slot in which the generated tables update it (the assertions of
\* firenginemacdescgen.cpp, the tests of bindFir).
THEOREM WholeBuilds == Spec => []OnlyWholeFirs
BY WholeFirs, Invariance, PTL

LEMMA KeptSlots ==
  ASSUME IInv, [Next]_vars, NEW m \in DOMAIN macs, NEW s \in Slots
  PROVE  /\ macs[m].coeff[s].fir # NoFir => macs'[m].coeff[s] = macs[m].coeff[s]
         /\ macs[m].update[s] # NoFir => macs'[m].update[s] = macs[m].update[s]
<1>1. CASE BindFir
  <2>1. TypeOK
    BY DEF IInv
  <2>2. CASE m = Place.mac
    <3>1. macs'[m] = NewMac /\ macs[m] = Base
      BY <1>1, <2>1, <2>2, BindChanges
    <3>2. Base.coeff[s].fir # NoFir => s \notin Rows
      BY <1>1, <2>1, PlaceFree
    <3>3. Base.update[s] # NoFir => s \notin Updates
      BY <1>1, <2>1, PlaceFree
    <3> QED
      BY <1>1, <2>1, <3>1, <3>2, <3>3, NewMacParts
  <2>3. CASE m # Place.mac
    BY <1>1, <2>1, <2>3, BindChanges
  <2> QED
    BY <2>2, <2>3
<1>2. CASE ~BindFir
  <2>1. macs' = macs
    BY <1>2 DEF Next, vars, ReadSampleRate, ReadCoeff, SyntaxError, EndOfFile, RejectFir,
                DivideByZero, StartGenerating, GenerateMac, AssertionFails, Finish
  <2> QED
    BY <2>1
<1> QED
  BY <1>1, <1>2

\* A step of the builder never takes a slot from a FIR that was bound before: what
\* canBind looks at is all that bind writes.
THEOREM BindingKeepsSlots == Spec => SlotsKept
<1>1. IInv /\ [Next]_vars =>
        [\A m \in DOMAIN macs : \A s \in Slots :
            /\ macs[m].coeff[s].fir # NoFir => macs'[m].coeff[s] = macs[m].coeff[s]
            /\ macs[m].update[s] # NoFir => macs'[m].update[s] = macs[m].update[s]]_vars
  BY KeptSlots
<1> QED
  BY <1>1, Invariance, PTL DEF Spec, SlotsKept

\* The Fifos of a generated MAC are those of its description, the larger first.
LEMMA GeneratedFifos ==
  ASSUME IInv, NEW m \in DOMAIN rtl
  PROVE  LaidOut(rtl[m].fifos)
<1> DEFINE T == [fir : Firs, depth : Nat, words : Nat \ {0}]
           fifos == macs[m].fifos
           order == rtl[m].fifos
<1>1. m \in DOMAIN macs /\ macs[m] \in MacDescs
  <2>1. /\ rtl \in Seq(RtlTables) /\ macs \in Seq(MacDescs) /\ Len(rtl) <= Len(macs)
    BY DEF IInv, TypeOK
  <2>2. m \in DOMAIN macs
    BY <2>1, LenProperties
  <2> QED
    BY <2>1, <2>2, LenProperties, ElementOfSeq
<1>2. order \in DescendingOrders(fifos) /\ Generable(order)
  BY DEF IInv, RtlWhole
<1>3. fifos \in Seq(T) /\ \A i \in DOMAIN fifos : fifos[i].words = RoundUpToPowerOfTwo(fifos[i].depth)
  BY <1>1, MacParts DEF IInv, InputsServed
<1>4. \A i \in DOMAIN order : order[i].depth \in 1 .. 64
  BY <1>2 DEF Generable
<1> HIDE DEF T, fifos, order
<1>5. /\ order \in Seq(T)
      /\ \A j \in DOMAIN order : \E i \in DOMAIN fifos : order[j] = fifos[i]
      /\ \A j \in 1 .. Len(order) - 1 : order[j].words >= order[j + 1].words
  BY <1>2, <1>3, OrderComplete
<1>6. Len(order) \in Nat /\ DOMAIN order = 1 .. Len(order)
  BY <1>5, LenProperties
<1>7. LaidOut(order)
  BY <1>3, <1>4, <1>5, <1>6 DEF LaidOut
<1> QED
  BY <1>7 DEF order

LEMMA RegionsOfMac ==
  ASSUME IInv, NEW m \in DOMAIN rtl, NEW i \in DOMAIN rtl[m].fifos
  PROVE  LET fifos == rtl[m].fifos
         IN  /\ fifos[i].depth > 1 =>
                 /\ Origin(fifos, i) = FifoOffsets(fifos)[i]
                 /\ Region(fifos, i) \subseteq 0 .. BufferDepth(fifos) - 1
                 /\ \A k \in 0 .. fifos[i].depth - 1 :
                     CoeffValues(fifos)[Origin(fifos, i) + k] = [fir |-> fifos[i].fir, tap |-> k]
             /\ \A j \in DOMAIN fifos \ {i} :
                 fifos[i].depth > 1 \/ fifos[j].depth > 1 =>
                     Region(fifos, i) \cap Region(fifos, j) = {}
<1> DEFINE fifos == rtl[m].fifos
<1>1. LaidOut(fifos)
  BY GeneratedFifos
<1> HIDE DEF fifos
<1>2. DOMAIN fifos = 1 .. Len(fifos) /\ Len(fifos) \in Nat /\ i \in 1 .. Len(fifos)
  BY <1>1 DEF LaidOut, fifos
<1>3. ASSUME fifos[i].depth > 1
      PROVE  /\ Origin(fifos, i) = FifoOffsets(fifos)[i]
             /\ Region(fifos, i) \subseteq 0 .. BufferDepth(fifos) - 1
             /\ \A k \in 0 .. fifos[i].depth - 1 :
                 CoeffValues(fifos)[Origin(fifos, i) + k] = [fir |-> fifos[i].fir, tap |-> k]
  <2>1. /\ Origin(fifos, i) = FifoOffsets(fifos)[i] /\ RegionSize(fifos[i].depth) = fifos[i].words
        /\ FifoOffsets(fifos)[i] \in Nat /\ fifos[i].words \in Nat /\ BufferDepth(fifos) \in Nat
        /\ FifoOffsets(fifos)[i] + fifos[i].words <= BufferDepth(fifos)
    BY <1>1, <1>2, <1>3, FifoRegions DEF Origin
  <2>2. Region(fifos, i) \subseteq 0 .. BufferDepth(fifos) - 1
    BY <2>1 DEF Region
  <2> QED
    BY <1>1, <1>2, <1>3, <2>1, <2>2, CoeffsInPlace
<1>4. ASSUME NEW j \in DOMAIN fifos \ {i}, fifos[i].depth > 1 \/ fifos[j].depth > 1
      PROVE  Region(fifos, i) \cap Region(fifos, j) = {}
  <2>1. j \in 1 .. Len(fifos) /\ (i < j \/ j < i)
    BY <1>2
  <2>2. CASE i < j
    BY <1>1, <1>2, <1>4, <2>1, <2>2, BuffersOrdered
  <2>3. CASE j < i
    <3>1. Region(fifos, j) \cap Region(fifos, i) = {}
      BY <1>1, <1>2, <1>4, <2>1, <2>3, BuffersOrdered
    <3> QED
      BY <3>1
  <2> QED
    BY <2>1, <2>2, <2>3
<1> QED
  BY <1>3, <1>4 DEF fifos

LEMMA ApartRegions == IInv => RegionsApart
<1> SUFFICES ASSUME IInv PROVE RegionsApart
  OBVIOUS
<1> QED
  BY RegionsOfMac DEF RegionsApart, Region, Origin

\* The circular buffers that the generated Verilog cuts out of the data buffer do
\* not overlap, and hold from their origin on the coefficients of their own FIR,
\* whatever Fifos a MAC has (alignAddressOnOrAfter, the parameters of the Verilog).
THEOREM BuffersApart == Spec => []RegionsApart
BY ApartRegions, Invariance, PTL

-----------------------------------------------------------------------------
(* What the circuit relies on *)

\* A MAC updates a FIR in slot 0: the FIR that it was made for begins there.
FirstSlot == \A m \in DOMAIN macs : macs[m].update[0] # NoFir

LEMMA NewMacOrigin ==
  ASSUME TypeOK, BindFir, Place.mac \notin DOMAIN macs
  PROVE  0 \in Updates
<1> DEFINE origins(m) == {o \in 0 .. Period - 1 : CanBind(macs, NextFir, m, o, Period)}
           first == Min({m \in 1 .. Len(macs) + 1 : origins(m) # {}})
<1>1. Place = [mac |-> first, origin |-> Min(origins(first))]
  BY DEF Place, ValidBinding
<1>2. Place.mac = first /\ Place.origin = Min(origins(first))
  <2> HIDE DEF origins, first
  <2> QED
    BY <1>1
<1>3. Place.mac \in 1 .. Len(macs) + 1 /\ Len(macs) \in Nat /\ DOMAIN macs = 1 .. Len(macs)
  BY PlaceFree, BindChanges
<1>4. first > Len(macs)
  <2> HIDE DEF first
  <2> QED
    BY <1>2, <1>3
<1>5. Period \in 1 .. NumTimeSlots /\ Period \in Nat
  BY FirPasses
<1>6. origins(first) \subseteq Nat /\ 0 \in origins(first)
  <2> HIDE DEF first
  <2> QED
    BY <1>4, <1>5 DEF CanBind
<1>7. Place.origin = 0
  <2> HIDE DEF origins, first
  <2>1. Min(origins(first)) \in Nat /\ Min(origins(first)) <= 0
    BY <1>6, MinOfNats
  <2> QED
    BY <1>2, <2>1
<1>8. 0 \in UpdateSlots(0, Period)
  <2>1. 0 \in 0 .. Period - 1
    BY <1>5
  <2> QED
    BY <1>5, <2>1, UpdateSlot
<1> QED
  BY <1>7, <1>8 DEF Updates

LEMMA FirstSlotStep == IInv /\ FirstSlot /\ [Next]_vars => FirstSlot'
<1> SUFFICES ASSUME IInv, FirstSlot, [Next]_vars, NEW m \in DOMAIN macs'
             PROVE  macs'[m].update[0] # NoFir
  BY DEF FirstSlot
<1>1. CASE BindFir
  <2>1. TypeOK /\ 0 \in Slots
    BY SlotsAssumption DEF IInv, Slots
  <2>2. CASE m = Place.mac
    <3>1. macs'[m] = NewMac /\ NewMac.update[0] = IF 0 \in Updates THEN numFirs ELSE Base.update[0]
      BY <1>1, <2>1, <2>2, BindChanges, NewMacParts
    <3>2. numFirs # NoFir
      BY <2>1, FirTypes DEF NoFir
    <3>3. CASE m \in DOMAIN macs
      <4>1. Base.update[0] # NoFir
        BY <1>1, <2>1, <2>2, <3>3, BindChanges DEF FirstSlot
      <4> QED
        BY <3>1, <3>2, <4>1
    <3>4. CASE m \notin DOMAIN macs
      BY <1>1, <2>1, <2>2, <3>1, <3>2, <3>4, NewMacOrigin
    <3> QED
      BY <3>3, <3>4
  <2>3. CASE m # Place.mac
    BY <1>1, <2>1, <2>3, BindChanges DEF FirstSlot
  <2> QED
    BY <2>2, <2>3
<1>2. CASE ~BindFir
  <2>1. macs' = macs
    BY <1>2 DEF Next, vars, ReadSampleRate, ReadCoeff, SyntaxError, EndOfFile, RejectFir,
                DivideByZero, StartGenerating, GenerateMac, AssertionFails, Finish
  <2> QED
    BY <2>1 DEF FirstSlot
<1> QED
  BY <1>1, <1>2

LEMMA WholeMacs ==
  ASSUME IInv, FirstSlot, NEW m \in DOMAIN macs,
         \A f \in ToSet(macs[m].inputs) : NumTimeSlots % Interval(Fir(f)) = 0
  PROVE  WholeMac(macs[m], spec)
<1> DEFINE mac == macs[m]
           channels == 0 .. Len(mac.inputs) - 1
           input(c) == mac.inputs[c + 1]
           fir(c) == spec[input(c) + 1]
<1>1. /\ TypeOK /\ FirsFit /\ RowsWhole /\ InputsServed(mac)
      /\ mac \in MacDescs /\ mac.update[0] # NoFir
  BY DEF IInv, TypeOK, FirstSlot
<1>2. /\ mac.inputs \in Seq(Firs) /\ Len(mac.inputs) \in Nat /\ DOMAIN mac.inputs = 1 .. Len(mac.inputs)
      /\ mac.fifos \in Seq([fir : Firs, depth : Nat, words : Nat \ {0}])
      /\ Len(mac.inputs) = Len(mac.fifos) /\ Len(mac.inputs) <= MaxInputs
      /\ ToSet(mac.inputs) \subseteq Firs
  BY <1>1, MacParts
<1>3. mac.inputs \in Seq({i - 1 : i \in DOMAIN spec})
  <2>1. spec \in Seq([taps : Nat, half : Nat]) /\ numFirs \in 0 .. Len(spec)
    BY <1>1 DEF TypeOK
  <2>2. DOMAIN spec = 1 .. Len(spec) /\ Len(spec) \in Nat
    BY <2>1, LenProperties
  <2>3. Firs \subseteq {i - 1 : i \in DOMAIN spec}
    <3> SUFFICES ASSUME NEW f \in Firs PROVE f \in {i - 1 : i \in DOMAIN spec}
      OBVIOUS
    <3> DEFINE n == Len(spec)
    <3>1. n \in Nat /\ numFirs \in 0 .. n /\ f \in 0 .. numFirs - 1
      BY <2>1, <2>2 DEF Firs
    <3> HIDE DEF n
    <3>2. f + 1 \in 1 .. n /\ f = (f + 1) - 1
      BY <3>1
    <3> QED
      BY <2>2, <3>2 DEF n
  <2> QED
    BY <1>2, <2>3, SeqMonotonic
<1>4. mac.fifos \in Seq([fir : Nat, depth : Nat, words : Nat])
  <2> DEFINE S == [fir : Firs, depth : Nat, words : Nat \ {0}]
             T == [fir : Nat, depth : Nat, words : Nat]
  <2>1. S \subseteq T
    <3>1. Firs \subseteq Nat
      BY <1>1, FirTypes
    <3> QED
      BY <3>1
  <2>2. mac.fifos \in Seq(S)
    BY <1>2
  <2> HIDE DEF mac, S
  <2>3. mac.fifos \in Seq(T)
    <3> HIDE DEF T
    <3> QED
      BY <2>1, <2>2, SeqMonotonic
  <2> QED
    BY <2>3
<1>5. Len(mac.inputs) <= NoChannel
  BY <1>2, ChannelsAssumption, InputsAssumption DEF NoChannel
<1>6. \A c \in channels : c + 1 \in DOMAIN mac.inputs
  BY <1>2
<1>7. \A i \in DOMAIN mac.inputs : \E c \in channels : i = c + 1
  <2> TAKE i \in DOMAIN mac.inputs
  <2>1. i - 1 \in 0 .. Len(mac.inputs) - 1 /\ i = (i - 1) + 1
    BY <1>2
  <2> QED
    BY <2>1
<1>8. ASSUME NEW f \in ToSet(mac.inputs)
      PROVE  \E c \in channels : f = input(c)
  <2>1. PICK i \in DOMAIN mac.inputs : mac.inputs[i] = f
    BY DEF ToSet
  <2> QED
    BY <1>7, <2>1
<1>9. ASSUME NEW c \in channels
      PROVE  /\ input(c) \in Firs /\ input(c) \in ToSet(mac.inputs) /\ input(c) # NoFir
             /\ fir(c) = Fir(input(c)) /\ NumTimeSlots % Interval(fir(c)) = 0
             /\ ClocksPerSample(fir(c)) \in Nat \ {0}
  <2>1. input(c) \in ToSet(mac.inputs)
    BY <1>6 DEF ToSet
  <2>2. input(c) \in Firs
    BY <1>2, <2>1
  <2>3. input(c) # NoFir /\ Fir(input(c)) \in [taps : Nat, half : Nat] /\ ClocksPerSample(Fir(input(c))) > 0
    BY <1>1, <2>2, FirTypes DEF FirsFit
  <2>4. ClocksPerSample(Fir(input(c))) \in Nat \ {0}
    BY <2>3 DEF ClocksPerSample
  <2> QED
    BY <2>1, <2>2, <2>3, <2>4 DEF Fir
<1>10. ASSUME NEW c \in channels
       PROVE  /\ \A e \in channels \ {c} : input(c) # input(e)
              /\ mac.fifos[c + 1].fir = input(c) /\ mac.fifos[c + 1].depth = fir(c).taps
  <2>1. ASSUME NEW e \in channels \ {c}
        PROVE  input(c) # input(e)
    <3>1. c + 1 # e + 1
      BY <1>2
    <3> QED
      BY <1>1, <1>6, <3>1 DEF InputsServed
  <2>2. mac.fifos[c + 1].fir = input(c) /\ mac.fifos[c + 1].depth = fir(c).taps
    BY <1>1, <1>6 DEF InputsServed, Fir
  <2> QED
    BY <2>1, <2>2
<1>11. ASSUME NEW c \in channels, NEW s \in Slots
       PROVE  \E d \in 0 .. ClocksPerSample(fir(c)) - 1 : mac.update[RowSlot(s, -d)] = input(c)
  <2>1. Served(mac, input(c))
    BY <1>1, <1>6 DEF InputsServed
  <2>2. PICK d \in 0 .. Due(Fir(input(c))) - 1 : mac.update[RowSlot(s, -d)] = input(c)
    BY <2>1 DEF Served
  <2>3. Due(Fir(input(c))) = Min({ClocksPerSample(fir(c)), NumTimeSlots})
    BY <1>9 DEF Due
  <2>4. d \in 0 .. ClocksPerSample(fir(c)) - 1
    <3> DEFINE n == ClocksPerSample(fir(c))
    <3>1. n \in Nat \ {0} /\ NumTimeSlots \in Nat \ {0} /\ d \in 0 .. Min({n, NumTimeSlots}) - 1
      BY <1>9, <2>2, <2>3, SlotsAssumption
    <3> HIDE DEF n
    <3>2. Min({n, NumTimeSlots}) = IF n <= NumTimeSlots THEN n ELSE NumTimeSlots
      BY <3>1, MinOfTwo
    <3>3. d \in 0 .. n - 1
      BY <3>1, <3>2
    <3> QED
      BY <3>3 DEF n
  <2> QED
    BY <2>2, <2>4
<1>12. ASSUME NEW s \in Slots
       PROVE  /\ mac.update[s] # NoFir => \E c \in channels : mac.update[s] = input(c)
              /\ mac.coeff[s].fir # NoFir => \E c \in channels : mac.coeff[s].fir = input(c)
  <2>1. mac.update[s] \in ToSet(mac.inputs) \cup {NoFir} /\ mac.coeff[s].fir \in ToSet(mac.inputs) \cup {NoFir}
    BY <1>1 DEF InputsServed
  <2> HIDE DEF mac, channels, input
  <2> QED
    BY <1>8, <2>1
<1>13. ASSUME NEW s \in Slots, NEW c \in channels, mac.update[s] = input(c),
              NEW i \in 0 .. fir(c).taps - 1
       PROVE  mac.coeff[RowSlot(s, i)] = [fir |-> input(c), tap |-> fir(c).taps - 1 - i]
  <2>1. mac.update[s] # NoFir /\ NumTimeSlots % Interval(Fir(mac.update[s])) = 0 /\ fir(c) = Fir(mac.update[s])
    BY <1>9, <1>13
  <2>2. \A k \in 0 .. Fir(mac.update[s]).taps - 1 :
            mac.coeff[RowSlot(s, k)] = [fir |-> mac.update[s], tap |-> Fir(mac.update[s]).taps - 1 - k]
    BY <1>1, <2>1 DEF RowsWhole
  <2> QED
    BY <1>13, <2>1, <2>2
<1>14. Len(mac.fifos) = Len(mac.inputs)
  BY <1>2
<1> HIDE DEF mac
<1> QED
  BY <1>1, <1>3, <1>4, <1>5, <1>10, <1>11, <1>12, <1>13, <1>14, Zenon DEF WholeMac, mac

LEMMA RtlOfMac ==
  ASSUME TypeOK, NEW m \in DOMAIN rtl
  PROVE  m \in DOMAIN macs /\ macs[m] \in MacDescs
<1>1. rtl \in Seq(RtlTables) /\ macs \in Seq(MacDescs) /\ Len(rtl) <= Len(macs)
  BY DEF TypeOK
<1>2. m \in DOMAIN macs
  BY <1>1, LenProperties
<1> QED
  BY <1>1, <1>2, ElementOfSeq

LEMMA BuffersWhole ==
  ASSUME IInv, FirstSlot, NEW m \in DOMAIN rtl, \A i \in DOMAIN rtl[m].fifos : rtl[m].fifos[i].depth > 1
  PROVE  WholeBuffers(rtl[m].fifos)
<1> DEFINE fifos == rtl[m].fifos
           base(i) == FifoOffsets(fifos)[i]
           size(i) == RegionSize(fifos[i].depth)
           region(i) == base(i) .. base(i) + size(i) - 1
<1>1. LaidOut(fifos) /\ Generable(fifos)
  BY GeneratedFifos DEF IInv, RtlWhole
<1>2. DOMAIN fifos = 1 .. Len(fifos) /\ Len(fifos) \in Nat
  BY <1>1 DEF LaidOut
<1>3. \A i \in DOMAIN fifos : fifos[i].depth > 1
  OBVIOUS
<1>4. ASSUME NEW i \in DOMAIN fifos
      PROVE  /\ base(i) \in Nat /\ base(i) % size(i) = 0 /\ BufferDepth(fifos) \in Nat
             /\ Origin(fifos, i) = base(i) /\ Region(fifos, i) = region(i)
  <2>1. i \in 1 .. Len(fifos)
    BY <1>2
  <2>2. base(i) \in Nat /\ base(i) % fifos[i].words = 0
    BY <1>1, <2>1, FifosFollow
  <2>3. size(i) = fifos[i].words /\ Origin(fifos, i) = base(i) /\ BufferDepth(fifos) \in Nat
    BY <1>1, <1>3, <2>1, FifoRegions DEF Origin
  <2>4. Region(fifos, i) = region(i)
    BY <2>3 DEF Region
  <2> QED
    BY <2>2, <2>3, <2>4
<1>5. ASSUME NEW i \in DOMAIN fifos
      PROVE  /\ region(i) \subseteq 0 .. BufferDepth(fifos) - 1
             /\ \A k \in 0 .. fifos[i].depth - 1 :
                 CoeffValues(fifos)[base(i) + k] = [fir |-> fifos[i].fir, tap |-> k]
             /\ \A j \in DOMAIN fifos \ {i} : region(i) \cap region(j) = {}
  <2>1. /\ Region(fifos, i) \subseteq 0 .. BufferDepth(fifos) - 1
        /\ \A k \in 0 .. fifos[i].depth - 1 :
            CoeffValues(fifos)[Origin(fifos, i) + k] = [fir |-> fifos[i].fir, tap |-> k]
        /\ \A j \in DOMAIN fifos \ {i} : Region(fifos, i) \cap Region(fifos, j) = {}
    BY <1>3, RegionsOfMac
  <2>2. Origin(fifos, i) = base(i) /\ \A j \in DOMAIN fifos : Region(fifos, j) = region(j)
    BY <1>4
  <2> HIDE DEF base, size, region, fifos
  <2> QED
    BY <2>1, <2>2
<1>6. DOMAIN fifos # {}
  <2> DEFINE T == [fir : Firs, depth : Nat, words : Nat \ {0}]
  <2>1. m \in DOMAIN macs /\ macs[m] \in MacDescs
    BY RtlOfMac DEF IInv
  <2>2. macs[m].update[0] \in ToSet(macs[m].inputs)
    <3>1. 0 \in Slots
      BY SlotsAssumption DEF Slots
    <3> QED
      BY <2>1, <3>1 DEF IInv, InputsServed, FirstSlot
  <2>3. PICK i \in DOMAIN macs[m].inputs : macs[m].inputs[i] = macs[m].update[0]
    BY <2>2 DEF ToSet
  <2>4. macs[m].fifos \in Seq(T) /\ i \in DOMAIN macs[m].fifos
    BY <2>1, <2>3, MacParts
  <2>5. fifos \in DescendingOrders(macs[m].fifos)
    BY DEF IInv, RtlWhole
  <2> HIDE DEF T, fifos
  <2> QED
    BY <2>4, <2>5, OrderComplete
<1>7. BufferDepth(fifos) \in Nat
  BY <1>4, <1>6
<1> QED
  BY <1>1, <1>4, <1>5, <1>7, Zenon DEF WholeBuffers

LEMMA FitMacs == IInv /\ FirstSlot => MacsFit
<1> SUFFICES ASSUME IInv, FirstSlot, NEW m \in DOMAIN rtl
             PROVE  /\ (\A f \in ToSet(macs[m].inputs) : NumTimeSlots % Interval(Fir(f)) = 0)
                         => WholeMac(macs[m], spec)
                    /\ (\A i \in DOMAIN rtl[m].fifos : rtl[m].fifos[i].depth > 1)
                         => WholeBuffers(rtl[m].fifos)
  BY DEF MacsFit
<1>1. m \in DOMAIN macs
  BY RtlOfMac DEF IInv
<1> QED
  BY <1>1, WholeMacs, BuffersWhole

\* What FirEngine assumes of the tables of its MAC is what the builder guarantees
\* of every MAC it writes, for any file: the slots of one whose intervals divide
\* the round of time slots (bind), the buffers of one whose FIRs have more than
\* one coefficient (alignAddressOnOrAfter, the parameters of the Verilog).
THEOREM MacsAreFit == Spec => []MacsFit
<1>1. Init => FirstSlot
  BY DEF Init, FirstSlot
<1>2. IInv /\ FirstSlot /\ [Next]_vars => FirstSlot'
  BY FirstSlotStep
<1>3. Spec => []FirstSlot
  BY <1>1, <1>2, Invariance, PTL DEF Spec
<1>4. IInv /\ FirstSlot => MacsFit
  BY FitMacs
<1> QED
  BY <1>3, <1>4, Invariance, PTL
=============================================================================
