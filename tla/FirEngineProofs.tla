--------------------------- MODULE FirEngineProofs ---------------------------
(***************************************************************************)
(* The circuit of a MAC, for any filters that the builder binds to it.     *)
(***************************************************************************)
EXTENDS FirEngine, FiniteSetTheorems, SequenceTheorems, WellFoundedInduction, TLAPS

-----------------------------------------------------------------------------
(* Numbers *)

LEMMA DivMod ==
  ASSUME NEW a \in Int, NEW d \in Nat \ {0}
  PROVE  /\ a % d \in 0 .. d - 1
         /\ a \div d \in Int
         /\ a = d * (a \div d) + (a % d)
OBVIOUS

\* A multiple that is less than its unit is nothing.
LEMMA SmallMultiple ==
  ASSUME NEW d \in Nat \ {0}, NEW t \in Int, t * d < d, -d < t * d
  PROVE  t = 0
OBVIOUS

\* Numbers that differ by a multiple have the same remainder.
LEMMA SameRemainder ==
  ASSUME NEW a \in Int, NEW d \in Nat \ {0}, NEW k \in Int
  PROVE  (a + d * k) % d = a % d
<1> DEFINE b == a + d * k
           t == b \div d - a \div d - k
<1>1. b \in Int /\ a = d * (a \div d) + (a % d) /\ b = d * (b \div d) + (b % d)
  BY DivMod
<1>2. a \div d \in Int /\ b \div d \in Int /\ a % d \in 0 .. d - 1 /\ b % d \in 0 .. d - 1
  BY <1>1, DivMod
<1>3. t \in Int /\ t * d = (a % d) - (b % d)
  BY <1>1, <1>2
<1>4. t = 0
  BY <1>2, <1>3, SmallMultiple
<1> QED
  BY <1>2, <1>3, <1>4

\* A remainder may be taken at any point of a sum.
LEMMA ModSum ==
  ASSUME NEW a \in Int, NEW b \in Int, NEW d \in Nat \ {0}
  PROVE  ((a % d) + b) % d = (a + b) % d
<1>1. a = d * (a \div d) + (a % d) /\ a \div d \in Int /\ a % d \in Int
  BY DivMod
<1>2. a + b = ((a % d) + b) + d * (a \div d) /\ (a % d) + b \in Int
  BY <1>1
<1>3. (((a % d) + b) + d * (a \div d)) % d = ((a % d) + b) % d
  BY <1>1, <1>2, SameRemainder
<1> QED
  BY <1>2, <1>3, Zenon

\* Numbers that are closer together than the divisor have different remainders.
LEMMA ModDiffer ==
  ASSUME NEW a \in Int, NEW d \in Nat \ {0}, NEW k \in 1 .. d - 1
  PROVE  (a - k) % d # a % d
<1> DEFINE t == a \div d - (a - k) \div d
<1>1. /\ a = d * (a \div d) + (a % d) /\ a - k = d * ((a - k) \div d) + ((a - k) % d)
      /\ a \div d \in Int /\ (a - k) \div d \in Int
  BY DivMod
<1> SUFFICES ASSUME (a - k) % d = a % d PROVE FALSE
  OBVIOUS
<1>2. t \in Int /\ t * d = k
  BY <1>1
<1>3. t = 0
  BY <1>2, SmallMultiple
<1> QED
  BY <1>2, <1>3

LEMMA ModSmall ==
  ASSUME NEW d \in Nat \ {0}, NEW a \in 0 .. d - 1
  PROVE  a % d = a
OBVIOUS
\* A set of naturals that is not empty has a least member, and Min is it.
LEMMA MinOfNats ==
  ASSUME NEW S, S \subseteq Nat, S # {}
  PROVE  Min(S) \in S /\ \A x \in S : Min(S) <= x
<1> DEFINE R == {ss \in Nat \X Nat : ss[1] < ss[2]}
<1>1. OpToRel(<, Nat) = R
  BY Zenon DEF OpToRel
<1>2. IsWellFoundedOn(R, Nat)
  BY <1>1, NatLessThanWellFounded, Zenon
<1>3. PICK m \in S : \A x \in S : <<x, m>> \notin R
  BY <1>2, WFMin, Zenon
<1>4. \A x, y \in Nat : x < y => <<x, y>> \in R
  OBVIOUS
<1>5. \A x \in S : m <= x
  <2> TAKE x \in S
  <2>1. ~ (x < m)
    BY <1>3, <1>4, Zenon
  <2> QED
    BY <2>1
<1> QED
  BY <1>5 DEF Min

LEMMA PowersOfTwo == \A i \in 0 .. 30 : 2^i \in Nat \ {0}
<1> DEFINE Positive(i) == 2^i \in Nat \ {0}
<1>1. /\ Positive(0) /\ Positive(1) /\ Positive(2) /\ Positive(3) /\ Positive(4) /\ Positive(5)
      /\ Positive(6) /\ Positive(7) /\ Positive(8) /\ Positive(9) /\ Positive(10) /\ Positive(11)
      /\ Positive(12) /\ Positive(13) /\ Positive(14) /\ Positive(15) /\ Positive(16) /\ Positive(17)
      /\ Positive(18) /\ Positive(19) /\ Positive(20) /\ Positive(21) /\ Positive(22) /\ Positive(23)
      /\ Positive(24) /\ Positive(25) /\ Positive(26) /\ Positive(27) /\ Positive(28) /\ Positive(29)
      /\ Positive(30)
  OBVIOUS
<1>2. \A i \in 0 .. 30 :
        \/ i = 0 \/ i = 1 \/ i = 2 \/ i = 3 \/ i = 4 \/ i = 5 \/ i = 6 \/ i = 7
        \/ i = 8 \/ i = 9 \/ i = 10 \/ i = 11 \/ i = 12 \/ i = 13 \/ i = 14 \/ i = 15
        \/ i = 16 \/ i = 17 \/ i = 18 \/ i = 19 \/ i = 20 \/ i = 21 \/ i = 22 \/ i = 23
        \/ i = 24 \/ i = 25 \/ i = 26 \/ i = 27 \/ i = 28 \/ i = 29 \/ i = 30
  OBVIOUS
<1>3. \A i \in 0 .. 30 : Positive(i)
  <2> HIDE DEF Positive
  <2> QED
    BY <1>1, <1>2
<1> QED
  BY <1>3


LEMMA RoundedUp ==
  ASSUME NEW x \in 0 .. 1024
  PROVE  RoundUpToPowerOfTwo(x) \in Nat \ {0} /\ x <= RoundUpToPowerOfTwo(x)
<1> DEFINE S == {n \in {2^i : i \in 0 .. 30} : x <= n}
<1>1. 2^10 \in S
  <2>1. 2^10 = 1024
    OBVIOUS
  <2> QED
    BY <2>1
<1>2. S \subseteq Nat /\ 0 \notin S
  BY PowersOfTwo
<1>3. Min(S) \in S
  BY <1>1, <1>2, MinOfNats
<1>4. RoundUpToPowerOfTwo(x) = Min(S)
  BY DEF RoundUpToPowerOfTwo
<1> QED
  BY <1>2, <1>3, <1>4

\* A circular buffer has two words at least, and one for each coefficient.
LEMMA RegionHolds ==
  ASSUME NEW depth \in 1 .. 64
  PROVE  RegionSize(depth) \in Nat \ {0, 1} /\ depth <= RegionSize(depth)
<1> DEFINE w == RoundUpToPowerOfTwo(depth)
<1>1. w \in Nat \ {0} /\ depth <= w
  BY RoundedUp
<1>2. RegionSize(depth) = IF w <= 2 THEN 2 ELSE w
  <2>1. RegionSize(depth) = Max({2, w})
    BY DEF RegionSize
  <2>2. w \in Int
    BY <1>1
  <2> HIDE DEF w
  <2>3. Max({2, w}) = IF w <= 2 THEN 2 ELSE w
    BY <2>2 DEF Max
  <2> QED
    BY <2>1, <2>3
<1> QED
  BY <1>1, <1>2

\* The elements of a function on 1 .. n have a bound among them.
LEMMA MaxOfValues ==
  ASSUME NEW n \in Nat \ {0}, NEW v, \A i \in 1 .. n : v[i] \in Nat
  PROVE  LET S == {v[i] : i \in 1 .. n}
         IN  Max(S) \in Nat /\ \A i \in 1 .. n : v[i] <= Max(S)
<1> DEFINE S == {v[i] : i \in 1 .. n}
           Top(k) == \E m \in S : \A i \in 1 .. k : v[i] <= m
           Bad == {k \in 1 .. n : ~Top(k)}
<1>1. Top(1)
  <2>1. v[1] \in S /\ v[1] \in Nat
    OBVIOUS
  <2>2. \A i \in 1 .. 1 : i = 1
    OBVIOUS
  <2> QED
    BY <2>1, <2>2
<1>2. ASSUME NEW k \in 2 .. n, Top(k - 1) PROVE Top(k)
  <2>1. PICK m \in S : \A i \in 1 .. k - 1 : v[i] <= m
    BY <1>2
  <2>2. v[k] \in S /\ v[k] \in Nat /\ m \in Nat
    BY <2>1
  <2>3. \A i \in 1 .. k : i = k \/ i \in 1 .. k - 1
    OBVIOUS
  <2>4. \A i \in 1 .. k - 1 : v[i] \in Nat
    OBVIOUS
  <2>5. CASE m <= v[k]
    <3>1. \A i \in 1 .. k : v[i] <= v[k]
      BY <2>1, <2>2, <2>3, <2>4, <2>5
    <3> QED
      BY <3>1, <2>2
  <2>6. CASE ~(m <= v[k])
    <3>1. \A i \in 1 .. k : v[i] <= m
      BY <2>1, <2>2, <2>3, <2>4, <2>6
    <3> QED
      BY <3>1
  <2> QED
    BY <2>5, <2>6
<1>3. Bad = {}
  <2> SUFFICES ASSUME Bad # {} PROVE FALSE
    OBVIOUS
  <2>1. Min(Bad) \in Bad /\ \A x \in Bad : Min(Bad) <= x
    <3>1. Bad \subseteq Nat
      OBVIOUS
    <3> HIDE DEF Bad
    <3> QED
      BY <3>1, MinOfNats
  <2> DEFINE k == Min(Bad)
  <2>2. k \in 1 .. n /\ ~Top(k)
    BY <2>1
  <2>3. k # 1
    BY <2>2, <1>1, Zenon
  <2>4. k \in 2 .. n /\ k - 1 \in 1 .. n /\ ~(k <= k - 1)
    <3> HIDE DEF k
    <3> QED
      BY <2>2, <2>3
  <2>5. k - 1 \notin Bad
    BY <2>1, <2>4
  <2>6. Top(k - 1)
    BY <2>4, <2>5
  <2> QED
    BY <1>2, <2>2, <2>4, <2>6
<1>4. Top(n)
  <2>1. n \in 1 .. n /\ n \notin Bad
    BY <1>3
  <2> HIDE DEF Top
  <2> QED
    BY <2>1
<1>5. PICK m \in S : \A i \in 1 .. n : v[i] <= m
  BY <1>4
<1>6. m \in S /\ \A x \in S : x <= m
  BY <1>5
<1>7. S \subseteq Nat
  OBVIOUS
<1>8. Max(S) \in S /\ \A x \in S : Max(S) >= x
  BY <1>6, <1>7 DEF Max
<1> QED
  BY <1>7, <1>8

-----------------------------------------------------------------------------
(* The parameters of the module *)

N == NumTimeSlots

LEMMA SlotsCount ==
  /\ N \in Nat \ {0} /\ SlotNumbers = Slots /\ Slots = 0 .. N - 1
  /\ Cardinality(SlotNumbers) = N
<1>1. N \in Nat \ {0}
  BY SlotsAssumption DEF N
<1>2. SlotNumbers = 0 .. N - 1
  BY CircuitAssumption DEF SlotNumbers, N
<1>3. Cardinality(0 .. N - 1) = N
  <2>1. 0 \in Int /\ N - 1 \in Int /\ ~(0 > N - 1) /\ (N - 1) - 0 + 1 = N
    BY <1>1
  <2> QED
    BY <2>1, FS_Interval, Zenon
<1> QED
  BY <1>1, <1>2, <1>3 DEF Slots, N

LEMMA BuiltMac ==
    /\ Mac.inputs \in Seq({i - 1 : i \in DOMAIN Filters}) /\ Len(Mac.inputs) <= NoChannel
    /\ \A c \in Channels :
        /\ \A e \in Channels \ {c} : Mac.inputs[c + 1] # Mac.inputs[e + 1]
        /\ Mac.fifos[c + 1].fir = Mac.inputs[c + 1] /\ Mac.fifos[c + 1].depth = Fir(c).taps
        /\ \A s \in Slots : \E d \in 0 .. Period(c) - 1 : Updates(RowSlot(s, -d), c)
    /\ Mac.fifos \in Seq([fir : Nat, depth : Nat, words : Nat]) /\ Len(Mac.fifos) = Len(Mac.inputs)
    /\ \A s \in Slots :
        /\ Mac.update[s] # NoFir => \E c \in Channels : Updates(s, c)
        /\ Mac.coeff[s].fir # NoFir => \E c \in Channels : Mac.coeff[s].fir = Mac.inputs[c + 1]
    /\ \A s \in Slots, c \in Channels : Updates(s, c) =>
        \A i \in 0 .. Fir(c).taps - 1 :
            Mac.coeff[RowSlot(s, i)] = [fir |-> Mac.inputs[c + 1], tap |-> Fir(c).taps - 1 - i]
    /\ Mac.update[0] # NoFir
BY BuiltAssumption, Zenon DEF WholeMac, Channels, Fir, Period, Updates

LEMMA InputsCount ==
  /\ Len(Mac.inputs) \in Nat /\ DOMAIN Mac.inputs = 1 .. Len(Mac.inputs)
  /\ Channels = 0 .. Len(Mac.inputs) - 1
  /\ \A c \in Channels : /\ c \in Nat /\ c + 1 \in 1 .. Len(Mac.inputs) /\ c < NoChannel
                         /\ Mac.inputs[c + 1] \in Int /\ Mac.inputs[c + 1] # NoFir
                         /\ Mac.inputs[c + 1] + 1 \in DOMAIN Filters
<1>1. Mac.inputs \in Seq({i - 1 : i \in DOMAIN Filters}) /\ Len(Mac.inputs) <= NoChannel
  BY BuiltMac
<1> DEFINE n == Len(Mac.inputs)
           S == {i - 1 : i \in DOMAIN Filters}
<1>2. n \in Nat /\ DOMAIN Mac.inputs = 1 .. n /\ \A i \in 1 .. n : Mac.inputs[i] \in S
  BY <1>1
<1>3. \A x \in S : x \in Int /\ x # -1 /\ x + 1 \in DOMAIN Filters
  <2>1. DOMAIN Filters = 1 .. Len(Filters) /\ Len(Filters) \in Nat
    BY FiltersAssumption
  <2> QED
    BY <2>1
<1>4. Channels = 0 .. n - 1
  BY DEF Channels
<1>5. n <= 15 /\ NoChannel = 15 /\ NoFir = -1
  BY <1>1 DEF NoChannel, NoFir
<1> HIDE DEF n, S
<1>6. ASSUME NEW c \in Channels
      PROVE  c \in Nat /\ c + 1 \in 1 .. n /\ c < 15
  BY <1>2, <1>4, <1>5
<1>7. ASSUME NEW c \in Channels
      PROVE  Mac.inputs[c + 1] \in S
  BY <1>2, <1>6
<1> QED
  BY <1>2, <1>3, <1>4, <1>5, <1>6, <1>7 DEF n

\* The channels are numbered as the Fifos are.
LEMMA FifoNumber ==
  ASSUME NEW c \in Channels
  PROVE  FifoIndex(Mac.fifos, Mac.inputs[c + 1]) = c /\ Fifo(c) = c
<1> DEFINE S == {i \in DOMAIN Mac.fifos : Mac.fifos[i].fir = Mac.inputs[c + 1]}
<1>1. DOMAIN Mac.fifos = 1 .. Len(Mac.inputs) /\ c \in Int /\ c + 1 \in 1 .. Len(Mac.inputs)
  BY BuiltMac, InputsCount
<1>2. \A i \in 1 .. Len(Mac.inputs) : i \in Int /\ i - 1 \in Channels /\ (i - 1) + 1 = i
  BY InputsCount
<1>3. \A i \in 1 .. Len(Mac.inputs) : Mac.fifos[i].fir = Mac.inputs[i]
  <2>1. \A e \in Channels : Mac.fifos[e + 1].fir = Mac.inputs[e + 1]
    BY BuiltMac, Zenon
  <2> QED
    BY <1>2, <2>1
<1>4. ASSUME NEW i \in S PROVE i = c + 1
  <2>1. i \in 1 .. Len(Mac.inputs) /\ Mac.inputs[(i - 1) + 1] = Mac.inputs[c + 1]
    BY <1>1, <1>2, <1>3
  <2>2. i - 1 \notin Channels \ {c}
    BY <2>1, BuiltMac
  <2>3. i - 1 = c
    BY <2>1, <2>2, <1>2
  <2> QED
    BY <2>1, <2>3, <1>1
<1>5. S = {c + 1}
  BY <1>1, <1>3, <1>4
<1>6. Min({c + 1}) = c + 1
  BY <1>1 DEF Min
<1>7. FifoIndex(Mac.fifos, Mac.inputs[c + 1]) = Min(S) - 1
  BY DEF FifoIndex
<1> HIDE DEF S
<1>8. FifoIndex(Mac.fifos, Mac.inputs[c + 1]) = c
  BY <1>1, <1>5, <1>6, <1>7
<1> QED
  BY <1>8, CircuitAssumption DEF Fifo

LEMMA GeneratedMac ==
    /\ Generable(Fifos) /\ BufferDepth(Fifos) \in Nat
    /\ \A c \in Channels :
        /\ Base(c) \in Nat /\ Base(c) % Size(c) = 0 /\ Region(c) \subseteq 0 .. BufferDepth(Fifos) - 1
        /\ \A k \in 0 .. Depth(c) - 1 :
            CoeffValues(Fifos)[Base(c) + k] = [fir |-> Mac.inputs[c + 1], tap |-> k]
        /\ \A e \in Channels \ {c} : Region(c) \cap Region(e) = {}
<1>1. Generable(Fifos) /\ BufferDepth(Fifos) \in Nat
  BY GeneratedAssumption DEF WholeBuffers
<1>2. Fifos = Mac.fifos /\ Len(Fifos) = Len(Mac.inputs)
  BY BuiltMac, CircuitAssumption
<1>3. Len(Fifos) \in Nat /\ DOMAIN Fifos = 1 .. Len(Fifos) /\ \A i \in DOMAIN Fifos : Fifos[i].depth \in Nat
  <2>1. Fifos \in Seq([fir : Nat, depth : Nat, words : Nat])
    BY <1>2, BuiltMac
  <2>2. /\ Len(Fifos) \in Nat /\ DOMAIN Fifos = 1 .. Len(Fifos)
        /\ \A i \in 1 .. Len(Fifos) : Fifos[i] \in [fir : Nat, depth : Nat, words : Nat]
    BY <2>1, LenProperties, ElementOfSeq
  <2>3. \A i \in 1 .. Len(Fifos) : Fifos[i].depth \in Nat
    BY <2>2
  <2> QED
    BY <2>2, <2>3
<1>4. ASSUME NEW c \in Channels
      PROVE  /\ c + 1 \in DOMAIN Fifos /\ Base(c) = FifoOffsets(Fifos)[c + 1]
             /\ Depth(c) = Fifos[c + 1].depth /\ Fifos[c + 1].fir = Mac.inputs[c + 1]
  <2>1. c \in 0 .. Len(Fifos) - 1 /\ c + 1 \in DOMAIN Fifos
    BY <1>2, <1>3, InputsCount
  <2>2. FIFOSIZES[Fifo(c)] = [offset |-> FifoOffsets(Fifos)[c + 1], last |-> Fifos[c + 1].depth - 1]
    BY <2>1, FifoNumber DEF FIFOSIZES
  <2>3. Fifos[c + 1].depth - 1 + 1 = Fifos[c + 1].depth
    BY <1>3, <2>1
  <2>4. Fifos[c + 1].fir = Mac.inputs[c + 1]
    BY <1>2, BuiltMac
  <2> QED
    BY <2>1, <2>2, <2>3, <2>4 DEF Base, Depth
<1>5. ASSUME NEW c \in Channels
      PROVE  Region(c) = FifoOffsets(Fifos)[c + 1] .. FifoOffsets(Fifos)[c + 1] + RegionSize(Fifos[c + 1].depth) - 1
  BY <1>4 DEF Region, Size
<1>6. ASSUME NEW c \in Channels, NEW e \in Channels \ {c}
      PROVE  Region(c) \cap Region(e) = {}
  <2>1. e + 1 \in DOMAIN Fifos \ {c + 1} /\ c + 1 \in DOMAIN Fifos
    <3>1. e + 1 # c + 1
      BY InputsCount
    <3> QED
      BY <1>4, <3>1
  <2> QED
    BY <2>1, <1>5, GeneratedAssumption, Zenon DEF WholeBuffers
<1>7. ASSUME NEW c \in Channels
      PROVE  /\ Base(c) \in Nat /\ Base(c) % Size(c) = 0 /\ Region(c) \subseteq 0 .. BufferDepth(Fifos) - 1
             /\ \A k \in 0 .. Depth(c) - 1 :
                 CoeffValues(Fifos)[Base(c) + k] = [fir |-> Mac.inputs[c + 1], tap |-> k]
  <2> DEFINE i == c + 1
  <2>1. /\ FifoOffsets(Fifos)[i] \in Nat /\ FifoOffsets(Fifos)[i] % RegionSize(Fifos[i].depth) = 0
        /\ FifoOffsets(Fifos)[i] .. FifoOffsets(Fifos)[i] + RegionSize(Fifos[i].depth) - 1
             \subseteq 0 .. BufferDepth(Fifos) - 1
        /\ \A k \in 0 .. Fifos[i].depth - 1 :
            CoeffValues(Fifos)[FifoOffsets(Fifos)[i] + k] = [fir |-> Fifos[i].fir, tap |-> k]
    BY <1>4, GeneratedAssumption, Zenon DEF WholeBuffers
  <2> HIDE DEF i
  <2>2. /\ Base(c) = FifoOffsets(Fifos)[i] /\ Size(c) = RegionSize(Fifos[i].depth)
        /\ Depth(c) = Fifos[i].depth /\ Fifos[i].fir = Mac.inputs[c + 1]
    BY <1>4, Zenon DEF i, Size
  <2>3. Region(c) \subseteq 0 .. BufferDepth(Fifos) - 1
    BY <2>1, <1>5, Zenon DEF i
  <2> QED
    BY <2>1, <2>2, <2>3, Zenon
<1> QED
  BY <1>1, <1>6, <1>7

LEMMA InputNumber ==
  ASSUME NEW c \in Channels
  PROVE  InputIndex(Mac, Mac.inputs[c + 1]) = c
<1> DEFINE S == {i \in DOMAIN Mac.inputs : Mac.inputs[i] = Mac.inputs[c + 1]}
<1>1. DOMAIN Mac.inputs = 1 .. Len(Mac.inputs) /\ c \in Int /\ c + 1 \in 1 .. Len(Mac.inputs)
  BY InputsCount
<1>2. \A i \in 1 .. Len(Mac.inputs) : i \in Int /\ i - 1 \in Channels /\ (i - 1) + 1 = i
  BY InputsCount
<1>4. ASSUME NEW i \in S PROVE i = c + 1
  <2>1. i \in 1 .. Len(Mac.inputs) /\ Mac.inputs[(i - 1) + 1] = Mac.inputs[c + 1]
    BY <1>1, <1>2
  <2>2. i - 1 \notin Channels \ {c}
    BY <2>1, BuiltMac
  <2>3. i - 1 = c
    BY <2>1, <2>2, <1>2
  <2> QED
    BY <2>1, <2>3, <1>1
<1>5. S = {c + 1}
  BY <1>1, <1>4
<1>6. Min({c + 1}) = c + 1
  BY <1>1 DEF Min
<1>7. InputIndex(Mac, Mac.inputs[c + 1]) = Min(S) - 1
  BY DEF InputIndex
<1> HIDE DEF S
<1> QED
  BY <1>1, <1>5, <1>6, <1>7

\* The circular buffer of a channel: at least a word for each of its four to
\* sixty-four coefficients, at a multiple of its size, within the data buffer.
LEMMA Buffers ==
  ASSUME NEW c \in Channels
  PROVE  /\ Depth(c) = Fir(c).taps /\ Depth(c) \in 4 .. 64
         /\ Size(c) \in Nat \ {0, 1} /\ Depth(c) <= Size(c)
         /\ Base(c) \in Nat /\ Base(c) % Size(c) = 0
         /\ FIFOSIZES[c] = [offset |-> Base(c), last |-> Depth(c) - 1]
         /\ Region(c) \subseteq 0 .. BufferDepth(Fifos) - 1
<1>1. /\ c \in Nat /\ c + 1 \in 1 .. Len(Fifos) /\ Len(Fifos) \in Nat /\ Len(Fifos) = Len(Mac.inputs)
      /\ c \in 0 .. Len(Fifos) - 1
  BY InputsCount, BuiltMac, CircuitAssumption
<1>2. Fifos[c + 1].depth = Fir(c).taps /\ Fifos[c + 1].depth \in 1 .. 64
  <2>1. Fifos[c + 1].depth = Fir(c).taps
    BY BuiltMac, CircuitAssumption
  <2>2. DOMAIN Fifos = 1 .. Len(Fifos)
    BY BuiltMac, CircuitAssumption
  <2>3. \A i \in DOMAIN Fifos : Fifos[i].depth \in 1 .. 64
    BY GeneratedMac DEF Generable
  <2> QED
    BY <2>1, <2>2, <2>3, <1>1
<1>3. FIFOSIZES[c] = [offset |-> FifoOffsets(Fifos)[c + 1], last |-> Fifos[c + 1].depth - 1]
  BY <1>1 DEF FIFOSIZES
<1>4. Depth(c) = Fir(c).taps
  BY <1>2, <1>3, FifoNumber DEF Depth
<1>5. Depth(c) \in 4 .. 64
  BY <1>2, <1>4, CircuitAssumption
<1>6. Size(c) \in Nat \ {0, 1} /\ Depth(c) <= Size(c)
  BY <1>5, RegionHolds DEF Size
<1>7. FIFOSIZES[c] = [offset |-> Base(c), last |-> Depth(c) - 1]
  BY <1>2, <1>3, <1>4, FifoNumber DEF Base
<1> QED
  BY <1>4, <1>5, <1>6, <1>7, GeneratedMac

LEMMA Depths ==
  ASSUME NEW c \in Channels
  PROVE  Depth(c) = Fir(c).taps /\ Depth(c) \in Nat /\ Depth(c) >= 4 /\ Depth(c) <= 64
<1>1. Depth(c) = Fir(c).taps /\ Depth(c) \in 4 .. 64
  BY Buffers, Zenon
<1> QED
  BY <1>1

\* A word of a circular buffer is one of the data buffer, and tells the origin
\* of its buffer.
LEMMA WordOfBuffer ==
  ASSUME NEW c \in Channels, NEW k \in Int
  PROVE  /\ k % Size(c) \in 0 .. Size(c) - 1
         /\ Base(c) + (k % Size(c)) \in Region(c)
         /\ \A x \in Region(c) : /\ x \in Addresses /\ x \in Nat
                                 /\ RegionOrigin(x, Depth(c)) = Base(c)
                                 /\ x % Size(c) = x - Base(c)
<1> DEFINE s == Size(c)
           b == Base(c)
<1>1. s \in Nat \ {0} /\ b \in Nat /\ b % s = 0 /\ Region(c) = b .. b + s - 1
  BY Buffers DEF Region
<1>2. k % s \in 0 .. s - 1
  BY <1>1, DivMod
<1>3. ASSUME NEW x \in Region(c)
      PROVE  x \in Nat /\ x % s = x - b /\ x - (x % s) = b
  <2>1. x \in Nat /\ x - b \in 0 .. s - 1 /\ x - b \in Int /\ (x - b) + b = x
    BY <1>1
  <2>2. ((b % s) + (x - b)) % s = (b + (x - b)) % s
    <3>1. b \in Int /\ s \in Nat \ {0}
      BY <1>1
    <3> QED
      BY <2>1, <3>1, ModSum, Zenon
  <2>3. (b % s) + (x - b) = x - b /\ b + (x - b) = x
    BY <1>1, <2>1
  <2>4. (x - b) % s = x - b
    BY <1>1, <2>1, ModSmall
  <2> QED
    BY <2>1, <2>2, <2>3, <2>4, <1>1
<1>4. ASSUME NEW x \in Region(c)
      PROVE  x \in Addresses
  <2> DEFINE D == BufferDepth(Fifos)
  <2>1. x \in 0 .. D - 1 /\ D <= 1024
    BY Buffers, GeneratedMac DEF Generable
  <2>2. D \in Int
    BY GeneratedMac
  <2>3. D <= RoundUpToPowerOfTwo(D) /\ RoundUpToPowerOfTwo(D) \in Nat
    <3>1. x \in Nat /\ x < D
      BY <2>1, <2>2
    <3>2. D \in 0 .. 1024
      BY <2>1, <2>2, <3>1
    <3>3. RoundUpToPowerOfTwo(D) \in Nat \ {0} /\ D <= RoundUpToPowerOfTwo(D)
      <4> DEFINE Rounded(y) == RoundUpToPowerOfTwo(y) \in Nat \ {0} /\ y <= RoundUpToPowerOfTwo(y)
      <4>1. \A y \in 0 .. 1024 : Rounded(y)
        BY RoundedUp, Zenon
      <4>2. Rounded(D)
        <5> HIDE DEF D, Rounded
        <5> QED
          BY <3>2, <4>1
      <4> QED
        BY <4>2
    <3> QED
      BY <3>3
  <2> QED
    BY <2>1, <2>2, <2>3, <1>3 DEF Addresses
<1> QED
  BY <1>1, <1>2, <1>3, <1>4 DEF RegionOrigin, Size

LEMMA AddressCount ==
  /\ Cardinality(Addresses) \in Nat \ {0}
  /\ Addresses = 0 .. Cardinality(Addresses) - 1
<1> DEFINE A == RoundUpToPowerOfTwo(BufferDepth(Fifos))
<1>1. A \in Nat \ {0}
  <2>1. BufferDepth(Fifos) \in 0 .. 1024
    BY GeneratedMac DEF Generable
  <2> QED
    BY <2>1, RoundedUp
<1>2. Addresses = 0 .. A - 1
  BY DEF Addresses
<1> HIDE DEF A
<1>3. Cardinality(0 .. A - 1) = A
  <2>1. 0 \in Int /\ A - 1 \in Int /\ ~(0 > A - 1) /\ (A - 1) - 0 + 1 = A
    BY <1>1
  <2> QED
    BY <2>1, FS_Interval, Zenon
<1> QED
  BY <1>1, <1>2, <1>3

LEMMA OwnWords ==
  ASSUME NEW c \in Channels, NEW e \in Channels, c # e
  PROVE  Region(c) \cap Region(e) = {}
BY GeneratedMac

-----------------------------------------------------------------------------
(* The slots of a row, at the clocks of the round and beyond *)

LEMMA SlotAt ==
  ASSUME NEW t \in Int
  PROVE  /\ t % N \in Slots
         /\ \A k \in Int : RowSlot(t % N, k) = (t - k) % N
<1>1. t % N \in Slots
  BY SlotsCount, DivMod
<1>2. ASSUME NEW k \in Int
      PROVE  RowSlot(t % N, k) = (t - k) % N
  <2>1. -k \in Int /\ t % N \in Int /\ t + (-k) = t - k /\ (t % N) + (-k) = (t % N) - k
    BY <1>1, SlotsCount
  <2>2. ((t % N) + (-k)) % N = (t + (-k)) % N
    BY <2>1, SlotsCount, ModSum
  <2>3. RowSlot(t % N, k) = ((t % N) - k) % N
    BY DEF RowSlot, N
  <2> QED
    BY <2>1, <2>2, <2>3
<1> QED
  BY <1>1, <1>2

\* What the tables of the MAC have for the slots of a row.
LEMMA RowTables ==
  ASSUME NEW t \in Int, NEW c \in Channels, Updates(t % N, c), NEW d \in 0 .. Depth(c) - 1
  PROVE  /\ CHANNEL_SELECT[t % N] = c /\ DOUPDATE[t % N] /\ UPDATEFIFONUM[t % N] = c
         /\ RDFIFONUM[(t - d) % N] = c
         /\ FIRST_TAP[(t - d) % N] <=> d = Depth(c) - 1
         /\ MUL_MODE[(t - d) % N] = IF d = Depth(c) - 1 THEN 0 ELSE 1
<1> DEFINE s == t % N
           r == (t - d) % N
           f == Mac.inputs[c + 1]
<1>1. s \in Slots /\ r \in Slots /\ r = RowSlot(s, d)
  <2>1. d \in Int /\ t - d \in Int
    BY Depths
  <2> QED
    BY <2>1, SlotAt
<1>2. Mac.update[s] = f /\ f # NoFir
  BY InputsCount DEF Updates
<1>3. Mac.coeff[r] = [fir |-> f, tap |-> Depth(c) - 1 - d]
  <2>1. d \in 0 .. Fir(c).taps - 1 /\ Depth(c) = Fir(c).taps
    BY Depths
  <2> QED
    BY <1>1, <2>1, BuiltMac
<1>4. CHANNEL_SELECT[s] = c /\ DOUPDATE[s] /\ UPDATEFIFONUM[s] = c
  <2>1. CHANNEL_SELECT[s] = InputIndex(Mac, f)
    BY <1>1, <1>2 DEF CHANNEL_SELECT, ChannelSelect
  <2>2. DOUPDATE[s]
    BY <1>1, <1>2 DEF DOUPDATE, DoUpdate
  <2>3. UPDATEFIFONUM[s] = FifoIndex(Mac.fifos, f)
    BY <1>1, <1>2 DEF UPDATEFIFONUM, UpdateFifoNum
  <2> QED
    BY <2>1, <2>2, <2>3, InputNumber, FifoNumber
<1> HIDE DEF r, f
<1>5. Mac.coeff[r].fir = f /\ Mac.coeff[r].tap = Depth(c) - 1 - d /\ (Depth(c) - 1 - d = 0 <=> d = Depth(c) - 1)
  <2>1. Depth(c) \in Int /\ d \in Int
    BY Depths
  <2>2. Mac.coeff[r].fir = f /\ Mac.coeff[r].tap = Depth(c) - 1 - d
    BY <1>3
  <2> QED
    BY <2>1, <2>2
<1>6. RDFIFONUM[r] = c
  <2>1. RDFIFONUM[r] = FifoIndex(Mac.fifos, f)
    BY <1>1, <1>2, <1>5 DEF RDFIFONUM, RdFifoNum
  <2> QED
    BY <2>1, FifoNumber DEF f
<1>7. FIRST_TAP[r] <=> d = Depth(c) - 1
  BY <1>1, <1>2, <1>5 DEF FIRST_TAP, FirstTap
<1>8. MUL_MODE[r] = IF d = Depth(c) - 1 THEN 0 ELSE 1
  BY <1>1, <1>2, <1>5 DEF MUL_MODE, MulMode
<1> QED
  BY <1>4, <1>6, <1>7, <1>8 DEF r

\* A slot that selects a channel, or is to update one, is one of its updates.
LEMMA SelectsUpdated ==
  ASSUME NEW s \in Slots
  PROVE  /\ \A c \in Channels : CHANNEL_SELECT[s] = c => Updates(s, c)
         /\ DOUPDATE[s] => \E c \in Channels : Updates(s, c)
         /\ DOUPDATE[s] <=> Mac.update[s] # NoFir
<1>1. DOUPDATE[s] <=> Mac.update[s] # NoFir
  BY DEF DOUPDATE, DoUpdate
<1>2. Mac.update[s] # NoFir => \E c \in Channels : Updates(s, c)
  BY BuiltMac
<1>3. ASSUME NEW c \in Channels, CHANNEL_SELECT[s] = c
      PROVE  Updates(s, c)
  <2>1. c # NoChannel
    <3>1. c \in Nat /\ c < NoChannel /\ NoChannel = 15
      BY InputsCount DEF NoChannel
    <3> QED
      BY <3>1
  <2>2. Mac.update[s] # NoFir
    BY <1>3, <2>1 DEF CHANNEL_SELECT, ChannelSelect
  <2>3. PICK e \in Channels : Updates(s, e)
    BY <1>2, <2>2
  <2>4. CHANNEL_SELECT[s] = InputIndex(Mac, Mac.inputs[e + 1])
    BY <2>2, <2>3 DEF CHANNEL_SELECT, ChannelSelect, Updates
  <2>5. c = e
    BY <1>3, <2>4, InputNumber
  <2> QED
    BY <2>3, <2>5
<1> QED
  BY <1>1, <1>2, <1>3

\* A slot updates one channel at most.
LEMMA UpdatesOne ==
  ASSUME NEW s, NEW c \in Channels, NEW e \in Channels, Updates(s, c), Updates(s, e)
  PROVE  c = e
<1>1. \A p, q \in Channels : q \in Channels \ {p} => Mac.inputs[p + 1] # Mac.inputs[q + 1]
  BY BuiltMac, Zenon
<1> QED
  BY <1>1 DEF Updates

\* Two updates of a channel are more than its taps and two slots apart.
LEMMA UpdatesApart ==
  ASSUME NEW t \in Int, NEW c \in Channels, Updates(t % N, c), NEW k \in 1 .. Depth(c) + 2
  PROVE  ~Updates((t - k) % N, c) /\ ~Updates((t + k) % N, c)
<1>1. k \in Int /\ t + k \in Int /\ (t + k) - k = t /\ k \in 1 .. Fir(c).taps + 2
  BY Depths
<1>2. t % N \in Slots /\ RowSlot(t % N, k) = (t - k) % N
  BY <1>1, SlotAt
<1>3. (t + k) % N \in Slots /\ RowSlot((t + k) % N, k) = t % N
  <2>1. RowSlot((t + k) % N, k) = ((t + k) - k) % N /\ (t + k) % N \in Slots
    BY <1>1, SlotAt
  <2> QED
    BY <1>1, <2>1
<1>4. ~Updates((t - k) % N, c)
  BY <1>1, <1>2, CircuitAssumption
<1>5. ~Updates((t + k) % N, c)
  BY <1>1, <1>3, CircuitAssumption
<1> QED
  BY <1>4, <1>5

\* A row that is updated after slot 0 begins after it, for slot 0 ends a row.
LEMMA RowAfterReset ==
  ASSUME NEW t \in Nat \ {0}, NEW c \in Channels, Updates(t % N, c), NEW d \in 0 .. Depth(c) - 1
  PROVE  t - d >= 1
<1> SUFFICES ASSUME t <= d PROVE FALSE
  BY Depths
<1>1. t \in 0 .. Depth(c) - 1 /\ t \in Int /\ t - t = 0 /\ 0 \in Int /\ 0 - 0 = 0 /\ Depth(c) = Fir(c).taps
  BY Depths
<1>2. 0 % N = 0 /\ 0 \in Slots
  BY SlotsCount
<1>3. RowSlot(t % N, t) = 0 /\ t % N \in Slots
  BY <1>1, <1>2, SlotAt
<1> DEFINE Row(s, e) ==
              \A i \in 0 .. Fir(e).taps - 1 :
                Mac.coeff[RowSlot(s, i)] = [fir |-> Mac.inputs[e + 1], tap |-> Fir(e).taps - 1 - i]
<1>4. \A s \in Slots, e \in Channels : Updates(s, e) => Row(s, e)
  BY BuiltMac, Zenon
<1>5. Mac.coeff[0] = [fir |-> Mac.inputs[c + 1], tap |-> Depth(c) - 1 - t]
  BY <1>1, <1>3, <1>4
<1>6. PICK e \in Channels : Updates(0, e)
  BY <1>2, BuiltMac
<1>7. Row(0, e)
  BY <1>2, <1>6, <1>4, Zenon
<1>8. RowSlot(0, 0) = 0
  BY <1>1, <1>2, SlotAt
<1>9. 0 \in 0 .. Fir(e).taps - 1 /\ Depth(e) = Fir(e).taps
  BY Depths
<1>10. Mac.coeff[0] = [fir |-> Mac.inputs[e + 1], tap |-> Depth(e) - 1 - 0]
  BY <1>8, <1>9, <1>7
<1>11. Mac.inputs[c + 1] = Mac.inputs[e + 1] /\ Depth(c) - 1 - t = Depth(e) - 1 - 0
  BY <1>5, <1>10
<1>12. c = e
  <2>1. \A p, q \in Channels : q \in Channels \ {p} => Mac.inputs[p + 1] # Mac.inputs[q + 1]
    BY BuiltMac, Zenon
  <2> QED
    BY <1>11, <2>1
<1> QED
  BY <1>1, <1>11, <1>12, Depths

\* Within the period of a source, from any slot on, its channel is updated.
LEMMA UpdateComes ==
  ASSUME NEW t \in Int, NEW c \in Channels
  PROVE  Period(c) \in Nat /\ \E d \in 0 .. Period(c) - 1 : Updates((t + d) % N, c)
<1>1. Period(c) \in Nat
  <2>1. Fir(c) \in [taps : Nat, half : Nat]
    <3> DEFINE S == [taps : Nat, half : Nat]
    <3>1. \A i \in DOMAIN Filters : Filters[i] \in S
      <4>1. Filters \in Seq(S)
        BY FiltersAssumption
      <4> HIDE DEF S
      <4> QED
        BY <4>1
    <3>2. Mac.inputs[c + 1] + 1 \in DOMAIN Filters
      BY InputsCount
    <3> QED
      BY <3>1, <3>2, Zenon DEF Fir
  <2>2. Fir(c).half \in Nat
    BY <2>1
  <2> QED
    BY <2>2, DivMod DEF Period, ClocksPerSample
<1>2. t % N \in Slots
  BY SlotAt
<1>3. PICK d \in 0 .. Period(c) - 1 : Updates(RowSlot(t % N, -d), c)
  BY <1>2, BuiltMac
<1>4. -d \in Int /\ t - (-d) = t + d
  BY <1>1
<1>5. RowSlot(t % N, -d) = (t + d) % N
  <2>1. RowSlot(t % N, -d) = (t - (-d)) % N
    BY <1>4, SlotAt, Zenon
  <2> QED
    BY <2>1, <1>4
<1> QED
  BY <1>1, <1>3, <1>5

-----------------------------------------------------------------------------
(* Types *)

Coeffs == {COEFF_VALUES[a] : a \in Addresses} \cup {NoCoeff}
Terms == Coeffs \X Samples

\* The words of the Fifos, as descriptions: the address and the last word.
Words(c) == [offset : Region(c), last : {Depth(c) - 1}]
AllWords == UNION {Words(c) : c \in Channels}

InputTypes ==
    /\ rst \in BOOLEAN /\ resets \in 0 .. MaxResets
    /\ pin \in [Channels -> [changed : BOOLEAN, data : Samples]]
    /\ sent \in [Channels -> Samples]
    /\ since \in [Channels -> Nat]

PipeTypes ==
    /\ ps \in [-1 .. 9 -> SlotNumbers]
    /\ latch \in [Channels -> [data : Samples, changed : BOOLEAN, prev : BOOLEAN]]
    /\ chosen_ps2 \in [data : Samples, changed : BOOLEAN]
    /\ doUpdate \in [on : BOOLEAN, enable : 0 .. 3]
    /\ commit \in [3 .. 9 -> BOOLEAN]
    /\ wrdata \in Samples

BufferTypes ==
    /\ dataBuff \in [Addresses -> Samples]
    /\ fifoDesc \in [Channels -> AllWords]
    /\ descRead \in [addr : Channels, int : AllWords, data : AllWords]
    /\ descWrite \in Channels
    /\ rdaddr \in [coef : Addresses, data : Addresses]
    /\ rddata \in [coefInt : Coeffs, coef : Coeffs, dataInt : Samples, data : Samples]
    /\ nextAddr \in AllWords \X AllWords \X AllWords
    /\ updateAddr \in Addresses

ResultTypes ==
    /\ dsp \in [a : Coeffs, b : Samples, ad : Samples, m : Terms, result : Seq(Terms)]
    /\ Len(dsp.result) <= MaxTaps
    /\ out \in [Channels -> [data : Seq(Terms), new : BOOLEAN, changed : BOOLEAN]]
    /\ \A c \in Channels : Len(out[c].data) <= MaxTaps
    /\ pushed \in [Channels -> Seq(Samples)]
    /\ outputs \in [Channels -> Nat]

TypeInv == InputTypes /\ PipeTypes /\ BufferTypes /\ ResultTypes

LEMMA SomeChannel == 0 \in Channels /\ Len(Filters) \in Nat \ {0} /\ DOMAIN Filters = 1 .. Len(Filters)
<1>1. Channels # {}
  <2>1. 0 \in Slots
    BY SlotsCount
  <2> QED
    BY <2>1, BuiltMac
<1>2. Len(Mac.inputs) \in Nat \ {0}
  BY <1>1, InputsCount
<1>3. DOMAIN Filters = 1 .. Len(Filters)
  BY FiltersAssumption
<1> QED
  BY <1>2, <1>3, InputsCount, OneMacAssumption

\* Every sample that a source may send has a number that the bounds allow.
LEMMA SampleNumbers ==
  /\ Samples \subseteq Nat /\ 0 \in Samples
  /\ \A c \in Channels : /\ MaxSamples[c + 1] \in Nat /\ ResetSamples[c + 1] \in Nat
                         /\ ResetSamples[c + 1] <= MaxSamples[c + 1]
                         /\ 0 .. MaxSamples[c + 1] \subseteq Samples
<1> DEFINE n == Len(Filters)
           M == Max(ToSet(MaxSamples))
<1>1. n \in Nat \ {0} /\ DOMAIN MaxSamples = 1 .. n
  BY SomeChannel, BoundsAssumption
<1>2. \A i \in 1 .. n : MaxSamples[i] \in Nat /\ ResetSamples[i] \in Nat /\ ResetSamples[i] <= MaxSamples[i]
  BY SomeChannel, BoundsAssumption
<1>3. ToSet(MaxSamples) = {MaxSamples[i] : i \in 1 .. n}
  BY <1>1 DEF ToSet
<1> HIDE DEF n, M
<1>4. M \in Nat /\ \A i \in 1 .. n : MaxSamples[i] <= M
  BY <1>1, <1>2, <1>3, MaxOfValues DEF M
<1>5. Samples = 0 .. M
  BY DEF Samples, M
<1>6. \A c \in Channels : c + 1 \in 1 .. n
  BY InputsCount, OneMacAssumption DEF n
<1> QED
  BY <1>2, <1>4, <1>5, <1>6

LEMMA TapsBound ==
  MaxTaps \in Nat /\ \A c \in Channels : Depth(c) <= MaxTaps
<1> DEFINE n == Len(Filters)
           v == [i \in 1 .. n |-> Filters[i].taps]
<1>1. n \in Nat \ {0} /\ DOMAIN Filters = 1 .. n
  BY SomeChannel
<1>2. \A i \in 1 .. n : v[i] \in Nat
  <2> DEFINE S == [taps : Nat, half : Nat]
  <2>1. \A i \in DOMAIN Filters : Filters[i] \in S
    <3>1. Filters \in Seq(S)
      BY FiltersAssumption
    <3> HIDE DEF S
    <3> QED
      BY <3>1
  <2> QED
    BY <1>1, <2>1
<1>3. {v[i] : i \in 1 .. n} = {Filters[i].taps : i \in DOMAIN Filters}
  BY <1>1
<1> HIDE DEF v, n
<1>4. MaxTaps \in Nat /\ \A i \in 1 .. n : v[i] <= MaxTaps
  BY <1>1, <1>2, <1>3, MaxOfValues DEF MaxTaps
<1>5. ASSUME NEW c \in Channels
      PROVE  Depth(c) <= MaxTaps
  <2>1. Mac.inputs[c + 1] + 1 \in 1 .. n
    BY <1>1, InputsCount
  <2>2. v[Mac.inputs[c + 1] + 1] = Depth(c)
    BY <2>1, Depths DEF v, Fir
  <2> QED
    BY <1>4, <2>1, <2>2
<1> QED
  BY <1>4, <1>5

LEMMA WordFacts ==
  ASSUME NEW c \in Channels, NEW w \in Words(c)
  PROVE  /\ RegionSize(w.last + 1) = Size(c) /\ RegionOrigin(w.offset, w.last + 1) = Base(c)
         /\ w.offset \in Region(c) /\ w.offset \in Addresses /\ w.last = Depth(c) - 1
<1>1. w.offset \in Region(c) /\ w.last = Depth(c) - 1 /\ w.last + 1 = Depth(c)
  BY Depths DEF Words
<1>2. 0 \in Int
  OBVIOUS
<1>3. w.offset \in Addresses /\ RegionOrigin(w.offset, Depth(c)) = Base(c)
  BY <1>1, <1>2, WordOfBuffer, Zenon
<1> QED
  BY <1>1, <1>3 DEF Size

LEMMA NewWord ==
  ASSUME NEW c \in Channels, NEW k \in Int
  PROVE  [offset |-> Base(c) + (k % Size(c)), last |-> Depth(c) - 1] \in Words(c)
BY WordOfBuffer, Zenon DEF Words

LEMMA FirstWords ==
  /\ FIFOSIZES \in [Channels -> AllWords] /\ FIFOSIZES[0] \in AllWords
  /\ \A c \in Channels : FIFOSIZES[c] = [offset |-> Base(c) + (0 % Size(c)), last |-> Depth(c) - 1]
<1>1. ASSUME NEW c \in Channels
      PROVE  /\ FIFOSIZES[c] = [offset |-> Base(c) + (0 % Size(c)), last |-> Depth(c) - 1]
             /\ FIFOSIZES[c] \in AllWords
  <2>1. FIFOSIZES[c] = [offset |-> Base(c), last |-> Depth(c) - 1]
    BY Buffers, Zenon
  <2>2. Base(c) + (0 % Size(c)) = Base(c)
    <3>1. Size(c) \in Nat \ {0} /\ Base(c) \in Nat
      BY Buffers, Zenon
    <3> QED
      BY <3>1
  <2>3. FIFOSIZES[c] = [offset |-> Base(c) + (0 % Size(c)), last |-> Depth(c) - 1]
    BY <2>1, <2>2
  <2>4. FIFOSIZES[c] \in Words(c)
    BY <2>3, NewWord
  <2> QED
    BY <2>3, <2>4 DEF AllWords
<1>2. FIFOSIZES = [c \in Channels |-> FIFOSIZES[c]]
  <2>1. Len(Fifos) = Len(Mac.inputs)
    BY CircuitAssumption, BuiltMac
  <2> QED
    BY <2>1 DEF FIFOSIZES, Channels
<1> QED
  BY <1>1, <1>2, SomeChannel

LEMMA FifoNumbers ==
  ASSUME NEW s \in Slots
  PROVE  RDFIFONUM[s] \in Channels /\ UPDATEFIFONUM[s] \in Channels
<1>1. RDFIFONUM[s] \in Channels
  <2>1. CASE Mac.coeff[s].fir = NoFir
    BY <2>1, SomeChannel DEF RDFIFONUM, RdFifoNum
  <2>2. CASE Mac.coeff[s].fir # NoFir
    <3>1. PICK c \in Channels : Mac.coeff[s].fir = Mac.inputs[c + 1]
      BY <2>2, BuiltMac
    <3> QED
      BY <2>2, <3>1, FifoNumber DEF RDFIFONUM, RdFifoNum
  <2> QED
    BY <2>1, <2>2
<1>2. UPDATEFIFONUM[s] \in Channels
  <2>1. CASE Mac.update[s] = NoFir
    BY <2>1, SomeChannel DEF UPDATEFIFONUM, UpdateFifoNum
  <2>2. CASE Mac.update[s] # NoFir
    <3>1. PICK c \in Channels : Updates(s, c)
      BY <2>2, BuiltMac
    <3> QED
      BY <2>2, <3>1, FifoNumber DEF UPDATEFIFONUM, UpdateFifoNum, Updates
  <2> QED
    BY <2>1, <2>2
<1> QED
  BY <1>1, <1>2

LEMMA EntryOfSlot ==
  ASSUME NEW table, NEW s \in SlotNumbers, NEW zero
  PROVE  Entry(table, s, zero) = table[s]
BY SlotsCount DEF Entry

LEMMA InitTypes == Init => TypeInv
<1> SUFFICES ASSUME Init PROVE TypeInv
  OBVIOUS
<1> USE DEF Init
<1>1. 0 \in Samples /\ Samples \subseteq Nat /\ 0 \in SlotNumbers /\ 0 \in Channels
  BY SampleNumbers, SomeChannel, SlotsCount
<1>2. InputTypes
  <2>1. 0 \in 0 .. MaxResets
    BY BoundsAssumption
  <2> QED
    BY <1>1, <2>1 DEF InputTypes
<1>3. PipeTypes
  BY <1>1 DEF PipeTypes
<1>4. BufferTypes
  <2>1. 0 \in Addresses
    BY AddressCount
  <2>2. NoCoeff \in Coeffs
    BY DEF Coeffs
  <2> QED
    BY <1>1, <2>1, <2>2, FirstWords DEF BufferTypes
<1>5. ResultTypes
  <2>1. NoCoeff \in Coeffs /\ <<NoCoeff, 0>> \in Terms
    BY <1>1 DEF Terms, Coeffs
  <2>2. <<>> \in Seq(Terms) /\ <<>> \in Seq(Samples) /\ Len(<<>>) <= MaxTaps
    BY TapsBound
  <2> QED
    BY <1>1, <2>1, <2>2 DEF ResultTypes
<1> QED
  BY <1>2, <1>3, <1>4, <1>5 DEF TypeInv

\* The steps of the blocks keep their types.
LEMMA SourceTypes ==
  ASSUME TypeInv, NEW arrivals \in SUBSET Channels, NEW reset \in BOOLEAN, Source(arrivals, reset)
  PROVE  InputTypes'
<1> USE DEF Source, InputTypes, TypeInv
<1>1. rst' \in BOOLEAN /\ resets' \in 0 .. MaxResets
  BY BoundsAssumption
<1>2. ASSUME NEW c \in arrivals
      PROVE  sent[c] + 1 \in Samples
  <2>1. Limit[c + 1] \in Nat /\ Limit[c + 1] <= MaxSamples[c + 1] /\ MaxSamples[c + 1] \in Nat
    BY SampleNumbers DEF Limit
  <2>2. sent[c] < Limit[c + 1] /\ sent[c] \in Nat
    BY SampleNumbers
  <2>3. sent[c] + 1 \in 0 .. MaxSamples[c + 1]
    BY <2>1, <2>2
  <2> QED
    BY <2>3, SampleNumbers
<1>3. sent' \in [Channels -> Samples]
  BY <1>2
<1>4. pin' \in [Channels -> [changed : BOOLEAN, data : Samples]]
  <2>1. \A c \in Channels : pin[c] \in [changed : BOOLEAN, data : Samples]
    OBVIOUS
  <2>2. \A c \in Channels : [changed |-> ~pin[c].changed, data |-> sent'[c]] \in [changed : BOOLEAN, data : Samples]
    BY <1>3
  <2> QED
    BY <2>1, <2>2
<1>5. since' \in [Channels -> Nat]
  <2>1. ASSUME NEW c \in Channels
        PROVE  Min({since[c] + 1, Period(c)}) \in Nat
    <3>1. since[c] + 1 \in Nat /\ Period(c) \in Nat
      <4>1. Period(c) \in Nat
        BY UpdateComes
      <4> QED
        BY <4>1
    <3>2. {since[c] + 1, Period(c)} \subseteq Nat /\ {since[c] + 1, Period(c)} # {}
      BY <3>1
    <3> HIDE DEF Source, InputTypes, TypeInv
    <3> QED
      BY <3>2, MinOfNats
  <2>2. 0 \in Nat /\ 1 \in Nat
    OBVIOUS
  <2>3. since' = [c \in Channels |-> CASE rst /\ resets = 0 -> 0
                                      [] c \in arrivals -> 1
                                      [] OTHER -> Min({since[c] + 1, Period(c)})]
    OBVIOUS
  <2> QED
    BY <2>1, <2>2, <2>3
<1> QED
  BY <1>1, <1>3, <1>4, <1>5

LEMMA PipeTypesKept ==
  ASSUME TypeInv, InputTypes', TimeSlices, Latch, Choose, EnableUpdate, Commit
  PROVE  PipeTypes'
<1> USE DEF InputTypes, PipeTypes, TypeInv, Clocked
<1>1. 0 \in Samples /\ 0 \in SlotNumbers
  BY SampleNumbers, SlotsCount
<1>2. ps' \in [-1 .. 9 -> SlotNumbers]
  <2>1. (ps[-1] + 1) % Cardinality(SlotNumbers) \in SlotNumbers
    <3>1. N \in Nat \ {0} /\ SlotNumbers = 0 .. N - 1 /\ Cardinality(SlotNumbers) = N
      BY SlotsCount
    <3>2. ps[-1] \in SlotNumbers
      BY DEF PipeTypes
    <3> HIDE DEF InputTypes, PipeTypes, TypeInv
    <3>3. ps[-1] + 1 \in Int
      BY <3>1, <3>2
    <3> QED
      BY <3>1, <3>3, DivMod
  <2>2. \A n \in -1 .. 9 : n # -1 => n - 1 \in -1 .. 9
    OBVIOUS
  <2> QED
    BY <1>1, <2>1, <2>2 DEF TimeSlices
<1>3. latch' \in [Channels -> [data : Samples, changed : BOOLEAN, prev : BOOLEAN]]
  <2>1. ASSUME NEW c \in Channels
        PROVE  latch'[c] \in [data : Samples, changed : BOOLEAN, prev : BOOLEAN]
    <3>1. /\ latch[c] \in [data : Samples, changed : BOOLEAN, prev : BOOLEAN]
          /\ pin[c] \in [changed : BOOLEAN, data : Samples]
      OBVIOUS
    <3> QED
      BY <1>1, <3>1 DEF Latch
  <2>2. latch' = [c \in Channels |-> latch'[c]]
    BY DEF Latch
  <2> QED
    BY <2>1, <2>2
<1>4. chosen_ps2' \in [data : Samples, changed : BOOLEAN]
  BY <1>1 DEF Choose
<1>5. doUpdate' \in [on : BOOLEAN, enable : 0 .. 3]
  <2>1. Min({doUpdate.enable + 1, 3}) \in 0 .. 3
    <3>1. doUpdate.enable + 1 \in 0 .. 4 /\ 3 \in 0 .. 4
      OBVIOUS
    <3>2. {doUpdate.enable + 1, 3} \subseteq Nat
      BY <3>1
    <3>3. Min({doUpdate.enable + 1, 3}) \in {doUpdate.enable + 1, 3} /\ Min({doUpdate.enable + 1, 3}) <= 3
      BY <3>2, MinOfNats
    <3> QED
      BY <3>1, <3>3
  <2>2. (doUpdate.enable = 3 /\ Entry(DOUPDATE, ps[1], FALSE)) \in BOOLEAN
    OBVIOUS
  <2> QED
    BY <2>1, <2>2 DEF EnableUpdate
<1>6. commit' \in [3 .. 9 -> BOOLEAN]
  <2>1. \A n \in 3 .. 9 : n # 3 => n - 1 \in 3 .. 9
    OBVIOUS
  <2>2. commit' = [n \in 3 .. 9 |-> commit'[n]]
    BY DEF Commit
  <2>3. \A n \in 3 .. 9 : commit'[n] \in BOOLEAN
    BY <2>1 DEF Commit
  <2> QED
    BY <2>2, <2>3
<1>7. wrdata' \in Samples
  BY DEF Commit
<1> QED
  BY <1>2, <1>3, <1>4, <1>5, <1>6, <1>7

LEMMA CurrWord ==
  ASSUME TypeInv
  PROVE  \E c \in Channels :
            /\ descRead.data \in Words(c)
            /\ CurrSize = Size(c) /\ CurrOrigin = Base(c)
            /\ \A k \in Int : CurrOrigin + (k % CurrSize) \in Region(c)
<1>1. PICK c \in Channels : descRead.data \in Words(c)
  BY DEF TypeInv, BufferTypes, AllWords
<1>2. CurrSize = Size(c) /\ CurrOrigin = Base(c)
  BY <1>1, WordFacts, Zenon DEF CurrSize, CurrOrigin
<1>3. \A k \in Int : CurrOrigin + (k % CurrSize) \in Region(c)
  BY <1>2, WordOfBuffer
<1> QED
  BY <1>1, <1>2, <1>3

LEMMA RegionAddresses ==
  ASSUME NEW c \in Channels
  PROVE  Region(c) \subseteq Addresses /\ Addresses \subseteq Nat
<1>1. 0 \in Int
  OBVIOUS
<1>2. Region(c) \subseteq Addresses
  BY <1>1, WordOfBuffer, Zenon
<1> QED
  BY <1>2, AddressCount

LEMMA BufferTypesKept ==
  ASSUME TypeInv, DataBuffers, FifoDescs, ReadAddresses, UpdateAddresses
  PROVE  BufferTypes'
<1> USE DEF BufferTypes, TypeInv
<1>1. PICK c \in Channels :
            /\ descRead.data \in Words(c)
            /\ CurrSize = Size(c) /\ CurrOrigin = Base(c)
            /\ \A k \in Int : CurrOrigin + (k % CurrSize) \in Region(c)
  BY CurrWord
<1>2. Region(c) \subseteq Addresses /\ Addresses \subseteq Nat
  BY RegionAddresses
<1>3. descRead.data.offset \in Addresses /\ descRead.data.last = Depth(c) - 1
  BY <1>1, WordFacts
<1>4. PipeTypes
  OBVIOUS
<1>5. dataBuff' \in [Addresses -> Samples]
  BY <1>4 DEF DataBuffers, PipeTypes
<1>6. fifoDesc' \in [Channels -> AllWords]
  BY DEF FifoDescs
<1>7. descRead' \in [addr : Channels, int : AllWords, data : AllWords]
  <2>1. ps[-1] \in SlotNumbers
    BY <1>4 DEF PipeTypes
  <2>2. Entry(RDFIFONUM, ps[-1], 0) \in Channels
    BY <2>1, EntryOfSlot, FifoNumbers, SlotsCount
  <2> QED
    BY <2>2 DEF FifoDescs
<1>8. descWrite' \in Channels
  <2>1. ps[2] \in SlotNumbers
    BY <1>4 DEF PipeTypes
  <2>2. Entry(UPDATEFIFONUM, ps[2], 0) \in Channels
    BY <2>1, EntryOfSlot, FifoNumbers, SlotsCount
  <2> QED
    BY <2>2 DEF FifoDescs
<1>9. rdaddr' \in [coef : Addresses, data : Addresses]
  <2>1. CurrOrigin \in Addresses
    <3>1. Base(c) \in Region(c)
      <4>1. Base(c) \in Nat /\ Size(c) \in Nat \ {0, 1}
        BY Buffers, Zenon
      <4> QED
        BY <4>1 DEF Region
    <3> QED
      BY <1>1, <1>2, <3>1
  <2>2. (rdaddr.coef + 1) % Cardinality(Addresses) \in Addresses
    <3>1. rdaddr.coef + 1 \in Int
      <4>1. rdaddr.coef \in Addresses
        OBVIOUS
      <4> HIDE DEF BufferTypes, TypeInv
      <4>2. rdaddr.coef \in Nat
        BY <1>2, <4>1
      <4> QED
        BY <4>2
    <3> QED
      BY <3>1, AddressCount, DivMod
  <2>3. CurrOrigin + ((rdaddr.data - 1) % CurrSize) \in Addresses
    <3>1. rdaddr.data - 1 \in Int
      <4>1. rdaddr.data \in Addresses
        OBVIOUS
      <4> HIDE DEF BufferTypes, TypeInv
      <4>2. rdaddr.data \in Nat
        BY <1>2, <4>1
      <4> QED
        BY <4>2
    <3> QED
      BY <3>1, <1>1, <1>2
  <2> QED
    BY <2>1, <2>2, <2>3, <1>3 DEF ReadAddresses
<1>10. rddata' \in [coefInt : Coeffs, coef : Coeffs, dataInt : Samples, data : Samples]
  <2>1. COEFF_VALUES[rdaddr.coef] \in Coeffs
    BY DEF Coeffs
  <2> QED
    BY <2>1 DEF DataBuffers
<1>11. nextAddr' \in AllWords \X AllWords \X AllWords
  <2>1. descRead.data.offset + 1 \in Int
    <3>1. descRead.data.offset \in Nat
      BY <1>2, <1>3
    <3> QED
      BY <3>1
  <2>2. [offset |-> CurrOrigin + ((descRead.data.offset + 1) % CurrSize), last |-> descRead.data.last] \in Words(c)
    BY <1>1, <1>3, <2>1 DEF Words
  <2>3. [offset |-> CurrOrigin + ((descRead.data.offset + 1) % CurrSize), last |-> descRead.data.last] \in AllWords
    BY <2>2 DEF AllWords
  <2> QED
    BY <2>3 DEF UpdateAddresses
<1>12. updateAddr' \in Addresses
  <2>1. \A w \in AllWords : w.offset \in Addresses
    BY WordFacts DEF AllWords
  <2>2. nextAddr[3] \in AllWords
    OBVIOUS
  <2> QED
    BY <2>1, <2>2 DEF UpdateAddresses
<1> QED
  BY <1>5, <1>6, <1>7, <1>8, <1>9, <1>10, <1>11, <1>12

LEMMA ResultTypesKept ==
  ASSUME TypeInv, Dsp, Outputs, History
  PROVE  ResultTypes'
<1>1. /\ dsp \in [a : Coeffs, b : Samples, ad : Samples, m : Terms, result : Seq(Terms)]
      /\ Len(dsp.result) <= MaxTaps
      /\ out \in [Channels -> [data : Seq(Terms), new : BOOLEAN, changed : BOOLEAN]]
      /\ \A c \in Channels : Len(out[c].data) <= MaxTaps
      /\ pushed \in [Channels -> Seq(Samples)] /\ outputs \in [Channels -> Nat]
  BY DEF TypeInv, ResultTypes
<1>2. rddata.coef \in Coeffs /\ rddata.data \in Samples /\ wrdata \in Samples
  BY DEF TypeInv, BufferTypes, PipeTypes
<1>3. MaxTaps \in Nat /\ 1 <= MaxTaps
  <2>1. Depth(0) <= MaxTaps /\ Depth(0) >= 4 /\ Depth(0) \in Nat /\ MaxTaps \in Nat
    BY SomeChannel, TapsBound, Depths
  <2> QED
    BY <2>1
<1>4. /\ dsp' \in [a : Coeffs, b : Samples, ad : Samples, m : Terms, result : Seq(Terms)]
      /\ Len(dsp'.result) <= MaxTaps
  <2>1. <<dsp.a, dsp.ad>> \in Terms /\ dsp.b \in Samples
    BY <1>1 DEF Terms
  <2> HIDE DEF Terms
  <2>2. dsp.m \in Terms
    BY <1>1
  <2>3. dsp.result \in Seq(Terms) /\ Len(dsp.result) \in Nat
    BY <1>1
  <2>4. <<dsp.m>> \in Seq(Terms) /\ Len(<<dsp.m>>) = 1
    BY <2>2
  <2>5. <<>> \in Seq(Terms) /\ Len(<<>>) = 0
    OBVIOUS
  <2>6. Append(dsp.result, dsp.m) \in Seq(Terms) /\ Len(Append(dsp.result, dsp.m)) = Len(dsp.result) + 1
    BY <2>2, <2>3
  <2>7. Len(dsp.result) # MaxTaps => Len(dsp.result) + 1 <= MaxTaps
    BY <1>1, <1>3, <2>3
  <2>8. /\ dsp'.a \in Coeffs /\ dsp'.b \in Samples /\ dsp'.ad \in Samples /\ dsp'.m \in Terms
        /\ dsp' = [a |-> dsp'.a, b |-> dsp'.b, ad |-> dsp'.ad, m |-> dsp'.m, result |-> dsp'.result]
    BY <1>2, <2>1 DEF Dsp
  <2>9. \/ dsp'.result = <<dsp.m>> \/ dsp'.result = <<>>
        \/ dsp'.result = Append(dsp.result, dsp.m) /\ Len(dsp.result) # MaxTaps
    BY DEF Dsp
  <2>10. dsp'.result \in Seq(Terms) /\ Len(dsp'.result) <= MaxTaps
    <3>1. CASE dsp'.result = <<dsp.m>>
      BY <3>1, <2>4, <1>3
    <3>2. CASE dsp'.result = <<>>
      BY <3>2, <2>5, <1>3
    <3>3. CASE dsp'.result = Append(dsp.result, dsp.m) /\ Len(dsp.result) # MaxTaps
      BY <3>3, <2>6, <2>7
    <3> QED
      BY <2>9, <3>1, <3>2, <3>3
  <2> QED
    BY <2>8, <2>10
<1>5. /\ out' \in [Channels -> [data : Seq(Terms), new : BOOLEAN, changed : BOOLEAN]]
      /\ \A c \in Channels : Len(out'[c].data) <= MaxTaps
  <2>1. out' = [c \in Channels |-> out'[c]]
    BY DEF Outputs
  <2>2. ASSUME NEW c \in Channels
        PROVE  /\ out'[c] \in [data : Seq(Terms), new : BOOLEAN, changed : BOOLEAN]
               /\ Len(out'[c].data) <= MaxTaps
    <3>1. /\ out[c] \in [data : Seq(Terms), new : BOOLEAN, changed : BOOLEAN]
          /\ Len(out[c].data) <= MaxTaps /\ dsp.result \in Seq(Terms) /\ Len(dsp.result) <= MaxTaps
      BY <1>1
    <3>2. <<>> \in Seq(Terms) /\ Len(<<>>) <= MaxTaps
      BY <1>3
    <3>3. \/ out'[c] = [data |-> <<>>, new |-> FALSE, changed |-> FALSE]
          \/ out'[c] = [data    |-> IF channelSel_ps9 = c THEN dsp.result ELSE out[c].data,
                        new     |-> channelSel_ps9 = c /\ commit[9],
                        changed |-> out[c].changed # out[c].new]
      BY DEF Outputs, Clocked
    <3>4. (channelSel_ps9 = c /\ commit[9]) \in BOOLEAN /\ (out[c].changed # out[c].new) \in BOOLEAN
      <4>1. commit[9] \in BOOLEAN
        BY DEF TypeInv, PipeTypes
      <4> QED
        BY <4>1
    <3>5. CASE out'[c] = [data |-> <<>>, new |-> FALSE, changed |-> FALSE]
      <4>1. out'[c].data = <<>>
        BY <3>5
      <4> QED
        BY <3>2, <3>5, <4>1
    <3>6. CASE out'[c] = [data    |-> IF channelSel_ps9 = c THEN dsp.result ELSE out[c].data,
                          new     |-> channelSel_ps9 = c /\ commit[9],
                          changed |-> out[c].changed # out[c].new]
      <4> DEFINE d == IF channelSel_ps9 = c THEN dsp.result ELSE out[c].data
      <4>1. d \in Seq(Terms) /\ Len(d) <= MaxTaps
        BY <3>1
      <4>2. out'[c].data = d
        BY <3>6
      <4> HIDE DEF d
      <4> QED
        BY <3>4, <3>6, <4>1, <4>2 DEF d
    <3> QED
      BY <3>3, <3>5, <3>6
  <2> QED
    BY <2>1, <2>2
<1>6. pushed' \in [Channels -> Seq(Samples)]
  <2>1. \A c \in Channels : pushed[c] \in Seq(Samples) /\ Append(pushed[c], wrdata) \in Seq(Samples)
    BY <1>1, <1>2
  <2> QED
    BY <2>1 DEF History
<1>7. outputs' \in [Channels -> Nat]
  <2>1. \A c \in Channels : outputs[c] \in Nat /\ outputs[c] + 1 \in Nat
    BY <1>1
  <2> QED
    BY <2>1 DEF History
<1> QED
  BY <1>4, <1>5, <1>6, <1>7 DEF ResultTypes

LEMMA NextTypes == TypeInv /\ [Next]_vars => TypeInv'
<1> SUFFICES ASSUME TypeInv, [Next]_vars PROVE TypeInv'
  OBVIOUS
<1>1. CASE UNCHANGED vars
  <2>1. InputTypes' /\ PipeTypes'
    BY <1>1 DEF TypeInv, InputTypes, PipeTypes, vars, inputs, pipeline, buffers, results
  <2>2. BufferTypes'
    BY <1>1 DEF TypeInv, BufferTypes, vars, buffers
  <2>3. ResultTypes'
    BY <1>1 DEF TypeInv, ResultTypes, vars, results
  <2> QED
    BY <2>1, <2>2, <2>3 DEF TypeInv
<1>2. CASE Next
  <2>1. PICK arrivals \in SUBSET Channels, reset \in BOOLEAN : Clock(arrivals, reset)
    BY <1>2 DEF Next
  <2>2. InputTypes'
    BY <2>1, SourceTypes DEF Clock
  <2>3. PipeTypes'
    BY <2>1, <2>2, PipeTypesKept DEF Clock
  <2>4. BufferTypes'
    BY <2>1, BufferTypesKept DEF Clock
  <2>5. ResultTypes'
    BY <2>1, ResultTypesKept DEF Clock
  <2> QED
    BY <2>2, <2>3, <2>4, <2>5 DEF TypeInv
<1> QED
  BY <1>1, <1>2

LEMMA TypesHold == TypeInv => TypeOK
<1> SUFFICES ASSUME TypeInv PROVE TypeOK
  OBVIOUS
<1>1. fifoDesc \in [0 .. Len(Fifos) - 1 -> [offset : Addresses, last : 0 .. 63]]
  <2>1. Len(Fifos) = Len(Mac.inputs) /\ fifoDesc \in [Channels -> AllWords]
    BY CircuitAssumption, BuiltMac DEF TypeInv, BufferTypes
  <2>2. ASSUME NEW c \in Channels, NEW w \in Words(c)
        PROVE  w \in [offset : Addresses, last : 0 .. 63]
    <3>1. w.offset \in Addresses /\ w.last = Depth(c) - 1 /\ Depth(c) \in Nat /\ Depth(c) >= 4 /\ Depth(c) <= 64
      BY WordFacts, Depths
    <3>2. w.last \in 0 .. 63
      BY <3>1
    <3>3. w = [offset |-> w.offset, last |-> w.last]
      BY DEF Words
    <3> QED
      BY <3>1, <3>2, <3>3
  <2>3. \A w \in AllWords : w \in [offset : Addresses, last : 0 .. 63]
    BY <2>2 DEF AllWords
  <2>4. fifoDesc \in [Channels -> [offset : Addresses, last : 0 .. 63]]
    BY <2>1, <2>3
  <2> QED
    BY <2>1, <2>4 DEF Channels
<1>2. /\ rst \in BOOLEAN /\ resets \in 0 .. MaxResets
      /\ pin \in [Channels -> [changed : BOOLEAN, data : Samples]]
  BY DEF TypeInv, InputTypes
<1>3. /\ ps \in [-1 .. 9 -> SlotNumbers]
      /\ latch \in [Channels -> [data : Samples, changed : BOOLEAN, prev : BOOLEAN]]
      /\ commit \in [3 .. 9 -> BOOLEAN]
  BY DEF TypeInv, PipeTypes
<1>4. /\ dataBuff \in [Addresses -> Samples]
      /\ rdaddr.coef \in Addresses /\ rdaddr.data \in Addresses /\ updateAddr \in Addresses
  BY DEF TypeInv, BufferTypes
<1>5. \A c \in Channels : Len(out[c].data) <= MaxTaps
  BY DEF TypeInv, ResultTypes
<1> QED
  BY <1>1, <1>2, <1>3, <1>4, <1>5 DEF TypeOK

\* The registers keep their types: no address leaves the buffers, no position
\* its Fifo, and no sum has more products than the longest filter has taps.
THEOREM TypeCorrect == Spec => []TypeOK
<1>1. Init => TypeInv
  BY InitTypes
<1>2. TypeInv /\ [Next]_vars => TypeInv'
  BY NextTypes
<1>3. TypeInv => TypeOK
  BY TypesHold
<1> QED
  BY <1>1, <1>2, <1>3, PTL DEF Spec

-----------------------------------------------------------------------------
(* The pipeline *)

\* a is the number of clocks since the last reset. The slot in stage n is then
\* that of clock a - 1 - n: there, after slot 0 and d slots before an update of
\* channel c, which ends its row.
At(a, n, c, d) ==
    /\ a >= n + 2 /\ d \in 0 .. Depth(c) - 1
    /\ Updates((a - 1 - n + d) % N, c)

\* The samples of a channel that the row sees which is updated by the slot in
\* stage m: not the sample which that update has pushed.
Before(c, m) == IF m \in 4 .. 9 /\ commit[m] THEN Front(pushed[c]) ELSE pushed[c]

\* The coefficient of tap k and its sample.
Coeff(c, k) == [fir |-> Mac.inputs[c + 1], tap |-> k]
Sample(samples, k) == IF k < Len(samples) THEN samples[Len(samples) - k] ELSE 0

\* The first n products of a row: the coefficient is that of the slot after the
\* sample's, and so not one of the row if the row ends with the sample.
Products(c, samples, n, sum) ==
    /\ Len(sum) = n
    /\ \A k \in 1 .. n : sum[k][2] = Sample(samples, k - 1) /\ (k < Depth(c) => sum[k][1] = Coeff(c, k))

Tap(c, d) == Depth(c) - 1 - d
NextWord(c) ==
    [offset |-> Base(c) + ((Len(pushed[c]) + 1) % Size(c)), last |-> Depth(c) - 1]

CounterInv(a) ==
    /\ rst => a = 0
    /\ ps[-1] = a % N
    /\ \A n \in 0 .. 9 : a > n => ps[n] = (a - 1 - n) % N
    /\ doUpdate.enable = IF a <= 3 THEN a ELSE 3
    /\ doUpdate.on => a >= 4 /\ Mac.update[(a - 3) % N] # NoFir

\* A commit belongs to an update after slot 0.
CommitInv(a) ==
    \A n \in 3 .. 9 : commit[n] => a >= n + 2 /\ Mac.update[(a - 1 - n) % N] # NoFir

TableInv(a) ==
    /\ a >= 1 => descRead.addr = RDFIFONUM[(a - 1) % N]
    /\ a >= 3 => firstTap_ps2 = FIRST_TAP[(a - 3) % N]
    /\ a >= 4 => descWrite = UPDATEFIFONUM[(a - 4) % N]
    /\ a >= 10 => channelSel_ps9 = CHANNEL_SELECT[(a - 10) % N]

\* The positions that are read, and the words for the next samples.
PositionInv(a) ==
    \A c \in Channels : \A d \in 0 .. Depth(c) - 1 :
        /\ At(a, 1, c, d) => descRead.int = fifoDesc[c]
        /\ At(a, 2, c, d) => descRead.data = fifoDesc[c]
        /\ \A n \in 3 .. 5 : At(a, n, c, d) /\ n <= d + 3 => nextAddr[n - 2] = NextWord(c)
        /\ At(a, 3, c, d) /\ d = 0 /\ commit[3] => updateAddr = NextWord(c).offset

\* The registers that the coefficient and the sample of a slot pass through.
CoeffIn(n) == CASE n = 4 -> rddata.coefInt [] n = 5 -> rddata.coef [] n = 6 -> dsp.a
SampleIn(n) ==
    CASE n = 4 -> rddata.dataInt
      [] n = 5 -> rddata.data
      [] n = 6 -> dsp.b
      [] n = 7 -> dsp.ad
      [] n = 8 -> dsp.m[2]

\* The operands of the products.
OperandInv(a) ==
    \A c \in Channels : \A d \in 0 .. Depth(c) - 1 :
        /\ At(a, 3, c, d) =>
            rdaddr = [coef |-> Base(c) + Tap(c, d),
                      data |-> Base(c) + ((Len(pushed[c]) - Tap(c, d)) % Size(c))]
        /\ \A n \in 4 .. 6 : At(a, n, c, d) => CoeffIn(n) = Coeff(c, Tap(c, d))
        /\ \A n \in 4 .. 8 : At(a, n, c, d) => SampleIn(n) = Sample(Before(c, n - d), Tap(c, d))
        /\ At(a, 8, c, d) /\ d > 0 => dsp.m[1] = Coeff(c, Tap(c, d) + 1)

\* The sum of a row, up to the tap in stage 9.
SumInv(a) ==
    \A c \in Channels : \A d \in 0 .. Depth(c) - 1 :
        At(a, 9, c, d) => Products(c, Before(c, 9 - d), Tap(c, d) + 1, dsp.result)

OutInv(a) ==
    \A c \in Channels :
        /\ rst => ~out[c].changed
        /\ out[c].new => /\ a >= 12 /\ Updates((a - 11) % N, c)
                         /\ ShiftedWindow(c, Front(pushed[c]), out[c].data)

PipeInv(a) ==
    /\ CounterInv(a) /\ CommitInv(a) /\ TableInv(a)
    /\ PositionInv(a) /\ OperandInv(a) /\ SumInv(a) /\ OutInv(a)

LEMMA FrontOfAppend ==
  ASSUME NEW S, NEW q \in Seq(S), NEW x \in S
  PROVE  Front(Append(q, x)) = q
<1>1. Len(q) \in Nat /\ Len(Append(q, x)) = Len(q) + 1
  OBVIOUS
<1>2. Front(Append(q, x)) = SubSeq(Append(q, x), 1, Len(q))
  BY <1>1 DEF Front
<1> QED
  BY <1>1, <1>2

\* A slot in a row that ends after slot 0 is there.
LEMMA InRow ==
  ASSUME NEW a \in Nat, NEW n \in Nat, NEW c \in Channels, NEW d \in 0 .. Depth(c) - 1,
         a - 1 - n + d >= 1, Updates((a - 1 - n + d) % N, c)
  PROVE  At(a, n, c, d)
<1> DEFINE t == a - 1 - n + d
<1>1. Depth(c) \in Nat /\ d \in Nat
  BY Depths
<1>2. t \in Nat \ {0}
  BY <1>1
<1>3. t - d >= 1
  BY <1>2, RowAfterReset
<1>4. a >= n + 2
  BY <1>1, <1>3
<1> QED
  BY <1>4 DEF At

\* A clock later the slots are in the next stage.
LEMMA NextStage ==
  ASSUME NEW a \in Nat, NEW n \in Nat, NEW c, NEW d
  PROVE  At(a + 1, n + 1, c, d) => At(a, n, c, d)
<1>1. a + 1 - 1 - (n + 1) = a - 1 - n /\ (a + 1 >= (n + 1) + 2 => a >= n + 2)
  OBVIOUS
<1> QED
  BY <1>1 DEF At

LEMMA CounterStep ==
  ASSUME TypeInv, NEW a \in Nat, CounterInv(a), CommitInv(a), ~rst, ~rst',
         TimeSlices, EnableUpdate, Commit
  PROVE  CounterInv(a + 1)' /\ CommitInv(a + 1)'
<1>1. N \in Nat \ {0} /\ SlotNumbers = Slots /\ Cardinality(SlotNumbers) = N
  BY SlotsCount
<1>2. ps \in [-1 .. 9 -> SlotNumbers] /\ commit \in [3 .. 9 -> BOOLEAN] /\ doUpdate.enable \in 0 .. 3
  BY DEF TypeInv, PipeTypes
<1>3. ps' = [n \in -1 .. 9 |-> IF n = -1 THEN (ps[-1] + 1) % N ELSE ps[n - 1]]
  BY <1>1 DEF TimeSlices, Clocked
<1>4. ps'[-1] = (a + 1) % N
  <2>1. ps'[-1] = ((a % N) + 1) % N
    BY <1>3 DEF CounterInv
  <2>2. a \in Int /\ 1 \in Int
    OBVIOUS
  <2>3. ((a % N) + 1) % N = (a + 1) % N
    BY <2>2, <1>1, ModSum, Zenon
  <2> QED
    BY <2>1, <2>3
<1>5. ASSUME NEW n \in 0 .. 9, a + 1 > n
      PROVE  ps'[n] = (a + 1 - 1 - n) % N
  <2>1. ps'[n] = ps[n - 1]
    BY <1>3
  <2>2. CASE n = 0
    <3>1. a + 1 - 1 - n = a
      BY <2>2
    <3> QED
      BY <2>1, <2>2, <3>1 DEF CounterInv
  <2>3. CASE n # 0
    <3>1. n - 1 \in 0 .. 9 /\ a > n - 1 /\ a - 1 - (n - 1) = a + 1 - 1 - n
      BY <1>5, <2>3
    <3>2. ps[n - 1] = (a - 1 - (n - 1)) % N
      BY <3>1 DEF CounterInv
    <3> QED
      BY <2>1, <3>1, <3>2
  <2> QED
    BY <2>2, <2>3
<1>6. doUpdate'.enable = IF a + 1 <= 3 THEN a + 1 ELSE 3
  <2>1. doUpdate'.enable = Min({doUpdate.enable + 1, 3})
    BY DEF EnableUpdate, Clocked
  <2> DEFINE e == doUpdate.enable + 1
  <2>2. e \in Nat /\ e = IF a <= 3 THEN a + 1 ELSE 4
    BY <1>2 DEF CounterInv
  <2> HIDE DEF e
  <2>3. Min({e, 3}) = IF e <= 3 THEN e ELSE 3
    BY <2>2 DEF Min
  <2> QED
    BY <2>1, <2>2, <2>3 DEF e
<1>7. ASSUME doUpdate'.on
      PROVE  a + 1 >= 4 /\ Mac.update[(a + 1 - 3) % N] # NoFir
  <2>1. doUpdate.enable = 3 /\ Entry(DOUPDATE, ps[1], FALSE)
    BY <1>7 DEF EnableUpdate, Clocked
  <2>2. a >= 3
    BY <2>1 DEF CounterInv
  <2>3. ps[1] = (a - 1 - 1) % N /\ a - 1 - 1 = a + 1 - 3
    BY <2>2 DEF CounterInv
  <2>4. ps[1] \in Slots /\ DOUPDATE[ps[1]]
    <3>1. ps[1] \in SlotNumbers
      BY <1>2
    <3>2. Entry(DOUPDATE, ps[1], FALSE) = DOUPDATE[ps[1]]
      BY <3>1, EntryOfSlot
    <3> QED
      BY <3>1, <3>2, <2>1, <1>1
  <2>5. Mac.update[ps[1]] # NoFir
    BY <2>4, SelectsUpdated
  <2> QED
    BY <2>2, <2>3, <2>5
<1>8. CounterInv(a + 1)'
  BY <1>4, <1>5, <1>6, <1>7 DEF CounterInv
<1>9. ASSUME NEW n \in 3 .. 9, commit'[n]
      PROVE  a + 1 >= n + 2 /\ Mac.update[(a + 1 - 1 - n) % N] # NoFir
  <2>1. commit'[n] = IF n = 3 THEN doUpdate.on /\ chosen_ps2.changed ELSE commit[n - 1]
    BY DEF Commit, Clocked
  <2>2. CASE n = 3
    <3>1. doUpdate.on
      BY <1>9, <2>1, <2>2
    <3>2. a >= 4 /\ Mac.update[(a - 3) % N] # NoFir
      BY <3>1 DEF CounterInv
    <3>3. a + 1 - 1 - n = a - 3
      BY <2>2
    <3> QED
      BY <2>2, <3>2, <3>3
  <2>3. CASE n # 3
    <3>1. n - 1 \in 3 .. 9 /\ commit[n - 1]
      BY <1>9, <2>1, <2>3
    <3>2. a >= (n - 1) + 2 /\ Mac.update[(a - 1 - (n - 1)) % N] # NoFir
      BY <3>1 DEF CommitInv
    <3>3. a - 1 - (n - 1) = a + 1 - 1 - n
      OBVIOUS
    <3> QED
      BY <3>2, <3>3
  <2> QED
    BY <2>2, <2>3
<1>10. CommitInv(a + 1)'
  BY <1>9 DEF CommitInv
<1> QED
  BY <1>8, <1>10

LEMMA TableStep ==
  ASSUME TypeInv, NEW a \in Nat, CounterInv(a), FifoDescs, Outputs
  PROVE  TableInv(a + 1)'
<1>1. \A n \in 0 .. 9 : a > n => ps[n] = (a - 1 - n) % N
  BY DEF CounterInv
<1>2. \A n \in -1 .. 9 : ps[n] \in SlotNumbers
  BY DEF TypeInv, PipeTypes
<1>3. descRead'.addr = RDFIFONUM[(a + 1 - 1) % N]
  <2>1. descRead'.addr = RDFIFONUM[ps[-1]]
    BY <1>2, EntryOfSlot DEF FifoDescs
  <2>2. ps[-1] = a % N /\ a + 1 - 1 = a
    BY DEF CounterInv
  <2> QED
    BY <2>1, <2>2
<1>4. a + 1 >= 3 => firstTap_ps2' = FIRST_TAP[(a + 1 - 3) % N]
  <2>1. firstTap_ps2' = FIRST_TAP[ps[1]]
    <3>1. ps[1] \in SlotNumbers
      BY <1>2
    <3>2. firstTap_ps2' = Entry(FIRST_TAP, ps[1], FALSE)
      BY DEF FifoDescs
    <3> QED
      BY <3>1, <3>2, EntryOfSlot, Zenon
  <2>2. a + 1 >= 3 => ps[1] = (a - 1 - 1) % N /\ a - 1 - 1 = a + 1 - 3
    BY <1>1
  <2> QED
    BY <2>1, <2>2
<1>5. a + 1 >= 4 => descWrite' = UPDATEFIFONUM[(a + 1 - 4) % N]
  <2>1. descWrite' = UPDATEFIFONUM[ps[2]]
    BY <1>2, EntryOfSlot DEF FifoDescs
  <2>2. a + 1 >= 4 => ps[2] = (a - 1 - 2) % N /\ a - 1 - 2 = a + 1 - 4
    BY <1>1
  <2> QED
    BY <2>1, <2>2
<1>6. a + 1 >= 10 => channelSel_ps9' = CHANNEL_SELECT[(a + 1 - 10) % N]
  <2>1. channelSel_ps9' = CHANNEL_SELECT[ps[8]]
    BY <1>2, EntryOfSlot DEF Outputs
  <2>2. a + 1 >= 10 => ps[8] = (a - 1 - 8) % N /\ a - 1 - 8 = a + 1 - 10
    BY <1>1
  <2> QED
    BY <2>1, <2>2
<1> QED
  BY <1>3, <1>4, <1>5, <1>6 DEF TableInv

\* What a clock does to the buffer of a channel: it adds a sample to it when an
\* update of the channel is committed, and nothing otherwise.
Pushes(a, c) == commit[3] /\ Updates((a - 4) % N, c)

LEMMA Pushed ==
  ASSUME TypeInv, NEW a \in Nat, CounterInv(a), CommitInv(a), TableInv(a), PositionInv(a),
         DataBuffers, FifoDescs, History, NEW c \in Channels, Pushes(a, c)
  PROVE  /\ pushed'[c] = Append(pushed[c], wrdata)
         /\ fifoDesc'[c] = NextWord(c)
         /\ \A x \in Region(c) :
                dataBuff'[x] = IF x = NextWord(c).offset THEN wrdata ELSE dataBuff[x]
<1>1. commit[3] /\ Updates((a - 4) % N, c)
  BY DEF Pushes
<1>2. a >= 5 /\ ps[3] = (a - 4) % N /\ a - 1 - 3 = a - 4 /\ a - 1 - 3 + 0 = a - 4 /\ a - 4 \in Int
      /\ a - 1 - 5 + 2 = a - 4
  <2>1. a >= 5
    BY <1>1 DEF CommitInv
  <2>2. ps[3] = (a - 1 - 3) % N /\ a - 1 - 3 = a - 4
    BY <2>1 DEF CounterInv
  <2> QED
    BY <2>1, <2>2
<1>3. 0 \in 0 .. Depth(c) - 1 /\ 2 \in 0 .. Depth(c) - 1 /\ 2 \in Nat /\ 5 \in Nat /\ 5 <= 2 + 3
  BY Depths
<1>4. At(a, 3, c, 0)
  BY <1>1, <1>2, <1>3 DEF At
<1>5. At(a, 5, c, 2)
  <2>1. a - 1 - 5 + 2 >= 1 /\ Updates((a - 1 - 5 + 2) % N, c)
    BY <1>1, <1>2
  <2> QED
    BY <2>1, <1>3, InRow
<1>6. updateAddr = NextWord(c).offset
  BY <1>1, <1>3, <1>4 DEF PositionInv
<1>7. nextAddr[3] = NextWord(c)
  <2>1. 5 \in 3 .. 5 /\ 5 - 2 = 3
    OBVIOUS
  <2>2. nextAddr[5 - 2] = NextWord(c)
    BY <1>3, <1>5, <2>1 DEF PositionInv
  <2> QED
    BY <2>1, <2>2
<1>8. descWrite = c
  <2>1. descWrite = UPDATEFIFONUM[(a - 4) % N]
    BY <1>2 DEF TableInv
  <2> QED
    BY <2>1, <1>1, <1>2, <1>3, RowTables
<1>9. fifoDesc'[c] = NextWord(c)
  BY <1>1, <1>7, <1>8 DEF FifoDescs, TypeInv, BufferTypes
<1>10. pushed'[c] = Append(pushed[c], wrdata)
  BY <1>1, <1>2 DEF History
<1>11. ASSUME NEW x \in Region(c)
       PROVE  dataBuff'[x] = IF x = NextWord(c).offset THEN wrdata ELSE dataBuff[x]
  <2>1. x \in Addresses /\ DOMAIN dataBuff = Addresses
    BY RegionAddresses DEF TypeInv, BufferTypes
  <2>2. dataBuff' = [dataBuff EXCEPT ![NextWord(c).offset] = wrdata]
    BY <1>1, <1>6 DEF DataBuffers
  <2> QED
    BY <2>1, <2>2
<1> QED
  BY <1>9, <1>10, <1>11

LEMMA NotPushed ==
  ASSUME TypeInv, NEW a \in Nat, CounterInv(a), CommitInv(a), TableInv(a), PositionInv(a),
         DataBuffers, FifoDescs, History, NEW c \in Channels, ~Pushes(a, c)
  PROVE  /\ pushed'[c] = pushed[c] /\ fifoDesc'[c] = fifoDesc[c]
         /\ \A x \in Region(c) : dataBuff'[x] = dataBuff[x]
<1>1. CASE ~commit[3]
  BY <1>1 DEF DataBuffers, FifoDescs, History
<1>2. CASE commit[3]
  <2>1. a >= 5 /\ Mac.update[(a - 1 - 3) % N] # NoFir /\ a - 1 - 3 = a - 4 /\ a - 4 \in Int /\ a > 3
    <3>1. a >= 3 + 2 /\ Mac.update[(a - 1 - 3) % N] # NoFir
      BY <1>2 DEF CommitInv
    <3> QED
      BY <3>1
  <2>2. ps[3] = (a - 4) % N
    BY <2>1 DEF CounterInv
  <2>3. (a - 4) % N \in Slots
    BY <2>1, SlotAt
  <2>4. PICK e \in Channels : Updates((a - 4) % N, e)
    BY <2>1, <2>3, BuiltMac
  <2>5. e # c
    BY <1>2, <2>4 DEF Pushes
  <2>6. Pushes(a, e)
    BY <1>2, <2>4 DEF Pushes
  <2>7. /\ 0 \in 0 .. Depth(e) - 1 /\ At(a, 3, e, 0) /\ descWrite = e
    <3>1. 0 \in 0 .. Depth(e) - 1
      BY Depths
    <3>2. a - 1 - 3 + 0 = a - 4 /\ a >= 3 + 2
      BY <2>1
    <3>3. descWrite = UPDATEFIFONUM[(a - 4) % N]
      BY <2>1 DEF TableInv
    <3> QED
      BY <2>1, <2>4, <3>1, <3>2, <3>3, RowTables DEF At
  <2>8. updateAddr = NextWord(e).offset
    BY <1>2, <2>7 DEF PositionInv
  <2>9. updateAddr \in Region(e)
    <3>1. Len(pushed[e]) + 1 \in Int
      <4>1. Len(pushed[e]) \in Nat
        BY DEF TypeInv, ResultTypes
      <4> QED
        BY <4>1
    <3> QED
      BY <2>8, <3>1, WordOfBuffer DEF NextWord
  <2>10. \A x \in Region(c) : dataBuff'[x] = dataBuff[x]
    <3>1. updateAddr \notin Region(c)
      BY <2>5, <2>9, OwnWords
    <3> QED
      BY <3>1, <1>2 DEF DataBuffers, TypeInv, BufferTypes
  <2>11. pushed'[c] = pushed[c]
    <3>1. ~Updates(ps[3], c)
      BY <1>2, <2>2 DEF Pushes
    <3> QED
      BY <3>1 DEF History
  <2>12. fifoDesc'[c] = fifoDesc[c]
    BY <2>5, <2>7, <1>2 DEF FifoDescs, TypeInv, BufferTypes
  <2> QED
    BY <2>10, <2>11, <2>12
<1> QED
  BY <1>1, <1>2

\* Only the slot in stage 3 pushes.
LEMMA NotYet ==
  ASSUME NEW a \in Nat, NEW c \in Channels, NEW m \in Int, m <= 8, 1 - Depth(c) <= m, m # 3,
         Updates((a - 1 - m) % N, c)
  PROVE  ~Pushes(a, c)
<1>1. Depth(c) \in Nat /\ Depth(c) >= 4
  BY Depths
<1> DEFINE u == a - 1 - m
<1>2. u \in Int
  OBVIOUS
<1>3. CASE m < 3
  <2> DEFINE k == 3 - m
  <2>1. k \in 1 .. Depth(c) + 2 /\ u - k = a - 4
    BY <1>1, <1>3
  <2>2. ~Updates((u - k) % N, c)
    BY <1>2, <2>1, UpdatesApart
  <2> QED
    BY <2>1, <2>2 DEF Pushes
<1>4. CASE m > 3
  <2> DEFINE k == m - 3
  <2>1. k \in 1 .. Depth(c) + 2 /\ u + k = a - 4
    BY <1>1, <1>4
  <2>2. ~Updates((u + k) % N, c)
    BY <1>2, <2>1, UpdatesApart
  <2> QED
    BY <2>1, <2>2 DEF Pushes
<1> QED
  BY <1>3, <1>4

\* What a row sees of the samples stays the same in all its stages.
LEMMA BeforeKept ==
  ASSUME TypeInv, NEW a \in Nat, CounterInv(a), CommitInv(a), TableInv(a), PositionInv(a),
         DataBuffers, FifoDescs, History, Commit, ~rst, ~rst', NEW c \in Channels,
         NEW m \in Int, m <= 8, 1 - Depth(c) <= m, Updates((a - 1 - m) % N, c)
  PROVE  Before(c, m + 1)' = Before(c, m)
<1>1. ASSUME NEW n \in 4 .. 9
      PROVE  commit'[n] = commit[n - 1]
  <2>1. n \in 3 .. 9 /\ n # 3
    OBVIOUS
  <2>2. commit'[n] = IF n = 3 THEN doUpdate.on /\ chosen_ps2.changed ELSE commit[n - 1]
    BY <2>1 DEF Commit, Clocked
  <2> QED
    BY <2>1, <2>2
<1>2. CASE m = 3
  <2>1. a - 1 - m = a - 4 /\ m + 1 = 4 /\ m \notin 4 .. 9 /\ 4 \in 4 .. 9 /\ 4 - 1 = 3
    BY <1>2
  <2>2. Before(c, m) = pushed[c]
    BY <2>1 DEF Before
  <2>3. Before(c, m + 1)' = IF commit[3] THEN Front(pushed'[c]) ELSE pushed'[c]
    BY <1>1, <2>1 DEF Before
  <2>4. CASE commit[3]
    <3>1. Pushes(a, c)
      BY <2>1, <2>4 DEF Pushes
    <3>2. pushed'[c] = Append(pushed[c], wrdata)
      BY <3>1, Pushed
    <3>3. pushed[c] \in Seq(Samples) /\ wrdata \in Samples
      BY DEF TypeInv, ResultTypes, PipeTypes
    <3> QED
      BY <2>2, <2>3, <2>4, <3>2, <3>3, FrontOfAppend
  <2>5. CASE ~commit[3]
    <3>1. ~Pushes(a, c)
      BY <2>5 DEF Pushes
    <3> QED
      BY <2>2, <2>3, <2>5, <3>1, NotPushed
  <2> QED
    BY <2>4, <2>5
<1>3. CASE m # 3
  <2>1. pushed'[c] = pushed[c]
    BY <1>3, NotYet, NotPushed
  <2>2. CASE m \in 4 .. 8
    <3>1. m + 1 \in 4 .. 9 /\ (m + 1) - 1 = m /\ m \in 4 .. 9
      BY <2>2
    <3>2. commit'[m + 1] = commit[m]
      BY <1>1, <3>1
    <3> QED
      BY <2>1, <3>1, <3>2 DEF Before
  <2>3. CASE m \notin 4 .. 8
    <3>1. m + 1 \notin 4 .. 9 /\ m \notin 4 .. 9
      BY <1>3, <2>3
    <3> QED
      BY <2>1, <3>1 DEF Before
  <2> QED
    BY <2>2, <2>3
<1> QED
  BY <1>2, <1>3

\* The stage of a slot and its distance from the update that ends its row.
LEMMA SlotOf ==
  ASSUME NEW a \in Nat, NEW n \in 0 .. 8, NEW c \in Channels, NEW d, At(a + 1, n + 1, c, d)
  PROVE  /\ d \in 0 .. Depth(c) - 1 /\ d \in Nat /\ At(a, n, c, d) /\ a >= n + 2
         /\ n - d \in Int /\ n - d <= 8 /\ 1 - Depth(c) <= n - d
         /\ Updates((a - 1 - (n - d)) % N, c)
<1>1. /\ d \in 0 .. Depth(c) - 1 /\ a + 1 >= (n + 1) + 2
      /\ Updates((a + 1 - 1 - (n + 1) + d) % N, c)
  BY DEF At
<1>2. Depth(c) \in Nat
  BY Depths
<1>3. d \in Nat /\ a + 1 - 1 - (n + 1) + d = a - 1 - (n - d) /\ a >= n + 2
  BY <1>1, <1>2
<1>4. At(a, n, c, d)
  BY NextStage
<1> QED
  BY <1>1, <1>2, <1>3, <1>4

\* The position that is read for a slot in stage 2, and what comes of it.
LEMMA Position ==
  ASSUME TypeInv, BufferHoldsWindow, NEW a \in Nat, PositionInv(a),
         NEW c \in Channels, NEW d, At(a, 2, c, d)
  PROVE  /\ Len(pushed[c]) \in Nat
         /\ descRead.data = [offset |-> Base(c) + (Len(pushed[c]) % Size(c)), last |-> Depth(c) - 1]
         /\ CurrSize = Size(c) /\ CurrOrigin = Base(c)
<1>1. Len(pushed[c]) \in Nat
  BY DEF TypeInv, ResultTypes
<1>2. descRead.data = fifoDesc[c]
  <2>1. d \in 0 .. Depth(c) - 1
    BY DEF At
  <2> QED
    BY <2>1 DEF PositionInv
<1>3. fifoDesc[c] = [offset |-> Base(c) + (Len(pushed[c]) % Size(c)), last |-> Depth(c) - 1]
  BY FifoNumber DEF BufferHoldsWindow
<1>4. fifoDesc[c] \in Words(c)
  <2>1. Len(pushed[c]) \in Int
    BY <1>1
  <2> QED
    BY <1>3, <2>1, NewWord
<1>5. CurrSize = Size(c) /\ CurrOrigin = Base(c)
  BY <1>2, <1>4, WordFacts, Zenon DEF CurrSize, CurrOrigin
<1> QED
  BY <1>1, <1>2, <1>3, <1>5

\* The word a step away from a word of a circular buffer.
LEMMA Around ==
  ASSUME NEW c \in Channels, NEW n \in Int, NEW j \in Int
  PROVE  (Base(c) + (n % Size(c)) + j) % Size(c) = (n + j) % Size(c)
<1> DEFINE s == Size(c)
           b == Base(c)
<1>1. s \in Nat \ {0} /\ b \in Nat /\ b % s = 0
  BY Buffers
<1> HIDE DEF s, b
<1>2. n % s \in Int
  BY <1>1, DivMod
<1>3. (n % s) + j \in Int /\ b + (n % s) + j = b + ((n % s) + j) /\ 0 + ((n % s) + j) = (n % s) + j /\ b \in Int
  BY <1>1, <1>2
<1>4. ((b % s) + ((n % s) + j)) % s = (b + ((n % s) + j)) % s
  BY <1>1, <1>3, ModSum, Zenon
<1>5. ((n % s) + j) % s = (n + j) % s
  BY <1>1, ModSum, Zenon
<1>6. (b + (n % s) + j) % s = (n + j) % s
  BY <1>1, <1>3, <1>4, <1>5
<1> QED
  BY <1>6 DEF s, b

LEMMA PositionStep ==
  ASSUME TypeInv, BufferHoldsWindow, NEW a \in Nat,
         CounterInv(a), CommitInv(a), TableInv(a), PositionInv(a),
         DataBuffers, FifoDescs, UpdateAddresses, Commit, History, ~rst, ~rst'
  PROVE  PositionInv(a + 1)'
<1>1. ASSUME NEW c \in Channels, NEW n \in 0 .. 8, NEW d, At(a + 1, n + 1, c, d), n - d # 3
      PROVE  pushed'[c] = pushed[c] /\ fifoDesc'[c] = fifoDesc[c] /\ NextWord(c)' = NextWord(c)
  <2>1. ~Pushes(a, c)
    BY <1>1, SlotOf, NotYet
  <2>2. pushed'[c] = pushed[c] /\ fifoDesc'[c] = fifoDesc[c]
    BY <2>1, NotPushed
  <2> QED
    BY <2>2 DEF NextWord
<1>2. ASSUME NEW c \in Channels, NEW d, At(a + 1, 1, c, d)
      PROVE  descRead'.int = fifoDesc'[c]
  <2>0. 0 \in 0 .. 8 /\ 0 + 1 = 1
    OBVIOUS
  <2>1. d \in 0 .. Depth(c) - 1 /\ d \in Nat /\ a >= 2
        /\ Updates((a - 1 - (0 - d)) % N, c)
    BY <1>2, <2>0, SlotOf
  <2>2. a - 1 - (0 - d) \in Int /\ (a - 1 - (0 - d)) - d = a - 1 /\ 0 - d # 3
    BY <2>1
  <2>3. RDFIFONUM[(a - 1) % N] = c
    BY <2>1, <2>2, RowTables
  <2>4. descRead.addr = c
    BY <2>1, <2>3 DEF TableInv
  <2>5. descRead'.int = fifoDesc[c]
    BY <2>4 DEF FifoDescs
  <2> QED
    BY <1>1, <1>2, <2>0, <2>2, <2>5
<1>3. ASSUME NEW c \in Channels, NEW d, At(a + 1, 2, c, d)
      PROVE  descRead'.data = fifoDesc'[c]
  <2>0. 1 \in 0 .. 8 /\ 1 + 1 = 2
    OBVIOUS
  <2>1. d \in 0 .. Depth(c) - 1 /\ d \in Nat /\ At(a, 1, c, d)
    BY <1>3, <2>0, SlotOf
  <2>2. 1 - d # 3
    BY <2>1
  <2>3. descRead.int = fifoDesc[c]
    BY <2>1 DEF PositionInv
  <2>4. descRead'.data = fifoDesc[c]
    BY <2>3 DEF FifoDescs
  <2> QED
    BY <1>1, <1>3, <2>0, <2>2, <2>4
<1>4. ASSUME NEW c \in Channels, NEW d, NEW n \in 3 .. 5, At(a + 1, n, c, d), n <= d + 3
      PROVE  nextAddr'[n - 2] = NextWord(c)'
  <2>0. n - 1 \in 0 .. 8 /\ (n - 1) + 1 = n
    OBVIOUS
  <2>1. d \in 0 .. Depth(c) - 1 /\ d \in Nat /\ At(a, n - 1, c, d)
    BY <1>4, <2>0, SlotOf
  <2>2. NextWord(c)' = NextWord(c)
    <3>1. (n - 1) - d # 3
      BY <1>4, <2>1
    <3> QED
      BY <1>1, <1>4, <2>0, <3>1
  <2>3. CASE n = 3
    <3>1. At(a, 2, c, d)
      BY <2>1, <2>3
    <3>2. /\ Len(pushed[c]) \in Nat
          /\ descRead.data = [offset |-> Base(c) + (Len(pushed[c]) % Size(c)), last |-> Depth(c) - 1]
          /\ CurrSize = Size(c) /\ CurrOrigin = Base(c)
      BY <3>1, Position
    <3>3. (Base(c) + (Len(pushed[c]) % Size(c)) + 1) % Size(c) = (Len(pushed[c]) + 1) % Size(c)
      <4>1. Len(pushed[c]) \in Int /\ 1 \in Int
        BY <3>2
      <4> QED
        BY <4>1, Around
    <3>4. nextAddr'[1] = NextWord(c)
      BY <3>2, <3>3 DEF UpdateAddresses, NextWord
    <3> QED
      BY <2>2, <2>3, <3>4
  <2>4. CASE n # 3
    <3>1. n - 1 \in 3 .. 5 /\ n - 1 <= d + 3 /\ (n = 4 \/ n = 5)
      BY <1>4, <2>4, <2>1
    <3>2. nextAddr[(n - 1) - 2] = NextWord(c)
      BY <2>1, <3>1 DEF PositionInv
    <3>3. nextAddr'[n - 2] = nextAddr[(n - 1) - 2]
      BY <3>1 DEF UpdateAddresses
    <3> QED
      BY <2>2, <3>2, <3>3
  <2> QED
    BY <2>3, <2>4
<1>5. ASSUME NEW c \in Channels, At(a + 1, 3, c, 0), commit'[3]
      PROVE  updateAddr' = NextWord(c)'.offset
  <2>0. 2 \in 0 .. 8 /\ 2 + 1 = 3 /\ 2 - 0 # 3 /\ 0 \in Int
    OBVIOUS
  <2>1. NextWord(c)' = NextWord(c)
    BY <1>1, <1>5, <2>0
  <2>2. a >= 4 /\ Updates((a - 1 - (2 - 0)) % N, c)
    <3>1. a >= 2 + 2 /\ Updates((a - 1 - (2 - 0)) % N, c)
      BY <1>5, <2>0, SlotOf
    <3> QED
      BY <3>1
  <2>3. At(a, 5, c, 3)
    <3>1. a - 1 - (2 - 0) = a - 1 - 5 + 3 /\ a - 1 - 5 + 3 >= 1
      BY <2>2
    <3>2. 3 \in 0 .. Depth(c) - 1 /\ 5 \in Nat
      BY Depths
    <3> QED
      BY <2>2, <3>1, <3>2, InRow
  <2>4. nextAddr[3] = NextWord(c)
    <3>1. 3 \in 0 .. Depth(c) - 1 /\ 5 \in 3 .. 5 /\ 5 <= 3 + 3 /\ 5 - 2 = 3
      BY Depths
    <3>2. nextAddr[5 - 2] = NextWord(c)
      BY <3>1, <2>3 DEF PositionInv
    <3> QED
      BY <3>1, <3>2
  <2>5. doUpdate.on
    <3>1. 3 \in 3 .. 9
      OBVIOUS
    <3>2. commit'[3] = Clocked(FALSE, IF 3 = 3 THEN doUpdate.on /\ chosen_ps2.changed ELSE commit[3 - 1])
      BY <3>1, Zenon DEF Commit
    <3> QED
      BY <3>2, <1>5, Zenon DEF Clocked
  <2> QED
    BY <2>1, <2>4, <2>5 DEF UpdateAddresses
<1>6. \A c \in Channels : \A d \in 0 .. Depth(c) - 1 :
        /\ At(a + 1, 1, c, d) => descRead'.int = fifoDesc'[c]
        /\ At(a + 1, 2, c, d) => descRead'.data = fifoDesc'[c]
        /\ \A n \in 3 .. 5 : At(a + 1, n, c, d) /\ n <= d + 3 => nextAddr'[n - 2] = NextWord(c)'
        /\ At(a + 1, 3, c, d) /\ d = 0 /\ commit'[3] => updateAddr' = NextWord(c)'.offset
  BY <1>2, <1>3, <1>4, <1>5
<1> QED
  BY <1>6, Zenon DEF PositionInv

\* The word of a coefficient.
LEMMA Coefficient ==
  ASSUME NEW c \in Channels, NEW k \in 0 .. Depth(c) - 1
  PROVE  /\ Base(c) + k \in Addresses /\ Base(c) + k \in Nat
         /\ (Base(c) + k) % Cardinality(Addresses) = Base(c) + k
         /\ COEFF_VALUES[Base(c) + k] = [fir |-> Mac.inputs[c + 1], tap |-> k]
<1>1. Base(c) \in Nat /\ k \in Nat /\ k <= Size(c) - 1 /\ Size(c) \in Nat
  <2>1. Base(c) \in Nat /\ Depth(c) <= Size(c) /\ Size(c) \in Nat /\ Depth(c) \in Nat
    BY Buffers, Depths
  <2> QED
    BY <2>1
<1>2. Base(c) + k \in Region(c)
  BY <1>1 DEF Region
<1>3. Base(c) + k \in Addresses /\ Base(c) + k \in Nat
  BY <1>2, RegionAddresses
<1>4. Base(c) + k < BufferDepth(Fifos)
  <2>1. Base(c) + k \in 0 .. BufferDepth(Fifos) - 1 /\ BufferDepth(Fifos) \in Nat
    BY <1>2, GeneratedMac
  <2> QED
    BY <2>1
<1>5. COEFF_VALUES[Base(c) + k] = [fir |-> Mac.inputs[c + 1], tap |-> k]
  BY <1>3, <1>4, GeneratedMac DEF COEFF_VALUES
<1>6. (Base(c) + k) % Cardinality(Addresses) = Base(c) + k
  BY <1>3, AddressCount, ModSmall, Zenon
<1> QED
  BY <1>3, <1>5, <1>6

\* The addresses that a slot reads.
LEMMA AddressStep ==
  ASSUME TypeInv, BufferHoldsWindow, NEW a \in Nat,
         TableInv(a), PositionInv(a), OperandInv(a), ReadAddresses,
         NEW c \in Channels, NEW d, At(a + 1, 3, c, d)
  PROVE  rdaddr' = [coef |-> Base(c) + Tap(c, d),
                    data |-> Base(c) + ((Len(pushed[c]) - Tap(c, d)) % Size(c))]
<1>0. 2 \in 0 .. 8 /\ 2 + 1 = 3
  OBVIOUS
<1>1. d \in 0 .. Depth(c) - 1 /\ d \in Nat /\ At(a, 2, c, d) /\ a >= 4
      /\ Updates((a - 1 - (2 - d)) % N, c)
  <2>1. d \in 0 .. Depth(c) - 1 /\ d \in Nat /\ At(a, 2, c, d) /\ a >= 2 + 2
        /\ Updates((a - 1 - (2 - d)) % N, c)
    BY <1>0, SlotOf
  <2> QED
    BY <2>1
<1>2. /\ Len(pushed[c]) \in Nat
      /\ descRead.data = [offset |-> Base(c) + (Len(pushed[c]) % Size(c)), last |-> Depth(c) - 1]
      /\ CurrSize = Size(c) /\ CurrOrigin = Base(c)
  BY <1>1, Position
<1>3. firstTap_ps2 <=> d = Depth(c) - 1
  <2>1. a - 1 - (2 - d) \in Int /\ (a - 1 - (2 - d)) - d = a - 3
    BY <1>1
  <2>2. FIRST_TAP[(a - 3) % N] <=> d = Depth(c) - 1
    BY <1>1, <2>1, RowTables
  <2>3. firstTap_ps2 = FIRST_TAP[(a - 3) % N]
    BY <1>1 DEF TableInv
  <2> QED
    BY <2>2, <2>3
<1>4. Depth(c) \in Nat /\ Base(c) \in Nat
  BY Depths, Buffers
<1>5. CASE d = Depth(c) - 1
  <2>1. Tap(c, d) = 0 /\ Base(c) + 0 = Base(c) /\ Len(pushed[c]) - 0 = Len(pushed[c])
    BY <1>2, <1>4, <1>5 DEF Tap
  <2>2. rdaddr' = [coef |-> Base(c), data |-> Base(c) + (Len(pushed[c]) % Size(c))]
    BY <1>2, <1>3, <1>5 DEF ReadAddresses
  <2> QED
    BY <2>1, <2>2
<1>6. CASE d # Depth(c) - 1
  <2>1. d + 1 \in 0 .. Depth(c) - 1 /\ a - 1 - (2 - d) = a - 1 - 3 + (d + 1) /\ a - 1 - 3 + (d + 1) >= 1
    BY <1>1, <1>4, <1>6
  <2>2. At(a, 3, c, d + 1)
    BY <1>1, <2>1, InRow
  <2> DEFINE t == Tap(c, d + 1)
             l == Len(pushed[c])
  <2>3. rdaddr = [coef |-> Base(c) + t, data |-> Base(c) + ((l - t) % Size(c))]
    BY <2>1, <2>2 DEF OperandInv
  <2>4. Tap(c, d) = t + 1 /\ t + 1 \in 0 .. Depth(c) - 1 /\ t \in Nat
    BY <1>1, <1>4, <2>1 DEF Tap
  <2> HIDE DEF t, l
  <2>5. rdaddr' = [coef |-> (Base(c) + t + 1) % Cardinality(Addresses),
                   data |-> Base(c) + (((Base(c) + ((l - t) % Size(c))) - 1) % Size(c))]
    <3>1. rdaddr.coef = Base(c) + t /\ rdaddr.data = Base(c) + ((l - t) % Size(c))
      BY <2>3
    <3>2. rdaddr' = [coef |-> (rdaddr.coef + 1) % Cardinality(Addresses),
                     data |-> CurrOrigin + ((rdaddr.data - 1) % CurrSize)]
      BY <1>3, <1>6 DEF ReadAddresses
    <3>3. CurrSize = Size(c) /\ CurrOrigin = Base(c)
      BY <1>2
    <3> QED
      BY <3>1, <3>2, <3>3
  <2>6. (Base(c) + t + 1) % Cardinality(Addresses) = Base(c) + (t + 1)
    <3>1. Base(c) + t + 1 = Base(c) + (t + 1)
      BY <1>4, <2>4
    <3> QED
      BY <2>4, <3>1, Coefficient
  <2>7. ((Base(c) + ((l - t) % Size(c))) - 1) % Size(c) = (l - (t + 1)) % Size(c)
    <3>1. l - t \in Int /\ -1 \in Int /\ (l - t) + (-1) = l - (t + 1)
      BY <1>2, <2>4 DEF l
    <3>2. (l - t) % Size(c) \in Int
      <4>1. Size(c) \in Nat \ {0}
        <5>1. Size(c) \in Nat \ {0, 1}
          BY Buffers, Zenon
        <5> QED
          BY <5>1
      <4>2. (l - t) % Size(c) \in 0 .. Size(c) - 1
        BY <3>1, <4>1, DivMod, Zenon
      <4> QED
        BY <4>2
    <3>3. Base(c) + ((l - t) % Size(c)) + (-1) = (Base(c) + ((l - t) % Size(c))) - 1
      BY <1>4, <3>2
    <3> QED
      BY <3>1, <3>3, Around
  <2>8. Tap(c, d) = t + 1
    BY <2>4
  <2> QED
    BY <2>5, <2>6, <2>7, <2>8, Zenon DEF l
<1> QED
  BY <1>5, <1>6

\* The operands that come out of the buffers are those of a product of the row.
LEMMA WordsRead ==
  ASSUME TypeInv, BufferHoldsWindow, NEW a \in Nat, OperandInv(a), DataBuffers,
         NEW c \in Channels, NEW d, At(a, 3, c, d)
  PROVE  rddata'.coefInt = Coeff(c, Tap(c, d)) /\ rddata'.dataInt = Sample(pushed[c], Tap(c, d))
<1> DEFINE l == Len(pushed[c])
           t == Tap(c, d)
<1>1. d \in 0 .. Depth(c) - 1 /\ Depth(c) \in Nat /\ Depth(c) <= Size(c) /\ Size(c) \in Nat
  BY Depths, Buffers DEF At
<1>2. t \in 0 .. Depth(c) - 1 /\ t \in 0 .. Size(c) - 1
  BY <1>1 DEF Tap
<1>3. rdaddr = [coef |-> Base(c) + t, data |-> Base(c) + ((l - t) % Size(c))]
  BY <1>1 DEF OperandInv
<1>4. rddata'.coefInt = Coeff(c, t)
  <2> HIDE DEF t
  <2>1. rddata'.coefInt = COEFF_VALUES[Base(c) + t]
    BY <1>3 DEF DataBuffers
  <2> QED
    BY <1>2, <2>1, Coefficient DEF Coeff
<1>5. rddata'.dataInt = IF t < l THEN pushed[c][l - t] ELSE 0
  <2> HIDE DEF t
  <2>1. rddata'.dataInt = dataBuff[Base(c) + ((l - t) % Size(c))]
    BY <1>3 DEF DataBuffers
  <2> QED
    BY <1>2, <2>1 DEF BufferHoldsWindow
<1> QED
  BY <1>4, <1>5 DEF Coeff, Sample

LEMMA OperandStep ==
  ASSUME TypeInv, BufferHoldsWindow, NEW a \in Nat,
         CounterInv(a), CommitInv(a), TableInv(a), PositionInv(a), OperandInv(a),
         DataBuffers, FifoDescs, ReadAddresses, Commit, Dsp, History, ~rst, ~rst'
  PROVE  OperandInv(a + 1)'
<1>1. ASSUME NEW c \in Channels, NEW d, At(a + 1, 3, c, d)
      PROVE  rdaddr' = [coef |-> Base(c) + Tap(c, d),
                        data |-> Base(c) + ((Len(pushed'[c]) - Tap(c, d)) % Size(c))]
  <2>0. 2 \in 0 .. 8 /\ 2 + 1 = 3
    OBVIOUS
  <2>1. d \in Nat /\ 2 - d \in Int /\ 2 - d <= 8 /\ 1 - Depth(c) <= 2 - d
        /\ Updates((a - 1 - (2 - d)) % N, c)
    BY <1>1, <2>0, SlotOf
  <2>2. 2 - d # 3
    BY <2>1
  <2>3. pushed'[c] = pushed[c]
    BY <2>1, <2>2, NotYet, NotPushed
  <2> QED
    BY <1>1, <2>3, AddressStep
<1>2. ASSUME NEW c \in Channels, NEW n \in 3 .. 8, NEW d, At(a + 1, n + 1, c, d)
      PROVE  /\ d \in 0 .. Depth(c) - 1 /\ d \in Nat /\ At(a, n, c, d)
             /\ Before(c, (n + 1) - d)' = Before(c, n - d)
  <2>1. /\ d \in 0 .. Depth(c) - 1 /\ d \in Nat /\ At(a, n, c, d)
        /\ n - d \in Int /\ n - d <= 8 /\ 1 - Depth(c) <= n - d
        /\ Updates((a - 1 - (n - d)) % N, c)
    <3>1. n \in 0 .. 8
      OBVIOUS
    <3> QED
      BY <1>2, <3>1, SlotOf
  <2>2. (n + 1) - d = (n - d) + 1
    BY <2>1
  <2>3. Before(c, (n - d) + 1)' = Before(c, n - d)
    BY <2>1, BeforeKept
  <2> QED
    BY <2>1, <2>2, <2>3
<1>3. ASSUME NEW c \in Channels, NEW d, At(a + 1, 4, c, d)
      PROVE  /\ rddata'.coefInt = Coeff(c, Tap(c, d))
             /\ rddata'.dataInt = Sample(Before(c, 4 - d)', Tap(c, d))
  <2>0. 3 \in 3 .. 8 /\ 3 + 1 = 4
    OBVIOUS
  <2>1. d \in Nat /\ At(a, 3, c, d) /\ Before(c, 4 - d)' = Before(c, 3 - d)
    BY <1>2, <1>3, <2>0
  <2>2. 3 - d \notin 4 .. 9
    BY <2>1
  <2>3. Before(c, 3 - d) = pushed[c]
    BY <2>2 DEF Before
  <2> QED
    BY <2>1, <2>3, WordsRead
<1>4. ASSUME NEW c \in Channels, NEW n \in 4 .. 7, NEW d, At(a + 1, n + 1, c, d)
      PROVE  SampleIn(n + 1)' = Sample(Before(c, (n + 1) - d)', Tap(c, d))
  <2>1. n \in 3 .. 8 /\ n \in 4 .. 8
    OBVIOUS
  <2>2. d \in 0 .. Depth(c) - 1 /\ At(a, n, c, d) /\ Before(c, (n + 1) - d)' = Before(c, n - d)
    BY <1>2, <1>4, <2>1
  <2>3. SampleIn(n) = Sample(Before(c, n - d), Tap(c, d))
    BY <2>1, <2>2 DEF OperandInv
  <2>4. SampleIn(n + 1)' = SampleIn(n)
    <3>1. rddata'.data = rddata.dataInt
      BY DEF DataBuffers
    <3>2. dsp'.b = rddata.data /\ dsp'.ad = dsp.b /\ dsp'.m[2] = dsp.ad
      BY DEF Dsp
    <3>3. CASE n = 4
      BY <3>1, <3>3 DEF SampleIn
    <3>4. CASE n = 5
      BY <3>2, <3>4 DEF SampleIn
    <3>5. CASE n = 6
      BY <3>2, <3>5 DEF SampleIn
    <3>6. CASE n = 7
      BY <3>2, <3>6 DEF SampleIn
    <3> QED
      BY <3>3, <3>4, <3>5, <3>6
  <2> QED
    BY <2>2, <2>3, <2>4
<1>5. ASSUME NEW c \in Channels, NEW n \in 4 .. 5, NEW d, At(a + 1, n + 1, c, d)
      PROVE  CoeffIn(n + 1)' = Coeff(c, Tap(c, d))
  <2>1. n \in 3 .. 8 /\ n \in 4 .. 6
    OBVIOUS
  <2>2. d \in 0 .. Depth(c) - 1 /\ At(a, n, c, d)
    BY <1>2, <1>5, <2>1
  <2>3. CoeffIn(n) = Coeff(c, Tap(c, d))
    BY <2>1, <2>2 DEF OperandInv
  <2>4. CoeffIn(n + 1)' = CoeffIn(n)
    <3>1. rddata'.coef = rddata.coefInt /\ dsp'.a = rddata.coef
      BY DEF DataBuffers, Dsp
    <3>2. CASE n = 4
      BY <3>1, <3>2 DEF CoeffIn
    <3>3. CASE n = 5
      BY <3>1, <3>3 DEF CoeffIn
    <3> QED
      BY <3>2, <3>3
  <2> QED
    BY <2>3, <2>4
<1>6. ASSUME NEW c \in Channels, NEW d, At(a + 1, 8, c, d), d > 0
      PROVE  dsp'.m[1] = Coeff(c, Tap(c, d) + 1)
  <2>0. 7 \in 0 .. 8 /\ 7 + 1 = 8
    OBVIOUS
  <2>1. /\ d \in 0 .. Depth(c) - 1 /\ d \in Nat /\ At(a, 7, c, d) /\ a >= 7 + 2
        /\ Updates((a - 1 - (7 - d)) % N, c)
    BY <1>6, <2>0, SlotOf
  <2>2. Depth(c) \in Nat
    BY Depths
  <2>3. d - 1 \in 0 .. Depth(c) - 1 /\ a - 1 - (7 - d) = a - 1 - 6 + (d - 1) /\ a - 1 - 6 + (d - 1) >= 1
        /\ a >= 6 + 2
    BY <1>6, <2>1, <2>2
  <2>4. At(a, 6, c, d - 1)
    BY <2>1, <2>3 DEF At
  <2>5. CoeffIn(6) = Coeff(c, Tap(c, d - 1))
    <3>1. 6 \in 4 .. 6
      OBVIOUS
    <3> QED
      BY <2>3, <2>4, <3>1 DEF OperandInv
  <2>6. Tap(c, d - 1) = Tap(c, d) + 1
    BY <2>1, <2>2 DEF Tap
  <2>7. dsp'.m[1] = CoeffIn(6)
    BY DEF Dsp, CoeffIn
  <2> QED
    BY <2>5, <2>6, <2>7
<1>7. \A c \in Channels : \A d \in 0 .. Depth(c) - 1 :
        /\ At(a + 1, 3, c, d) =>
            rdaddr' = [coef |-> Base(c) + Tap(c, d),
                       data |-> Base(c) + ((Len(pushed'[c]) - Tap(c, d)) % Size(c))]
        /\ \A n \in 4 .. 6 : At(a + 1, n, c, d) => CoeffIn(n)' = Coeff(c, Tap(c, d))
        /\ \A n \in 4 .. 8 : At(a + 1, n, c, d) => SampleIn(n)' = Sample(Before(c, n - d)', Tap(c, d))
        /\ At(a + 1, 8, c, d) /\ d > 0 => dsp'.m[1] = Coeff(c, Tap(c, d) + 1)
  <2> SUFFICES ASSUME NEW c \in Channels, NEW d \in 0 .. Depth(c) - 1
               PROVE  /\ \A n \in 4 .. 6 : At(a + 1, n, c, d) => CoeffIn(n)' = Coeff(c, Tap(c, d))
                      /\ \A n \in 4 .. 8 : At(a + 1, n, c, d) =>
                            SampleIn(n)' = Sample(Before(c, n - d)', Tap(c, d))
    BY <1>1, <1>6
  <2>1. CoeffIn(4)' = rddata'.coefInt /\ SampleIn(4)' = rddata'.dataInt
    BY DEF CoeffIn, SampleIn
  <2>2. ASSUME NEW n \in 4 .. 6, At(a + 1, n, c, d)
        PROVE  CoeffIn(n)' = Coeff(c, Tap(c, d))
    <3>1. CASE n = 4
      BY <2>1, <2>2, <3>1, <1>3
    <3>2. CASE n # 4
      <4>1. n - 1 \in 4 .. 5 /\ (n - 1) + 1 = n
        BY <2>2, <3>2
      <4>2. At(a + 1, (n - 1) + 1, c, d)
        BY <2>2, <4>1
      <4>3. CoeffIn((n - 1) + 1)' = Coeff(c, Tap(c, d))
        BY <1>5, <4>1, <4>2
      <4> QED
        BY <4>1, <4>3
    <3> QED
      BY <3>1, <3>2
  <2>3. ASSUME NEW n \in 4 .. 8, At(a + 1, n, c, d)
        PROVE  SampleIn(n)' = Sample(Before(c, n - d)', Tap(c, d))
    <3>1. CASE n = 4
      BY <2>1, <2>3, <3>1, <1>3
    <3>2. CASE n # 4
      <4>1. n - 1 \in 4 .. 7 /\ (n - 1) + 1 = n
        BY <2>3, <3>2
      <4>2. At(a + 1, (n - 1) + 1, c, d)
        BY <2>3, <4>1
      <4>3. SampleIn((n - 1) + 1)' = Sample(Before(c, ((n - 1) + 1) - d)', Tap(c, d))
        BY <1>4, <4>1, <4>2
      <4> QED
        BY <4>1, <4>3
    <3> QED
      BY <3>1, <3>2
  <2> QED
    BY <2>2, <2>3
<1> QED
  BY <1>7, Zenon DEF OperandInv

LEMMA SumStep ==
  ASSUME TypeInv, NEW a \in Nat,
         CounterInv(a), CommitInv(a), TableInv(a), PositionInv(a), OperandInv(a), SumInv(a),
         DataBuffers, FifoDescs, Commit, Dsp, History, ~rst, ~rst'
  PROVE  SumInv(a + 1)'
<1>1. ASSUME NEW c \in Channels, NEW d, At(a + 1, 9, c, d)
      PROVE  Products(c, Before(c, 9 - d)', Tap(c, d) + 1, dsp'.result)
  <2>0. 8 \in 0 .. 8 /\ 8 + 1 = 9
    OBVIOUS
  <2>1. /\ d \in 0 .. Depth(c) - 1 /\ d \in Nat /\ At(a, 8, c, d) /\ a >= 8 + 2
        /\ 8 - d \in Int /\ 8 - d <= 8 /\ 1 - Depth(c) <= 8 - d
        /\ Updates((a - 1 - (8 - d)) % N, c)
    BY <1>1, <2>0, SlotOf
  <2>2. Before(c, 9 - d)' = Before(c, 8 - d)
    <3>1. (8 - d) + 1 = 9 - d
      BY <2>1
    <3>2. Before(c, (8 - d) + 1)' = Before(c, 8 - d)
      BY <2>1, BeforeKept
    <3> QED
      BY <3>1, <3>2
  <2> DEFINE samples == Before(c, 8 - d)
  <2>3. dsp.m[2] = Sample(samples, Tap(c, d)) /\ (d > 0 => dsp.m[1] = Coeff(c, Tap(c, d) + 1))
    <3>1. 8 \in 4 .. 8 /\ SampleIn(8) = dsp.m[2]
      BY DEF SampleIn
    <3>2. SampleIn(8) = Sample(samples, Tap(c, d)) /\ (d > 0 => dsp.m[1] = Coeff(c, Tap(c, d) + 1))
      BY <2>1, <3>1 DEF OperandInv
    <3> QED
      BY <3>1, <3>2
  <2>4. Entry(MUL_MODE, ps[8], 0) = IF d = Depth(c) - 1 THEN 0 ELSE 1
    <3>1. a - 1 - (8 - d) \in Int /\ (a - 1 - (8 - d)) - d = a - 1 - 8
      BY <2>1
    <3>2. ps[8] = (a - 1 - 8) % N
      BY <2>1 DEF CounterInv
    <3>3. MUL_MODE[ps[8]] = IF d = Depth(c) - 1 THEN 0 ELSE 1
      BY <2>1, <3>1, <3>2, RowTables
    <3>4. ps[8] \in SlotNumbers
      BY DEF TypeInv, PipeTypes
    <3> QED
      BY <3>3, <3>4, EntryOfSlot
  <2>5. Depth(c) \in Nat /\ Depth(c) <= MaxTaps /\ MaxTaps \in Nat
    BY Depths, TapsBound
  <2> HIDE DEF samples
  <2>6. CASE d = Depth(c) - 1
    <3>1. Tap(c, d) = 0 /\ d > 0
      BY <2>5, <2>6, Depths DEF Tap
    <3>2. dsp'.result = <<dsp.m>>
      BY <2>4, <2>6 DEF Dsp
    <3>3. Len(dsp'.result) = 1 /\ dsp'.result[1] = dsp.m
      BY <3>2
    <3>4. \A k \in 1 .. 1 : k = 1 /\ k - 1 = 0
      OBVIOUS
    <3>5. Products(c, samples, 1, dsp'.result)
      BY <2>3, <3>1, <3>3, <3>4 DEF Products
    <3> QED
      BY <2>2, <3>1, <3>5 DEF samples
  <2>7. CASE d # Depth(c) - 1
    <3>1. d + 1 \in 0 .. Depth(c) - 1 /\ a - 1 - (8 - d) = a - 1 - 9 + (d + 1) /\ a - 1 - 9 + (d + 1) >= 1
      BY <2>1, <2>5, <2>7
    <3>2. At(a, 9, c, d + 1)
      BY <2>1, <3>1, InRow
    <3> DEFINE t == Tap(c, d)
    <3>3. t \in Nat \ {0} /\ t < MaxTaps /\ Tap(c, d + 1) + 1 = t /\ (t + 1 < Depth(c) => d > 0)
      BY <2>1, <2>5, <2>7 DEF Tap
    <3>4. 9 - (d + 1) = 8 - d
      BY <2>1
    <3>5. Products(c, samples, t, dsp.result)
      <4>1. Products(c, Before(c, 9 - (d + 1)), Tap(c, d + 1) + 1, dsp.result)
        BY <3>1, <3>2 DEF SumInv
      <4> QED
        BY <4>1, <3>3, <3>4 DEF samples
    <3>6. (t + 1) - 1 = t
      BY <3>3
    <3>7. dsp.m[2] = Sample(samples, t) /\ (t + 1 < Depth(c) => dsp.m[1] = Coeff(c, t + 1))
      BY <2>3, <3>3
    <3> HIDE DEF t
    <3>8. Len(dsp.result) = t /\ dsp.result # <<>> /\ dsp.result \in Seq(Terms) /\ dsp.m \in Terms
      BY <3>3, <3>5 DEF Products, TypeInv, ResultTypes
    <3>9. dsp'.result = Append(dsp.result, dsp.m)
      <4>1. Entry(MUL_MODE, ps[8], 0) # 0
        BY <2>4, <2>7
      <4>2. Len(dsp.result) # MaxTaps
        BY <3>3, <3>8, <2>5
      <4> QED
        BY <3>8, <4>1, <4>2 DEF Dsp
    <3>10. /\ Len(dsp'.result) = t + 1 /\ dsp'.result[t + 1] = dsp.m
           /\ \A k \in 1 .. t : dsp'.result[k] = dsp.result[k]
      BY <3>3, <3>8, <3>9
    <3>11. ASSUME NEW k \in 1 .. t + 1
           PROVE  /\ dsp'.result[k][2] = Sample(samples, k - 1)
                  /\ k < Depth(c) => dsp'.result[k][1] = Coeff(c, k)
      <4>1. CASE k = t + 1
        BY <3>6, <3>7, <3>10, <4>1
      <4>2. CASE k # t + 1
        <5>1. k \in 1 .. t
          BY <3>3, <4>2
        <5> QED
          BY <3>5, <3>10, <5>1 DEF Products
      <4> QED
        BY <4>1, <4>2
    <3>12. Products(c, samples, t + 1, dsp'.result)
      BY <3>10, <3>11 DEF Products
    <3> QED
      BY <2>2, <3>12 DEF t, samples
  <2> QED
    BY <2>6, <2>7
<1>2. \A c \in Channels : \A d \in 0 .. Depth(c) - 1 : At(a + 1, 9, c, d) =>
        Products(c, Before(c, 9 - d)', Tap(c, d) + 1, dsp'.result)
  BY <1>1
<1> QED
  BY <1>2, Zenon DEF SumInv, Products

\* The answer is the sum of a whole row.
LEMMA WholeSum ==
  ASSUME NEW c \in Channels, NEW samples, Len(samples) \in Nat, NEW sum,
         Products(c, samples, Tap(c, 0) + 1, sum)
  PROVE  ShiftedWindow(c, samples, sum)
<1> DEFINE l == Len(samples)
           w == Window(c, samples)
<1>1. Tap(c, 0) + 1 = Depth(c) /\ Depth(c) \in Nat
  BY Depths DEF Tap
<1>2. ASSUME NEW k \in 1 .. Depth(c)
      PROVE  w[k][1] = Coeff(c, k - 1) /\ w[k][2] = Sample(samples, k - 1)
  <2>1. w[k] = <<[fir |-> Mac.inputs[c + 1], tap |-> k - 1], IF k <= l THEN samples[l + 1 - k] ELSE 0>>
    BY DEF Window
  <2>2. k \in Nat /\ (k - 1 < l <=> k <= l) /\ l - (k - 1) = l + 1 - k
    BY <1>1
  <2> HIDE DEF l, w
  <2>3. Sample(samples, k - 1) = IF k <= l THEN samples[l + 1 - k] ELSE 0
    BY <2>2 DEF Sample, l
  <2> QED
    BY <2>1, <2>3 DEF Coeff
<1> HIDE DEF w
<1>3. Len(sum) = Depth(c) /\ \A k \in 1 .. Depth(c) : sum[k][2] = w[k][2]
  BY <1>1, <1>2 DEF Products
<1>4. ASSUME NEW k \in 1 .. Depth(c) - 1
      PROVE  sum[k][1] = w[k + 1][1]
  <2>1. k \in 1 .. Depth(c) /\ k < Depth(c) /\ k + 1 \in 1 .. Depth(c) /\ (k + 1) - 1 = k
    BY <1>1
  <2>2. sum[k][1] = Coeff(c, k)
    BY <1>1, <2>1 DEF Products
  <2>3. w[k + 1][1] = Coeff(c, (k + 1) - 1)
    BY <1>2, <2>1
  <2> QED
    BY <2>1, <2>2, <2>3
<1> QED
  BY <1>3, <1>4 DEF ShiftedWindow, w

LEMMA OutStep ==
  ASSUME TypeInv, NEW a \in Nat,
         CounterInv(a), CommitInv(a), TableInv(a), PositionInv(a), SumInv(a),
         DataBuffers, FifoDescs, Outputs, History, ~rst, ~rst'
  PROVE  OutInv(a + 1)'
<1>1. ASSUME NEW c \in Channels, out'[c].new
      PROVE  /\ a + 1 >= 12 /\ Updates(((a + 1) - 11) % N, c)
             /\ ShiftedWindow(c, Front(pushed'[c]), out'[c].data)
  <2>1. /\ out'[c].new = (channelSel_ps9 = c /\ commit[9])
        /\ out'[c].data = IF channelSel_ps9 = c THEN dsp.result ELSE out[c].data
    BY DEF Outputs, Clocked
  <2>2. channelSel_ps9 = c /\ commit[9]
    BY <1>1, <2>1, Zenon
  <2>3. a >= 11 /\ 9 \in Int
    <3>1. 9 \in 3 .. 9
      OBVIOUS
    <3>2. a >= 9 + 2
      BY <2>2, <3>1 DEF CommitInv
    <3> QED
      BY <3>2
  <2>4. Updates((a - 10) % N, c)
    <3>1. CHANNEL_SELECT[(a - 10) % N] = c
      BY <2>2, <2>3 DEF TableInv
    <3>2. (a - 10) % N \in Slots
      <4>1. a - 10 \in Int
        BY <2>3
      <4> QED
        BY <4>1, SlotAt
    <3> QED
      BY <3>1, <3>2, SelectsUpdated
  <2>5. (a + 1) - 11 = a - 10 /\ a - 1 - 9 + 0 = a - 10 /\ a - 1 - 9 = a - 10
    BY <2>3
  <2>6. 0 \in 0 .. Depth(c) - 1 /\ At(a, 9, c, 0)
    <3>1. 0 \in 0 .. Depth(c) - 1
      BY Depths
    <3> QED
      BY <3>1, <2>3, <2>4, <2>5 DEF At
  <2>7. pushed'[c] = pushed[c]
    <3>1. ~Pushes(a, c)
      <4>1. a - 10 \in Int /\ 6 \in 1 .. Depth(c) + 2 /\ (a - 10) + 6 = a - 4
        BY <2>3, Depths
      <4>2. ~Updates(((a - 10) + 6) % N, c)
        BY <2>4, <4>1, UpdatesApart
      <4> QED
        BY <4>1, <4>2 DEF Pushes
    <3> QED
      BY <3>1, NotPushed
  <2>8. Products(c, Front(pushed[c]), Tap(c, 0) + 1, dsp.result)
    <3>1. Products(c, Before(c, 9 - 0), Tap(c, 0) + 1, dsp.result)
      BY <2>6 DEF SumInv
    <3>2. Before(c, 9 - 0) = Front(pushed[c])
      <4>1. 9 - 0 = 9 /\ 9 \in 4 .. 9
        OBVIOUS
      <4> QED
        BY <4>1, <2>2 DEF Before
    <3> QED
      BY <3>1, <3>2
  <2>9. Len(Front(pushed[c])) \in Nat
    <3>1. pushed[c] \in Seq(Samples) /\ 1 \in Int /\ Len(pushed[c]) - 1 \in Int
      BY DEF TypeInv, ResultTypes
    <3> QED
      BY <3>1 DEF Front
  <2>10. ShiftedWindow(c, Front(pushed[c]), dsp.result)
    BY <2>8, <2>9, WholeSum
  <2> QED
    BY <2>1, <2>2, <2>3, <2>4, <2>5, <2>7, <2>10
<1>2. \A c \in Channels :
        /\ rst' => ~out'[c].changed
        /\ out'[c].new => /\ a + 1 >= 12 /\ Updates(((a + 1) - 11) % N, c)
                          /\ ShiftedWindow(c, Front(pushed'[c]), out'[c].data)
  BY <1>1
<1> QED
  BY <1>2, Zenon DEF OutInv

\* In a reset there is nothing in the pipeline.
Empty ==
    /\ ps[-1] = 0 /\ doUpdate = [on |-> FALSE, enable |-> 0]
    /\ commit = [n \in 3 .. 9 |-> FALSE]
    /\ out = [c \in Channels |-> [data |-> <<>>, new |-> FALSE, changed |-> FALSE]]

LEMMA EmptyPipe == Empty => PipeInv(0)
<1> SUFFICES ASSUME Empty PROVE PipeInv(0)
  OBVIOUS
<1> USE DEF Empty
<1>1. CounterInv(0)
  <2>1. 0 % N = 0
    BY SlotsCount
  <2> QED
    BY <2>1 DEF CounterInv
<1>2. CommitInv(0)
  BY DEF CommitInv
<1>3. TableInv(0)
  BY DEF TableInv
<1>4. \A n, c, d : n \in 1 .. 9 => ~At(0, n, c, d)
  BY DEF At
<1>5. PositionInv(0)
  BY <1>4 DEF PositionInv
<1>6. OperandInv(0)
  BY <1>4 DEF OperandInv
<1>7. SumInv(0)
  BY <1>4 DEF SumInv
<1>8. OutInv(0)
  BY DEF OutInv
<1> QED
  BY <1>1, <1>2, <1>3, <1>5, <1>6, <1>7, <1>8 DEF PipeInv

LEMMA BufferStep ==
  ASSUME TypeInv, BufferHoldsWindow, NEW a \in Nat,
         CounterInv(a), CommitInv(a), TableInv(a), PositionInv(a),
         DataBuffers, FifoDescs, History
  PROVE  BufferHoldsWindow'
<1> DEFINE Holds(c, samples, desc, buff) ==
            /\ desc[c] = [offset |-> Base(c) + (Len(samples) % Size(c)), last |-> Depth(c) - 1]
            /\ \A k \in 0 .. Size(c) - 1 :
                buff[Base(c) + ((Len(samples) - k) % Size(c))] =
                    IF k < Len(samples) THEN samples[Len(samples) - k] ELSE 0
<1>1. ASSUME NEW c \in Channels
      PROVE  Holds(c, pushed'[c], fifoDesc', dataBuff')
  <2> DEFINE q == pushed[c]
             l == Len(q)
             s == Size(c)
             b == Base(c)
  <2>1. Holds(c, q, fifoDesc, dataBuff)
    BY FifoNumber DEF BufferHoldsWindow
  <2>2. q \in Seq(Samples) /\ l \in Nat /\ wrdata \in Samples
    BY DEF TypeInv, ResultTypes, PipeTypes
  <2>3. s \in Nat \ {0} /\ b \in Nat
    <3>1. Size(c) \in Nat \ {0, 1} /\ Base(c) \in Nat
      BY Buffers, Zenon
    <3> QED
      BY <3>1
  <2>4. \A k \in Int : b + (k % s) \in Region(c) /\ k % s \in Int
    <3>1. \A k \in Int : k % s \in 0 .. s - 1 /\ b + (k % s) \in Region(c)
      BY WordOfBuffer, Zenon
    <3> QED
      BY <3>1
  <2>5. CASE Pushes(a, c)
    <3>1. /\ pushed'[c] = Append(q, wrdata)
          /\ fifoDesc'[c] = NextWord(c)
          /\ \A x \in Region(c) :
                dataBuff'[x] = IF x = NextWord(c).offset THEN wrdata ELSE dataBuff[x]
      BY <2>5, Pushed
    <3>2. /\ Len(Append(q, wrdata)) = l + 1 /\ Append(q, wrdata)[l + 1] = wrdata
          /\ \A j \in 1 .. l : Append(q, wrdata)[j] = q[j]
      BY <2>2
    <3>3. fifoDesc'[c] = [offset |-> b + ((l + 1) % s), last |-> Depth(c) - 1]
      BY <3>1 DEF NextWord
    <3>4. ASSUME NEW k \in 0 .. s - 1
          PROVE  dataBuff'[b + (((l + 1) - k) % s)] =
                    IF k < l + 1 THEN Append(q, wrdata)[(l + 1) - k] ELSE 0
      <4> DEFINE x == b + (((l + 1) - k) % s)
      <4>1. (l + 1) - k \in Int /\ k \in Int /\ l + 1 \in Int
        BY <2>2, <2>3
      <4>2. x \in Region(c)
        BY <4>1, <2>4
      <4>3. dataBuff'[x] = IF x = b + ((l + 1) % s) THEN wrdata ELSE dataBuff[x]
        BY <3>1, <4>2 DEF NextWord
      <4>4. CASE k = 0
        <5>1. (l + 1) - k = l + 1 /\ k < l + 1
          BY <2>2, <4>4
        <5> QED
          BY <3>2, <4>3, <5>1
      <4>5. CASE k # 0
        <5> HIDE DEF q, l, s, b, Holds
        <5>1. k \in 1 .. s - 1 /\ k - 1 \in 0 .. s - 1 /\ (l + 1) - k = l - (k - 1)
              /\ (k < l + 1 <=> k - 1 < l) /\ (k - 1 < l => l - (k - 1) \in 1 .. l)
          BY <2>2, <2>3, <4>5
        <5>2. ((l + 1) - k) % s # (l + 1) % s
          BY <2>3, <4>1, <5>1, ModDiffer
        <5>3. x # b + ((l + 1) % s)
          <6>1. ((l + 1) - k) % s \in Int /\ (l + 1) % s \in Int
            BY <4>1, <2>4
          <6> QED
            BY <5>2, <6>1, <2>3
        <5>4. dataBuff[b + ((l - (k - 1)) % s)] = IF k - 1 < l THEN q[l - (k - 1)] ELSE 0
          BY <2>1, <5>1 DEF Holds, l, s, b, q
        <5>5. dataBuff'[x] = IF k - 1 < l THEN q[l - (k - 1)] ELSE 0
          BY <4>3, <5>1, <5>3, <5>4
        <5> QED
          BY <3>2, <5>1, <5>5
      <4> QED
        BY <4>4, <4>5
    <3> QED
      BY <3>1, <3>2, <3>3, <3>4
  <2>6. CASE ~Pushes(a, c)
    <3>1. /\ pushed'[c] = q /\ fifoDesc'[c] = fifoDesc[c]
          /\ \A x \in Region(c) : dataBuff'[x] = dataBuff[x]
      BY <2>6, NotPushed
    <3>2. \A k \in 0 .. s - 1 : b + ((l - k) % s) \in Region(c)
      <4>1. \A k \in 0 .. s - 1 : l - k \in Int
        BY <2>2, <2>3
      <4> QED
        BY <4>1, <2>4
    <3> QED
      BY <2>1, <3>1, <3>2
  <2> QED
    BY <2>5, <2>6
<1> QED
  BY <1>1, FifoNumber DEF BufferHoldsWindow

LEMMA InitBuffers == Init => BufferHoldsWindow
<1> SUFFICES ASSUME Init PROVE BufferHoldsWindow
  OBVIOUS
<1>1. ASSUME NEW c \in Channels
      PROVE  /\ fifoDesc[c] = [offset |-> Base(c) + (Len(pushed[c]) % Size(c)), last |-> Depth(c) - 1]
             /\ \A k \in 0 .. Size(c) - 1 :
                  dataBuff[Base(c) + ((Len(pushed[c]) - k) % Size(c))] =
                      IF k < Len(pushed[c]) THEN pushed[c][Len(pushed[c]) - k] ELSE 0
  <2>1. Len(pushed[c]) = 0 /\ fifoDesc[c] = FIFOSIZES[c]
    BY DEF Init
  <2>2. FIFOSIZES[c] = [offset |-> Base(c) + (0 % Size(c)), last |-> Depth(c) - 1]
    BY FirstWords
  <2>3. ASSUME NEW k \in 0 .. Size(c) - 1
        PROVE  dataBuff[Base(c) + ((0 - k) % Size(c))] = 0 /\ ~(k < 0)
    <3>1. Size(c) \in Nat
      BY Buffers
    <3>2. 0 - k \in Int /\ ~(k < 0)
      BY <3>1
    <3>3. Base(c) + ((0 - k) % Size(c)) \in Addresses
      BY <3>2, WordOfBuffer
    <3> QED
      BY <3>2, <3>3 DEF Init
  <2> QED
    BY <2>1, <2>2, <2>3
<1> QED
  BY <1>1, FifoNumber DEF BufferHoldsWindow

\* A clock keeps the invariant of the pipeline, whatever the sources do.
LEMMA PipeStep ==
  ASSUME TypeInv, BufferHoldsWindow, NEW a \in Nat, PipeInv(a),
         NEW arrivals \in SUBSET Channels, NEW reset \in BOOLEAN, Clock(arrivals, reset)
  PROVE  /\ rst \/ rst' => PipeInv(0)'
         /\ ~rst /\ ~rst' => PipeInv(a + 1)'
<1>1. /\ CounterInv(a) /\ CommitInv(a) /\ TableInv(a)
      /\ PositionInv(a) /\ OperandInv(a) /\ SumInv(a) /\ OutInv(a)
  BY DEF PipeInv
<1>2. /\ TimeSlices /\ EnableUpdate /\ Commit /\ DataBuffers /\ FifoDescs
      /\ ReadAddresses /\ UpdateAddresses /\ Dsp /\ Outputs /\ History
  BY DEF Clock
<1>3. CASE rst \/ rst'
  <2>1. ps'[-1] = 0 /\ doUpdate' = [on |-> FALSE, enable |-> 0]
    BY <1>2, <1>3 DEF TimeSlices, EnableUpdate, Clocked
  <2>2. commit' = [n \in 3 .. 9 |-> FALSE]
    BY <1>2, <1>3 DEF Commit, Clocked
  <2>3. out' = [c \in Channels |-> [data |-> <<>>, new |-> FALSE, changed |-> FALSE]]
    BY <1>2, <1>3 DEF Outputs, Clocked
  <2>4. Empty'
    BY <2>1, <2>2, <2>3 DEF Empty
  <2>5. PipeInv(0)'
    BY <2>4, EmptyPipe, PTL
  <2> QED
    BY <1>3, <2>5, Zenon
<1>4. CASE ~rst /\ ~rst'
  <2>1. CounterInv(a + 1)' /\ CommitInv(a + 1)'
    BY <1>1, <1>2, <1>4, CounterStep
  <2>2. TableInv(a + 1)'
    BY <1>1, <1>2, TableStep
  <2>3. PositionInv(a + 1)'
    BY <1>1, <1>2, <1>4, PositionStep
  <2>4. OperandInv(a + 1)'
    BY <1>1, <1>2, <1>4, OperandStep
  <2>5. SumInv(a + 1)'
    BY <1>1, <1>2, <1>4, SumStep
  <2>6. OutInv(a + 1)'
    BY <1>1, <1>2, <1>4, OutStep
  <2>7. PipeInv(a + 1)'
    BY <2>1, <2>2, <2>3, <2>4, <2>5, <2>6, Zenon DEF PipeInv
  <2> QED
    BY <1>4, <2>7, Zenon
<1> QED
  BY <1>3, <1>4, Zenon

-----------------------------------------------------------------------------
(* The order of the samples, before the first reset after power-up *)

Odd(n) == n % 2 = 1

\* A sample of channel c is between its selection and its buffer.
Chosen(a, c) == chosen_ps2.changed /\ Updates((a - 3) % N, c)

\* The samples of a channel that have been selected, and those whose flag has
\* come through the first register.
Selected(a, c) ==
    IF Chosen(a, c) \/ Pushes(a, c) THEN Len(pushed[c]) + 1 ELSE Len(pushed[c])
Latched(c) == IF since[c] = 1 /\ sent[c] > 0 THEN sent[c] - 1 ELSE sent[c]

FrontInv(a) ==
    /\ a >= 2 => channelSel_ps1 = CHANNEL_SELECT[(a - 2) % N]
    /\ a >= 4 /\ DOUPDATE[(a - 3) % N] => doUpdate.on

\* The flags tell the number of samples up to an even number.
FlagInv(a) ==
    \A c \in Channels :
        /\ since[c] <= a
        /\ sent[c] > 0 => a >= 7 /\ since[c] >= 1
        /\ pin[c].data = sent[c]
        /\ pin[c].changed <=> Odd(sent[c])
        /\ latch[c].changed <=> Odd(Latched(c))
        /\ latch[c].prev <=> Odd(Selected(a, c))

\* Each sample is selected, or it has just come, or its slot has not come since;
\* one that waits when the next is sent is selected in that very clock.
WaitInv(a) ==
    \A c \in Channels :
        \/ Selected(a, c) = sent[c] /\ (sent[c] > 0 => since[c] >= 2)
        \/ Selected(a, c) = sent[c] - 1 /\ since[c] = 1
        \/ /\ Selected(a, c) = sent[c] - 1 /\ since[c] >= 2
           /\ latch[c].data = sent[c] \/ (since[c] = 2 /\ Updates((a - 3) % N, c))
           /\ \A i \in 1 .. since[c] - 2 : ~Updates((a - 2 - i) % N, c)
        \/ /\ Selected(a, c) = sent[c] - 2 /\ since[c] = 1
           /\ Updates((a - 2) % N, c) /\ latch[c].data = sent[c] - 1

OrderInv(a) ==
    /\ chosen_ps2.changed => a >= 4
    /\ \A c \in Channels :
        /\ pushed[c] = [k \in 1 .. Len(pushed[c]) |-> k]
        /\ Chosen(a, c) => chosen_ps2.data = Len(pushed[c]) + 1
        /\ Pushes(a, c) => wrdata = Len(pushed[c]) + 1

\* At most one answer is on its way.
OnItsWay(a, c) == \E n \in 4 .. 9 : commit[n] /\ Updates((a - 1 - n) % N, c)
AnswerInv(a) ==
    \A c \in Channels :
        Len(pushed[c]) = IF out[c].new \/ OnItsWay(a, c) THEN outputs[c] + 1 ELSE outputs[c]

SamplesInv(a) == FlagInv(a) /\ WaitInv(a) /\ OrderInv(a) /\ AnswerInv(a)

LEMMA OddNext ==
  ASSUME NEW n \in Int
  PROVE  (Odd(n + 1) <=> ~Odd(n)) /\ (Odd(n - 1) <=> ~Odd(n)) /\ (Odd(n - 2) <=> Odd(n)) /\ ~Odd(0)
BY DEF Odd

\* The sources are slower than the pipeline.
LEMMA SlowSources ==
  ASSUME NEW c \in Channels
  PROVE  Period(c) \in Nat /\ Period(c) >= 7
<1>1. Period(c) \in Nat
  <2>1. 0 \in Int
    OBVIOUS
  <2> QED
    BY <2>1, UpdateComes
<1>2. PICK d \in 0 .. Period(c) - 1 : Updates((0 + d) % N, c)
  <2>1. 0 \in Int
    OBVIOUS
  <2> QED
    BY <2>1, UpdateComes
<1>3. d \in Nat /\ d + 1 \in Int /\ 0 + d = d
  BY <1>1
<1>4. PICK e \in 0 .. Period(c) - 1 : Updates((d + 1 + e) % N, c)
  BY <1>3, UpdateComes
<1>5. e \in Nat /\ e + 1 \in Nat /\ d + 1 + e = d + (e + 1) /\ e + 1 <= Period(c)
  BY <1>1, <1>3
<1>6. e + 1 \notin 1 .. Depth(c) + 2
  <2>1. Updates((d + (e + 1)) % N, c) /\ Updates(d % N, c)
    BY <1>2, <1>3, <1>4, <1>5
  <2>2. d \in Int
    BY <1>3
  <2> HIDE DEF Updates
  <2> QED
    BY <2>1, <2>2, UpdatesApart
<1>7. Depth(c) \in Nat /\ Depth(c) >= 4
  BY Depths
<1> QED
  BY <1>1, <1>5, <1>6, <1>7

LEMMA FrontStep ==
  ASSUME TypeInv, NEW a \in Nat, CounterInv(a), Choose, EnableUpdate, ~rst, ~rst'
  PROVE  FrontInv(a + 1)'
<1>1. ps[0] \in SlotNumbers /\ ps[1] \in SlotNumbers
  BY DEF TypeInv, PipeTypes
<1>2. a + 1 >= 2 => channelSel_ps1' = CHANNEL_SELECT[((a + 1) - 2) % N]
  <2>1. channelSel_ps1' = CHANNEL_SELECT[ps[0]]
    BY <1>1, EntryOfSlot DEF Choose
  <2>2. a + 1 >= 2 => ps[0] = (a - 1 - 0) % N /\ a - 1 - 0 = (a + 1) - 2
    BY DEF CounterInv
  <2> QED
    BY <2>1, <2>2
<1>3. ASSUME a + 1 >= 4, DOUPDATE[((a + 1) - 3) % N]
      PROVE  doUpdate'.on
  <2>1. doUpdate'.on = (doUpdate.enable = 3 /\ Entry(DOUPDATE, ps[1], FALSE))
    BY DEF EnableUpdate, Clocked
  <2>2. Entry(DOUPDATE, ps[1], FALSE) = DOUPDATE[ps[1]]
    BY <1>1, EntryOfSlot
  <2>3. ps[1] = (a - 1 - 1) % N /\ a - 1 - 1 = (a + 1) - 3
    BY <1>3 DEF CounterInv
  <2>4. doUpdate.enable = 3
    BY <1>3 DEF CounterInv
  <2>5. DOUPDATE[ps[1]]
    BY <1>3, <2>3
  <2> QED
    BY <2>1, <2>2, <2>4, <2>5, Zenon
<1> QED
  BY <1>2, <1>3, Zenon DEF FrontInv

LEMMA SelectedCount ==
  ASSUME TypeInv, NEW a \in Nat, NEW c \in Channels
  PROVE  /\ Selected(a, c) \in Nat /\ Len(pushed[c]) \in Nat
         /\ sent[c] \in Nat /\ since[c] \in Nat
<1>1. Len(pushed[c]) \in Nat
  BY DEF TypeInv, ResultTypes
<1>2. sent[c] \in Nat /\ since[c] \in Nat
  BY SampleNumbers DEF TypeInv, InputTypes
<1> QED
  BY <1>1, <1>2 DEF Selected

\* In its first clocks the circuit has seen no sample.
LEMMA NothingYet ==
  ASSUME TypeInv, NEW a \in Nat, a < 7, FlagInv(a), WaitInv(a), NEW c \in Channels
  PROVE  latch[c].changed = FALSE /\ latch[c].prev = FALSE /\ sent[c] = 0 /\ Selected(a, c) = 0
<1>1. Selected(a, c) \in Nat /\ sent[c] \in Nat
  BY SelectedCount
<1>2. sent[c] = 0
  BY <1>1 DEF FlagInv
<1>3. Selected(a, c) = 0
  BY <1>1, <1>2 DEF WaitInv
<1>4. Latched(c) = 0
  BY <1>2 DEF Latched
<1>5. (latch[c].changed <=> Odd(0)) /\ (latch[c].prev <=> Odd(0)) /\ ~Odd(0)
  BY <1>3, <1>4, OddNext DEF FlagInv
<1>6. latch[c].changed \in BOOLEAN /\ latch[c].prev \in BOOLEAN
  BY DEF TypeInv, PipeTypes
<1> QED
  BY <1>2, <1>3, <1>5, <1>6

\* The clock selects a new sample of the channel.
Selects(a, c) == a >= 7 /\ Updates((a - 2) % N, c) /\ latch[c].changed # latch[c].prev

LEMMA Selection ==
  ASSUME TypeInv, NEW a \in Nat, FrontInv(a), FlagInv(a), WaitInv(a), Choose, Latch, ~rst, ~rst',
         NEW c \in Channels
  PROVE  /\ Chosen(a + 1, c)' <=> Selects(a, c)
         /\ Selects(a, c) => chosen_ps2'.data = latch[c].data
         /\ latch'[c].prev = IF Selects(a, c) THEN latch[c].changed ELSE latch[c].prev
         /\ latch'[c].changed = pin[c].changed
         /\ latch'[c].data = IF latch[c].prev # pin[c].changed THEN pin[c].data ELSE latch[c].data
         /\ chosen_ps2'.changed => a >= 7
<1>1. /\ latch'[c].prev = IF channelSel_ps1 = c THEN latch[c].changed ELSE latch[c].prev
      /\ latch'[c].changed = pin[c].changed
      /\ latch'[c].data = IF latch[c].prev # pin[c].changed THEN pin[c].data ELSE latch[c].data
  BY DEF Latch, Clocked
<1>2. chosen_ps2' = IF channelSel_ps1 \in Channels
                    THEN [data    |-> latch[channelSel_ps1].data,
                          changed |-> latch[channelSel_ps1].changed # latch[channelSel_ps1].prev]
                    ELSE [data |-> 0, changed |-> FALSE]
  BY DEF Choose, Clocked
<1>3. CASE a < 7
  <2>1. \A e \in Channels : latch[e].changed = FALSE /\ latch[e].prev = FALSE
    BY <1>3, NothingYet
  <2>2. chosen_ps2'.changed = FALSE
    BY <1>2, <2>1
  <2>3. ~Selects(a, c)
    BY <1>3 DEF Selects
  <2> QED
    BY <1>1, <2>1, <2>2, <2>3, Zenon DEF Chosen
<1>4. CASE a >= 7
  <2>1. a - 2 \in Int /\ (a + 1) - 3 = a - 2 /\ (a - 2) % N \in Slots /\ 0 \in 0 .. Depth(c) - 1
    <3>1. a - 2 \in Int
      BY <1>4
    <3>2. (a - 2) % N \in Slots
      BY <3>1, SlotAt
    <3>3. 0 \in 0 .. Depth(c) - 1 /\ (a + 1) - 3 = a - 2
      BY Depths
    <3> QED
      BY <3>1, <3>2, <3>3
  <2>2. channelSel_ps1 = CHANNEL_SELECT[(a - 2) % N]
    BY <1>4 DEF FrontInv
  <2>3. channelSel_ps1 = c <=> Updates((a - 2) % N, c)
    <3>1. channelSel_ps1 = c => Updates((a - 2) % N, c)
      BY <2>1, <2>2, SelectsUpdated
    <3>2. Updates((a - 2) % N, c) => channelSel_ps1 = c
      BY <2>1, <2>2, RowTables
    <3> QED
      BY <3>1, <3>2
  <2>4. Chosen(a + 1, c)' <=> chosen_ps2'.changed /\ Updates((a - 2) % N, c)
    BY <2>1 DEF Chosen
  <2>5. Selects(a, c) <=> Updates((a - 2) % N, c) /\ latch[c].changed # latch[c].prev
    BY <1>4 DEF Selects
  <2>6. Updates((a - 2) % N, c) =>
            /\ chosen_ps2'.changed = (latch[c].changed # latch[c].prev)
            /\ chosen_ps2'.data = latch[c].data
    BY <1>2, <2>3
  <2>7. Chosen(a + 1, c)' <=> Selects(a, c)
    BY <2>4, <2>5, <2>6, Zenon
  <2>8. Selects(a, c) => chosen_ps2'.data = latch[c].data
    BY <2>5, <2>6, Zenon
  <2>9. latch'[c].prev = IF Selects(a, c) THEN latch[c].changed ELSE latch[c].prev
    BY <1>1, <2>3, <2>5, Zenon
  <2> QED
    BY <1>1, <1>4, <2>7, <2>8, <2>9, Zenon
<1> QED
  BY <1>3, <1>4

\* Slots that are close together do not update the same channel.
LEMMA Spaced ==
  ASSUME NEW a \in Nat, NEW c \in Channels
  PROVE  \A i, j \in 2 .. 11 :
            i < j /\ j <= i + 6 => ~(Updates((a - i) % N, c) /\ Updates((a - j) % N, c))
<1> SUFFICES ASSUME NEW i \in 2 .. 11, NEW j \in 2 .. 11, i < j, j <= i + 6,
                    Updates((a - i) % N, c), Updates((a - j) % N, c)
             PROVE  FALSE
  BY Zenon
<1>1. j - i \in 1 .. Depth(c) + 2 /\ a - i \in Int /\ (a - i) - (j - i) = a - j
  <2>1. Depth(c) \in Nat /\ Depth(c) >= 4
    BY Depths
  <2> QED
    BY <2>1
<1> QED
  BY <1>1, UpdatesApart

\* What a clock does to the samples on their way to the buffer.
LEMMA Passing ==
  ASSUME TypeInv, NEW a \in Nat, CounterInv(a), CommitInv(a), FrontInv(a),
         FlagInv(a), WaitInv(a), OrderInv(a),
         Choose, Latch, Commit, History, ~rst, ~rst', NEW c \in Channels
  PROVE  /\ Pushes(a + 1, c)' <=> Chosen(a, c)
         /\ wrdata' = chosen_ps2.data
         /\ pushed'[c] = IF Pushes(a, c) THEN Append(pushed[c], wrdata) ELSE pushed[c]
         /\ Selects(a, c) => ~Chosen(a, c) /\ ~Pushes(a, c)
         /\ Chosen(a, c) => ~Pushes(a, c)
         /\ Selected(a + 1, c)' = IF Selects(a, c) THEN Selected(a, c) + 1 ELSE Selected(a, c)
<1>1. Pushes(a + 1, c)' <=> Chosen(a, c)
  <2>1. 3 \in 3 .. 9
    OBVIOUS
  <2>2. commit'[3] = Clocked(FALSE, IF 3 = 3 THEN doUpdate.on /\ chosen_ps2.changed ELSE commit[3 - 1])
    BY <2>1, Zenon DEF Commit
  <2>3. commit'[3] <=> doUpdate.on /\ chosen_ps2.changed
    BY <2>2, Zenon DEF Clocked
  <2>4. (a + 1) - 4 = a - 3
    OBVIOUS
  <2>5. ASSUME Chosen(a, c)
        PROVE  doUpdate.on
    <3>1. a >= 4 /\ Updates((a - 3) % N, c)
      BY <2>5 DEF OrderInv, Chosen
    <3>2. 0 \in 0 .. Depth(c) - 1 /\ a - 3 \in Int
      BY <3>1, Depths
    <3>3. DOUPDATE[(a - 3) % N]
      BY <3>1, <3>2, RowTables
    <3> QED
      BY <3>1, <3>3 DEF FrontInv
  <2>6. Pushes(a + 1, c)' <=> commit'[3] /\ Updates((a - 3) % N, c)
    BY <2>4 DEF Pushes
  <2> QED
    BY <2>3, <2>5, <2>6, Zenon DEF Chosen
<1>2. wrdata' = chosen_ps2.data
  BY DEF Commit
<1>3. pushed'[c] = IF Pushes(a, c) THEN Append(pushed[c], wrdata) ELSE pushed[c]
  <2>1. pushed'[c] = IF commit[3] /\ Updates(ps[3], c) THEN Append(pushed[c], wrdata) ELSE pushed[c]
    BY DEF History
  <2>2. commit[3] => ps[3] = (a - 4) % N
    <3>1. commit[3] => a > 3
      BY DEF CommitInv
    <3>2. a > 3 => ps[3] = (a - 1 - 3) % N /\ a - 1 - 3 = a - 4
      BY DEF CounterInv
    <3> QED
      BY <3>1, <3>2
  <2> QED
    BY <2>1, <2>2, Zenon DEF Pushes
<1>4. /\ Selects(a, c) => ~Chosen(a, c) /\ ~Pushes(a, c)
      /\ Chosen(a, c) => ~Pushes(a, c)
  <2>1. /\ ~(Updates((a - 2) % N, c) /\ Updates((a - 3) % N, c))
        /\ ~(Updates((a - 2) % N, c) /\ Updates((a - 4) % N, c))
        /\ ~(Updates((a - 3) % N, c) /\ Updates((a - 4) % N, c))
    BY Spaced
  <2> QED
    BY <2>1, Zenon DEF Selects, Chosen, Pushes
<1>5. Selected(a + 1, c)' = IF Selects(a, c) THEN Selected(a, c) + 1 ELSE Selected(a, c)
  <2>1. Chosen(a + 1, c)' <=> Selects(a, c)
    BY Selection
  <2>2. pushed[c] \in Seq(Samples) /\ wrdata \in Samples
    BY DEF TypeInv, ResultTypes, PipeTypes
  <2>3. Len(pushed[c]) \in Nat /\ Len(pushed'[c]) = IF Pushes(a, c) THEN Len(pushed[c]) + 1 ELSE Len(pushed[c])
    BY <1>3, <2>2
  <2>4. Selected(a + 1, c)' = IF Selects(a, c) \/ Chosen(a, c) THEN Len(pushed'[c]) + 1 ELSE Len(pushed'[c])
    BY <1>1, <2>1, Zenon DEF Selected
  <2> QED
    BY <1>4, <2>3, <2>4 DEF Selected
<1> QED
  BY <1>1, <1>2, <1>3, <1>4, <1>5, Zenon

\* What a clock does to the source of a channel.
LEMMA Sending ==
  ASSUME TypeInv, NEW a \in Nat, FlagInv(a), NEW arrivals \in SUBSET Channels, NEW reset \in BOOLEAN,
         Source(arrivals, reset), ~rst, NEW c \in Channels
  PROVE  /\ c \in arrivals => /\ since[c] = Period(c) /\ since[c] >= 7 /\ a >= 7
                              /\ sent'[c] = sent[c] + 1 /\ since'[c] = 1
                              /\ pin'[c].data = sent[c] + 1 /\ (pin'[c].changed <=> ~pin[c].changed)
         /\ c \notin arrivals => /\ sent'[c] = sent[c] /\ pin'[c] = pin[c]
                                 /\ since'[c] = IF since[c] >= Period(c) THEN Period(c) ELSE since[c] + 1
<1>1. Period(c) \in Nat /\ Period(c) >= 7
  BY SlowSources
<1>2. CASE c \in arrivals
  <2>1. since[c] = Period(c)
    BY <1>2 DEF Source
  <2>2. since[c] <= a
    BY DEF FlagInv
  <2>3. sent'[c] = sent[c] + 1 /\ since'[c] = 1
    BY <1>2 DEF Source
  <2>5. (pin'[c].changed <=> ~pin[c].changed) /\ pin'[c].data = sent[c] + 1
    <3>1. pin'[c].changed = ~pin[c].changed
      BY <1>2 DEF Source
    <3>2. pin'[c].data = sent'[c]
      BY <1>2 DEF Source
    <3> QED
      BY <2>3, <3>1, <3>2, Zenon
  <2>6. since[c] >= 7 /\ a >= 7
    BY <1>1, <2>1, <2>2
  <2> QED
    BY <1>2, <2>1, <2>3, <2>5, <2>6, Zenon
<1>3. CASE c \notin arrivals
  <2>1. sent'[c] = sent[c] /\ pin'[c] = pin[c] /\ since'[c] = Min({since[c] + 1, Period(c)})
    BY <1>3 DEF Source
  <2> DEFINE j == since[c]
             p == Period(c)
  <2>2. j \in Nat /\ p \in Nat
    BY <1>1, SelectedCount
  <2> HIDE DEF j, p
  <2>3. Min({j + 1, p}) = IF j >= p THEN p ELSE j + 1
    BY <2>2 DEF Min
  <2> QED
    BY <1>3, <2>1, <2>3 DEF j, p
<1> QED
  BY <1>2, <1>3

LEMMA FlagStep ==
  ASSUME TypeInv, NEW a \in Nat, CounterInv(a), CommitInv(a), FrontInv(a),
         FlagInv(a), WaitInv(a), OrderInv(a),
         NEW arrivals \in SUBSET Channels, NEW reset \in BOOLEAN, Source(arrivals, reset),
         Choose, Latch, Commit, History, ~rst, ~rst'
  PROVE  FlagInv(a + 1)'
<1> SUFFICES ASSUME NEW c \in Channels
             PROVE  /\ since'[c] <= a + 1
                    /\ sent'[c] > 0 => a + 1 >= 7 /\ since'[c] >= 1
                    /\ pin'[c].data = sent'[c]
                    /\ pin'[c].changed <=> Odd(sent'[c])
                    /\ latch'[c].changed <=> Odd(Latched(c)')
                    /\ latch'[c].prev <=> Odd(Selected(a + 1, c)')
  BY Zenon DEF FlagInv
<1>1. /\ since[c] <= a
      /\ sent[c] > 0 => a >= 7 /\ since[c] >= 1
      /\ pin[c].data = sent[c]
      /\ pin[c].changed <=> Odd(sent[c])
      /\ latch[c].changed <=> Odd(Latched(c))
      /\ latch[c].prev <=> Odd(Selected(a, c))
  BY DEF FlagInv
<1>2. sent[c] \in Nat /\ since[c] \in Nat /\ Selected(a, c) \in Nat
  BY SelectedCount
<1>3. Period(c) \in Nat /\ Period(c) >= 7
  BY SlowSources
<1>4. /\ c \in arrivals => /\ since[c] = Period(c) /\ since[c] >= 7 /\ a >= 7
                           /\ sent'[c] = sent[c] + 1 /\ since'[c] = 1
                           /\ pin'[c].data = sent[c] + 1 /\ (pin'[c].changed <=> ~pin[c].changed)
      /\ c \notin arrivals => /\ sent'[c] = sent[c] /\ pin'[c] = pin[c]
                              /\ since'[c] = IF since[c] >= Period(c) THEN Period(c) ELSE since[c] + 1
  BY Sending
<1>5. /\ since'[c] <= a + 1 /\ (sent'[c] > 0 => a + 1 >= 7 /\ since'[c] >= 1)
      /\ pin'[c].data = sent'[c]
  BY <1>1, <1>2, <1>3, <1>4
<1>6. pin'[c].changed <=> Odd(sent'[c])
  <2>1. Odd(sent[c] + 1) <=> ~Odd(sent[c])
    BY <1>2, OddNext
  <2> QED
    BY <1>1, <1>4, <2>1, Zenon
<1>7. latch'[c].changed <=> Odd(Latched(c)')
  <2>1. Latched(c)' = sent[c]
    <3>1. Latched(c)' = IF since'[c] = 1 /\ sent'[c] > 0 THEN sent'[c] - 1 ELSE sent'[c]
      BY DEF Latched
    <3> QED
      BY <1>1, <1>2, <1>3, <1>4, <3>1
  <2>2. latch'[c].changed = pin[c].changed
    BY Selection
  <2> QED
    BY <1>1, <2>1, <2>2, Zenon
<1>8. latch'[c].prev <=> Odd(Selected(a + 1, c)')
  <2>1. latch'[c].prev = IF Selects(a, c) THEN latch[c].changed ELSE latch[c].prev
    BY Selection
  <2>2. Selected(a + 1, c)' = IF Selects(a, c) THEN Selected(a, c) + 1 ELSE Selected(a, c)
    BY Passing
  <2>3. Selects(a, c) => (latch[c].changed <=> ~latch[c].prev)
    <3>1. latch[c].changed \in BOOLEAN /\ latch[c].prev \in BOOLEAN
      BY DEF TypeInv, PipeTypes
    <3> QED
      BY <3>1 DEF Selects
  <2>4. Odd(Selected(a, c) + 1) <=> ~Odd(Selected(a, c))
    BY <1>2, OddNext
  <2> QED
    BY <1>1, <2>1, <2>2, <2>3, <2>4, Zenon
<1> QED
  BY <1>5, <1>6, <1>7, <1>8, Zenon

LEMMA WaitStep ==
  ASSUME TypeInv, NEW a \in Nat, CounterInv(a), CommitInv(a), FrontInv(a),
         FlagInv(a), WaitInv(a), OrderInv(a),
         NEW arrivals \in SUBSET Channels, NEW reset \in BOOLEAN, Source(arrivals, reset),
         Choose, Latch, Commit, History, ~rst, ~rst', NEW c \in Channels
  PROVE  /\ \/ Selected(a + 1, c)' = sent'[c] /\ (sent'[c] > 0 => since'[c] >= 2)
            \/ Selected(a + 1, c)' = sent'[c] - 1 /\ since'[c] = 1
            \/ /\ Selected(a + 1, c)' = sent'[c] - 1 /\ since'[c] >= 2
               /\ latch'[c].data = sent'[c] \/ (since'[c] = 2 /\ Updates(((a + 1) - 3) % N, c))
               /\ \A i \in 1 .. since'[c] - 2 : ~Updates(((a + 1) - 2 - i) % N, c)
            \/ /\ Selected(a + 1, c)' = sent'[c] - 2 /\ since'[c] = 1
               /\ Updates(((a + 1) - 2) % N, c) /\ latch'[c].data = sent'[c] - 1
         /\ Selects(a, c) => latch[c].data = Selected(a, c) + 1
<1> DEFINE q == Selected(a, c)
           s == sent[c]
           j == since[c]
           p == Period(c)
           q1 == Selected(a + 1, c)'
           s1 == sent'[c]
           j1 == since'[c]
           U2 == Updates((a - 2) % N, c)
<1>1. s \in Nat /\ j \in Nat /\ q \in Nat
  BY SelectedCount
<1>2. p \in Nat /\ p >= 7
  BY SlowSources
<1>3. /\ s > 0 => a >= 7 /\ j >= 1
      /\ pin[c].data = s
      /\ pin[c].changed <=> Odd(s)
      /\ latch[c].changed <=> Odd(Latched(c))
      /\ latch[c].prev <=> Odd(q)
  BY DEF FlagInv
<1>4. /\ c \in arrivals => j = p /\ s1 = s + 1 /\ j1 = 1
      /\ c \notin arrivals => s1 = s /\ j1 = IF j >= p THEN p ELSE j + 1
  <2>1. /\ c \in arrivals => /\ since[c] = Period(c) /\ since[c] >= 7 /\ a >= 7
                             /\ sent'[c] = sent[c] + 1 /\ since'[c] = 1
                             /\ pin'[c].data = sent[c] + 1 /\ (pin'[c].changed <=> ~pin[c].changed)
        /\ c \notin arrivals => /\ sent'[c] = sent[c] /\ pin'[c] = pin[c]
                                /\ since'[c] = IF since[c] >= Period(c) THEN Period(c) ELSE since[c] + 1
    BY Sending, Zenon
  <2> QED
    BY <2>1, Zenon
<1>5. q1 = IF Selects(a, c) THEN q + 1 ELSE q
  BY Passing
<1>6. latch'[c].data = IF latch[c].prev # pin[c].changed THEN pin[c].data ELSE latch[c].data
  BY Selection
<1>7. latch[c].changed \in BOOLEAN /\ latch[c].prev \in BOOLEAN /\ pin[c].changed \in BOOLEAN
  BY DEF TypeInv, PipeTypes, InputTypes
<1>8. Selects(a, c) <=> a >= 7 /\ U2 /\ latch[c].changed # latch[c].prev
  BY DEF Selects
<1>9. Latched(c) = IF j = 1 /\ s > 0 THEN s - 1 ELSE s
  BY DEF Latched
<1>10. /\ Odd(s - 1) <=> ~Odd(s)
       /\ Odd(s - 2) <=> Odd(s)
  BY <1>1, OddNext
<1>11. \/ q = s /\ (s > 0 => j >= 2)
       \/ q = s - 1 /\ j = 1
       \/ /\ q = s - 1 /\ j >= 2
          /\ latch[c].data = s \/ (j = 2 /\ Updates((a - 3) % N, c))
          /\ \A i \in 1 .. j - 2 : ~Updates((a - 2 - i) % N, c)
       \/ q = s - 2 /\ j = 1 /\ U2 /\ latch[c].data = s - 1
  BY DEF WaitInv
<1> HIDE DEF q, s, j, p, q1, s1, j1, U2
<1>12. CASE q = s /\ (s > 0 => j >= 2)
  <2>1. Latched(c) = q
    BY <1>1, <1>9, <1>12
  <2>2. ~Selects(a, c)
    BY <1>3, <1>7, <1>8, <2>1
  <2>3. q1 = q
    BY <1>5, <2>2
  <2>4. c \in arrivals => q1 = s1 - 1 /\ j1 = 1
    BY <1>1, <1>4, <1>12, <2>3
  <2>5. c \notin arrivals => q1 = s1 /\ (s1 > 0 => j1 >= 2)
    BY <1>1, <1>2, <1>4, <1>12, <2>3
  <2> QED
    BY <2>2, <2>4, <2>5, Zenon DEF q1, s1, j1
<1>13. CASE q = s - 1 /\ j = 1
  <2>1. Latched(c) = q /\ c \notin arrivals
    BY <1>1, <1>2, <1>4, <1>9, <1>13
  <2>2. ~Selects(a, c)
    BY <1>3, <1>7, <1>8, <2>1
  <2>3. q1 = s1 - 1 /\ j1 = 2 /\ s1 = s
    BY <1>2, <1>4, <1>5, <1>13, <2>1, <2>2
  <2>4. latch'[c].data = s1
    BY <1>3, <1>6, <1>7, <1>10, <1>13, <2>3
  <2>5. 1 .. j1 - 2 = {} /\ j1 >= 2
    BY <2>3
  <2> QED
    BY <2>2, <2>3, <2>4, <2>5 DEF q1, s1, j1
<1>14. CASE /\ q = s - 1 /\ j >= 2
            /\ latch[c].data = s \/ (j = 2 /\ Updates((a - 3) % N, c))
            /\ \A i \in 1 .. j - 2 : ~Updates((a - 2 - i) % N, c)
  <2>1. Latched(c) = s /\ s > 0 /\ a >= 7
    BY <1>1, <1>3, <1>9, <1>14
  <2>2. Selects(a, c) <=> U2
    BY <1>3, <1>7, <1>8, <1>10, <1>14, <2>1
  <2>3. latch'[c].data = s
    BY <1>3, <1>6, <1>7, <1>10, <1>14
  <2>4. CASE U2
    <3>1. q1 = s
      BY <1>1, <1>5, <1>14, <2>2, <2>4
    <3>2. latch[c].data = q + 1
      <4>1. ~Updates((a - 3) % N, c)
        BY <2>4, Spaced DEF U2
      <4> QED
        BY <1>1, <1>14, <4>1
    <3>3. c \in arrivals => q1 = s1 - 1 /\ j1 = 1
      BY <1>1, <1>4, <3>1
    <3>4. c \notin arrivals => q1 = s1 /\ j1 >= 2
      BY <1>1, <1>2, <1>4, <1>14, <3>1
    <3> QED
      BY <3>2, <3>3, <3>4, Zenon DEF q1, s1, j1, q
  <2>5. CASE ~U2 /\ c \notin arrivals
    <3>1. q1 = s1 - 1 /\ s1 = s /\ j1 >= 2 /\ ~Selects(a, c)
      BY <1>1, <1>2, <1>4, <1>5, <1>14, <2>2, <2>5
    <3>2. ASSUME NEW i \in 1 .. j1 - 2
          PROVE  ~Updates(((a + 1) - 2 - i) % N, c)
      <4>1. j1 <= j + 1 /\ j1 \in Nat
        BY <1>1, <1>2, <1>4, <2>5
      <4>2. CASE i = 1
        <5>1. (a + 1) - 2 - i = a - 2
          BY <4>2
        <5> QED
          BY <2>5, <5>1 DEF U2
      <4>3. CASE i # 1
        <5>1. i - 1 \in 1 .. j - 2 /\ (a + 1) - 2 - i = a - 2 - (i - 1)
          BY <1>1, <4>1, <4>3
        <5> QED
          BY <1>14, <5>1
      <4> QED
        BY <4>2, <4>3
    <3> QED
      BY <2>3, <3>1, <3>2, Zenon DEF q1, s1, j1
  <2>6. CASE ~U2 /\ c \in arrivals
    <3>1. q1 = s1 - 2 /\ s1 - 1 = s /\ j1 = 1 /\ j = p /\ ~Selects(a, c)
      BY <1>1, <1>4, <1>5, <1>14, <2>2, <2>6
    <3>2. Updates(((a + 1) - 2) % N, c)
      <4>1. a - p \in Int
        BY <1>2
      <4>2. PICK d \in 0 .. p - 1 : Updates(((a - p) + d) % N, c)
        BY <4>1, UpdateComes DEF p
      <4>3. CASE d = p - 1
        <5>1. (a - p) + d = (a + 1) - 2
          BY <1>2, <4>3
        <5> QED
          BY <4>2, <5>1
      <4>4. CASE d = p - 2
        <5>1. (a - p) + d = a - 2
          BY <1>2, <4>4
        <5> QED
          BY <2>6, <4>2, <5>1 DEF U2
      <4>5. CASE d < p - 2
        <5>1. p - 2 - d \in 1 .. j - 2 /\ a - 2 - (p - 2 - d) = (a - p) + d
          BY <1>2, <3>1, <4>5
        <5> QED
          BY <1>14, <4>2, <5>1
      <4> QED
        BY <1>2, <4>3, <4>4, <4>5
    <3> QED
      BY <2>3, <3>1, <3>2, Zenon DEF q1, s1, j1
  <2> QED
    BY <2>4, <2>5, <2>6
<1>15. CASE q = s - 2 /\ j = 1 /\ U2 /\ latch[c].data = s - 1
  <2>1. s > 0 /\ a >= 7 /\ Latched(c) = s - 1 /\ c \notin arrivals
    BY <1>1, <1>2, <1>3, <1>4, <1>9, <1>15
  <2>2. Selects(a, c)
    BY <1>3, <1>7, <1>8, <1>10, <1>15, <2>1
  <2>3. q1 = s1 - 1 /\ j1 = 2 /\ latch[c].data = q + 1 /\ j1 >= 2
    BY <1>1, <1>2, <1>4, <1>5, <1>15, <2>1, <2>2
  <2>4. Updates(((a + 1) - 3) % N, c)
    <3>1. (a + 1) - 3 = a - 2
      OBVIOUS
    <3> QED
      BY <1>15, <3>1 DEF U2
  <2>5. 1 .. j1 - 2 = {}
    BY <2>3
  <2> QED
    BY <2>3, <2>4, <2>5 DEF q1, s1, j1, q
<1> QED
  BY <1>11, <1>12, <1>13, <1>14, <1>15, Zenon

LEMMA OrderStep ==
  ASSUME TypeInv, NEW a \in Nat, CounterInv(a), CommitInv(a), FrontInv(a),
         FlagInv(a), WaitInv(a), OrderInv(a),
         NEW arrivals \in SUBSET Channels, NEW reset \in BOOLEAN, Source(arrivals, reset),
         Choose, Latch, Commit, History, ~rst, ~rst'
  PROVE  WaitInv(a + 1)' /\ OrderInv(a + 1)'
<1>1. WaitInv(a + 1)'
  BY WaitStep, Zenon DEF WaitInv
<1>2. chosen_ps2'.changed => a + 1 >= 4
  <2>1. chosen_ps2'.changed => a >= 7
    <3>1. 0 \in Channels
      BY SomeChannel
    <3> QED
      BY <3>1, Selection
  <2> QED
    BY <2>1
<1>3. ASSUME NEW c \in Channels
      PROVE  /\ pushed'[c] = [k \in 1 .. Len(pushed'[c]) |-> k]
             /\ Chosen(a + 1, c)' => chosen_ps2'.data = Len(pushed'[c]) + 1
             /\ Pushes(a + 1, c)' => wrdata' = Len(pushed'[c]) + 1
  <2> DEFINE q == pushed[c]
             l == Len(q)
  <2>1. /\ q = [k \in 1 .. l |-> k]
        /\ Chosen(a, c) => chosen_ps2.data = l + 1
        /\ Pushes(a, c) => wrdata = l + 1
    BY DEF OrderInv
  <2>2. /\ Pushes(a + 1, c)' <=> Chosen(a, c)
        /\ wrdata' = chosen_ps2.data
        /\ pushed'[c] = IF Pushes(a, c) THEN Append(q, wrdata) ELSE q
        /\ Selects(a, c) => ~Chosen(a, c) /\ ~Pushes(a, c)
        /\ Chosen(a, c) => ~Pushes(a, c)
    BY Passing
  <2>3. /\ Chosen(a + 1, c)' <=> Selects(a, c)
        /\ Selects(a, c) => chosen_ps2'.data = latch[c].data
    BY Selection
  <2>4. Selects(a, c) => latch[c].data = Selected(a, c) + 1
    BY WaitStep
  <2>5. l \in Nat
    BY SelectedCount
  <2>6. CASE Pushes(a, c)
    <3>1. pushed'[c] = Append(q, l + 1) /\ ~Chosen(a, c) /\ ~Selects(a, c)
      BY <2>1, <2>2, <2>6
    <3>2. Append(q, l + 1) = [k \in 1 .. l + 1 |-> k] /\ Len(Append(q, l + 1)) = l + 1
      <4> HIDE DEF l, q
      <4>1. Append([k \in 1 .. l |-> k], l + 1) = [k \in 1 .. l + 1 |-> k]
        BY <2>5
      <4>2. Len([k \in 1 .. l + 1 |-> k]) = l + 1
        BY <2>5
      <4> QED
        BY <2>1, <4>1, <4>2
    <3> QED
      BY <2>2, <2>3, <3>1, <3>2
  <2>7. CASE ~Pushes(a, c)
    <3>1. pushed'[c] = q
      BY <2>2, <2>7
    <3>2. Selects(a, c) => Selected(a, c) = l
      BY <2>2 DEF Selected
    <3> QED
      BY <2>1, <2>2, <2>3, <2>4, <3>1, <3>2
  <2> QED
    BY <2>6, <2>7
<1>4. OrderInv(a + 1)'
  BY <1>2, <1>3, Zenon DEF OrderInv
<1> QED
  BY <1>1, <1>4

LEMMA AnswerOrder ==
  ASSUME TypeInv, NEW a \in Nat, CounterInv(a), CommitInv(a), TableInv(a), FrontInv(a), OutInv(a),
         FlagInv(a), WaitInv(a), OrderInv(a), AnswerInv(a),
         Choose, Latch, Commit, Outputs, History, ~rst, ~rst'
  PROVE  AnswerInv(a + 1)'
<1> SUFFICES ASSUME NEW c \in Channels
             PROVE  Len(pushed'[c]) = IF out'[c].new \/ OnItsWay(a + 1, c)' THEN outputs'[c] + 1 ELSE outputs'[c]
  BY Zenon DEF AnswerInv
<1> DEFINE On(n) == commit[n] /\ Updates((a - 1 - n) % N, c)
           Later == \E n \in 4 .. 8 : On(n)
<1>1. OnItsWay(a + 1, c)' <=> Pushes(a, c) \/ Later
  <2>1. ASSUME NEW n \in 4 .. 9
        PROVE  (commit'[n] /\ Updates(((a + 1) - 1 - n) % N, c)) <=> On(n - 1)
    <3>1. n \in 3 .. 9 /\ n # 3 /\ (a + 1) - 1 - n = a - 1 - (n - 1)
      OBVIOUS
    <3>2. commit'[n] = IF n = 3 THEN doUpdate.on /\ chosen_ps2.changed ELSE commit[n - 1]
      BY <3>1 DEF Commit, Clocked
    <3> QED
      BY <3>1, <3>2
  <2>2. OnItsWay(a + 1, c)' <=> \E n \in 4 .. 9 : On(n - 1)
    <3>1. OnItsWay(a + 1, c)' <=> \E n \in 4 .. 9 : commit'[n] /\ Updates(((a + 1) - 1 - n) % N, c)
      BY DEF OnItsWay
    <3> QED
      BY <2>1, <3>1, Zenon
  <2>3. On(3) <=> Pushes(a, c)
    <3>1. a - 1 - 3 = a - 4
      OBVIOUS
    <3> QED
      BY <3>1 DEF Pushes
  <2> HIDE DEF On
  <2>4. (\E n \in 4 .. 9 : On(n - 1)) <=> On(3) \/ Later
    <3>1. ASSUME NEW n \in 4 .. 9, On(n - 1) PROVE On(3) \/ Later
      <4>1. n - 1 = 3 \/ n - 1 \in 4 .. 8
        OBVIOUS
      <4> QED
        BY <3>1, <4>1
    <3>2. ASSUME On(3) PROVE \E n \in 4 .. 9 : On(n - 1)
      <4>1. 4 \in 4 .. 9 /\ 4 - 1 = 3
        OBVIOUS
      <4> QED
        BY <3>2, <4>1
    <3>3. ASSUME NEW n \in 4 .. 8, On(n) PROVE \E m \in 4 .. 9 : On(m - 1)
      <4>1. n + 1 \in 4 .. 9 /\ (n + 1) - 1 = n
        OBVIOUS
      <4> QED
        BY <3>3, <4>1
    <3> QED
      BY <3>1, <3>2, <3>3
  <2> QED
    BY <2>2, <2>3, <2>4, Zenon
<1>2. out'[c].new <=> On(9)
  <2>1. out'[c].new = (channelSel_ps9 = c /\ commit[9])
    BY DEF Outputs, Clocked
  <2>2. ASSUME commit[9]
        PROVE  channelSel_ps9 = c <=> Updates((a - 1 - 9) % N, c)
    <3>1. a >= 11
      <4>1. 9 \in 3 .. 9
        OBVIOUS
      <4>2. a >= 9 + 2
        BY <2>2, <4>1 DEF CommitInv
      <4> QED
        BY <4>2
    <3>2. a - 10 \in Int /\ a - 1 - 9 = a - 10 /\ 0 \in 0 .. Depth(c) - 1
      BY <3>1, Depths
    <3>3. channelSel_ps9 = CHANNEL_SELECT[(a - 10) % N]
      BY <3>1 DEF TableInv
    <3>4. (a - 10) % N \in Slots
      BY <3>2, SlotAt
    <3>5. channelSel_ps9 = c => Updates((a - 10) % N, c)
      BY <3>3, <3>4, SelectsUpdated
    <3>6. Updates((a - 10) % N, c) => channelSel_ps9 = c
      BY <3>2, <3>3, RowTables
    <3> QED
      BY <3>2, <3>5, <3>6
  <2> QED
    BY <2>1, <2>2, Zenon
<1>3. pushed'[c] = IF Pushes(a, c) THEN Append(pushed[c], wrdata) ELSE pushed[c]
  BY Passing
<1>4. outputs'[c] = IF out[c].new THEN outputs[c] + 1 ELSE outputs[c]
  BY DEF History
<1>5. Len(pushed[c]) = IF out[c].new \/ OnItsWay(a, c) THEN outputs[c] + 1 ELSE outputs[c]
  BY DEF AnswerInv
<1>6. OnItsWay(a, c) <=> Later \/ On(9)
  <2>1. OnItsWay(a, c) <=> \E n \in 4 .. 9 : On(n)
    BY DEF OnItsWay
  <2> HIDE DEF On
  <2>2. (\E n \in 4 .. 9 : On(n)) <=> Later \/ On(9)
    <3>1. \A n : n \in 4 .. 9 <=> n \in 4 .. 8 \/ n = 9
      OBVIOUS
    <3> QED
      BY <3>1, Zenon
  <2> QED
    BY <2>1, <2>2, Zenon
<1>7. /\ Pushes(a, c) => ~Later /\ ~On(9)
      /\ out[c].new => ~Later /\ ~On(9)
  <2>1. \A n \in 4 .. 9 : n + 1 \in 2 .. 11 /\ a - 1 - n = a - (n + 1) /\ 4 < n + 1 /\ n + 1 <= 4 + 6
                          /\ n + 1 < 11 /\ 11 <= (n + 1) + 6
    OBVIOUS
  <2>2. ASSUME NEW n \in 4 .. 9, On(n)
        PROVE  ~Updates((a - 4) % N, c) /\ ~Updates((a - 11) % N, c)
    <3>1. Updates((a - (n + 1)) % N, c)
      BY <2>1, <2>2
    <3>2. 4 \in 2 .. 11 /\ 11 \in 2 .. 11
      OBVIOUS
    <3> QED
      BY <2>1, <3>1, <3>2, Spaced
  <2>3. out[c].new => Updates((a - 11) % N, c)
    BY DEF OutInv
  <2>4. 9 \in 4 .. 9 /\ \A n \in 4 .. 8 : n \in 4 .. 9
    OBVIOUS
  <2> HIDE DEF On
  <2> QED
    BY <2>2, <2>3, <2>4, Zenon DEF Pushes
<1>8. Len(pushed'[c]) = IF Pushes(a, c) THEN Len(pushed[c]) + 1 ELSE Len(pushed[c])
  <2>1. pushed[c] \in Seq(Samples) /\ wrdata \in Samples
    BY DEF TypeInv, ResultTypes, PipeTypes
  <2> QED
    BY <1>3, <2>1
<1>9. outputs[c] \in Nat
  BY DEF TypeInv, ResultTypes
<1> HIDE DEF On, Later
<1> QED
  BY <1>1, <1>2, <1>4, <1>5, <1>6, <1>7, <1>8, <1>9

\* Before the first sample there is nothing in the circuit.
Unused ==
    /\ chosen_ps2.changed = FALSE /\ commit = [n \in 3 .. 9 |-> FALSE]
    /\ \A c \in Channels :
        /\ sent[c] = 0 /\ since[c] = 0 /\ pin[c].changed = FALSE /\ pin[c].data = 0
        /\ latch[c].changed = FALSE /\ latch[c].prev = FALSE
        /\ pushed[c] = <<>> /\ outputs[c] = 0 /\ out[c].new = FALSE

LEMMA UnusedSamples == Unused => SamplesInv(0)
<1> SUFFICES ASSUME Unused PROVE SamplesInv(0)
  OBVIOUS
<1> USE DEF Unused
<1>1. ~Odd(0)
  BY DEF Odd
<1>2. ASSUME NEW c \in Channels
      PROVE  ~Chosen(0, c) /\ ~Pushes(0, c) /\ ~OnItsWay(0, c)
  BY DEF Chosen, Pushes, OnItsWay
<1>3. ASSUME NEW c \in Channels
      PROVE  Selected(0, c) = 0 /\ Latched(c) = 0
  BY <1>2 DEF Selected, Latched
<1>4. FlagInv(0)
  BY <1>1, <1>3 DEF FlagInv
<1>5. WaitInv(0)
  BY <1>3 DEF WaitInv
<1>6. OrderInv(0)
  BY <1>2 DEF OrderInv
<1>7. AnswerInv(0)
  BY <1>2 DEF AnswerInv
<1> QED
  BY <1>4, <1>5, <1>6, <1>7 DEF SamplesInv

\* While iRst is high after power-up, nothing comes.
LEMMA PowerUp ==
  ASSUME TypeInv, CounterInv(0), CommitInv(0), SamplesInv(0), resets = 0, rst,
         NEW arrivals \in SUBSET Channels, NEW reset \in BOOLEAN, Clock(arrivals, reset)
  PROVE  Unused'
<1>1. Source(arrivals, reset) /\ Latch /\ Choose /\ Commit /\ Outputs /\ History
  BY DEF Clock
<1>2. FlagInv(0) /\ WaitInv(0) /\ OrderInv(0) /\ AnswerInv(0)
  BY DEF SamplesInv
<1>3. chosen_ps2'.changed = FALSE /\ commit' = [n \in 3 .. 9 |-> FALSE]
  BY <1>1 DEF Choose, Commit, Clocked
<1>4. ~commit[3]
  <2>1. 3 \in 3 .. 9
    OBVIOUS
  <2> QED
    BY <2>1 DEF CommitInv
<1>5. ASSUME NEW c \in Channels
      PROVE  /\ sent'[c] = 0 /\ since'[c] = 0 /\ pin'[c].changed = FALSE /\ pin'[c].data = 0
             /\ latch'[c].changed = FALSE /\ latch'[c].prev = FALSE
             /\ pushed'[c] = <<>> /\ outputs'[c] = 0 /\ out'[c].new = FALSE
  <2>1. /\ Selected(0, c) \in Nat /\ Len(pushed[c]) \in Nat
        /\ sent[c] \in Nat /\ since[c] \in Nat
    BY SelectedCount
  <2>2. sent[c] = 0 /\ Selected(0, c) = 0
    <3>1. 0 \in Nat /\ 0 < 7
      OBVIOUS
    <3> QED
      BY <1>2, <3>1, NothingYet
  <2>3. since[c] = 0 /\ pin[c].data = sent[c] /\ (pin[c].changed <=> Odd(sent[c]))
    BY <1>2, <2>1 DEF FlagInv
  <2>4. pin[c].changed = FALSE
    <3>1. pin[c].changed \in BOOLEAN
      BY DEF TypeInv, InputTypes
    <3>2. ~Odd(sent[c])
      BY <2>2, OddNext
    <3> QED
      BY <2>3, <3>1, <3>2
  <2>5. c \notin arrivals
    <3>1. c \in arrivals => since[c] = Period(c)
      BY <1>1 DEF Source
    <3>2. Period(c) >= 7
      BY SlowSources
    <3> QED
      BY <2>3, <3>1, <3>2
  <2>6. sent'[c] = 0 /\ since'[c] = 0 /\ pin'[c] = pin[c]
    BY <1>1, <2>2, <2>5 DEF Source
  <2>7. latch'[c].changed = FALSE /\ latch'[c].prev = FALSE
    BY <1>1 DEF Latch, Clocked
  <2>8. pushed'[c] = <<>>
    <3>1. Len(pushed[c]) = 0
      BY <2>1, <2>2 DEF Selected
    <3>2. pushed[c] = <<>>
      BY <3>1 DEF TypeInv, ResultTypes
    <3> QED
      BY <1>1, <1>4, <3>2 DEF History
  <2>9. outputs'[c] = 0
    <3>1. Len(pushed[c]) = 0
      BY <2>1, <2>2 DEF Selected
    <3>2. outputs[c] \in Nat
      BY DEF TypeInv, ResultTypes
    <3>3. outputs[c] = 0
      BY <1>2, <3>1, <3>2 DEF AnswerInv
    <3> QED
      BY <1>1, <3>3 DEF History
  <2>10. out'[c].new = FALSE
    BY <1>1 DEF Outputs, Clocked
  <2> QED
    BY <2>2, <2>3, <2>4, <2>6, <2>7, <2>8, <2>9, <2>10
<1> QED
  BY <1>3, <1>5, Zenon DEF Unused

-----------------------------------------------------------------------------
(* The invariant, and what follows from it in every reachable state *)

IInv ==
    /\ TypeInv /\ BufferHoldsWindow
    /\ \E a \in Nat : PipeInv(a) /\ FrontInv(a) /\ (resets = 0 => SamplesInv(a))

LEMMA InitInv == Init => IInv
<1> SUFFICES ASSUME Init PROVE IInv
  OBVIOUS
<1>1. TypeInv /\ BufferHoldsWindow
  BY InitTypes, InitBuffers
<1>2. PipeInv(0)
  BY EmptyPipe DEF Init, Empty
<1>3. FrontInv(0)
  BY DEF FrontInv
<1>4. SamplesInv(0)
  <2>1. Unused
    BY DEF Init, Unused
  <2> QED
    BY <2>1, UnusedSamples
<1> QED
  BY <1>1, <1>2, <1>3, <1>4 DEF IInv

LEMMA ClockInv ==
  ASSUME IInv, NEW arrivals \in SUBSET Channels, NEW reset \in BOOLEAN, Clock(arrivals, reset)
  PROVE  IInv'
<1>1. /\ Source(arrivals, reset) /\ Choose /\ Latch /\ EnableUpdate /\ Commit
      /\ DataBuffers /\ FifoDescs /\ Outputs /\ History
  BY DEF Clock
<1>2. TypeInv /\ BufferHoldsWindow
  BY DEF IInv
<1>3. PICK a \in Nat : PipeInv(a) /\ FrontInv(a) /\ (resets = 0 => SamplesInv(a))
  BY DEF IInv
<1>4. /\ CounterInv(a) /\ CommitInv(a) /\ TableInv(a) /\ PositionInv(a) /\ OutInv(a)
  BY <1>3 DEF PipeInv
<1>5. TypeInv'
  BY <1>2, NextTypes DEF Next
<1>6. BufferHoldsWindow'
  BY <1>1, <1>2, <1>4, BufferStep
<1>7. /\ rst \/ rst' => PipeInv(0)'
      /\ ~rst /\ ~rst' => PipeInv(a + 1)'
  BY <1>2, <1>3, PipeStep
<1>8. resets \in Nat /\ rst \in BOOLEAN /\ rst' \in BOOLEAN
  BY <1>2, <1>5 DEF TypeInv, InputTypes
<1>9. CASE rst \/ rst'
  <2>1. FrontInv(0)'
    BY DEF FrontInv
  <2>2. ASSUME resets' = 0
        PROVE  SamplesInv(0)'
    <3>1. resets = 0 /\ rst
      BY <1>1, <1>8, <1>9, <2>2 DEF Source
    <3>2. a = 0
      BY <1>4, <3>1 DEF CounterInv
    <3>3. CounterInv(0) /\ CommitInv(0) /\ SamplesInv(0)
      BY <1>3, <1>4, <3>1, <3>2
    <3>4. Unused'
      BY <1>2, <3>1, <3>3, PowerUp
    <3> QED
      BY <3>4, UnusedSamples, PTL
  <2>3. PipeInv(0)' /\ FrontInv(0)' /\ (resets' = 0 => SamplesInv(0)')
    BY <1>7, <1>9, <2>1, <2>2, Zenon
  <2> QED
    BY <1>5, <1>6, <2>3, Zenon DEF IInv
<1>10. CASE ~rst /\ ~rst'
  <2>1. FrontInv(a + 1)'
    BY <1>1, <1>2, <1>4, <1>10, FrontStep
  <2>2. ASSUME resets' = 0
        PROVE  SamplesInv(a + 1)'
    <3>1. resets = 0
      BY <1>1, <1>8, <2>2 DEF Source
    <3>2. FlagInv(a) /\ WaitInv(a) /\ OrderInv(a) /\ AnswerInv(a)
      BY <1>3, <3>1 DEF SamplesInv
    <3>3. FlagInv(a + 1)'
      BY <1>1, <1>2, <1>3, <1>4, <1>10, <3>2, FlagStep
    <3>4. WaitInv(a + 1)' /\ OrderInv(a + 1)'
      BY <1>1, <1>2, <1>3, <1>4, <1>10, <3>2, OrderStep
    <3>5. AnswerInv(a + 1)'
      BY <1>1, <1>2, <1>3, <1>4, <1>10, <3>2, AnswerOrder
    <3> QED
      BY <3>3, <3>4, <3>5, Zenon DEF SamplesInv
  <2>3. PipeInv(a + 1)' /\ FrontInv(a + 1)' /\ (resets' = 0 => SamplesInv(a + 1)')
    BY <1>7, <1>10, <2>1, <2>2, Zenon
  <2>4. a + 1 \in Nat
    OBVIOUS
  <2> QED
    BY <1>5, <1>6, <2>3, <2>4, Zenon DEF IInv
<1> QED
  BY <1>9, <1>10, Zenon

LEMMA NextInv == IInv /\ [Next]_vars => IInv'
<1> SUFFICES ASSUME IInv, [Next]_vars PROVE IInv'
  OBVIOUS
<1>1. CASE Next
  BY <1>1, ClockInv DEF Next
<1>2. CASE UNCHANGED vars
  <2>1. TypeInv'
    BY NextTypes DEF IInv
  <2>2. UNCHANGED <<rst, ps, doUpdate, commit, dataBuff, fifoDesc, descRead, descWrite, firstTap_ps2,
                    rdaddr, rddata, nextAddr, updateAddr, dsp, channelSel_ps9, out, pushed>>
    BY <1>2 DEF vars, inputs, pipeline, buffers, results
  <2>3. UNCHANGED <<pin, latch, channelSel_ps1, chosen_ps2, wrdata, sent, since, resets, outputs>>
    BY <1>2 DEF vars, inputs, pipeline, buffers, results
  <2>4. BufferHoldsWindow'
    BY <2>2 DEF BufferHoldsWindow, IInv
  <2>5. PICK a \in Nat : PipeInv(a) /\ FrontInv(a) /\ (resets = 0 => SamplesInv(a))
    BY DEF IInv
  <2>6. CounterInv(a)' /\ CommitInv(a)' /\ TableInv(a)'
    BY <2>2, <2>5 DEF PipeInv, CounterInv, CommitInv, TableInv
  <2>7. PositionInv(a)'
    BY <2>2, <2>5 DEF PipeInv, PositionInv, NextWord
  <2>8. OperandInv(a)'
    <3>1. OperandInv(a)
      BY <2>5 DEF PipeInv
    <3>2. \A c \in Channels, m \in Int : Before(c, m)' = Before(c, m)
      BY <2>2 DEF Before
    <3>3. \A c \in Channels : \A d \in 0 .. Depth(c) - 1 :
            \A n \in 4 .. 8 : n - d \in Int
      BY Depths
    <3>4. \A n : CoeffIn(n)' = CoeffIn(n) /\ SampleIn(n)' = SampleIn(n)
      BY <2>2 DEF CoeffIn, SampleIn
    <3>5. dsp' = dsp /\ rdaddr' = rdaddr /\ pushed' = pushed
      BY <2>2
    <3> QED
      BY <3>1, <3>2, <3>3, <3>4, <3>5 DEF OperandInv
  <2>9. SumInv(a)' /\ OutInv(a)'
    <3>1. SumInv(a) /\ OutInv(a)
      BY <2>5 DEF PipeInv
    <3>2. \A c \in Channels, m \in Int : Before(c, m)' = Before(c, m)
      BY <2>2 DEF Before
    <3>3. \A c \in Channels : \A d \in 0 .. Depth(c) - 1 : 9 - d \in Int
      BY Depths
    <3>4. SumInv(a)'
      BY <2>2, <3>1, <3>2, <3>3 DEF SumInv
    <3>5. OutInv(a)'
      BY <2>2, <3>1 DEF OutInv
    <3> QED
      BY <3>4, <3>5
  <2>10. PipeInv(a)'
    BY <2>6, <2>7, <2>8, <2>9, Zenon DEF PipeInv
  <2>11. FrontInv(a)'
    BY <2>2, <2>3, <2>5 DEF FrontInv
  <2>12. ASSUME resets' = 0
         PROVE  SamplesInv(a)'
    <3>1. FlagInv(a) /\ WaitInv(a) /\ OrderInv(a) /\ AnswerInv(a)
      BY <2>3, <2>5, <2>12 DEF SamplesInv
    <3>2. \A c \in Channels : /\ Selected(a, c)' = Selected(a, c) /\ Latched(c)' = Latched(c)
                              /\ Chosen(a, c)' = Chosen(a, c) /\ Pushes(a, c)' = Pushes(a, c)
      BY <2>2, <2>3 DEF Selected, Latched, Chosen, Pushes
    <3>3. FlagInv(a)'
      BY <2>3, <3>1, <3>2 DEF FlagInv
    <3>4. WaitInv(a)'
      BY <2>3, <3>1, <3>2 DEF WaitInv
    <3>5. OrderInv(a)'
      BY <2>2, <2>3, <3>1, <3>2 DEF OrderInv
    <3>6. AnswerInv(a)'
      BY <2>2, <2>3, <3>1 DEF AnswerInv, OnItsWay
    <3> QED
      BY <3>3, <3>4, <3>5, <3>6, Zenon DEF SamplesInv
  <2> QED
    BY <2>1, <2>4, <2>5, <2>10, <2>11, <2>12, Zenon DEF IInv
<1> QED
  BY <1>1, <1>2

\* The position of a Fifo and the contents of its circular buffer agree in
\* every reachable state: the word just written, the window below it, and
\* nothing of another channel (the writes of firenginemacdescgen.cpp:390 and 728).
THEOREM BuffersHoldWindows == Spec => []BufferHoldsWindow
<1>1. Init => IInv
  BY InitInv
<1>2. IInv /\ [Next]_vars => IInv'
  BY NextInv
<1>3. IInv => BufferHoldsWindow
  BY DEF IInv
<1> QED
  BY <1>1, <1>2, <1>3, PTL DEF Spec

LEMMA AnswerStep ==
  ASSUME IInv, NEW arrivals \in SUBSET Channels, NEW reset \in BOOLEAN, Clock(arrivals, reset),
         NEW c \in Channels, out'[c].changed # out[c].changed, ~rst'
  PROVE  ShiftedWindow(c, Front(pushed[c]), out[c].data) /\ out'[c].data = out[c].data
<1>1. PICK a \in Nat : PipeInv(a)
  BY DEF IInv
<1>2. OutInv(a) /\ CounterInv(a) /\ TableInv(a)
  BY <1>1 DEF PipeInv
<1>3. Outputs
  BY DEF Clock
<1>4. ~rst
  <2> SUFFICES ASSUME rst PROVE FALSE
    OBVIOUS
  <2>1. ~out[c].changed
    BY <1>2 DEF OutInv
  <2>2. out'[c].changed = FALSE
    BY <1>3 DEF Outputs, Clocked
  <2>3. out[c].changed \in BOOLEAN
    BY DEF IInv, TypeInv, ResultTypes
  <2> QED
    BY <2>1, <2>2, <2>3
<1>5. /\ out'[c].changed = (out[c].changed # out[c].new)
      /\ out'[c].data = IF channelSel_ps9 = c THEN dsp.result ELSE out[c].data
  BY <1>3, <1>4 DEF Outputs, Clocked
<1>6. out[c].new
  <2>1. out[c].changed \in BOOLEAN /\ out[c].new \in BOOLEAN
    BY DEF IInv, TypeInv, ResultTypes
  <2> QED
    BY <1>5, <2>1
<1>7. /\ a >= 12 /\ Updates((a - 11) % N, c)
      /\ ShiftedWindow(c, Front(pushed[c]), out[c].data)
  BY <1>2, <1>6 DEF OutInv
<1>8. channelSel_ps9 # c
  <2> SUFFICES ASSUME channelSel_ps9 = c PROVE FALSE
    OBVIOUS
  <2>1. CHANNEL_SELECT[(a - 10) % N] = c
    BY <1>2, <1>7 DEF TableInv
  <2>2. a - 11 \in Int /\ a - 10 \in Int /\ (a - 11) + 1 = a - 10 /\ 1 \in 1 .. Depth(c) + 2
    BY <1>7, Depths
  <2>3. Updates((a - 10) % N, c)
    BY <2>1, <2>2, SlotAt, SelectsUpdated
  <2>4. ~Updates(((a - 11) + 1) % N, c)
    BY <1>7, <2>2, UpdatesApart
  <2> QED
    BY <2>2, <2>3, <2>4
<1> QED
  BY <1>5, <1>7, <1>8

\* Every edge of an oData<c>Changed announces a sum over exactly the samples
\* taken before the newest one, each with the coefficient of the tap after its
\* own, and the data keeps for that clock (firenginemacdescgen.cpp:694).
THEOREM AnswersHold == Spec => AnswersHoldSamples
<1>1. Init => IInv
  BY InitInv
<1>2. IInv /\ [Next]_vars => IInv'
  BY NextInv
<1>3. ASSUME IInv, Next
      PROVE  \A c \in Channels :
                out'[c].changed # out[c].changed /\ ~rst' =>
                    /\ ShiftedWindow(c, Front(pushed[c]), out[c].data)
                    /\ out'[c].data = out[c].data
  BY <1>3, AnswerStep DEF Next
<1>4. IInv /\ [Next]_vars =>
        [\A c \in Channels :
            out'[c].changed # out[c].changed /\ ~rst' =>
                /\ ShiftedWindow(c, Front(pushed[c]), out[c].data)
                /\ out'[c].data = out[c].data]_vars
  BY <1>3
<1> QED
  BY <1>1, <1>2, <1>4, PTL DEF Spec, AnswersHoldSamples

LEMMA ShiftedDiffers ==
  ASSUME NEW c \in Channels, NEW samples, NEW sum, ShiftedWindow(c, samples, sum)
  PROVE  sum # Window(c, samples)
<1> DEFINE w == Window(c, samples)
<1>1. Depth(c) \in Nat /\ Depth(c) >= 4
  BY Depths
<1>2. w[1][1].tap = 0 /\ w[2][1].tap = 1
  <2>1. 1 \in 1 .. Depth(c) /\ 2 \in 1 .. Depth(c) /\ 1 - 1 = 0 /\ 2 - 1 = 1
    BY <1>1
  <2>2. \A k \in 1 .. Depth(c) : w[k][1].tap = k - 1
    BY DEF Window
  <2> QED
    BY <2>1, <2>2
<1> HIDE DEF w
<1>3. sum[1][1] = w[2][1]
  <2>1. 1 \in 1 .. Depth(c) - 1 /\ 1 + 1 = 2
    BY <1>1
  <2> QED
    BY <2>1 DEF ShiftedWindow, w
<1> QED
  BY <1>2, <1>3 DEF w

\* No answer is ever the filter's: of every FIR, and whatever it has been sent,
\* each edge of oData<c>Changed refutes AnswersAreWindows, for the register that
\* the sample passes and the coefficient does not (firenginemacdescgen.cpp:505).
THEOREM NoAnswerIsAWindow ==
  Spec => [][\A c \in Channels :
                out'[c].changed # out[c].changed /\ ~rst' =>
                    out[c].data # Window(c, Front(pushed[c]))]_vars
<1>1. Init => IInv
  BY InitInv
<1>2. IInv /\ [Next]_vars => IInv'
  BY NextInv
<1>3. ASSUME IInv, Next
      PROVE  \A c \in Channels :
                out'[c].changed # out[c].changed /\ ~rst' =>
                    out[c].data # Window(c, Front(pushed[c]))
  BY <1>3, AnswerStep, ShiftedDiffers DEF Next
<1>4. IInv /\ [Next]_vars =>
        [\A c \in Channels :
            out'[c].changed # out[c].changed /\ ~rst' =>
                out[c].data # Window(c, Front(pushed[c]))]_vars
  BY <1>3
<1> QED
  BY <1>1, <1>2, <1>4, PTL DEF Spec

LEMMA OrderHolds == IInv => TakenInOrder
<1> SUFFICES ASSUME IInv, resets = 0, NEW c \in Channels
             PROVE  /\ pushed[c] = [k \in 1 .. Len(pushed[c]) |-> k]
                    /\ Len(pushed[c]) \in sent[c] - 2 .. sent[c]
                    /\ outputs[c] \in Len(pushed[c]) - 1 .. Len(pushed[c])
  BY DEF TakenInOrder
<1>1. PICK a \in Nat : SamplesInv(a)
  BY DEF IInv
<1>2. WaitInv(a) /\ OrderInv(a) /\ AnswerInv(a)
  BY <1>1 DEF SamplesInv
<1>3. TypeInv
  BY DEF IInv
<1>4. /\ Selected(a, c) \in Nat /\ Len(pushed[c]) \in Nat
      /\ sent[c] \in Nat /\ outputs[c] \in Nat
  BY <1>3, SelectedCount DEF TypeInv, ResultTypes
<1>5. Selected(a, c) \in Len(pushed[c]) .. Len(pushed[c]) + 1
  BY <1>4 DEF Selected
<1>6. Selected(a, c) = sent[c] - 2 => Len(pushed[c]) = sent[c] - 2
  <2> SUFFICES ASSUME Selected(a, c) = sent[c] - 2
               PROVE  Len(pushed[c]) = Selected(a, c)
    OBVIOUS
  <2>1. Updates((a - 2) % N, c)
    BY <1>2, <1>4 DEF WaitInv
  <2>2. ~Updates((a - 3) % N, c) /\ ~Updates((a - 4) % N, c)
    <3>1. 2 \in 2 .. 11 /\ 3 \in 2 .. 11 /\ 4 \in 2 .. 11 /\ 2 < 3 /\ 2 < 4 /\ 3 <= 2 + 6 /\ 4 <= 2 + 6
      OBVIOUS
    <3> QED
      BY <2>1, <3>1, Spaced
  <2> QED
    BY <2>2 DEF Selected, Chosen, Pushes
<1>7. Selected(a, c) \in sent[c] - 2 .. sent[c]
  BY <1>2, <1>4 DEF WaitInv
<1>8. Len(pushed[c]) \in sent[c] - 2 .. sent[c]
  BY <1>4, <1>5, <1>6, <1>7
<1>9. outputs[c] \in Len(pushed[c]) - 1 .. Len(pushed[c])
  BY <1>2, <1>4 DEF AnswerInv
<1>10. pushed[c] = [k \in 1 .. Len(pushed[c]) |-> k]
  BY <1>2 DEF OrderInv
<1> QED
  BY <1>8, <1>9, <1>10

\* Until a reset, each channel's samples go into its filter in the order in
\* which they were sent, each once, at most two behind, and each has its answer
\* before the next but one is taken: the two flags of an input (the data latch
\* and the selection flag, firenginemacdescgen.cpp:257-325) lose and repeat
\* none, for any bound configuration and however the sources are phased.
THEOREM InOrder == Spec => []TakenInOrder
<1>1. Init => IInv
  BY InitInv
<1>2. IInv /\ [Next]_vars => IInv'
  BY NextInv
<1>3. IInv => TakenInOrder
  BY OrderHolds
<1> QED
  BY <1>1, <1>2, <1>3, PTL DEF Spec
=============================================================================
