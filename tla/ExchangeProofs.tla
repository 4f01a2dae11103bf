---------------------------- MODULE ExchangeProofs ---------------------------
(***************************************************************************)
(* A filter means the same to every port, whatever it goes through: for    *)
(* any keys, words of the hash, layouts, readings and zeroed buffers.      *)
(***************************************************************************)
EXTENDS Exchange, TLAPS

(***************************************************************************)
(* Layouts and restores.                                                   *)
(***************************************************************************)
LEMMA PageSizes ==
    ASSUME NEW lvl \in 6..13
    PROVE  /\ PageSize(lvl) \in Nat \ {0}
           /\ PageBits(lvl) = PageSize(lvl) * 8
<1>1. /\ PageSize(6) = 64 /\ PageSize(7) = 128 /\ PageSize(8) = 256 /\ PageSize(9) = 512
      /\ PageSize(10) = 1024 /\ PageSize(11) = 2048 /\ PageSize(12) = 4096
      /\ PageSize(13) = 8192
  BY DEF PageSize
<1>2. lvl = 6 \/ lvl = 7 \/ lvl = 8 \/ lvl = 9 \/ lvl = 10 \/ lvl = 11 \/ lvl = 12 \/ lvl = 13
  OBVIOUS
<1> QED BY <1>1, <1>2 DEF PageBits

\* The levels that any check lets pass are those of a page.
LEMMA CheckedLevels ==
    ASSUME NEW way \in Nat, NEW level \in Nat, LayoutChecked(way, level)
    PROVE  way \in 4..8 /\ level \in 6..13
<1>1. way = 4 \/ way = 5 \/ way = 6 \/ way = 7 \/ way = 8
  BY DEF LayoutChecked
<1>2. MinLevel(way) \in {6, 7}
  BY <1>1 DEF MinLevel
<1> QED BY <1>2 DEF LayoutChecked

LEMMA ValidIsChecked ==
    ASSUME NEW way \in Nat, NEW level \in Nat, NEW num \in Nat
    PROVE  ValidLayout(way, level, num) <=>
             LayoutChecked(way, level) /\ num # 0 /\ num < kMaxPageNum
BY DEF ValidLayout, LayoutChecked, kMaxPageNum

\* Whole pages are a product.
LEMMA WholePages ==
    ASSUME NEW size \in Nat, NEW b \in Nat \ {0}
    PROVE  /\ size \div b \in Nat
           /\ size % b = 0 <=> size = (size \div b) * b
           /\ size \div b # 0 => size # 0
           /\ size # 0 /\ size % b = 0 => size \div b # 0
<1>1. size \div b \in Nat /\ size % b \in Nat /\ size = b * (size \div b) + (size % b)
  OBVIOUS
<1> DEFINE q == size \div b
           r == size % b
<1> HIDE DEF q, r
<1>2. q \in Nat /\ r \in Nat /\ size = b * q + r
  BY <1>1 DEF q, r
<1>3. q # 0 => b * q > 0
  BY <1>2
<1>4. b * q = q * b
  BY <1>2
<1> QED BY <1>2, <1>3, <1>4 DEF q, r

LEMMA DividedBack ==
    ASSUME NEW n \in Nat, NEW b \in Nat \ {0}
    PROVE  (n * b) \div b = n
OBVIOUS

\* Of what the core accepts.
LEMMA AcceptedSizes ==
    ASSUME NEW way \in Nat, NEW level \in Nat, NEW size \in Nat,
           Accepts(way, level, size)
    PROVE  LET num == size \div PageSize(level)
           IN  /\ way \in 4..8 /\ level \in 6..13 /\ num \in Nat \ {0}
               /\ ValidLayout(way, level, num)
               /\ size = num * PageSize(level)
<1> DEFINE num == size \div PageSize(level)
<1>1. ValidLayout(way, level, num) /\ size % PageSize(level) = 0
  BY DEF Accepts
<1>2. way \in 4..8 /\ level \in 6..13
  <2>1. LayoutChecked(way, level)
    BY <1>1 DEF ValidLayout, LayoutChecked
  <2> QED BY <2>1, CheckedLevels
<1>3. PageSize(level) \in Nat \ {0}
  BY <1>2, PageSizes
<1>4. num \in Nat /\ size = num * PageSize(level)
  BY <1>1, <1>3, WholePages
<1>5. num # 0
  BY <1>1 DEF ValidLayout
<1> QED BY <1>1, <1>2, <1>4, <1>5

\* The checks of every port come to those of the core, for any arguments.
LEMMA SameChecks ==
    ASSUME NEW p \in Ports, NEW way \in Nat, NEW level \in Nat, NEW size \in Nat
    PROVE  AcceptsIn(p, way, level, size) <=> Accepts(way, level, size)
<1> DEFINE b == PageSize(level)
           num == size \div b
<1>1. CASE ~LayoutChecked(way, level)
  <2>1. ~Accepts(way, level, size)
    BY <1>1 DEF Accepts, ValidLayout, LayoutChecked
  <2> QED
    BY <1>1, <2>1, ExchangeAssumption
    DEF AcceptsIn, GoAccepts, JavaAccepts, CsAccepts, RustAccepts, PyAccepts, TsAccepts
<1>2. CASE LayoutChecked(way, level)
  <2>1. b \in Nat \ {0} /\ level <= 13
    BY <1>2, CheckedLevels, PageSizes
  <2> HIDE DEF b
  <2>2. /\ num \in Nat
        /\ size % b = 0 <=> size = num * b
        /\ num # 0 => size # 0
        /\ size # 0 /\ size % b = 0 => num # 0
    BY <2>1, WholePages
  <2> HIDE DEF num
  <2>3. Accepts(way, level, size) <=> size # 0 /\ size % b = 0 /\ num < kMaxPageNum
    <3>1. ValidLayout(way, level, num) <=> num # 0 /\ num < kMaxPageNum
      BY <1>2, <2>2, ValidIsChecked
    <3>2. Accepts(way, level, size) <=>
            size > 0 /\ level <= 13 /\ size % b = 0 /\ ValidLayout(way, level, num)
      BY DEF Accepts, b, num
    <3> QED BY <2>1, <2>2, <3>1, <3>2
  <2>4. GoAccepts(way, level, size) <=> size # 0 /\ size % b = 0 /\ num < kMaxPageNum
    BY <1>2 DEF GoAccepts, b, num
  <2>5. PyAccepts(way, level, size) <=> num # 0 /\ num < kMaxPageNum /\ size = num * b
    BY <1>2 DEF PyAccepts, b, num
  <2>6. TsAccepts(way, level, size) <=>
          size # 0 /\ size % b = 0 /\ num >= 1 /\ num < kMaxPageNum
    BY <1>2 DEF TsAccepts, b, num
  <2>7. \/ AcceptsIn(p, way, level, size) = Accepts(way, level, size)
        \/ AcceptsIn(p, way, level, size) = GoAccepts(way, level, size)
        \/ AcceptsIn(p, way, level, size) = PyAccepts(way, level, size)
        \/ AcceptsIn(p, way, level, size) = TsAccepts(way, level, size)
    BY ExchangeAssumption, Zenon DEF AcceptsIn, JavaAccepts, CsAccepts, RustAccepts
  <2>8. num # 0 <=> num >= 1
    BY <2>2
  <2> QED BY <2>2, <2>3, <2>4, <2>5, <2>6, <2>7, <2>8
<1> QED BY <1>1, <1>2

-----------------------------------------------------------------------------
(***************************************************************************)
(* Pages and probes.                                                       *)
(***************************************************************************)
\* The lists of halves that ports build or unroll are the halves in memory order.
LEMMA ListedHalves ==
    ASSUME NEW k \in Keys, NEW i \in 1..8
    PROVE  /\ GoHalves(k)[i - 1] = Half(k, i)
           /\ Low(CsHalves(k)[i - 1]) = Half(k, i)
           /\ RustIndex(k, RustList[i][1], RustList[i][2]) = Half(k, i)
           /\ JavaPair(k, (i + 1) \div 2)[IF i % 2 = 1 THEN 1 ELSE 2] = Half(k, i)
<1> DEFINE n == (i + 1) \div 2
<1>1. i - 1 \in 0..7 /\ ((i - 1) \div 2) + 1 = n /\ ((i - 1) % 2 = 0 <=> i % 2 = 1)
  OBVIOUS
<1>2. Half(k, i) = IF i % 2 = 1 THEN Low(Words[k][n]) ELSE High(Words[k][n])
  BY DEF Half
<1>3. GoHalves(k)[i - 1] = Half(k, i)
  <2>1. GoHalves(k)[i - 1] = IF (i - 1) % 2 = 0 THEN Low(Words[k][((i - 1) \div 2) + 1])
                                                ELSE High(Words[k][((i - 1) \div 2) + 1])
    BY <1>1 DEF GoHalves
  <2> QED BY <1>1, <1>2, <2>1
<1>4. Low(CsHalves(k)[i - 1]) = Half(k, i)
  <2>1. CsHalves(k)[i - 1] =
          IF (i - 1) % 2 = 0 THEN Words[k][((i - 1) \div 2) + 1]
                             ELSE <<0, High(Words[k][((i - 1) \div 2) + 1])>>
    BY <1>1 DEF CsHalves
  <2> QED BY <1>1, <1>2, <2>1 DEF Low
<1>5. JavaPair(k, n)[IF i % 2 = 1 THEN 1 ELSE 2] = Half(k, i)
  BY <1>2 DEF JavaPair
<1>6. RustIndex(k, RustList[i][1], RustList[i][2]) = Half(k, i)
  <2>1. /\ RustList[1] = <<0, 0>> /\ RustList[2] = <<0, 16>> /\ RustList[3] = <<1, 0>>
        /\ RustList[4] = <<1, 16>> /\ RustList[5] = <<2, 0>> /\ RustList[6] = <<2, 16>>
        /\ RustList[7] = <<3, 0>> /\ RustList[8] = <<3, 16>>
    BY DEF RustList
  <2>2. i = 1 \/ i = 2 \/ i = 3 \/ i = 4 \/ i = 5 \/ i = 6 \/ i = 7 \/ i = 8
    OBVIOUS
  <2>3. RustList[i][1] + 1 = n /\ (RustList[i][2] = 0 <=> i % 2 = 1)
    BY <2>1, <2>2
  <2> QED BY <1>2, <2>3 DEF RustIndex
<1> QED BY <1>3, <1>4, <1>5, <1>6

\* Java's four fixed pairs and four conditions are the first ways.
LEMMA JavaUnrolled ==
    ASSUME NEW k \in Keys, NEW f, f.way \in 4..8
    PROVE  JavaSlots(k, f) = CoreSlots(k, f)
<1> DEFINE offset == Remainder(PageHash[k], f.num) * PageSize(f.level)
           S(i) == Slot(offset, Masked(Half(k, i), f.level))
<1>1. /\ JavaPair(k, 1)[1] = Half(k, 1) /\ JavaPair(k, 1)[2] = Half(k, 2)
      /\ JavaPair(k, 2)[1] = Half(k, 3) /\ JavaPair(k, 2)[2] = Half(k, 4)
      /\ JavaPair(k, 3)[1] = Half(k, 5) /\ JavaPair(k, 3)[2] = Half(k, 6)
      /\ JavaPair(k, 4)[1] = Half(k, 7) /\ JavaPair(k, 4)[2] = Half(k, 8)
  BY DEF JavaPair, Half
<1>2. JavaSlots(k, f) = {S(1), S(2), S(3), S(4)} \cup (IF f.way > 4 THEN {S(5)} ELSE {})
                          \cup (IF f.way > 5 THEN {S(6)} ELSE {})
                          \cup (IF f.way > 6 THEN {S(7)} ELSE {})
                          \cup (IF f.way > 7 THEN {S(8)} ELSE {})
  BY <1>1, Zenon DEF JavaSlots, JavaPage
<1>3. CoreSlots(k, f) = {S(i) : i \in 1..f.way}
  BY DEF CoreSlots, Slots
<1> HIDE DEF S
<1>4. f.way = 4 \/ f.way = 5 \/ f.way = 6 \/ f.way = 7 \/ f.way = 8
  OBVIOUS
<1>5. CASE f.way = 4
  <2>1. 1..4 = {1, 2, 3, 4}
    OBVIOUS
  <2> QED BY <1>2, <1>3, <1>5, <2>1
<1>6. CASE f.way = 5
  <2>1. 1..5 = {1, 2, 3, 4, 5}
    OBVIOUS
  <2> QED BY <1>2, <1>3, <1>6, <2>1
<1>7. CASE f.way = 6
  <2>1. 1..6 = {1, 2, 3, 4, 5, 6}
    OBVIOUS
  <2> QED BY <1>2, <1>3, <1>7, <2>1
<1>8. CASE f.way = 7
  <2>1. 1..7 = {1, 2, 3, 4, 5, 6, 7}
    OBVIOUS
  <2> QED BY <1>2, <1>3, <1>8, <2>1
<1>9. CASE f.way = 8
  <2>1. 1..8 = {1, 2, 3, 4, 5, 6, 7, 8}
    OBVIOUS
  <2> QED BY <1>2, <1>3, <1>9, <2>1
<1> QED BY <1>4, <1>5, <1>6, <1>7, <1>8, <1>9

\* Every port places the probes of a key where the core does.
LEMMA SamePlaces ==
    ASSUME NEW p \in Ports, NEW k \in Keys, NEW f, f.way \in 4..8
    PROVE  SlotsIn(p, k, f) = CoreSlots(k, f)
<1> DEFINE offset == Remainder(PageHash[k], f.num) * PageSize(f.level)
           S(half) == Slot(offset, Masked(half, f.level))
<1>1. CoreSlots(k, f) = {S(Half(k, i)) : i \in 1..f.way}
  BY DEF CoreSlots, Slots
<1>2. CSlots(k, f) = CoreSlots(k, f)
  BY DEF CSlots, CoreSlots
<1>3. GoSlots(k, f) = {S(GoHalves(k)[i]) : i \in 0..(f.way - 1)}
  BY DEF GoSlots
<1>4. CsSlots(k, f) = {S(Low(CsHalves(k)[i])) : i \in 0..(f.way - 1)}
  BY DEF CsSlots
<1>5. RustSlots(k, f) = {S(RustIndex(k, RustList[i][1], RustList[i][2])) : i \in 1..f.way}
  BY DEF RustSlots
<1> HIDE DEF S
<1>6. \A i \in 1..f.way : i \in 1..8 /\ i - 1 \in 0..(f.way - 1)
  OBVIOUS
<1>7. \A i \in 0..(f.way - 1) : i + 1 \in 1..f.way /\ i + 1 \in 1..8 /\ (i + 1) - 1 = i
  OBVIOUS
<1>8. GoSlots(k, f) = CoreSlots(k, f)
  <2>1. \A i \in 1..f.way : GoHalves(k)[i - 1] = Half(k, i)
    BY <1>6, ListedHalves
  <2>2. \A i \in 0..(f.way - 1) : GoHalves(k)[i] = Half(k, i + 1)
    BY <1>7, ListedHalves
  <2> QED BY <1>1, <1>3, <1>6, <1>7, <2>1, <2>2
<1>9. CsSlots(k, f) = CoreSlots(k, f)
  <2>1. \A i \in 1..f.way : Low(CsHalves(k)[i - 1]) = Half(k, i)
    BY <1>6, ListedHalves
  <2>2. \A i \in 0..(f.way - 1) : Low(CsHalves(k)[i]) = Half(k, i + 1)
    BY <1>7, ListedHalves
  <2> QED BY <1>1, <1>4, <1>6, <1>7, <2>1, <2>2
<1>10. RustSlots(k, f) = CoreSlots(k, f)
  BY <1>1, <1>5, <1>6, ListedHalves
<1>11. JavaSlots(k, f) = CoreSlots(k, f)
  BY JavaUnrolled
<1>12. SlotsIn(p, k, f) \in {CoreSlots(k, f), CSlots(k, f), GoSlots(k, f), JavaSlots(k, f),
                             CsSlots(k, f), RustSlots(k, f)}
  BY ExchangeAssumption, Zenon DEF SlotsIn
<1> QED BY <1>2, <1>8, <1>9, <1>10, <1>11, <1>12

LEMMA HalfwordsNat == \A x \in Halfword : x \in Nat
BY DEF Halfword

\* A word is two halfwords.
LEMMA WordParts ==
    ASSUME NEW w \in Halfword \X Halfword
    PROVE  High(w) \in Nat /\ Low(w) \in Nat
<1>1. w[1] \in Halfword /\ w[2] \in Halfword
  OBVIOUS
<1> QED BY <1>1, HalfwordsNat DEF High, Low

LEMMA HalvesNat == ASSUME NEW k \in Keys, NEW i \in 1..8 PROVE Half(k, i) \in Nat
<1>1. (i + 1) \div 2 \in 1..4
  OBVIOUS
<1>2. Words[k][(i + 1) \div 2] \in Halfword \X Halfword
  BY <1>1, ExchangeAssumption
<1> QED BY <1>2, WordParts DEF Half

\* Sixteen bits make a halfword: two octets.
Octet(a, b, c, d, e, f, g, h) ==
    a + (2 * b) + (4 * c) + (8 * d) + (16 * e) + (32 * f) + (64 * g) + (128 * h)

MakeHalfword(a, b, c, d, e, f, g, h, i, j, k, l, m, n, o, p) ==
    a + (2 * b) + (4 * c) + (8 * d) + (16 * e) + (32 * f) + (64 * g) + (128 * h)
      + (256 * i) + (512 * j) + (1024 * k) + (2048 * l)
      + (4096 * m) + (8192 * n) + (16384 * o) + (32768 * p) \in Halfword

LEMMA OctetBelow ==
    ASSUME NEW a \in 0..1, NEW b \in 0..1, NEW c \in 0..1, NEW d \in 0..1,
           NEW e \in 0..1, NEW f \in 0..1, NEW g \in 0..1, NEW h \in 0..1
    PROVE  /\ Octet(a, b, c, d, e, f, g, h) \in Nat
           /\ Octet(a, b, c, d, e, f, g, h) < 256
BY SMT DEF Octet

LEMMA BitsMakeHalfword ==
    ASSUME NEW a \in 0..1, NEW b \in 0..1, NEW c \in 0..1, NEW d \in 0..1,
           NEW e \in 0..1, NEW f \in 0..1, NEW g \in 0..1, NEW h \in 0..1,
           NEW i \in 0..1, NEW j \in 0..1, NEW k \in 0..1, NEW l \in 0..1,
           NEW m \in 0..1, NEW n \in 0..1, NEW o \in 0..1, NEW p \in 0..1
    PROVE  MakeHalfword(a, b, c, d, e, f, g, h, i, j, k, l, m, n, o, p)
<1> DEFINE low == Octet(a, b, c, d, e, f, g, h)
           high == Octet(i, j, k, l, m, n, o, p)
           sum == a + (2 * b) + (4 * c) + (8 * d) + (16 * e) + (32 * f) + (64 * g) + (128 * h)
                    + (256 * i) + (512 * j) + (1024 * k) + (2048 * l)
                    + (4096 * m) + (8192 * n) + (16384 * o) + (32768 * p)
<1>1. sum = low + (256 * high)
  BY SMT DEF Octet
<1>2. low \in Nat /\ low < 256 /\ high \in Nat /\ high < 256
  BY OctetBelow
<1>3. MakeHalfword(a, b, c, d, e, f, g, h, i, j, k, l, m, n, o, p) <=> sum \in Halfword
  BY DEF MakeHalfword
<1> HIDE DEF low, high, sum
<1> QED BY <1>1, <1>2, <1>3, SMT DEF Halfword

LEMMA XorIsHalfword ==
    ASSUME NEW a \in Nat, NEW b \in Nat PROVE Xor16(a, b) \in Halfword
<1> DEFINE x(i) == ((a \div 2 ^ i) + (b \div 2 ^ i)) % 2
<1>1. \A i \in 0..15 : 2 ^ i \in Nat \ {0}
  <2> DEFINE power(i) == 2 ^ i
  <2>1. /\ power(0) = 1 /\ power(1) = 2 /\ power(2) = 4 /\ power(3) = 8
        /\ power(4) = 16 /\ power(5) = 32 /\ power(6) = 64 /\ power(7) = 128
        /\ power(8) = 256 /\ power(9) = 512 /\ power(10) = 1024 /\ power(11) = 2048
        /\ power(12) = 4096 /\ power(13) = 8192 /\ power(14) = 16384 /\ power(15) = 32768
    OBVIOUS
  <2>2. 0..15 = {0, 1, 2, 3, 4, 5, 6, 7, 8, 9, 10, 11, 12, 13, 14, 15}
    OBVIOUS
  <2> HIDE DEF power
  <2>3. \A i \in 0..15 : power(i) \in Nat \ {0}
    BY <2>1, <2>2, SMT
  <2> QED BY <2>3, Zenon DEF power
<1>2. ASSUME NEW i \in 0..15 PROVE x(i) \in 0..1
  <2>1. ASSUME NEW d \in Nat \ {0} PROVE ((a \div d) + (b \div d)) % 2 \in 0..1
    <3>1. a \div d \in Nat /\ b \div d \in Nat
      OBVIOUS
    <3> QED BY <3>1
  <2>2. 2 ^ i \in Nat \ {0}
    BY <1>1, Zenon
  <2> QED BY <2>1, <2>2, Zenon
<1>3. MakeHalfword(x(0), x(1), x(2), x(3), x(4), x(5), x(6), x(7),
                   x(8), x(9), x(10), x(11), x(12), x(13), x(14), x(15)) => Xor16(a, b) \in Halfword
  BY SMT DEF Xor16, MakeHalfword
<1> HIDE DEF x
<1>4. /\ x(0) \in 0..1 /\ x(1) \in 0..1 /\ x(2) \in 0..1 /\ x(3) \in 0..1
      /\ x(4) \in 0..1 /\ x(5) \in 0..1 /\ x(6) \in 0..1 /\ x(7) \in 0..1
      /\ x(8) \in 0..1 /\ x(9) \in 0..1 /\ x(10) \in 0..1 /\ x(11) \in 0..1
      /\ x(12) \in 0..1 /\ x(13) \in 0..1 /\ x(14) \in 0..1 /\ x(15) \in 0..1
  BY <1>2
<1> QED BY <1>3, <1>4, BitsMakeHalfword, Zenon

LEMMA TurnedNat ==
    ASSUME NEW w \in Halfword \X Halfword, NEW n \in {2, 4, 6, 8}
    PROVE  High(Rot32(w, n)) \in Nat /\ Low(Rot32(w, n)) \in Nat
<1>1. High(w) \in Nat /\ Low(w) \in Nat
  BY WordParts
<1> DEFINE turn(a, b) == ((a * 2 ^ n) % 65536) + (b \div 2 ^ (16 - n))
<1>2. ASSUME NEW a \in Nat, NEW b \in Nat PROVE turn(a, b) \in Nat
  <2>1. /\ 2^2 = 4 /\ 2^4 = 16 /\ 2^6 = 64 /\ 2^8 = 256
        /\ 2^(16 - 2) = 16384 /\ 2^(16 - 4) = 4096 /\ 2^(16 - 6) = 1024 /\ 2^(16 - 8) = 256
    OBVIOUS
  <2>2. CASE n = 2
    BY <2>1, <2>2
  <2>3. CASE n = 4
    BY <2>1, <2>3
  <2>4. CASE n = 6
    BY <2>1, <2>4
  <2>5. CASE n = 8
    BY <2>1, <2>5
  <2> QED BY <2>2, <2>3, <2>4, <2>5
<1>3. Rot32(w, n) = <<turn(High(w), Low(w)), turn(Low(w), High(w))>>
  BY DEF Rot32
<1> HIDE DEF turn
<1>4. High(Rot32(w, n)) = turn(High(w), Low(w)) /\ Low(Rot32(w, n)) = turn(Low(w), High(w))
  BY <1>3 DEF High, Low
<1> QED BY <1>1, <1>2, <1>4

\* The page hash is a word of 32 bits.
LEMMA PageWord == ASSUME NEW k \in Keys PROVE PageHash[k] \in Halfword \X Halfword
<1> DEFINE r1 == Rot32(Words[k][1], 8)
           r2 == Rot32(Words[k][2], 6)
           r3 == Rot32(Words[k][3], 4)
           r4 == Rot32(Words[k][4], 2)
<1>1. \A i \in 1..4 : Words[k][i] \in Halfword \X Halfword
  BY ExchangeAssumption
<1>2. /\ High(r1) \in Nat /\ Low(r1) \in Nat /\ High(r2) \in Nat /\ Low(r2) \in Nat
      /\ High(r3) \in Nat /\ Low(r3) \in Nat /\ High(r4) \in Nat /\ Low(r4) \in Nat
  BY <1>1, TurnedNat
<1>3. PageHash[k] = Xor32(Xor32(r1, r2), Xor32(r3, r4))
  BY DEF PageHash
<1> HIDE DEF r1, r2, r3, r4
<1>4. ASSUME NEW v, NEW w, High(v) \in Nat, Low(v) \in Nat, High(w) \in Nat, Low(w) \in Nat
      PROVE  /\ Xor32(v, w) \in Halfword \X Halfword
             /\ High(Xor32(v, w)) \in Nat /\ Low(Xor32(v, w)) \in Nat
  <2>1. Xor32(v, w) \in Halfword \X Halfword
    BY <1>4, XorIsHalfword DEF Xor32
  <2> QED BY <2>1, WordParts
<1> QED BY <1>2, <1>3, <1>4

LEMMA PageWordNat ==
    ASSUME NEW k \in Keys
    PROVE  High(PageHash[k]) \in Nat /\ Low(PageHash[k]) \in Nat
BY PageWord, WordParts

\* The page is one of the filter's.
LEMMA PageBelow ==
    ASSUME NEW k \in Keys, NEW num \in Nat \ {0}
    PROVE  Remainder(PageHash[k], num) \in 0..(num - 1)
<1> DEFINE x == 16 * ((4096 * (High(PageHash[k]) % num)) % num) + Low(PageHash[k])
<1>1. High(PageHash[k]) \in Nat /\ Low(PageHash[k]) \in Nat
  BY PageWordNat
<1>2. ASSUME NEW n \in Nat PROVE n % num \in 0..(num - 1)
  OBVIOUS
<1>3. High(PageHash[k]) % num \in Nat
  BY <1>1, <1>2
<1>4. (4096 * (High(PageHash[k]) % num)) % num \in Nat
  <2>1. 4096 * (High(PageHash[k]) % num) \in Nat
    BY <1>3
  <2> QED BY <2>1, <1>2
<1>5. x \in Nat
  BY <1>1, <1>4
<1>6. Remainder(PageHash[k], num) = x % num
  BY DEF Remainder
<1> HIDE DEF x
<1> QED BY <1>2, <1>5, <1>6

\* No probe leaves the pages.
LEMMA SlotsAreInside ==
    ASSUME NEW k \in Keys, NEW f, f.way \in 4..8, f.level \in 6..13, f.num \in Nat \ {0}
    PROVE  /\ CoreSlots(k, f) \subseteq 0..(f.num * PageBits(f.level) - 1)
           /\ CoreSlots(k, f) \subseteq Nat
<1> DEFINE b == PageSize(f.level)
           page == Remainder(PageHash[k], f.num)
           n == f.num
<1>1. b \in Nat \ {0} /\ PageBits(f.level) = b * 8
  BY PageSizes
<1>2. page \in 0..(n - 1) /\ n \in Nat \ {0}
  BY PageBelow
<1>3. CoreSlots(k, f) = {Slot(page * b, Half(k, i) % PageBits(f.level)) : i \in 1..f.way}
  BY DEF CoreSlots, Slots, Masked
<1>4. ASSUME NEW i \in 1..f.way
      PROVE  Slot(page * b, Half(k, i) % PageBits(f.level)) \in 0..(n * PageBits(f.level) - 1)
  <2> DEFINE x == Half(k, i) % PageBits(f.level)
  <2>1. Half(k, i) \in Nat
    BY HalvesNat
  <2>2. x \in 0..(b * 8 - 1)
    <3>1. b * 8 \in Nat \ {0}
      BY <1>1
    <3> QED BY <1>1, <2>1, <3>1
  <2> HIDE DEF b, page, n, x
  <2>3. page * b \in Nat /\ page * b <= (n - 1) * b
    BY <1>1, <1>2
  <2>4. (n - 1) * b = n * b - b /\ n * b \in Nat /\ n * (b * 8) = 8 * (n * b)
    BY <1>1, <1>2
  <2> DEFINE o == page * b
             m == n * b
  <2>5. o \in Nat /\ m \in Nat /\ o <= m - b /\ n * (b * 8) = 8 * m
    BY <2>3, <2>4
  <2> HIDE DEF o, m
  <2>6. Slot(o, x) = 8 * o + x
    <3>1. x = 8 * (x \div 8) + (x % 8)
      BY <2>2, <1>1
    <3> QED BY <1>1, <2>2, <2>5, <3>1 DEF Slot
  <2>7. Slot(o, x) \in 0..(8 * m - 1)
    BY <1>1, <2>2, <2>5, <2>6
  <2> QED BY <1>1, <2>5, <2>7 DEF o, x
<1>5. CoreSlots(k, f) \subseteq 0..(n * PageBits(f.level) - 1)
  <2> HIDE DEF b, page, n
  <2> QED BY <1>3, <1>4
<1> QED BY <1>5

\* The places of a key depend on the layout alone, and grow with the ways.
LEMMA SlotsOfLayout ==
    ASSUME NEW k \in Keys, NEW f, NEW g, f.way \in Nat, g.way \in Nat, f.way <= g.way,
           f.level = g.level, f.num = g.num
    PROVE  CoreSlots(k, f) \subseteq CoreSlots(k, g)
<1>1. \A i \in 1..f.way : i \in 1..g.way
  OBVIOUS
<1> QED BY <1>1 DEF CoreSlots, Slots

-----------------------------------------------------------------------------
(***************************************************************************)
(* The invariant.                                                          *)
(***************************************************************************)
LEMMA InitInvariant == Init => IInv
<1> SUFFICES ASSUME Init PROVE IInv
  OBVIOUS
<1>1. PICK l \in Layouts : filter = Filter(l[1], l[2], l[3], 0, {}, {})
  BY DEF Init
<1>2. l[1] \in Nat /\ l[2] \in Nat /\ l[3] \in Nat /\ ValidLayout(l[1], l[2], l[3])
  BY ExchangeAssumption
<1>3. l[1] \in 4..8 /\ l[2] \in 6..13 /\ l[3] \in Nat \ {0}
  <2>1. LayoutChecked(l[1], l[2]) /\ l[3] # 0
    BY <1>2, ValidIsChecked
  <2> QED BY <1>2, <2>1, CheckedLevels
<1>4. file = File(4, 6, 0, 0, {}, {}) /\ shared = FALSE /\ home \in Ports
  BY DEF Init
<1>5. Typed
  <2>1. filter \in [way : 4..8, level : 6..13, num : Nat \ {0}, cnt : Nat, bits : SUBSET Nat,
                    keys : SUBSET Keys]
    BY <1>1, <1>3 DEF Filter
  <2>2. file \in [way : 4..8, level : 6..13, size : Nat, cnt : Nat, bits : SUBSET Nat,
                  keys : SUBSET Keys]
    BY <1>4 DEF File
  <2> QED BY <1>4, <2>1, <2>2 DEF Typed
<1>6. SlotsInside
  BY <1>1, <1>2, <1>4 DEF SlotsInside, Filter, File
<1>7. SharedWhole /\ KeysPlaced
  BY <1>1, <1>4 DEF SharedWhole, KeysPlaced, Filter, File
<1> QED BY <1>5, <1>6, <1>7 DEF IInv

\* What the invariant says of a filter, in the words of the lemmas.
LEMMA InvariantFacts ==
    ASSUME IInv
    PROVE  /\ home \in Ports /\ shared \in BOOLEAN
           /\ filter.way \in 4..8 /\ filter.level \in 6..13 /\ filter.num \in Nat \ {0}
           /\ filter.cnt \in Nat /\ filter.bits \subseteq Nat /\ filter.keys \subseteq Keys
           /\ filter = [way |-> filter.way, level |-> filter.level, num |-> filter.num,
                        cnt |-> filter.cnt, bits |-> filter.bits, keys |-> filter.keys]
           /\ file.way \in 4..8 /\ file.level \in 6..13 /\ file.size \in Nat
           /\ file.cnt \in Nat /\ file.bits \subseteq Nat /\ file.keys \subseteq Keys
           /\ file = [way |-> file.way, level |-> file.level, size |-> file.size,
                      cnt |-> file.cnt, bits |-> file.bits, keys |-> file.keys]
BY DEF IInv, Typed

\* The bits and keys of a file that is the filter's buffer follow those of the filter.
LEMMA Followed ==
    ASSUME IInv, NEW bits, NEW keys, Follow(bits, keys)
    PROVE  /\ file'.way = file.way /\ file'.level = file.level /\ file'.size = file.size
           /\ file'.cnt = file.cnt
           /\ file' = [way |-> file.way, level |-> file.level, size |-> file.size,
                       cnt |-> file.cnt, bits |-> file'.bits, keys |-> file'.keys]
           /\ shared => file'.bits = bits /\ file'.keys = keys
           /\ ~shared => file' = file
BY InvariantFacts DEF Follow

\* A set adds the key and its bits, where the core places them, to the filter, and to
\* the file if it is the same buffer.
LEMMA SetEffect ==
    ASSUME IInv, NEW k \in Keys, Set(k)
    PROVE  LET bits == filter.bits \cup CoreSlots(k, filter)
               keys == IF SameReading THEN file.keys \cup {k} ELSE file.keys
           IN  /\ home' = home /\ shared' = shared
               /\ filter'.way = filter.way /\ filter'.level = filter.level
               /\ filter'.num = filter.num /\ filter'.cnt \in Nat
               /\ filter'.bits = bits /\ filter'.keys = filter.keys \cup {k}
               /\ filter' = [way |-> filter.way, level |-> filter.level, num |-> filter.num,
                             cnt |-> filter'.cnt, bits |-> filter'.bits, keys |-> filter'.keys]
               /\ file'.way = file.way /\ file'.level = file.level /\ file'.size = file.size
               /\ file'.cnt = file.cnt
               /\ file' = [way |-> file.way, level |-> file.level, size |-> file.size,
                           cnt |-> file.cnt, bits |-> file'.bits, keys |-> file'.keys]
               /\ shared => file'.bits = bits /\ file'.keys = keys
               /\ ~shared => file' = file
<1> DEFINE bits == filter.bits \cup CoreSlots(k, filter)
           keys == IF SameReading THEN file.keys \cup {k} ELSE file.keys
           c == IF bits = filter.bits THEN filter.cnt ELSE filter.cnt + 1
           ks == filter.keys \cup {k}
<1> USE InvariantFacts
<1>1. SlotsIn(home, k, filter) = CoreSlots(k, filter)
  BY SamePlaces
<1>2. /\ filter' = [filter EXCEPT !.bits = bits, !.keys = ks, !.cnt = c]
      /\ Follow(bits, keys)
      /\ home' = home /\ shared' = shared
  BY <1>1 DEF Set
<1>3. c \in Nat
  OBVIOUS
<1> HIDE DEF bits, c, ks
<1>4. filter' = [way |-> filter.way, level |-> filter.level, num |-> filter.num,
                 cnt |-> c, bits |-> bits, keys |-> ks]
  BY <1>2
<1>5. /\ filter'.way = filter.way /\ filter'.level = filter.level /\ filter'.num = filter.num
      /\ filter'.bits = bits /\ filter'.keys = ks /\ filter'.cnt = c
  BY <1>4
<1>6. /\ file'.way = file.way /\ file'.level = file.level /\ file'.size = file.size
      /\ file'.cnt = file.cnt
      /\ file' = [way |-> file.way, level |-> file.level, size |-> file.size,
                  cnt |-> file.cnt, bits |-> file'.bits, keys |-> file'.keys]
      /\ shared => file'.bits = bits /\ file'.keys = keys
      /\ ~shared => file' = file
  BY <1>2, Followed
<1> QED BY <1>2, <1>3, <1>4, <1>5, <1>6 DEF bits, ks

LEMMA SetKeepsInvariant ==
    ASSUME IInv, NEW k \in Keys, Set(k)
    PROVE  IInv'
<1> DEFINE slots == CoreSlots(k, filter)
           bits == filter.bits \cup slots
           keys == IF SameReading THEN file.keys \cup {k} ELSE file.keys
<1> USE InvariantFacts
<1>1. home' = home /\ shared' = shared
  BY SetEffect
<1>2. slots \subseteq 0..(filter.num * PageBits(filter.level) - 1) /\ slots \subseteq Nat
  BY SlotsAreInside
<1>3. PageSize(filter.level) \in Nat \ {0} /\ PageBits(filter.level) = PageSize(filter.level) * 8
  BY PageSizes
<1>4. /\ filter'.way = filter.way /\ filter'.level = filter.level /\ filter'.num = filter.num
      /\ filter'.bits = bits /\ filter'.keys = filter.keys \cup {k} /\ filter'.cnt \in Nat
      /\ filter' = [way |-> filter.way, level |-> filter.level, num |-> filter.num,
                    cnt |-> filter'.cnt, bits |-> filter'.bits, keys |-> filter'.keys]
  BY SetEffect
<1>5. /\ file'.way = file.way /\ file'.level = file.level /\ file'.size = file.size
      /\ file'.cnt = file.cnt
      /\ file' = [way |-> file.way, level |-> file.level, size |-> file.size,
                  cnt |-> file.cnt, bits |-> file'.bits, keys |-> file'.keys]
      /\ shared => file'.bits = bits /\ file'.keys = keys
      /\ ~shared => file' = file
  BY SetEffect
<1>6. file'.bits \subseteq Nat /\ file'.keys \subseteq Keys
  BY <1>2, <1>5
<1>7. Typed'
  <2>1. filter' \in [way : 4..8, level : 6..13, num : Nat \ {0}, cnt : Nat, bits : SUBSET Nat,
                     keys : SUBSET Keys]
    BY <1>2, <1>4
  <2>2. file' \in [way : 4..8, level : 6..13, size : Nat, cnt : Nat, bits : SUBSET Nat,
                   keys : SUBSET Keys]
    BY <1>5, <1>6
  <2> QED BY <1>1, <2>1, <2>2 DEF Typed
<1>8. SharedWhole'
  BY <1>1, <1>4, <1>5 DEF IInv, SharedWhole, SameReading
<1>9. bits \subseteq 0..(filter.num * PageBits(filter.level) - 1)
  BY <1>2 DEF IInv, SlotsInside
<1>10. SlotsInside'
  <2>1. CASE shared
    <3>1. file.size = filter.num * PageSize(filter.level)
      BY <2>1 DEF IInv, SharedWhole
    <3>2. filter.num * (PageSize(filter.level) * 8) = 8 * (filter.num * PageSize(filter.level))
      BY <1>3
    <3>3. file'.bits \subseteq 0..(8 * file.size - 1)
      BY <1>3, <1>5, <1>9, <2>1, <3>1, <3>2
    <3> QED BY <1>4, <1>5, <1>9, <3>3 DEF IInv, SlotsInside
  <2>2. CASE ~shared
    BY <1>4, <1>5, <1>9, <2>2 DEF IInv, SlotsInside
  <2> QED BY <2>1, <2>2
<1>11. KeysPlaced'
  <2>1. ASSUME NEW x \in filter.keys \cup {k}
        PROVE  CoreSlots(x, filter') \subseteq bits
    <3>1. CoreSlots(x, filter') \subseteq CoreSlots(x, filter)
      BY <1>4, SlotsOfLayout
    <3>2. CoreSlots(x, filter) \subseteq bits
      BY DEF IInv, KeysPlaced
    <3> QED BY <3>1, <3>2
  <2>2. Opened(file)' = Filter(file.way, file.level, file.size \div PageSize(file.level),
                               file.cnt, file'.bits, file'.keys)
    BY <1>5 DEF Opened
  <2>3. ASSUME NEW x \in file'.keys
        PROVE  CoreSlots(x, Opened(file)') \subseteq file'.bits
    <3>1. CoreSlots(x, Opened(file)') = CoreSlots(x, Opened(file))
      BY <2>2 DEF CoreSlots, Slots, Opened, Filter
    <3>2. CASE x \in file.keys
      <4>1. CoreSlots(x, Opened(file)) \subseteq file.bits
        BY <3>2 DEF IInv, KeysPlaced
      <4>2. file.bits \subseteq file'.bits
        BY <1>5 DEF IInv, SharedWhole
      <4> QED BY <3>1, <4>1, <4>2
    <3>3. CASE x \notin file.keys
      <4>1. shared /\ x = k /\ SameReading
        BY <1>5, <3>3
      <4>2. file.size \div PageSize(file.level) = filter.num
        <5>1. file.size = filter.num * PageSize(filter.level) /\ file.level = filter.level
          BY <4>1 DEF IInv, SharedWhole, SameReading
        <5> QED BY <1>3, <5>1, DividedBack
      <4>3. CoreSlots(x, Opened(file)) = CoreSlots(x, filter)
        BY <4>1, <4>2 DEF CoreSlots, Slots, Opened, Filter, SameReading
      <4> QED BY <1>5, <3>1, <4>1, <4>3
    <3> QED BY <3>2, <3>3
  <2> QED BY <1>4, <2>1, <2>3 DEF KeysPlaced
<1> QED BY <1>7, <1>8, <1>10, <1>11 DEF IInv

LEMMA ClearKeepsInvariant == IInv /\ Clear => IInv'
<1> SUFFICES ASSUME IInv, Clear PROVE IInv'
  OBVIOUS
<1> USE InvariantFacts
<1>1. /\ filter' = [filter EXCEPT !.bits = {}, !.keys = {}, !.cnt = 0]
      /\ Follow({}, {})
      /\ home' = home /\ shared' = shared
  BY DEF Clear
<1>2. filter' = [way |-> filter.way, level |-> filter.level, num |-> filter.num,
                 cnt |-> 0, bits |-> {}, keys |-> {}]
  BY <1>1
<1>3. /\ filter'.way = filter.way /\ filter'.level = filter.level /\ filter'.num = filter.num
      /\ filter'.bits = {} /\ filter'.keys = {}
  BY <1>2
<1>4. /\ file'.way = file.way /\ file'.level = file.level /\ file'.size = file.size
      /\ file' = [way |-> file.way, level |-> file.level, size |-> file.size,
                  cnt |-> file.cnt, bits |-> file'.bits, keys |-> file'.keys]
      /\ shared => file'.bits = {} /\ file'.keys = {}
      /\ ~shared => file' = file
  BY <1>1, Followed
<1>5. file'.bits \subseteq file.bits /\ file'.keys \subseteq file.keys
  BY <1>4
<1>6. Typed'
  <2>1. filter' \in [way : 4..8, level : 6..13, num : Nat \ {0}, cnt : Nat, bits : SUBSET Nat,
                     keys : SUBSET Keys]
    BY <1>2
  <2>2. file' \in [way : 4..8, level : 6..13, size : Nat, cnt : Nat, bits : SUBSET Nat,
                   keys : SUBSET Keys]
    BY <1>4, <1>5
  <2> QED BY <1>1, <2>1, <2>2 DEF Typed
<1>7. SlotsInside'
  BY <1>3, <1>4, <1>5 DEF IInv, SlotsInside
<1>8. SharedWhole'
  BY <1>1, <1>3, <1>4 DEF IInv, SharedWhole
<1>9. KeysPlaced'
  <2>1. CASE shared
    BY <1>3, <1>4, <2>1 DEF KeysPlaced
  <2>2. CASE ~shared
    <3>1. Opened(file)' = Opened(file)
      BY <1>4, <2>2 DEF Opened, Filter
    <3> QED BY <1>3, <1>4, <2>2, <3>1 DEF IInv, KeysPlaced
  <2> QED BY <2>1, <2>2
<1> QED BY <1>6, <1>7, <1>8, <1>9 DEF IInv

LEMMA SaveKeepsInvariant == IInv /\ Save => IInv'
<1> SUFFICES ASSUME IInv, Save PROVE IInv'
  OBVIOUS
<1> USE InvariantFacts
<1> DEFINE b == PageSize(filter.level)
           size == filter.num * b
<1>1. b \in Nat \ {0} /\ PageBits(filter.level) = b * 8
  BY PageSizes
<1>2. /\ file' = [way |-> filter.way, level |-> filter.level, size |-> size,
                  cnt |-> filter.cnt, bits |-> filter.bits, keys |-> filter.keys]
      /\ home' = home /\ shared' = FALSE /\ filter' = filter
  BY DEF Save, File
<1>3. size \in Nat /\ size \div b = filter.num /\ filter.num * (b * 8) = 8 * size
  <2> HIDE DEF b
  <2> QED BY <1>1, DividedBack
<1> HIDE DEF size
<1>4. Typed'
  <2>1. file' \in [way : 4..8, level : 6..13, size : Nat, cnt : Nat, bits : SUBSET Nat,
                   keys : SUBSET Keys]
    BY <1>2, <1>3
  <2> QED BY <1>2, <2>1 DEF Typed, IInv
<1>5. SlotsInside'
  BY <1>1, <1>2, <1>3 DEF IInv, SlotsInside
<1>6. KeysPlaced'
  <2>1. Opened(file)' = filter
    BY <1>2, <1>3 DEF Opened, Filter
  <2> QED BY <1>2, <2>1 DEF IInv, KeysPlaced
<1> QED BY <1>2, <1>4, <1>5, <1>6 DEF IInv, SharedWhole

LEMMA BlankKeepsInvariant ==
    ASSUME IInv, NEW size \in Blanks, Blank(size)
    PROVE  IInv'
<1> USE InvariantFacts
<1>1. /\ file' = [way |-> 4, level |-> 6, size |-> size, cnt |-> 0, bits |-> {}, keys |-> {}]
      /\ home' = home /\ shared' = FALSE /\ filter' = filter
  BY DEF Blank, File
<1>2. size \in Nat
  BY ExchangeAssumption
<1>3. file' \in [way : 4..8, level : 6..13, size : Nat, cnt : Nat, bits : SUBSET Nat,
                 keys : SUBSET Keys]
  BY <1>1, <1>2
<1>4. Typed'
  BY <1>1, <1>3 DEF Typed, IInv
<1> QED BY <1>1, <1>4 DEF IInv, SlotsInside, KeysPlaced, SharedWhole

\* A restore reads the file at another reading: the page number is that of the size,
\* and the keys vouched for are where fewer ways look.
LEMMA RestoreKeepsInvariant ==
    ASSUME IInv, NEW p \in Ports, NEW way \in Nat, NEW level \in Nat, NEW adopt \in BOOLEAN,
           Restore(p, way, level, adopt)
    PROVE  IInv'
<1> USE InvariantFacts
<1> DEFINE ok == AcceptsIn(p, way, level, file.size)
           num == file.size \div PageSize(level)
           keys == IF Compatible(way, level) THEN file.keys ELSE {}
<1>1. ok <=> Accepts(way, level, file.size)
  BY SameChecks
<1>2. /\ file' = file
      /\ ok => /\ home' = p /\ shared' = adopt
               /\ filter' = [way |-> way, level |-> level, num |-> num, cnt |-> file.cnt,
                             bits |-> file.bits, keys |-> keys]
      /\ ~ok => home' = home /\ filter' = filter /\ shared' = shared
  BY DEF Restore, Filter
<1> HIDE DEF ok
<1>3. Opened(file)' = Opened(file)
  BY <1>2 DEF Opened, Filter
<1>4. CASE ~ok
  <2>1. Typed'
    BY <1>2, <1>4 DEF IInv, Typed
  <2>2. SlotsInside' /\ SharedWhole' /\ KeysPlaced'
    BY <1>2, <1>3, <1>4 DEF IInv, SlotsInside, SharedWhole, SameReading, KeysPlaced, CoreSlots, Slots
  <2> QED BY <2>1, <2>2 DEF IInv
<1>5. CASE ok
  <2>1. /\ way \in 4..8 /\ level \in 6..13 /\ num \in Nat \ {0}
        /\ ValidLayout(way, level, num)
        /\ file.size = num * PageSize(level)
    BY <1>1, <1>5, AcceptedSizes
  <2>2. PageSize(level) \in Nat \ {0} /\ PageBits(level) = PageSize(level) * 8
    BY <2>1, PageSizes
  <2> HIDE DEF num
  <2>3. num * PageBits(level) = 8 * file.size
    BY <2>1, <2>2
  <2>4. keys \subseteq Keys
    OBVIOUS
  <2>5. KeysPlaced'
    <3>1. ASSUME NEW k \in keys PROVE CoreSlots(k, filter') \subseteq file.bits
      <4>1. k \in file.keys /\ way <= file.way /\ level = file.level
        BY DEF Compatible
      <4>2. CoreSlots(k, Opened(file)) \subseteq file.bits
        BY <4>1 DEF IInv, KeysPlaced
      <4>3. /\ filter'.way = way /\ filter'.level = level /\ filter'.num = num
            /\ Opened(file).way = file.way /\ Opened(file).level = file.level
            /\ Opened(file).num = num
        BY <1>2, <1>5, <4>1 DEF Opened, Filter, num
      <4> HIDE DEF keys
      <4>4. CoreSlots(k, filter') \subseteq CoreSlots(k, Opened(file))
        <5>1. k \in Keys
          BY <4>1
        <5> QED BY <4>1, <4>3, <5>1, SlotsOfLayout
      <4> QED BY <4>2, <4>4
    <3> HIDE DEF keys
    <3>2. filter'.keys = keys /\ filter'.bits = file.bits
      BY <1>2, <1>5
    <3> QED BY <1>2, <1>3, <3>1, <3>2 DEF IInv, KeysPlaced, CoreSlots, Slots
  <2>6. way = file.way /\ level = file.level => keys = file.keys
    BY DEF Compatible
  <2> HIDE DEF keys
  <2>7. Typed'
    <3>1. filter' \in [way : 4..8, level : 6..13, num : Nat \ {0}, cnt : Nat,
                       bits : SUBSET Nat, keys : SUBSET Keys]
      BY <1>2, <1>5, <2>1, <2>4
    <3> QED BY <1>2, <1>5, <3>1 DEF IInv, Typed
  <2>8. /\ filter'.way = way /\ filter'.level = level /\ filter'.num = num
        /\ filter'.bits = file.bits /\ filter'.keys = keys
    BY <1>2, <1>5
  <2>9. SlotsInside'
    BY <1>2, <2>1, <2>3, <2>8 DEF IInv, SlotsInside
  <2>10. SharedWhole'
    BY <1>2, <2>1, <2>8, <2>6 DEF SharedWhole, SameReading
  <2> QED BY <2>5, <2>7, <2>9, <2>10 DEF IInv
<1> QED BY <1>4, <1>5

LEMMA StepKeepsInvariant == IInv /\ [Next]_vars => IInv'
<1> SUFFICES ASSUME IInv, [Next]_vars PROVE IInv'
  OBVIOUS
<1>1. ASSUME NEW k \in Keys, Set(k) PROVE IInv'
  BY <1>1, SetKeepsInvariant
<1>2. CASE Clear
  BY <1>2, ClearKeepsInvariant
<1>3. CASE Save
  BY <1>3, SaveKeepsInvariant
<1>4. ASSUME NEW size \in Blanks, Blank(size) PROVE IInv'
  BY <1>4, BlankKeepsInvariant
<1>5. ASSUME NEW r \in Readings \cup {<<file.way, file.level>>},
             RestoreByAdopting(r[1], r[2]) \/ RestoreByCopying(r[1], r[2])
      PROVE  IInv'
  <2>1. r[1] \in Nat /\ r[2] \in Nat
    BY InvariantFacts, ExchangeAssumption
  <2>2. PICK p \in Ports, adopt \in BOOLEAN : Restore(p, r[1], r[2], adopt)
    BY <1>5 DEF RestoreByAdopting, RestoreByCopying
  <2> QED BY <2>1, <2>2, RestoreKeepsInvariant
<1>6. CASE UNCHANGED vars
  <2>1. home' = home /\ filter' = filter /\ file' = file /\ shared' = shared
    BY <1>6 DEF vars
  <2> QED BY <2>1 DEF IInv, Typed, SlotsInside, SharedWhole, SameReading, KeysPlaced,
                      CoreSlots, Slots, Opened
<1> QED BY <1>1, <1>2, <1>3, <1>4, <1>5, <1>6 DEF Next

LEMMA Invariance == Spec => []IInv
BY InitInvariant, StepKeepsInvariant, PTL DEF Spec

-----------------------------------------------------------------------------
(***************************************************************************)
(* Theorems.                                                               *)
(***************************************************************************)
\* Whatever a filter is restored from and at whatever reading, it has a layout of
\* the core and no bit beyond its pages, and the file has none beyond its bytes.
THEOREM AlwaysInside == Spec => []SlotsInside
<1>1. IInv => SlotsInside
  BY DEF IInv
<1> QED BY <1>1, Invariance, PTL

\* Seven ports answer alike for every key and every bitmap they share.
THEOREM AnswersAlike == Spec => []AnswersAgree
<1>1. IInv => AnswersAgree
  <2> SUFFICES ASSUME IInv, NEW p \in Ports, NEW k \in Keys
               PROVE  Finds(p, k, filter) <=> Finds("core", k, filter)
    BY DEF AnswersAgree
  <2>1. SlotsIn(p, k, filter) = CoreSlots(k, filter)
    BY InvariantFacts, SamePlaces
  <2>2. SlotsIn("core", k, filter) = CoreSlots(k, filter)
    BY DEF SlotsIn
  <2> QED BY <2>1, <2>2 DEF Finds
<1> QED BY <1>1, Invariance, PTL

\* A key set in one language is found in every other, in the filter and in the file.
THEOREM KeysAlwaysTravel == Spec => []KeysTravel
<1>1. IInv => KeysTravel
  <2> SUFFICES ASSUME IInv, NEW p \in Ports
               PROVE  /\ \A k \in filter.keys : Finds(p, k, filter)
                      /\ \A k \in file.keys : Finds(p, k, Opened(file))
    BY DEF KeysTravel
  <2>1. ASSUME NEW k \in filter.keys PROVE Finds(p, k, filter)
    <3>1. SlotsIn(p, k, filter) = CoreSlots(k, filter)
      BY InvariantFacts, SamePlaces
    <3> QED BY <3>1 DEF Finds, IInv, KeysPlaced
  <2>2. ASSUME NEW k \in file.keys PROVE Finds(p, k, Opened(file))
    <3>1. Opened(file).way = file.way /\ Opened(file).bits = file.bits
      BY DEF Opened, Filter
    <3>2. SlotsIn(p, k, Opened(file)) = CoreSlots(k, Opened(file))
      BY <3>1, InvariantFacts, SamePlaces
    <3> QED BY <3>1, <3>2 DEF Finds, IInv, KeysPlaced
  <2> QED BY <2>1, <2>2
<1> QED BY <1>1, Invariance, PTL

\* A file is accepted by one port if and only if the core accepts it, whatever it is
\* restored with.
THEOREM AcceptedAlike == Spec => []SameAcceptance
<1>1. IInv => SameAcceptance
  <2> SUFFICES ASSUME IInv, NEW p \in Ports,
                      NEW r \in Readings \cup {<<file.way, file.level>>}
               PROVE  AcceptsIn(p, r[1], r[2], file.size) <=> Accepts(r[1], r[2], file.size)
    BY DEF SameAcceptance
  <2>1. r[1] \in Nat /\ r[2] \in Nat /\ file.size \in Nat
    BY InvariantFacts, ExchangeAssumption
  <2> QED BY <2>1, SameChecks
<1> QED BY <1>1, Invariance, PTL

-----------------------------------------------------------------------------
(***************************************************************************)
(* The travelling filter.                                                  *)
(***************************************************************************)
\* Every port reports present the keys whose bits the core finds set.
Present(f) == {k \in Keys : CoreSlots(k, f) \subseteq f.bits}

LEMMA PositivesPresent ==
    ASSUME NEW p \in Ports \cup {"core"}, NEW f, f.way \in 4..8
    PROVE  Positives(p, f) = Present(f)
<1>1. ASSUME NEW k \in Keys PROVE SlotsIn(p, k, f) = CoreSlots(k, f)
  <2>1. SlotsIn("core", k, f) = CoreSlots(k, f)
    BY DEF SlotsIn
  <2> QED BY <2>1, SamePlaces
<1>2. ASSUME NEW k \in Keys, CoreSlots(k, f) \subseteq f.bits PROVE f.bits # {}
  <2>1. 1 \in 1..f.way
    OBVIOUS
  <2>2. Slot(Remainder(PageHash[k], f.num) * PageSize(f.level), Masked(Half(k, 1), f.level))
          \in CoreSlots(k, f)
    BY <2>1 DEF CoreSlots, Slots
  <2> QED BY <1>2, <2>2
<1> QED BY <1>1, <1>2 DEF Positives, Finds, Present

\* More bits, or fewer ways, lose no key.
LEMMA PresentGrows ==
    ASSUME NEW f, NEW g, g.way \in Nat, f.way \in Nat, g.way <= f.way, g.level = f.level,
           g.num = f.num, f.bits \subseteq g.bits
    PROVE  Present(f) \subseteq Present(g)
<1>1. ASSUME NEW k \in Present(f) PROVE k \in Present(g)
  <2>1. k \in Keys /\ CoreSlots(k, f) \subseteq f.bits
    BY DEF Present
  <2>2. CoreSlots(k, g) \subseteq CoreSlots(k, f)
    BY <2>1, SlotsOfLayout
  <2> QED BY <2>1, <2>2 DEF Present
<1> QED BY <1>1

LEMMA PresentAlike ==
    ASSUME NEW f, NEW g, g.way = f.way, g.level = f.level, g.num = f.num, g.bits = f.bits
    PROVE  Present(f) = Present(g)
BY DEF Present, CoreSlots, Slots

\* What the travelling filter sees, before a step and after it.
LEMMA SeenBefore ==
    ASSUME IInv
    PROVE  /\ Positives(home, filter) = Present(filter)
           /\ Positives("core", Opened(file)) = Present(Opened(file))
<1>1. Opened(file).way \in 4..8
  BY InvariantFacts DEF Opened, Filter
<1> QED BY <1>1, InvariantFacts, PositivesPresent

LEMMA SeenAfter ==
    ASSUME IInv'
    PROVE  /\ Positives(home, filter)' = Present(filter')
           /\ Positives("core", Opened(file))' = Present(Opened(file'))
<1>1. file'.way \in 4..8 /\ filter'.way \in 4..8 /\ home' \in Ports
  BY DEF IInv, Typed
<1>2. Opened(file').way \in 4..8
  BY <1>1 DEF Opened, Filter
<1>3. Positives(home', filter') = Present(filter') /\ Positives("core", Opened(file')) = Present(Opened(file'))
  BY <1>1, <1>2, PositivesPresent
<1> QED BY <1>3

LEMMA InitTravels == Init => Travel!TravelInit
<1> SUFFICES ASSUME Init PROVE Travel!TravelInit
  OBVIOUS
<1>1. PICK l \in Layouts : filter = Filter(l[1], l[2], l[3], 0, {}, {})
  BY DEF Init
<1>2. file = File(4, 6, 0, 0, {}, {}) /\ shared = FALSE
  BY DEF Init
<1>3. /\ filter.bits = {} /\ filter.keys = {} /\ file.keys = {} /\ Opened(file).bits = {}
  BY <1>1, <1>2 DEF Filter, File, Opened
<1>4. Positives(home, filter) = {} /\ Positives("core", Opened(file)) = {}
  BY <1>3 DEF Positives
<1> QED BY <1>2, <1>3, <1>4 DEF Travel!TravelInit

\* A set reaches the file exactly when the filter is the file.
LEMMA SetTravels ==
    ASSUME IInv, IInv', NEW k \in Keys, Set(k)
    PROVE  Travel!TravelSet(k)
<1> DEFINE P == Present(filter)
           Q == Present(filter')
           F == Present(Opened(file))
           G == Present(Opened(file'))
<1>1. /\ Positives(home, filter) = P /\ Positives("core", Opened(file)) = F
      /\ Positives(home, filter)' = Q /\ Positives("core", Opened(file))' = G
  BY SeenBefore, SeenAfter
<1>2. /\ shared' = shared /\ filter'.keys = filter.keys \cup {k}
      /\ filter'.way = filter.way /\ filter'.level = filter.level /\ filter'.num = filter.num
      /\ filter'.bits = filter.bits \cup CoreSlots(k, filter)
      /\ file'.way = file.way /\ file'.level = file.level /\ file'.size = file.size
      /\ ~shared => file' = file
      /\ shared => /\ file'.bits = filter.bits \cup CoreSlots(k, filter)
                   /\ file'.keys = IF SameReading THEN file.keys \cup {k} ELSE file.keys
  BY SetEffect
<1>3. SameReading' <=> SameReading
  BY <1>2 DEF SameReading
<1>4. CoreSlots(k, filter') = CoreSlots(k, filter)
  BY <1>2 DEF CoreSlots, Slots
<1>5. k \in P => filter'.bits = filter.bits
  BY <1>2 DEF Present
<1>6. Q \in SUBSET Keys /\ P \cup {k} \subseteq Q /\ (k \in P => Q = P)
  <2>1. P \subseteq Q
    BY <1>2, InvariantFacts, PresentGrows
  <2>2. k \in Q
    BY <1>2, <1>4 DEF Present
  <2>3. k \in P => Q = P
    BY <1>2, <1>5, PresentAlike
  <2> QED BY <2>1, <2>2, <2>3 DEF Present
<1>7. /\ Opened(file').way = file.way /\ Opened(file).way = file.way
      /\ Opened(file').level = file.level /\ Opened(file).level = file.level
      /\ Opened(file').num = Opened(file).num
      /\ Opened(file').bits = file'.bits /\ Opened(file).bits = file.bits
  BY <1>2 DEF Opened, Filter
<1>8. CASE ~shared
  <2>1. file'.keys = file.keys /\ G = F
    BY <1>2, <1>8
  <2> HIDE DEF P, Q, F, G
  <2> QED
    BY <1>1, <1>2, <1>6, <1>8, <2>1
    DEF Travel!TravelSet, Travel!Grown, Travel!fileVars
<1>9. CASE shared /\ SameReading
  <2>1. /\ filter.bits = file.bits /\ filter.keys = file.keys
        /\ file.size = filter.num * PageSize(filter.level)
    BY <1>9 DEF IInv, SharedWhole
  <2>2. Opened(file').num = filter.num
    <3>1. PageSize(filter.level) \in Nat \ {0}
      BY InvariantFacts, PageSizes
    <3>2. file.level = filter.level /\ file'.level = filter.level
      BY <1>2, <1>9 DEF SameReading
    <3>3. Opened(file').num = file.size \div PageSize(filter.level)
      BY <1>2, <3>2 DEF Opened, Filter
    <3> QED BY <2>1, <3>1, <3>3, InvariantFacts, DividedBack
  <2>3. G = Q
    BY <1>2, <1>7, <1>9, <2>2, PresentAlike DEF SameReading
  <2>4. file'.keys = filter'.keys
    BY <1>2, <1>9, <2>1
  <2> HIDE DEF P, Q, F, G
  <2> QED
    BY <1>1, <1>2, <1>3, <1>6, <1>9, <2>3, <2>4
    DEF Travel!TravelSet, Travel!Grown, Travel!fileVars
<1>10. CASE shared /\ ~SameReading
  <2>1. filter.bits = file.bits
    BY <1>10 DEF IInv, SharedWhole
  <2>2. F \subseteq G /\ G \in SUBSET Keys
    <3>1. Opened(file).bits \subseteq Opened(file').bits
      BY <1>2, <1>7, <1>10, <2>1
    <3>2. /\ Opened(file).way \in Nat /\ Opened(file').way = Opened(file).way
          /\ Opened(file').level = Opened(file).level
      BY <1>7, InvariantFacts
    <3>3. F \subseteq G
      BY <1>7, <3>1, <3>2, PresentGrows
    <3> QED BY <3>3 DEF Present
  <2>3. k \in P => G = F
    BY <1>2, <1>5, <1>7, <1>10, <2>1, PresentAlike
  <2>4. file'.keys = file.keys
    BY <1>2, <1>10
  <2> HIDE DEF P, Q, F, G
  <2> QED
    BY <1>1, <1>2, <1>3, <1>6, <1>10, <2>2, <2>3, <2>4
    DEF Travel!TravelSet, Travel!Grown, Travel!fileVars
<1> QED BY <1>8, <1>9, <1>10

LEMMA ClearTravels == IInv /\ IInv' /\ Clear => Travel!TravelClear
<1> SUFFICES ASSUME IInv, IInv', Clear PROVE Travel!TravelClear
  OBVIOUS
<1>1. /\ filter' = [filter EXCEPT !.bits = {}, !.keys = {}, !.cnt = 0]
      /\ Follow({}, {}) /\ shared' = shared /\ home' = home
  BY DEF Clear
<1>2. filter' = [way |-> filter.way, level |-> filter.level, num |-> filter.num,
                 cnt |-> 0, bits |-> {}, keys |-> {}]
  BY <1>1, InvariantFacts
<1>3. /\ file'.way = file.way /\ file'.level = file.level
      /\ shared => file'.bits = {} /\ file'.keys = {}
      /\ ~shared => file' = file
  BY <1>1, Followed
<1>4. /\ filter'.way = filter.way /\ filter'.level = filter.level /\ filter'.keys = {}
      /\ filter'.bits = {}
  BY <1>2
<1>5. (SameReading' <=> SameReading)
  BY <1>3, <1>4 DEF SameReading
<1>6. Positives(home, filter)' = {}
  BY <1>4 DEF Positives
<1>7. CASE shared
  <2>1. Opened(file').bits = {}
    BY <1>3, <1>7 DEF Opened, Filter
  <2>2. Positives("core", Opened(file))' = {}
    BY <2>1 DEF Positives
  <2> QED BY <1>1, <1>3, <1>4, <1>5, <1>6, <1>7, <2>2 DEF Travel!TravelClear
<1>8. CASE ~shared
  <2>1. Positives("core", Opened(file))' = Positives("core", Opened(file))
    BY <1>3, <1>8
  <2> QED BY <1>1, <1>3, <1>4, <1>6, <1>8, <2>1 DEF Travel!TravelClear, Travel!fileVars
<1> QED BY <1>7, <1>8

\* What is saved is the whole filter.
LEMMA SaveTravels == IInv /\ IInv' /\ Save => Travel!TravelSave
<1> SUFFICES ASSUME IInv, IInv', Save PROVE Travel!TravelSave
  OBVIOUS
<1> DEFINE b == PageSize(filter.level)
<1>1. /\ file' = [way |-> filter.way, level |-> filter.level, size |-> filter.num * b,
                  cnt |-> filter.cnt, bits |-> filter.bits, keys |-> filter.keys]
      /\ home' = home /\ shared' = FALSE /\ filter' = filter
  BY DEF Save, File
<1>2. (filter.num * b) \div b = filter.num
  <2>1. b \in Nat \ {0} /\ filter.num \in Nat
    BY InvariantFacts, PageSizes
  <2> HIDE DEF b
  <2> QED BY <2>1, DividedBack
<1>3. Opened(file') = filter
  BY <1>1, <1>2, InvariantFacts DEF Opened, Filter
<1>4. /\ Positives("core", Opened(file))' = Positives(home, filter)
      /\ Positives(home, filter)' = Positives(home, filter)
  BY <1>1, <1>3, SeenBefore, SeenAfter
<1>5. file'.keys = filter.keys
  BY <1>1
<1> QED BY <1>1, <1>4, <1>5 DEF Travel!TravelSave

LEMMA BlankTravels ==
    ASSUME NEW size \in Blanks, Blank(size)
    PROVE  Travel!TravelBlank
<1>1. file' = File(4, 6, size, 0, {}, {}) /\ home' = home /\ shared' = FALSE /\ filter' = filter
  BY DEF Blank
<1>2. file'.keys = {} /\ Opened(file').bits = {}
  BY <1>1 DEF File, Opened, Filter
<1>3. Positives("core", Opened(file))' = {}
  BY <1>2 DEF Positives
<1>4. Positives(home, filter)' = Positives(home, filter)
  BY <1>1
<1> QED BY <1>1, <1>2, <1>3, <1>4 DEF Travel!TravelBlank

\* A restore gives back what was saved, or with fewer ways all of its keys, or nothing
\* to rely on; a refusal changes nothing.
LEMMA RestoreTravels ==
    ASSUME IInv, IInv', NEW p \in Ports, NEW way \in Nat, NEW level \in Nat,
           NEW adopt \in BOOLEAN, Restore(p, way, level, adopt)
    PROVE  Travel!TravelNext \/ UNCHANGED Travel!travelVars
<1> DEFINE ok == AcceptsIn(p, way, level, file.size)
           Q == Present(filter')
           F == Present(Opened(file))
<1>1. /\ file' = file
      /\ ok => /\ home' = p /\ shared' = adopt
               /\ filter' = Filter(way, level, file.size \div PageSize(level), file.cnt,
                                   file.bits, IF Compatible(way, level) THEN file.keys ELSE {})
      /\ ~ok => home' = home /\ filter' = filter /\ shared' = shared
  BY DEF Restore
<1> HIDE DEF ok
<1>2. /\ Positives("core", Opened(file)) = F /\ Positives("core", Opened(file))' = F
      /\ Positives(home, filter)' = Q
  BY <1>1, SeenBefore, SeenAfter
<1>3. CASE ~ok
  <2>1. Positives(home, filter)' = Positives(home, filter)
    BY <1>1, <1>3
  <2>2. SameReading' <=> SameReading
    BY <1>1, <1>3 DEF SameReading
  <2> QED BY <1>1, <1>2, <1>3, <2>1, <2>2 DEF Travel!travelVars
<1>4. CASE ok
  <2>1. /\ filter'.way = way /\ filter'.level = level /\ filter'.bits = file.bits
        /\ filter'.num = file.size \div PageSize(level)
        /\ filter'.keys = IF Compatible(way, level) THEN file.keys ELSE {}
    BY <1>1, <1>4 DEF Filter
  <2>2. /\ Opened(file).way = file.way /\ Opened(file).level = file.level
        /\ Opened(file).num = file.size \div PageSize(file.level)
        /\ Opened(file).bits = file.bits
    BY DEF Opened, Filter
  <2>3. SameReading' <=> (way = file.way /\ level = file.level)
    BY <1>1, <2>1 DEF SameReading
  <2>4. Q \in SUBSET Keys
    BY DEF Present
  <2>5. CASE way = file.way /\ level = file.level
    <3>1. Q = F
      BY <2>1, <2>2, <2>5, PresentAlike
    <3>2. filter'.keys = file.keys
      BY <2>1, <2>5, InvariantFacts DEF Compatible
    <3> HIDE DEF Q, F
    <3>3. Travel!TravelReturn
      BY <1>1, <1>2, <1>4, <2>3, <2>5, <3>1, <3>2 DEF Travel!TravelReturn, Travel!fileVars
    <3> QED BY <3>3 DEF Travel!TravelNext
  <2>6. CASE way # file.way /\ Compatible(way, level)
    <3>1. F \subseteq Q
      BY <2>1, <2>2, <2>6, InvariantFacts, PresentGrows DEF Compatible
    <3>2. filter'.keys = file.keys
      BY <2>1, <2>6
    <3> HIDE DEF Q, F
    <3>3. Travel!TravelWiden
      BY <1>1, <1>2, <1>4, <2>3, <2>4, <2>6, <3>1, <3>2
      DEF Travel!TravelWiden, Travel!fileVars
    <3> QED BY <3>3 DEF Travel!TravelNext
  <2>7. CASE ~Compatible(way, level)
    <3>1. ~(way = file.way /\ level = file.level)
      BY <2>7, InvariantFacts DEF Compatible
    <3>2. filter'.keys = {}
      BY <2>1, <2>7
    <3> HIDE DEF Q, F
    <3>3. Travel!TravelGarble
      BY <1>1, <1>2, <1>4, <2>3, <2>4, <3>1, <3>2 DEF Travel!TravelGarble, Travel!fileVars
    <3> QED BY <3>3 DEF Travel!TravelNext
  <2> QED BY <2>5, <2>6, <2>7 DEF Compatible
<1> QED BY <1>3, <1>4

LEMMA StepTravels == IInv /\ IInv' /\ [Next]_vars => [Travel!TravelNext]_(Travel!travelVars)
<1> SUFFICES ASSUME IInv, IInv', [Next]_vars
             PROVE  Travel!TravelNext \/ UNCHANGED Travel!travelVars
  BY DEF Travel!travelVars
<1>1. ASSUME NEW k \in Keys, Set(k) PROVE Travel!TravelNext
  BY <1>1, SetTravels DEF Travel!TravelNext
<1>2. CASE Clear
  BY <1>2, ClearTravels DEF Travel!TravelNext
<1>3. CASE Save
  BY <1>3, SaveTravels DEF Travel!TravelNext
<1>4. ASSUME NEW size \in Blanks, Blank(size) PROVE Travel!TravelNext
  BY <1>4, BlankTravels DEF Travel!TravelNext
<1>5. ASSUME NEW r \in Readings \cup {<<file.way, file.level>>},
             RestoreByAdopting(r[1], r[2]) \/ RestoreByCopying(r[1], r[2])
      PROVE  Travel!TravelNext \/ UNCHANGED Travel!travelVars
  <2>1. r[1] \in Nat /\ r[2] \in Nat
    BY InvariantFacts, ExchangeAssumption
  <2>2. PICK p \in Ports, adopt \in BOOLEAN : Restore(p, r[1], r[2], adopt)
    BY <1>5 DEF RestoreByAdopting, RestoreByCopying
  <2> QED BY <2>1, <2>2, RestoreTravels
<1>6. CASE UNCHANGED vars
  <2>1. home' = home /\ filter' = filter /\ file' = file /\ shared' = shared
    BY <1>6 DEF vars
  <2>2. SameReading' <=> SameReading
    BY <2>1 DEF SameReading
  <2>3. /\ Positives(home, filter)' = Positives(home, filter)
        /\ Positives("core", Opened(file))' = Positives("core", Opened(file))
    BY <2>1
  <2> QED BY <2>1, <2>2, <2>3 DEF Travel!travelVars
<1> QED BY <1>1, <1>2, <1>3, <1>4, <1>5, <1>6 DEF Next

\* A program that hands a filter from language to language sees one filter: every
\* behaviour of the seven ports is one of the travelling filter.
THEOREM TravelsAlike == Spec => TravelsAsOne
<1>1. Spec => Travel!TravelSpec
  BY InitTravels, StepTravels, Invariance, PTL DEF Spec, Travel!TravelSpec
<1> QED BY <1>1 DEF TravelsAsOne

\* The travelling filter keeps its promise, whatever it is made of: no key that it or
\* its file vouches for is reported absent, and a filter that is the file answers as it.
THEOREM TravelPromise == Travel!TravelSpec => [](Travel!TravelTypeOK /\ Travel!TravelSound)
<1> DEFINE Promise == Travel!TravelTypeOK /\ Travel!TravelSound
<1>1. Travel!TravelInit => Promise
  BY DEF Travel!TravelInit, Travel!TravelTypeOK, Travel!TravelSound, Travel!Links
<1>2. Promise /\ [Travel!TravelNext]_(Travel!travelVars) => Promise'
  <2> SUFFICES ASSUME Promise, [Travel!TravelNext]_(Travel!travelVars) PROVE Promise'
    OBVIOUS
  <2> USE DEF Travel!TravelTypeOK, Travel!TravelSound, Travel!Links
  <2>1. ASSUME NEW k \in Keys, Travel!TravelSet(k) PROVE Promise'
    BY <2>1 DEF Travel!TravelSet, Travel!Grown, Travel!fileVars
  <2>2. CASE Travel!TravelClear
    BY <2>2 DEF Travel!TravelClear, Travel!fileVars
  <2>3. CASE Travel!TravelSave
    BY <2>3 DEF Travel!TravelSave
  <2>4. CASE Travel!TravelBlank
    BY <2>4 DEF Travel!TravelBlank
  <2>5. CASE Travel!TravelReturn
    BY <2>5 DEF Travel!TravelReturn, Travel!fileVars
  <2>6. CASE Travel!TravelWiden
    BY <2>6 DEF Travel!TravelWiden, Travel!fileVars
  <2>7. CASE Travel!TravelGarble
    BY <2>7 DEF Travel!TravelGarble, Travel!fileVars
  <2>8. CASE UNCHANGED Travel!travelVars
    BY <2>8 DEF Travel!travelVars
  <2> QED
    BY <2>1, <2>2, <2>3, <2>4, <2>5, <2>6, <2>7, <2>8 DEF Travel!TravelNext
<1> HIDE DEF Promise
<1>3. Travel!TravelSpec => []Promise
  BY <1>1, <1>2, PTL DEF Travel!TravelSpec
<1> QED BY <1>3 DEF Promise

-----------------------------------------------------------------------------
(***************************************************************************)
(* The page number.                                                        *)
(***************************************************************************)
\* A multiple of the divisor changes no remainder.
LEMMA RemainderShifts ==
    ASSUME NEW x \in Nat, NEW k \in Nat, NEW d \in Nat \ {0}
    PROVE  (d * k + x) % d = x % d
<1> DEFINE q == x \div d
           r == x % d
           u == (d * k + x) \div d
           s == (d * k + x) % d
<1>1. q \in Nat /\ r \in Nat /\ r < d /\ x = d * q + r
  OBVIOUS
<1>2. d * k \in Nat
  BY SMT
<1>3. u \in Nat /\ s \in Nat /\ s < d /\ d * k + x = d * u + s
  BY <1>2
<1> HIDE DEF q, r, u, s
<1>4. d * (k + q) + r = d * u + s
  BY <1>1, <1>3
<1>5. k + q = u
  <2>1. CASE k + q < u
    <3>1. u = (k + q) + 1 + (u - (k + q) - 1) /\ u - (k + q) - 1 \in Nat
      BY <2>1, <1>1, <1>3
    <3>2. d * u = d * (k + q) + d + d * (u - (k + q) - 1) /\ d * (u - (k + q) - 1) \in Nat
      BY <3>1, <1>1, <1>3
    <3> QED BY <3>2, <1>1, <1>3, <1>4
  <2>2. CASE k + q > u
    <3>1. k + q = u + 1 + ((k + q) - u - 1) /\ (k + q) - u - 1 \in Nat
      BY <2>2, <1>1, <1>3
    <3>2. d * (k + q) = d * u + d + d * ((k + q) - u - 1) /\ d * ((k + q) - u - 1) \in Nat
      BY <3>1, <1>1, <1>3
    <3> QED BY <3>2, <1>1, <1>3, <1>4
  <2> QED BY <2>1, <2>2, <1>1, <1>3
<1>6. d * (k + q) \in Int
  BY <1>1
<1>7. r = s
  BY <1>1, <1>3, <1>4, <1>5, <1>6
<1> QED BY <1>7 DEF r, s

\* A factor may be reduced before the product is.
ReducedFirst(a, b, c, d) == (c * (a % d) + b) % d = (c * a + b) % d

LEMMA RemainderFirst ==
    ASSUME NEW a \in Nat, NEW b \in Nat, NEW c \in Nat, NEW d \in Nat \ {0}
    PROVE  ReducedFirst(a, b, c, d)
<1> DEFINE q == a \div d
           r == a % d
<1>1. q \in Nat /\ r \in Nat /\ a = d * q + r
  OBVIOUS
<1> HIDE DEF q, r
<1>2. c * a = d * (c * q) + c * r /\ c * q \in Nat /\ c * r \in Nat
  <2>1. c * q \in Nat /\ c * r \in Nat
    BY <1>1
  <2>2. c * a = c * (d * q) + c * r
    BY <1>1
  <2>3. c * (d * q) = d * (c * q)
    BY <1>1
  <2> QED BY <2>1, <2>2, <2>3
<1>3. d * (c * q) \in Nat
  BY <1>2
<1>4. c * a + b = d * (c * q) + (c * r + b)
  <2> DEFINE x == c * a
             y == d * (c * q)
             z == c * r
  <2>1. x = y + z /\ x \in Nat /\ y \in Nat /\ z \in Nat
    BY <1>2, <1>3
  <2> HIDE DEF x, y, z
  <2>2. x + b = y + (z + b)
    BY <2>1
  <2> QED BY <2>2 DEF x, y, z
<1>5. (d * (c * q) + (c * r + b)) % d = (c * r + b) % d
  <2>1. c * r + b \in Nat
    BY <1>2
  <2> QED BY <1>2, <2>1, RemainderShifts
<1> QED BY <1>4, <1>5 DEF r, ReducedFirst

\* A halfword that is turned by few bits keeps the rest of a division and hands on
\* the quotient.
LEMMA TurnedHalf ==
    ASSUME NEW a \in Nat, NEW c \in Nat, NEW d \in Nat, a < 65536,
           \/ c = 4 /\ d = 16384
           \/ c = 16 /\ d = 4096
           \/ c = 64 /\ d = 1024
           \/ c = 256 /\ d = 256
    PROVE  \E q \in Nat, r \in Nat :
             /\ r < d /\ q < c /\ a = (d * q) + r
             /\ a \div d = q /\ (a * c) % 65536 = c * r
<1> DEFINE q == a \div d
           r == a % d
<1>1. q \in Nat /\ r \in Nat /\ r < d /\ a = (d * q) + r
  OBVIOUS
<1> HIDE DEF q, r
<1>2. q < c /\ (a * c) % 65536 = c * r
  <2>1. CASE c = 4 /\ d = 16384
    BY <1>1, <2>1
  <2>2. CASE c = 16 /\ d = 4096
    BY <1>1, <2>2
  <2>3. CASE c = 64 /\ d = 1024
    BY <1>1, <2>3
  <2>4. CASE c = 256 /\ d = 256
    BY <1>1, <2>4
  <2> QED BY <2>1, <2>2, <2>3, <2>4
<1> QED BY <1>1, <1>2 DEF q

\* Two halfwords turned in each other are the word rotated; c is 2 ^ n and d what is
\* left of 65536.
Turned(a, b, c, d) ==
    65536 * (((a * c) % 65536) + (b \div d)) + (((b * c) % 65536) + (a \div d))
      = (((65536 * a + b) * c) % 4294967296) + ((65536 * a + b) \div (65536 * d))

LEMMA TurnedWord ==
    ASSUME NEW a \in Nat, NEW b \in Nat, NEW c \in Nat, NEW d \in Nat,
           a < 65536, b < 65536,
           \/ c = 4 /\ d = 16384
           \/ c = 16 /\ d = 4096
           \/ c = 64 /\ d = 1024
           \/ c = 256 /\ d = 256
    PROVE  Turned(a, b, c, d)
<1>1. PICK q \in Nat, r \in Nat :
         /\ r < d /\ q < c /\ a = (d * q) + r
         /\ a \div d = q /\ (a * c) % 65536 = c * r
  BY TurnedHalf
<1>2. PICK s \in Nat, t \in Nat :
         /\ t < d /\ s < c /\ b = (d * s) + t
         /\ b \div d = s /\ (b * c) % 65536 = c * t
  BY TurnedHalf
<1>3. /\ ((65536 * a + b) * c) % 4294967296 = 65536 * ((c * r) + s) + (c * t)
      /\ (65536 * a + b) \div (65536 * d) = q
  <2>1. CASE c = 4 /\ d = 16384
    BY <1>1, <1>2, <2>1
  <2>2. CASE c = 16 /\ d = 4096
    BY <1>1, <1>2, <2>2
  <2>3. CASE c = 64 /\ d = 1024
    BY <1>1, <1>2, <2>3
  <2>4. CASE c = 256 /\ d = 256
    BY <1>1, <1>2, <2>4
  <2> QED BY <2>1, <2>2, <2>3, <2>4
<1>4. c * r \in Nat /\ c * t \in Nat
  OBVIOUS
<1> QED BY <1>1, <1>2, <1>3, <1>4 DEF Turned

\* The words of the hash are rotated for the page as 32-bit integers are: of the
\* rotation left, the bits that leave at the top enter below (pbf-internal.h:25-27 and
\* the ports), although the model does it in halfwords.
THEOREM Rot32IsRotation ==
    ASSUME NEW w \in Halfword \X Halfword, NEW n \in {2, 4, 6, 8}
    PROVE  65536 * High(Rot32(w, n)) + Low(Rot32(w, n))
             = (((65536 * High(w) + Low(w)) * 2 ^ n) % 4294967296)
                 + ((65536 * High(w) + Low(w)) \div 2 ^ (32 - n))
<1> DEFINE a == High(w)
           b == Low(w)
           c == 2 ^ n
           d == 2 ^ (16 - n)
<1>1. a \in Nat /\ b \in Nat /\ a < 65536 /\ b < 65536
  <2>1. w[1] \in Halfword /\ w[2] \in Halfword
    OBVIOUS
  <2> QED BY <2>1 DEF High, Low, Halfword
<1>2. /\ High(Rot32(w, n)) = ((a * c) % 65536) + (b \div d)
      /\ Low(Rot32(w, n)) = ((b * c) % 65536) + (a \div d)
  BY DEF Rot32, High, Low
<1>3. /\ c \in Nat /\ d \in Nat /\ 2 ^ (32 - n) = 65536 * d
      /\ \/ c = 4 /\ d = 16384
         \/ c = 16 /\ d = 4096
         \/ c = 64 /\ d = 1024
         \/ c = 256 /\ d = 256
  <2>1. /\ 2^2 = 4 /\ 2^4 = 16 /\ 2^6 = 64 /\ 2^8 = 256
        /\ 2^(16 - 2) = 16384 /\ 2^(16 - 4) = 4096 /\ 2^(16 - 6) = 1024 /\ 2^(16 - 8) = 256
        /\ 2^(32 - 2) = 65536 * 16384 /\ 2^(32 - 4) = 65536 * 4096
        /\ 2^(32 - 6) = 65536 * 1024 /\ 2^(32 - 8) = 65536 * 256
    OBVIOUS
  <2>2. CASE n = 2
    BY <2>1, <2>2
  <2>3. CASE n = 4
    BY <2>1, <2>3
  <2>4. CASE n = 6
    BY <2>1, <2>4
  <2>5. CASE n = 8
    BY <2>1, <2>5
  <2> QED BY <2>2, <2>3, <2>4, <2>5
<1>4. 65536 * (((a * c) % 65536) + (b \div d)) + (((b * c) % 65536) + (a \div d))
        = (((65536 * a + b) * c) % 4294967296) + ((65536 * a + b) \div (65536 * d))
  <2> HIDE DEF a, b, c, d
  <2>1. Turned(a, b, c, d)
    BY <1>1, <1>3, TurnedWord
  <2> QED BY <2>1 DEF Turned
<1> HIDE DEF c, d
<1>5. 65536 * High(Rot32(w, n)) + Low(Rot32(w, n))
        = (((65536 * a + b) * c) % 4294967296) + ((65536 * a + b) \div (2 ^ (32 - n)))
  <2> HIDE DEF a, b
  <2> QED BY <1>2, <1>3, <1>4
<1> QED BY <1>5 DEF c

\* The page of a key is its page hash, an integer of 32 bits, modulo the page number
\* (pbf.h:99-106 and the ports), although the model computes it in halfwords.
THEOREM PageIsRemainder ==
    ASSUME NEW w \in Halfword \X Halfword, NEW num \in Nat \ {0}
    PROVE  Remainder(w, num) = (65536 * High(w) + Low(w)) % num
<1> DEFINE a == High(w)
           b == Low(w)
<1>1. a \in Nat /\ b \in Nat
  BY DEF High, Low, Halfword
<1> HIDE DEF a, b
<1> DEFINE c == 4096
           e == 16
<1>2. c \in Nat /\ e \in Nat /\ a % num \in Nat /\ 0 \in Nat
  BY <1>1
<1>3. e * (c * a) + b = 65536 * a + b
  BY <1>1
<1>4. Remainder(w, num) = (e * ((c * (a % num)) % num) + b) % num
  BY DEF Remainder, a, b
<1> HIDE DEF c, e
<1>5. (c * (a % num)) % num = (c * a) % num
  <2>1. ReducedFirst(a, 0, c, num)
    BY <1>1, <1>2, RemainderFirst, Zenon
  <2>2. (c * (a % num) + 0) % num = (c * a + 0) % num
    BY <2>1, Zenon DEF ReducedFirst
  <2>3. c * (a % num) \in Nat /\ c * a \in Nat
    BY <1>1, <1>2
  <2>4. \A x \in Nat : x + 0 = x
    OBVIOUS
  <2> QED BY <2>2, <2>3, <2>4, Zenon
<1>6. (e * ((c * a) % num) + b) % num = (e * (c * a) + b) % num
  <2>1. c * a \in Nat
    BY <1>1, <1>2
  <2>2. ReducedFirst(c * a, b, e, num)
    BY <1>1, <1>2, <2>1, RemainderFirst, Zenon
  <2> QED BY <2>2, Zenon DEF ReducedFirst
<1> QED BY <1>4, <1>5, <1>6, <1>3 DEF a, b

-----------------------------------------------------------------------------
(***************************************************************************)
(* The hash of PageFilter.  Exchange computes a page and eight halves from *)
(* four words; PageFilter takes any as given.                              *)
(***************************************************************************)
NativeHash ==
    [k \in Keys |-> [page |-> 65536 * High(PageHash[k]) + Low(PageHash[k]),
                     s    |-> [i \in 1..8 |-> Half(k, i)]]]

\* Of PageFilter only the probes are used here, in which no variable occurs.
Native == INSTANCE PageFilter WITH
              Handles <- {}, Hash <- NativeHash, Claims <- {},
              obj <- filter, saved <- file, reply <- home,
              keys <- filter.keys, start <- filter.bits

\* A slot is the bit its index counts from its page.
LEMMA SlotIsSum ==
    ASSUME NEW offset \in Nat, NEW idx \in Nat
    PROVE  Slot(offset, idx) = (8 * offset) + idx
<1>1. idx = (8 * (idx \div 8)) + (idx % 8) /\ idx \div 8 \in Nat /\ idx % 8 \in Nat
  OBVIOUS
<1> QED BY <1>1 DEF Slot

\* Every port probes, for a key and a layout, the very bits that the model of the
\* native core does for the hash made of the same words; and that hash is one the
\* theorems of PageFilter cover (pbf-internal.h:33-75, pbf.cc:33-62 and the ports).
THEOREM PortsProbeAsCore ==
    /\ Native!HashAssumption
    /\ \A p \in Ports, k \in Keys, way \in 4..8, level \in 6..13, num \in Nat \ {0} :
          SlotsIn(p, k, Filter(way, level, num, 0, {}, {})) = Native!Probes(k, way, level, num)
<1>1. \A k \in Keys :
        /\ NativeHash[k].page = 65536 * High(PageHash[k]) + Low(PageHash[k])
        /\ \A i \in 1..8 : NativeHash[k].s[i] = Half(k, i)
  BY SMT DEF NativeHash
<1>2. Native!HashAssumption
  BY PageWordNat, HalvesNat DEF Native!HashAssumption, NativeHash
<1>3. ASSUME NEW p \in Ports, NEW k \in Keys, NEW way \in 4..8, NEW level \in 6..13,
             NEW num \in Nat \ {0}
      PROVE  SlotsIn(p, k, Filter(way, level, num, 0, {}, {})) = Native!Probes(k, way, level, num)
  <2> DEFINE f == Filter(way, level, num, 0, {}, {})
             page == Remainder(PageHash[k], num)
             b == PageSize(level)
             x(i) == Half(k, i) % PageBits(level)
  <2>1. f.way = way /\ f.level = level /\ f.num = num
    BY DEF Filter
  <2>2. SlotsIn(p, k, f) = {Slot(page * b, x(i)) : i \in 1..way}
    <3> HIDE DEF f
    <3>1. SlotsIn(p, k, f) = CoreSlots(k, f)
      BY <2>1, SamePlaces
    <3> QED BY <2>1, <3>1, Zenon DEF CoreSlots, Slots, Masked
  <2>3. page \in Nat /\ b \in Nat \ {0} /\ PageBits(level) = b * 8
    BY PageBelow, PageSizes
  <2>4. page = Native!PageOf(k, num)
    <3>1. page = (65536 * High(PageHash[k]) + Low(PageHash[k])) % num
      BY PageWord, PageIsRemainder
    <3> QED BY <1>1, <3>1, SMT DEF Native!PageOf
  <2>5. ASSUME NEW i \in 1..way
        PROVE  Slot(page * b, x(i)) = Native!Probe(k, i, level, num)
    <3>1. i \in 1..8
      OBVIOUS
    <3>2. x(i) = NativeHash[k].s[i] % PageBits(level)
      BY <1>1, <3>1, SMT
    <3>3. x(i) \in Nat
      BY <2>3, <3>1, HalvesNat
    <3>4. Native!Probe(k, i, level, num) = (page * PageBits(level)) + x(i)
      BY <2>4, <3>2, Zenon DEF Native!Probe, Native!PageBits, Native!PageSize, PageBits, PageSize
    <3> HIDE DEF x, page, b
    <3>5. page * b \in Nat /\ page * (b * 8) = 8 * (page * b)
      BY <2>3
    <3> QED BY <2>3, <3>3, <3>4, <3>5, SlotIsSum
  <2>6. Native!Probes(k, way, level, num) = {Native!Probe(k, i, level, num) : i \in 1..way}
    BY Zenon DEF Native!Probes
  <2> HIDE DEF x, page
  <2> QED BY <2>2, <2>5, <2>6
<1> QED BY <1>2, <1>3
=============================================================================
