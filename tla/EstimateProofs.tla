---------------------------- MODULE EstimateProofs ----------------------------
(***************************************************************************)
(* Proofs about the sizing of filters: for every rate and every number of  *)
(* bytes.  The selectors are piecewise constant, so each is first brought  *)
(* to its thresholds (BestWays, RoundedWays, Levels); what a request comes *)
(* to follows by arithmetic on each piece.                                 *)
(***************************************************************************)
EXTENDS Estimate, FiniteSetTheorems, TLAPS

LEMMA Powers ==
    /\ 2^0 = 1 /\ 2^1 = 2 /\ 2^2 = 4 /\ 2^3 = 8 /\ 2^4 = 16 /\ 2^5 = 32
    /\ 2^6 = 64 /\ 2^7 = 128 /\ 2^8 = 256 /\ 2^9 = 512 /\ 2^10 = 1024
    /\ 2^11 = 2048 /\ 2^12 = 4096 /\ 2^13 = 8192 /\ 2^14 = 16384 /\ 2^15 = 32768
OBVIOUS

\* Powers of two grow with the exponent.
LEMMA PowersGrow ==
    \A a, b \in 0..15 : 2^a \in Nat /\ (a <= b => 2^a <= 2^b)
<1> DEFINE P(a) == 2^a
<1>1. /\ P(0) = 1 /\ P(1) = 2 /\ P(2) = 4 /\ P(3) = 8 /\ P(4) = 16 /\ P(5) = 32
      /\ P(6) = 64 /\ P(7) = 128 /\ P(8) = 256 /\ P(9) = 512 /\ P(10) = 1024
      /\ P(11) = 2048 /\ P(12) = 4096 /\ P(13) = 8192 /\ P(14) = 16384 /\ P(15) = 32768
  BY Powers
<1> HIDE DEF P
<1>2. ASSUME NEW a \in 0..15
      PROVE  P(a) \in Nat
  BY <1>1, <1>2
<1>3. ASSUME NEW a \in 0..15, NEW b \in 0..15, a <= b
      PROVE  P(a) <= P(b)
  BY <1>1, <1>3
<1> QED
  BY <1>2, <1>3 DEF P

-----------------------------------------------------------------------------
(***************************************************************************)
(* The number of ways.                                                     *)
(***************************************************************************)
WaysAt(c) == IF c <= 78 THEN 8 ELSE IF c <= 157 THEN 7 ELSE IF c <= 317 THEN 6
             ELSE IF c <= 645 THEN 5 ELSE 4
RoundedAt(c) == IF c <= 55 THEN 8 ELSE IF c <= 110 THEN 7 ELSE IF c <= 220 THEN 6
                ELSE IF c <= 441 THEN 5 ELSE 4

LEMMA Clamped ==
    ASSUME NEW p \in Nat
    PROVE  Clamp(p) \in 5..1000
BY DEF Clamp

LEMMA HighBits ==
    ASSUME NEW n \in Nat, NEW i \in 4..11, 2^i <= n, n < 2^(i + 1)
    PROVE  HighBit(n) = i
<1> DEFINE Is(k) == /\ n < 2^(k + 1)
                    /\ \A j \in 1..(k - 1) : n >= 2^(j + 1)
<1>1. Is(i)
  <2>1. ASSUME NEW j \in 1..(i - 1)
        PROVE  n >= 2^(j + 1)
    <3>1. j + 1 \in 0..15 /\ i \in 0..15 /\ j + 1 <= i
      OBVIOUS
    <3>2. 2^(j + 1) <= 2^i /\ 2^(j + 1) \in Nat /\ 2^i \in Nat
      BY <3>1, PowersGrow
    <3> QED
      BY <3>2
  <2> QED
    BY <2>1
<1>2. ASSUME NEW k \in 1..31, Is(k)
      PROVE  k = i
  <2>1. CASE k < i
    <3>1. k + 1 \in 0..15 /\ i \in 0..15 /\ k + 1 <= i
      BY <2>1
    <3>2. 2^(k + 1) <= 2^i /\ 2^(k + 1) \in Nat /\ 2^i \in Nat
      BY <3>1, PowersGrow
    <3> QED
      BY <1>2, <3>2
  <2>2. CASE k > i
    <3>1. i \in 1..(k - 1) /\ i + 1 \in 0..15
      BY <2>2
    <3>2. n >= 2^(i + 1) /\ 2^(i + 1) \in Nat
      BY <1>2, <3>1, PowersGrow
    <3> QED
      BY <3>2
  <2> QED
    BY <2>1, <2>2
<1>3. i \in 1..31
  OBVIOUS
<1>4. (CHOOSE k \in 1..31 : Is(k)) = i
  <2> HIDE DEF Is
  <2> QED
    BY <1>1, <1>2, <1>3
<1> QED
  BY <1>4 DEF HighBit

LEMMA BestWays ==
    ASSUME NEW p \in Nat
    PROVE  BestWay(p) = WaysAt(Clamp(p))
<1> DEFINE c == Clamp(p)
           q == 20000 \div c
           n == q + 1
           i == HighBit(n)
<1>1. c \in 5..1000
  BY Clamped, SMTT(30)
<1> HIDE DEF c
<1>2. q \in Nat /\ q * c <= 20000 /\ (q + 1) * c > 20000
  BY <1>1
<1> HIDE DEF q
<1>3. \A k \in Nat : /\ k <= q => k * c <= 20000
                    /\ k > q => k * c > 20000
  <2> TAKE k \in Nat
  <2>1. CASE k <= q
    <3>1. k * c <= q * c
      BY <1>1, <1>2, <2>1
    <3> QED
      BY <1>1, <1>2, <2>1, <3>1
  <2>2. CASE k > q
    <3>1. k * c >= (q + 1) * c
      BY <1>1, <1>2, <2>2
    <3> QED
      BY <1>1, <1>2, <2>2, <3>1
  <2> QED
    BY <1>2, <2>1, <2>2
<1>4. /\ q >= 20 /\ q <= 4000
      /\ q >= 31 <=> c <= 645
      /\ q >= 63 <=> c <= 317
      /\ q >= 127 <=> c <= 157
      /\ q >= 255 <=> c <= 78
  <2>1. q >= 20 <=> 20 * c <= 20000
    BY <1>1, <1>2, <1>3
  <2>2. q >= 4001 <=> 4001 * c <= 20000
    BY <1>1, <1>2, <1>3
  <2>3. q >= 31 <=> 31 * c <= 20000
    BY <1>1, <1>2, <1>3
  <2>4. q >= 63 <=> 63 * c <= 20000
    BY <1>1, <1>2, <1>3
  <2>5. q >= 127 <=> 127 * c <= 20000
    BY <1>1, <1>2, <1>3
  <2>6. q >= 255 <=> 255 * c <= 20000
    BY <1>1, <1>2, <1>3
  <2> QED
    BY <1>1, <1>2, <2>1, <2>2, <2>3, <2>4, <2>5, <2>6
<1>5. n \in Nat /\ n >= 21 /\ n <= 4001
  BY <1>2, <1>4
<1>6. \E k \in 4..11 : 2^k <= n /\ n < 2^(k + 1)
  <2>1. /\ 2^4 = 16 /\ 2^(4 + 1) = 32 /\ 2^5 = 32 /\ 2^(5 + 1) = 64
        /\ 2^6 = 64 /\ 2^(6 + 1) = 128 /\ 2^7 = 128 /\ 2^(7 + 1) = 256
        /\ 2^8 = 256 /\ 2^(8 + 1) = 512 /\ 2^9 = 512 /\ 2^(9 + 1) = 1024
        /\ 2^10 = 1024 /\ 2^(10 + 1) = 2048 /\ 2^11 = 2048 /\ 2^(11 + 1) = 4096
    OBVIOUS
  <2> HIDE DEF n
  <2> QED
    BY <1>5, <2>1
<1>7. PICK k \in 4..11 : 2^k <= n /\ n < 2^(k + 1)
  BY <1>6
<1>8. i = k
  <2> HIDE DEF i
  <2>1. HighBit(n) = k
    <3> HIDE DEF n
    <3>1. n \in Nat /\ k \in 4..11 /\ 2^k <= n /\ n < 2^(k + 1)
      BY <1>5, <1>7
    <3> QED
      BY <3>1, HighBits
  <2> QED
    BY <2>1 DEF i
<1> HIDE DEF i
<1>9. /\ n >= 32 <=> k >= 5
      /\ n >= 64 <=> k >= 6
      /\ n >= 128 <=> k >= 7
      /\ n >= 256 <=> k >= 8
  <2>1. /\ 2^5 = 32 /\ 2^6 = 64 /\ 2^7 = 128 /\ 2^8 = 256
    OBVIOUS
  <2>2. \A a \in {5, 6, 7, 8} : 2^a \in Nat /\ (n >= 2^a <=> k >= a)
    <3> TAKE a \in {5, 6, 7, 8}
    <3>1. a \in 0..15 /\ k \in 0..15 /\ k + 1 \in 0..15
      OBVIOUS
    <3>2. /\ 2^a \in Nat /\ 2^k \in Nat /\ 2^(k + 1) \in Nat
          /\ a <= k => 2^a <= 2^k
          /\ k + 1 <= a => 2^(k + 1) <= 2^a
      BY <3>1, PowersGrow
    <3> HIDE DEF n
    <3> QED
      BY <1>5, <1>7, <3>1, <3>2
  <2> HIDE DEF n
  <2> QED
    BY <1>5, <2>1, <2>2
<1>10. BestWay(p) = IF i < 4 THEN 4 ELSE IF i > 8 THEN 8 ELSE i
  BY DEF BestWay, i, q, c
<1> QED
  BY <1>1, <1>2, <1>4, <1>8, <1>9, <1>10 DEF WaysAt, c

LEMMA RoundedWays ==
    ASSUME NEW p \in Nat
    PROVE  RoundedWay(p) = RoundedAt(Clamp(p))
<1> DEFINE c == Clamp(p)
           S == {k \in 4..7 : Reaches(c, k)}
           m == RoundedAt(c) - 1
<1>1. c \in 5..1000
  BY Clamped, SMTT(30)
<1> HIDE DEF c
<1>2. m \in 3..7
  BY <1>1 DEF RoundedAt
<1>3. /\ Reaches(c, 4) <=> c * c <= 195312
      /\ Reaches(c, 5) <=> c * c <= 48828
      /\ Reaches(c, 6) <=> c * c <= 12207
      /\ Reaches(c, 7) <=> c * c <= 3051
  <2>1. /\ 100000000 \div 2^(2 * 4 + 1) = 195312
        /\ 100000000 \div 2^(2 * 5 + 1) = 48828
        /\ 100000000 \div 2^(2 * 6 + 1) = 12207
        /\ 100000000 \div 2^(2 * 7 + 1) = 3051
    OBVIOUS
  <2> QED
    BY <2>1 DEF Reaches
<1>4. \A d \in Nat : /\ c <= d => c * c <= d * d
                    /\ c >= d => c * c >= d * d
  BY <1>1
<1>5. /\ c <= 441 => c * c <= 441 * 441
      /\ c >= 442 => c * c >= 442 * 442
      /\ c <= 220 => c * c <= 220 * 220
      /\ c >= 221 => c * c >= 221 * 221
      /\ c <= 110 => c * c <= 110 * 110
      /\ c >= 111 => c * c >= 111 * 111
      /\ c <= 55 => c * c <= 55 * 55
      /\ c >= 56 => c * c >= 56 * 56
      /\ c * c \in Nat
  BY <1>1, <1>4
<1>6. S = 4..m
  <2>1. ASSUME NEW k \in 4..7
        PROVE  Reaches(c, k) <=> k <= m
    BY <1>1, <1>3, <1>5 DEF RoundedAt
  <2> HIDE DEF m
  <2> QED
    BY <1>2, <2>1
<1>7. Cardinality(S) = IF 4 > m THEN 0 ELSE m - 4 + 1
  <2> HIDE DEF S, m
  <2>1. 4 \in Int /\ m \in Int
    BY <1>2
  <2> QED
    BY <1>6, <2>1, FS_Interval
<1>8. RoundedWay(p) = 4 + Cardinality(S)
  BY DEF RoundedWay, c
<1>9. RoundedAt(c) = m + 1
  BY <1>1 DEF RoundedAt
<1> HIDE DEF S, m
<1> QED
  BY <1>2, <1>7, <1>8, <1>9 DEF c

-----------------------------------------------------------------------------
(***************************************************************************)
(* Levels and pages.                                                       *)
(***************************************************************************)
LEMMA FirstLevels ==
    ASSUME NEW n \in Nat
    PROVE  /\ FirstLevel(n) \in 6..12
           /\ FirstLevel(n) = 12 <=> n >= 32768
           /\ FirstLevel(n) = 6 <=> n < 1024
<1>1. 2^15 = 32768
  OBVIOUS
<1>2. CASE n >= 32768
  BY <1>1, <1>2 DEF FirstLevel
<1>3. CASE n < 32768
  <2> DEFINE Is(i) == n < 2^(i + 4) /\ \A j \in 6..(i - 1) : n >= 2^(j + 4)
             chosen == CHOOSE i \in 6..11 : Is(i)
  <2>1. \E i \in 6..11 : Is(i)
    <3>1. /\ 2^(6 + 4) = 1024 /\ 2^(7 + 4) = 2048 /\ 2^(8 + 4) = 4096
          /\ 2^(9 + 4) = 8192 /\ 2^(10 + 4) = 16384 /\ 2^(11 + 4) = 32768
      OBVIOUS
    <3>2. CASE n < 1024
      <4>1. Is(6)
        BY <3>1, <3>2
      <4> QED
        BY <4>1
    <3>3. CASE n >= 1024 /\ n < 2048
      <4>1. Is(7)
        BY <3>1, <3>3
      <4> QED
        BY <4>1
    <3>4. CASE n >= 2048 /\ n < 4096
      <4>1. Is(8)
        BY <3>1, <3>4
      <4> QED
        BY <4>1
    <3>5. CASE n >= 4096 /\ n < 8192
      <4>1. Is(9)
        BY <3>1, <3>5
      <4> QED
        BY <4>1
    <3>6. CASE n >= 8192 /\ n < 16384
      <4>1. Is(10)
        BY <3>1, <3>6
      <4> QED
        BY <4>1
    <3>7. CASE n >= 16384
      <4>1. Is(11)
        BY <1>3, <3>1, <3>7
      <4> QED
        BY <4>1
    <3> QED
      BY <3>2, <3>3, <3>4, <3>5, <3>6, <3>7
  <2>2. FirstLevel(n) = chosen
    <3>1. ~(n >= 2^15)
      BY <1>1, <1>3
    <3> QED
      BY <3>1, Zenon DEF FirstLevel
  <2>3. chosen \in 6..11 /\ Is(chosen)
    <3> HIDE DEF Is
    <3> QED
      BY <2>1
  <2> HIDE DEF chosen
  <2>4. chosen = 6 <=> n < 1024
    <3>1. 2^(6 + 4) = 1024
      OBVIOUS
    <3>2. CASE chosen = 6
      BY <2>3, <3>1, <3>2
    <3>3. CASE chosen # 6
      <4>1. 6 \in 6..(chosen - 1)
        BY <2>3, <3>3
      <4>2. n >= 2^(6 + 4)
        BY <2>3, <4>1, Zenon
      <4> QED
        BY <3>1, <3>3, <4>2
    <3> QED
      BY <3>2, <3>3
  <2> QED
    BY <1>3, <2>2, <2>3, <2>4
<1> QED
  BY <1>2, <1>3

\* One raise is enough, and the fraction decides on it as the bound does.
LEMMA Levels ==
    ASSUME NEW n \in Nat, NEW way \in 4..8
    PROVE  /\ Level(n, way) \in 6..12 /\ Level(n, way) >= MinLevel(way)
           /\ Level(n, way) # 12 => n < 32768
           /\ n >= 32768 => Level(n, way) = 12
           /\ LevelByFraction(n, way) = Level(n, way)
           /\ n >= 1024 => Level(n, way) = FirstLevel(n)
           /\ n < 1024 => Level(n, way) = IF way = 4 THEN 6 ELSE 7
<1> DEFINE l == FirstLevel(n)
<1>1. l \in 6..12 /\ (l = 12 <=> n >= 32768) /\ (l = 6 <=> n < 1024)
  BY FirstLevels
<1> HIDE DEF l
<1>2. \A w \in {4, 5, 6, 7, 8} :
         /\ MinLevel(w) = IF w = 4 THEN 6 ELSE 7
         /\ w * l < 8 * w - 8 <=> l < MinLevel(w)
  <2>1. /\ MinLevel(4) = 6 /\ MinLevel(5) = 7 /\ MinLevel(6) = 7
        /\ MinLevel(7) = 7 /\ MinLevel(8) = 7
    BY DEF MinLevel
  <2>2. /\ 4 * l < 8 * 4 - 8 <=> l < 6
        /\ 5 * l < 8 * 5 - 8 <=> l < 7
        /\ 6 * l < 8 * 6 - 8 <=> l < 7
        /\ 7 * l < 8 * 7 - 8 <=> l < 7
        /\ 8 * l < 8 * 8 - 8 <=> l < 7
    BY <1>1
  <2> QED
    BY <2>1, <2>2
<1>3. way \in {4, 5, 6, 7, 8}
  OBVIOUS
<1>4. /\ MinLevel(way) = IF way = 4 THEN 6 ELSE 7
      /\ way * l < 8 * way - 8 <=> l < MinLevel(way)
  BY <1>2, <1>3
<1>5. /\ Level(n, way) = IF l < MinLevel(way) THEN l + 1 ELSE l
      /\ LevelByFraction(n, way) = IF way * l < 8 * way - 8 THEN l + 1 ELSE l
  BY DEF Level, LevelByFraction, l
<1> QED
  BY <1>1, <1>4, <1>5 DEF l

LEMMA Rounded ==
    ASSUME NEW n \in Nat, NEW b \in {64, 128, 256, 512, 1024, 2048, 4096}
    PROVE  LET q == (n + b - 1) \div b
               num == IF q = 0 THEN 1 ELSE q
           IN  /\ num \in Nat \ {0}
               /\ num * b >= n
               /\ num > 1 => (num - 1) * b < n
               /\ n < 32768 => num <= 513
               /\ b = 4096 => (num >= 262144 <=> n > 262143 * 4096)
<1>1. CASE b = 64
  BY <1>1
<1>2. CASE b = 128
  BY <1>2
<1>3. CASE b = 256
  BY <1>3
<1>4. CASE b = 512
  BY <1>4
<1>5. CASE b = 1024
  BY <1>5
<1>6. CASE b = 2048
  BY <1>6
<1>7. CASE b = 4096
  BY <1>7
<1> QED
  BY <1>1, <1>2, <1>3, <1>4, <1>5, <1>6, <1>7

\* What a port chooses, given the ways.
LEMMA Sizing ==
    ASSUME NEW n \in Nat, NEW way \in 4..8
    PROVE  LET level == Level(n, way)
               num == Pages(n, level)
           IN  /\ num \in Nat \ {0} /\ PageSize(level) \in Nat
               /\ num * PageSize(level) >= n
               /\ num > 1 => (num - 1) * PageSize(level) < n
               /\ num >= kMaxPageNum <=> n > (kMaxPageNum - 1) * PageSize(12)
<1> DEFINE level == Level(n, way)
           b == PageSize(level)
           num == Pages(n, level)
<1>1. level \in 6..12 /\ (level # 12 => n < 32768)
  BY Levels
<1> HIDE DEF level
<1>2. /\ PageSize(6) = 64 /\ PageSize(7) = 128 /\ PageSize(8) = 256
      /\ PageSize(9) = 512 /\ PageSize(10) = 1024 /\ PageSize(11) = 2048
      /\ PageSize(12) = 4096
  BY DEF PageSize
<1>3. /\ b \in {64, 128, 256, 512, 1024, 2048, 4096}
      /\ b = 4096 <=> level = 12
  BY <1>1, <1>2
<1>4. num = LET q == (n + b - 1) \div b IN IF q = 0 THEN 1 ELSE q
  BY DEF Pages, AtLeastOne
<1> HIDE DEF b, num
<1>5. /\ num \in Nat \ {0}
      /\ num * b >= n
      /\ num > 1 => (num - 1) * b < n
      /\ n < 32768 => num <= 513
      /\ b = 4096 => (num >= 262144 <=> n > 262143 * 4096)
  BY <1>3, <1>4, Rounded
<1>6. num >= kMaxPageNum <=> n > (kMaxPageNum - 1) * PageSize(12)
  BY <1>1, <1>2, <1>3, <1>5 DEF kMaxPageNum
<1> QED
  BY <1>3, <1>5, <1>6 DEF b, num, level

-----------------------------------------------------------------------------
(***************************************************************************)
(* The specification.                                                      *)
(***************************************************************************)
\* The two selectors of the number of ways are in range and at most one apart.
LEMMA WaysApart ==
    ASSUME NEW p \in Nat
    PROVE  /\ BestWay(p) \in 4..8 /\ RoundedWay(p) \in 4..8
           /\ BestWay(p) - RoundedWay(p) \in 0..1
<1> DEFINE c == Clamp(p)
<1>0. c \in 5..1000
  BY Clamped, SMTT(30)
<1>1. BestWay(p) = WaysAt(c) /\ RoundedWay(p) = RoundedAt(c)
  BY BestWays, RoundedWays, Zenon
<1> HIDE DEF c
<1> QED
  BY <1>0, <1>1 DEF WaysAt, RoundedAt

-----------------------------------------------------------------------------
(***************************************************************************)
(* Words.  Sized is the choice with nothing left out of the sum; each port *)
(* makes it of what it counts.                                             *)
(***************************************************************************)
Sized(way, n) == Limited(way, Level(n, way), Pages(n, Level(n, way)))

\* What a constructor is given is refused or valid.
LEMMA ConstructedValid ==
    ASSUME NEW way, NEW level, NEW num,
           NEW x \in {Refused, Constructed(way, level, num)}, x # Refused
    PROVE  ValidLayout(x.way, x.level, x.num)
BY DEF Constructed

\* What is refused, and what a layout that is not refused looks like.
LEMMA SizedShape ==
    ASSUME NEW n \in Nat, NEW way \in 4..8
    PROVE  LET x == Sized(way, n)
               level == Level(n, way)
               num == Pages(n, level)
           IN  /\ x = Refused <=> n > MaxBytes
               /\ x # Refused => x = [way |-> way, level |-> level, num |-> num]
               /\ num >= kMaxPageNum <=> n > MaxBytes
<1> DEFINE level == Level(n, way)
           num == Pages(n, level)
           x == Sized(way, n)
<1>1. x = IF num >= kMaxPageNum THEN Refused ELSE Constructed(way, level, num)
  BY DEF Sized, Limited
<1>2. [way |-> way, level |-> level, num |-> num] # Refused
  <2> HIDE DEF level, num
  <2>1. [way |-> way, level |-> level, num |-> num].way # Refused.way
    BY DEF Refused
  <2> QED
    BY <2>1
<1>3. /\ num >= kMaxPageNum <=> n > MaxBytes
      /\ num \in Nat \ {0}
  BY Sizing DEF MaxBytes
<1>4. level \in 6..12 /\ level >= MinLevel(way)
  BY Levels
<1> HIDE DEF level, num, x
<1>5. num < kMaxPageNum => ValidLayout(way, level, num)
  BY <1>3, <1>4 DEF ValidLayout
<1>6. num < kMaxPageNum \/ num >= kMaxPageNum
  BY <1>3 DEF kMaxPageNum
<1> QED
  BY <1>1, <1>2, <1>3, <1>5, <1>6 DEF level, num, x, Constructed, kMaxPageNum

\* A page has at most 4096 bytes, and 4096 from 32768 bytes on.
LEMMA PageAtMost ==
    ASSUME NEW n \in Nat, NEW way \in 4..8
    PROVE  /\ PageSize(Level(n, way)) \in Nat
           /\ PageSize(Level(n, way)) > 0 /\ PageSize(Level(n, way)) <= 4096
           /\ n >= 32768 => Level(n, way) = 12 /\ PageSize(Level(n, way)) = 4096
<1> DEFINE level == Level(n, way)
<1>1. level \in 6..12 /\ (n >= 32768 => level = 12)
  BY Levels
<1> HIDE DEF level
<1>2. /\ PageSize(6) = 64 /\ PageSize(7) = 128 /\ PageSize(8) = 256
      /\ PageSize(9) = 512 /\ PageSize(10) = 1024 /\ PageSize(11) = 2048
      /\ PageSize(12) = 4096
  BY DEF PageSize
<1>3. PageSize(level) \in Nat /\ PageSize(level) > 0 /\ PageSize(level) <= 4096
  BY <1>1, <1>2
<1> QED
  BY <1>1, <1>2, <1>3 DEF level

\* The same in one predicate, for sizes and levels that are hidden.
PageOf(n, size) ==
    size \in Nat /\ size > 0 /\ size <= 4096 /\ (n >= 32768 => size = 4096)

LEMMA PageOfLevel ==
    ASSUME NEW n \in Nat, NEW way \in 4..8
    PROVE  PageOf(n, PageSize(Level(n, way)))
<1> DEFINE level == Level(n, way)
           size == PageSize(level)
<1>1. level \in 6..12 /\ (n >= 32768 => level = 12)
  BY Levels
<1> HIDE DEF level
<1>2. /\ PageSize(6) = 64 /\ PageSize(7) = 128 /\ PageSize(8) = 256
      /\ PageSize(9) = 512 /\ PageSize(10) = 1024 /\ PageSize(11) = 2048
      /\ PageSize(12) = 4096
  BY DEF PageSize
<1>3. size \in Nat /\ size > 0 /\ size <= 4096 /\ (level = 12 => size = 4096)
  BY <1>1, <1>2
<1> HIDE DEF size
<1>4. PageOf(n, size)
  BY <1>1, <1>3 DEF PageOf
<1> QED
  BY <1>4 DEF size, level

LEMMA SmallRemainder ==
    ASSUME NEW a \in Nat, NEW b \in Nat, a < b
    PROVE  a % b = a
OBVIOUS

LEMMA WrappedRemainder ==
    ASSUME NEW a \in Nat, NEW b \in Nat \ {0}, a < b
    PROVE  (a + b) % b = a
OBVIOUS

\* An unsigned word that holds the sum counts the pages.
LEMMA FitsCounts ==
    ASSUME NEW max \in Nat, NEW n \in Nat, NEW way \in 4..8, Fits(max, n)
    PROVE  SizedIn(max, way, n) = Sized(way, n)
<1> DEFINE level == Level(n, way)
           size == PageSize(level)
           sum == n + size - 1
<1>1. size \in Nat /\ size > 0 /\ size <= 4096
  BY PageAtMost
<1> HIDE DEF level, size
<1>2. sum \in Nat /\ sum < max + 1 /\ max + 1 \in Nat
  BY <1>1 DEF Fits
<1>3. sum % (max + 1) = sum
  <2> HIDE DEF sum
  <2> QED
    BY <1>2, SmallRemainder
<1>4. PagesIn(max, n, level) = Pages(n, level)
  BY <1>3 DEF PagesIn, Pages, size
<1> QED
  BY <1>4 DEF SizedIn, Sized, level

\* One that does not leaves less than a page.
LEMMA WrapsToOnePage ==
    ASSUME NEW max \in Nat, max >= kMaxPageNum * 4096,
           NEW n \in Nat, NEW way \in 4..8, n <= max, ~Fits(max, n)
    PROVE  SizedIn(max, way, n) = [way |-> way, level |-> 12, num |-> 1]
<1> DEFINE rest == n + 4095 - (max + 1)
<1>1. n >= 32768 /\ rest \in Nat /\ rest < 4096 /\ max + 1 \in Nat \ {0} /\ rest < max + 1
  BY DEF Fits, kMaxPageNum
<1>2. Level(n, way) = 12 /\ PageSize(12) = 4096
  BY <1>1, PageAtMost
<1>3. (rest + (max + 1)) % (max + 1) = rest
  <2> HIDE DEF rest
  <2> QED
    BY <1>1, WrappedRemainder
<1>4. n + 4096 - 1 = rest + (max + 1)
  OBVIOUS
<1>5. (n + 4096 - 1) % (max + 1) = rest
  BY <1>3, <1>4
<1>6. rest \div 4096 = 0
  <2> HIDE DEF rest
  <2> QED
    BY <1>1
<1>7. PagesIn(max, n, 12) = 1
  BY <1>2, <1>5, <1>6 DEF PagesIn, AtLeastOne
<1>8. ValidLayout(way, 12, 1)
  <2>1. MinLevel(way) <= 12
    BY <1>2, Levels
  <2> QED
    BY <2>1 DEF ValidLayout, kMaxPageNum
<1> QED
  BY <1>2, <1>7, <1>8 DEF SizedIn, Limited, Constructed, kMaxPageNum

\* A multiple leaves no remainder.
Multiple(a, b) == \E q \in Nat : a = q * b

LEMMA NoRemainder ==
    ASSUME NEW a \in Nat, NEW b \in Nat \ {0}, (a % b) = 0
    PROVE  Multiple(a, b)
<1>1. a \div b \in Nat /\ a = b * (a \div b) + (a % b)
  OBVIOUS
<1>2. a = (a \div b) * b
  BY <1>1
<1> QED
  BY <1>1, <1>2 DEF Multiple

LEMMA MultipleRemainder ==
    ASSUME NEW t \in Int, NEW b \in Nat \ {0}
    PROVE  (t * b) % b = 0
<1> DEFINE d == (t * b) \div b
           r == (t * b) % b
<1>1. t * b \in Int
  OBVIOUS
<1>2. d \in Int /\ r \in Nat /\ r < b /\ t * b = b * d + r
  BY <1>1
<1> HIDE DEF d, r
<1>3. r = b * (t - d)
  BY <1>2
<1>4. t - d < 1
  <2>1. ASSUME t - d >= 1
        PROVE  b * (t - d) >= b
    BY <1>2, <2>1
  <2> QED
    BY <1>2, <1>3, <2>1
<1>5. t - d > -1
  <2>1. ASSUME t - d <= -1
        PROVE  b * (t - d) <= -b
    BY <1>2, <2>1
  <2> QED
    BY <1>2, <1>3, <2>1
<1>6. t - d = 0
  BY <1>2, <1>4, <1>5
<1> QED
  BY <1>2, <1>3, <1>6 DEF r

\* A sum that turns negative counts pages whose number is cast to zero.
LEMMA NegativePages ==
    ASSUME NEW n \in Nat, n <= LongMax, n + 4095 > LongMax
    PROVE  LET num == AtLeastOne(((n + 4095 - LongMax - 1) - LongMax - 1) \div 4096)
           IN  num \in Int /\ num < 0 /\ num % IntValues = 0
<1> DEFINE r == n + 4095 - LongMax - 1
<1>1. /\ LongMax \in Nat /\ IntValues \in Nat \ {0}
      /\ (LongMax + 1) % (IntValues * 4096) = 0
  BY WidthAssumption DEF kMaxPageNum
<1>2. PICK k \in Nat : LongMax + 1 = k * (IntValues * 4096)
  <2> DEFINE a == LongMax + 1
             b == IntValues * 4096
  <2>1. a \in Nat /\ b \in Nat \ {0} /\ a % b = 0
    BY <1>1
  <2> HIDE DEF a, b
  <2>2. Multiple(a, b)
    BY <2>1, NoRemainder
  <2> QED
    BY <2>2 DEF Multiple, a, b
<1> DEFINE t == k * IntValues
<1>3. t \in Nat /\ LongMax + 1 = t * 4096
  BY <1>1, <1>2
<1>4. (-k) * IntValues = -t /\ ((-k) * IntValues) % IntValues = 0
  <2>1. -k \in Int
    OBVIOUS
  <2>2. ((-k) * IntValues) % IntValues = 0
    BY <1>1, <2>1, MultipleRemainder
  <2> QED
    BY <1>1, <2>2
<1>5. (-t) % IntValues = 0
  BY <1>4
<1> HIDE DEF t
<1>6. r \in Nat /\ r < 4096
  BY <1>1
<1> HIDE DEF r
<1>7. (r - t * 4096) \div 4096 = -t
  BY <1>3, <1>6
<1>8. (n + 4095 - LongMax - 1) - LongMax - 1 = r - t * 4096
  BY <1>1, <1>3 DEF r
<1>9. t > 0
  BY <1>1, <1>3
<1> QED
  BY <1>3, <1>5, <1>7, <1>8, <1>9 DEF AtLeastOne

\* A signed word counts the pages of every one of its values, or refuses them.
LEMMA LongCounts ==
    ASSUME NEW n \in Nat, NEW way \in 4..8, n <= LongMax
    PROVE  SizedInLong(way, n) = Sized(way, n)
<1> DEFINE level == Level(n, way)
           size == PageSize(level)
           sum == n + size - 1
           num == Pages(n, level)
<1>1. size \in Nat /\ size > 0 /\ size <= 4096
  BY PageAtMost
<1>2. num \in Nat \ {0}
  BY Sizing
<1>3. LongMax \in Nat /\ LongMax >= kMaxPageNum * 4096 /\ IntValues \in Nat
      /\ IntValues > kMaxPageNum
  BY WidthAssumption
<1>4. CASE sum <= LongMax
  <2>1. LongPages(n, level) = num
    <3>1. LongSum(n, level) = sum
      BY <1>1, <1>3, <1>4 DEF LongSum
    <3> QED
      BY <3>1 DEF LongPages, Pages
  <2>2. num < kMaxPageNum => num % IntValues = num
    <3> HIDE DEF num
    <3>1. num < kMaxPageNum => num < IntValues
      BY <1>2, <1>3 DEF kMaxPageNum
    <3> QED
      BY <1>2, <1>3, <3>1, SmallRemainder
  <2>3. num < kMaxPageNum \/ num >= kMaxPageNum
    BY <1>2 DEF kMaxPageNum
  <2> HIDE DEF num, level
  <2>4. SizedInLong(way, n) = IF num >= kMaxPageNum THEN Refused
                              ELSE Constructed(way, level, num % IntValues)
    BY <2>1 DEF SizedInLong, level
  <2>5. Sized(way, n) = IF num >= kMaxPageNum THEN Refused
                        ELSE Constructed(way, level, num)
    BY DEF Sized, Limited, num, level
  <2> QED
    BY <2>2, <2>3, <2>4, <2>5
<1>5. CASE sum > LongMax
  <2>1. n >= 32768 /\ n > MaxBytes /\ n + 4095 > LongMax
    <3>1. MaxBytes = 262143 * 4096
      BY DEF MaxBytes, kMaxPageNum, PageSize
    <3> HIDE DEF size
    <3> QED
      BY <1>1, <1>3, <1>5, <3>1 DEF kMaxPageNum
  <2>2. level = 12 /\ size = 4096
    BY <2>1, PageAtMost
  <2>3. LongPages(n, level) = AtLeastOne(((n + 4095 - LongMax - 1) - LongMax - 1) \div 4096)
    <3>1. LongSum(n, level) = (n + 4095 - LongMax - 1) - LongMax - 1
      BY <1>3, <1>5, <2>2 DEF LongSum
    <3> QED
      BY <2>2, <3>1 DEF LongPages
  <2> DEFINE m == LongPages(n, level)
  <2>4. m \in Int /\ m < 0 /\ m % IntValues = 0
    BY <2>1, <2>3, NegativePages
  <2>5. SizedInLong(way, n) = IF m >= kMaxPageNum THEN Refused
                              ELSE Constructed(way, level, m % IntValues)
    BY DEF SizedInLong
  <2> HIDE DEF m
  <2>6. SizedInLong(way, n) = Refused
    BY <2>4, <2>5 DEF Constructed, ValidLayout, kMaxPageNum
  <2>7. Sized(way, n) = Refused
    BY <2>1, SizedShape
  <2> QED
    BY <2>6, <2>7
<1> QED
  BY <1>1, <1>3, <1>4, <1>5
-----------------------------------------------------------------------------
(***************************************************************************)
(* The inductive invariant: the layout is Sized for some number of ways    *)
(* that the rate allows, whatever the port, if it counts the pages of the  *)
(* request; one page where the sum wraps; and whatever it is, refused or   *)
(* valid.                                                                  *)
(***************************************************************************)
SizedFor(p, n, x) ==
    \E way \in 4..8 : BestWay(p) - way \in 0..1 /\ x = Sized(way, n)

Right(name, p, n, x) ==
    /\ Counted(name, n) => SizedFor(p, n, x)
    /\ Wrapped(name, n) => x # Refused /\ x.level = 12 /\ x.num = 1
    /\ x # Refused => ValidLayout(x.way, x.level, x.num)

IInv ==
    \/ port = "none" /\ layout = Refused
    \/ port # "none" /\ rate \in Nat /\ bytes \in Nat /\ Right(port, rate, bytes, layout)

LEMMA Sized2 ==
    ASSUME NEW p \in Nat, NEW n \in Nat
    PROVE  /\ SizedFor(p, n, Sized(BestWay(p), n))
           /\ SizedFor(p, n, Sized(RoundedWay(p), n))
<1>1. /\ BestWay(p) \in 4..8 /\ RoundedWay(p) \in 4..8
      /\ BestWay(p) - RoundedWay(p) \in 0..1 /\ BestWay(p) - BestWay(p) \in 0..1
  BY WaysApart
<1> QED
  BY <1>1 DEF SizedFor

\* What any size and any conversion comes to is refused or valid.
LEMMA SizesValid ==
    ASSUME NEW max, NEW way, NEW m,
           NEW x \in {SizedIn(max, way, m), SizedInLong(way, m),
                       SizedByFraction(way, m), Refused},
           x # Refused
    PROVE  ValidLayout(x.way, x.level, x.num)
<1>1. \E level, num : x \in {Refused, Constructed(way, level, num)}
  BY DEF SizedIn, SizedInLong, SizedByFraction, Limited
<1> QED
  BY <1>1, ConstructedValid

\* One page of 4096 bytes.
LEMMA OnePage ==
    ASSUME NEW max \in Nat, max >= kMaxPageNum * 4096,
           NEW n \in Nat, NEW way \in 4..8, n <= max, ~Fits(max, n)
    PROVE  LET x == SizedIn(max, way, n)
           IN  x # Refused /\ x.level = 12 /\ x.num = 1
<1>1. SizedIn(max, way, n) = [way |-> way, level |-> 12, num |-> 1]
  BY WrapsToOnePage
<1>2. Refused.num = 0
  BY DEF Refused
<1> QED
  BY <1>1, <1>2

LEMMA UnsignedRight ==
    ASSUME NEW max \in Nat, max >= kMaxPageNum * 4096, NEW p \in Nat, NEW n \in Nat,
           NEW way \in {BestWay(p), RoundedWay(p)}, n <= max
    PROVE  LET x == SizedIn(max, way, n)
           IN  /\ Fits(max, n) => SizedFor(p, n, x)
               /\ ~Fits(max, n) => x # Refused /\ x.level = 12 /\ x.num = 1
<1>1. way \in 4..8
  BY WaysApart
<1>2. Fits(max, n) => SizedIn(max, way, n) = Sized(way, n)
  BY <1>1, FitsCounts
<1>3. SizedFor(p, n, Sized(way, n))
  BY Sized2
<1> QED
  BY <1>1, <1>2, <1>3, OnePage

LEMMA CoreRight ==
    ASSUME NEW p \in Nat, NEW n \in Nat, NEW m \in Converted(SizeMax, n)
    PROVE  Right("core", p, n, Create(p, m))
<1> DEFINE x == Create(p, m)
<1>1. SizeMax \in Nat /\ SizeMax >= kMaxPageNum * 4096
  BY WidthAssumption
<1>2. x = SizedIn(SizeMax, BestWay(p), m)
  BY DEF Create
<1>3. x # Refused => ValidLayout(x.way, x.level, x.num)
  BY <1>2, SizesValid
<1>4. ASSUME n <= SizeMax
      PROVE  Right("core", p, n, x)
  <2>1. m = n
    BY <1>4 DEF Converted
  <2>2. /\ Fits(SizeMax, n) => SizedFor(p, n, x)
        /\ ~Fits(SizeMax, n) => x # Refused /\ x.level = 12 /\ x.num = 1
    BY <1>1, <1>2, <1>4, <2>1, UnsignedRight
  <2> HIDE DEF x
  <2> QED
    BY <1>3, <2>2 DEF Right, Counted, Wrapped
<1>5. ASSUME ~(n <= SizeMax)
      PROVE  Right("core", p, n, x)
  <2>1. ~Fits(SizeMax, n)
    BY <1>1, <1>5 DEF Fits
  <2> HIDE DEF x
  <2> QED
    BY <1>3, <1>5, <2>1 DEF Right, Counted, Wrapped
<1>6. Right("core", p, n, x)
  BY <1>4, <1>5
<1> QED
  BY <1>6 DEF x

LEMMA GoRight ==
    ASSUME NEW p \in Nat, NEW n \in Nat, NEW m \in Converted(Uint64Max, n)
    PROVE  Right("go", p, n, GoNew(p, m))
<1> DEFINE x == GoNew(p, m)
<1>1. Uint64Max \in Nat /\ Uint64Max >= kMaxPageNum * 4096
  BY WidthAssumption
<1>2. x = SizedIn(Uint64Max, RoundedWay(p), m)
  BY DEF GoNew
<1>3. x # Refused => ValidLayout(x.way, x.level, x.num)
  BY <1>2, SizesValid
<1>4. ASSUME n <= Uint64Max
      PROVE  Right("go", p, n, x)
  <2>1. m = n
    BY <1>4 DEF Converted
  <2>2. /\ Fits(Uint64Max, n) => SizedFor(p, n, x)
        /\ ~Fits(Uint64Max, n) => x # Refused /\ x.level = 12 /\ x.num = 1
    BY <1>1, <1>2, <1>4, <2>1, UnsignedRight
  <2> HIDE DEF x
  <2> QED
    BY <1>3, <2>2 DEF Right, Counted, Wrapped
<1>5. ASSUME ~(n <= Uint64Max)
      PROVE  Right("go", p, n, x)
  <2>1. ~Fits(Uint64Max, n)
    BY <1>1, <1>5 DEF Fits
  <2> HIDE DEF x
  <2> QED
    BY <1>3, <1>5, <2>1 DEF Right, Counted, Wrapped
<1>6. Right("go", p, n, x)
  BY <1>4, <1>5
<1> QED
  BY <1>6 DEF x

LEMMA RustRight ==
    ASSUME NEW p \in Nat, NEW n \in Nat
    PROVE  Right("rust", p, n, RustEstimate(p, Saturated(SizeMax, n)))
<1> DEFINE m == Saturated(SizeMax, n)
           x == RustEstimate(p, m)
<1>1. SizeMax \in Nat /\ SizeMax >= kMaxPageNum * 4096
  BY WidthAssumption
<1>2. m \in Nat /\ m <= SizeMax /\ (n <= SizeMax => m = n) /\ (n > SizeMax => m = SizeMax)
  BY <1>1 DEF Saturated
<1> HIDE DEF m
<1>3. x = SizedIn(SizeMax, BestWay(p), m)
  BY DEF RustEstimate
<1>4. x # Refused => ValidLayout(x.way, x.level, x.num)
  BY <1>3, SizesValid
<1>5. /\ Fits(SizeMax, m) => SizedFor(p, m, x)
      /\ ~Fits(SizeMax, m) => x # Refused /\ x.level = 12 /\ x.num = 1
  BY <1>1, <1>2, <1>3, UnsignedRight
<1>6. ~Fits(SizeMax, SizeMax) /\ (n > SizeMax => ~Fits(SizeMax, n))
  BY <1>1 DEF Fits
<1>7. n <= SizeMax \/ n > SizeMax
  BY <1>1
<1> HIDE DEF x
<1>8. Right("rust", p, n, x)
  BY <1>2, <1>4, <1>5, <1>6, <1>7 DEF Right, Counted, Wrapped
<1> QED
  BY <1>8 DEF x, m

LEMMA CheckedRight ==
    ASSUME NEW p \in Nat, NEW n \in Nat
    PROVE  Right("rust, debug", p, n, RustChecked(p, Saturated(SizeMax, n)))
<1> DEFINE m == Saturated(SizeMax, n)
           way == BestWay(p)
           size == PageSize(Level(m, way))
           x == RustChecked(p, m)
<1>1. SizeMax \in Nat /\ SizeMax >= kMaxPageNum * 4096 /\ way \in 4..8
  BY WidthAssumption, WaysApart
<1>2. m \in Nat /\ m <= SizeMax /\ (n <= SizeMax => m = n) /\ (n > SizeMax => m = SizeMax)
  BY <1>1 DEF Saturated
<1> HIDE DEF m, way
<1>3. size \in Nat /\ size > 0 /\ size <= 4096 /\ (m >= 32768 => size = 4096)
  <2>1. m \in Nat /\ way \in 4..8
    BY <1>1, <1>2
  <2>2. PageOf(m, size)
    BY <2>1, PageOfLevel, Zenon
  <2> QED
    BY <2>2 DEF PageOf
<1>4. x = IF m + size > SizeMax THEN Refused ELSE SizedIn(SizeMax, way, m)
  BY DEF RustChecked, RustEstimate, way
<1>5. MaxBytes = 262143 * 4096
  BY DEF MaxBytes, kMaxPageNum, PageSize
<1> HIDE DEF size
<1>6. ASSUME m + size > SizeMax
      PROVE  Right("rust, debug", p, n, x)
  <2>1. n > MaxBytes
    BY <1>1, <1>2, <1>3, <1>5, <1>6 DEF kMaxPageNum
  <2>2. Sized(way, n) = Refused /\ x = Refused
    BY <1>1, <1>4, <1>6, <2>1, SizedShape
  <2>3. SizedFor(p, n, x)
    BY <2>2, Sized2 DEF way
  <2> HIDE DEF x
  <2> QED
    BY <2>2, <2>3 DEF Right, Wrapped
<1>7. ASSUME ~(m + size > SizeMax)
      PROVE  Right("rust, debug", p, n, x)
  <2>1. m = n /\ Fits(SizeMax, n)
    BY <1>1, <1>2, <1>3, <1>7 DEF Fits, kMaxPageNum
  <2>2. x = SizedIn(SizeMax, way, n) /\ x = Sized(way, n)
    BY <1>1, <1>4, <1>7, <2>1, FitsCounts
  <2>3. SizedFor(p, n, x)
    BY <2>2, Sized2 DEF way
  <2>4. x # Refused => ValidLayout(x.way, x.level, x.num)
    BY <2>2, SizesValid
  <2> HIDE DEF x
  <2> QED
    BY <2>3, <2>4 DEF Right, Wrapped
<1>8. Right("rust, debug", p, n, x)
  BY <1>6, <1>7
<1> QED
  BY <1>8 DEF x, m

LEMMA JavaRight ==
    ASSUME NEW p \in Nat, NEW n \in Nat
    PROVE  Right("java", p, n, JavaNew(p, Saturated(LongMax, n)))
<1> DEFINE m == Saturated(LongMax, n)
           way == RoundedWay(p)
           x == JavaNew(p, m)
<1>1. LongMax \in Nat /\ LongMax >= kMaxPageNum * 4096 /\ way \in 4..8
  BY WidthAssumption, WaysApart
<1>2. m \in Nat /\ m <= LongMax /\ (n <= LongMax => m = n) /\ (n > LongMax => m = LongMax)
  BY <1>1 DEF Saturated
<1> HIDE DEF m, way
<1>3. x = SizedInLong(way, m)
  BY DEF JavaNew, way
<1>4. x = Sized(way, m)
  BY <1>1, <1>2, <1>3, LongCounts
<1>5. Sized(way, m) = Sized(way, n)
  <2>1. CASE n <= LongMax
    BY <1>2, <2>1
  <2>2. CASE n > LongMax
    <3>1. MaxBytes = 262143 * 4096
      BY DEF MaxBytes, kMaxPageNum, PageSize
    <3>2. m > MaxBytes /\ n > MaxBytes
      BY <1>1, <1>2, <2>2, <3>1 DEF kMaxPageNum
    <3> QED
      BY <1>1, <1>2, <3>2, SizedShape
  <2> QED
    BY <1>1, <2>1, <2>2
<1>6. SizedFor(p, n, x)
  BY <1>4, <1>5, Sized2 DEF way
<1>7. x # Refused => ValidLayout(x.way, x.level, x.num)
  BY <1>3, SizesValid
<1> HIDE DEF x
<1>8. Right("java", p, n, x)
  BY <1>6, <1>7 DEF Right, Wrapped
<1> QED
  BY <1>8 DEF x, m

LEMMA CsRight ==
    ASSUME NEW p \in Nat, NEW n \in Nat, NEW m \in ConvertedToLong(n)
    PROVE  Right("csharp", p, n, CsNew(p, m))
<1> DEFINE x == CsNew(p, m)
<1>1. x = SizedInLong(RoundedWay(p), m)
  BY DEF CsNew
<1>2. x # Refused => ValidLayout(x.way, x.level, x.num)
  BY <1>1, SizesValid
<1>3. n <= LongMax => SizedFor(p, n, x)
  <2>1. SUFFICES ASSUME n <= LongMax PROVE SizedFor(p, n, x)
    OBVIOUS
  <2>2. m = n
    BY <2>1 DEF ConvertedToLong
  <2>3. x = Sized(RoundedWay(p), n)
    BY <1>1, <2>1, <2>2, WaysApart, LongCounts
  <2> QED
    BY <2>3, Sized2
<1> HIDE DEF x
<1>4. Right("csharp", p, n, x)
  BY <1>2, <1>3 DEF Right, Counted, Wrapped
<1> QED
  BY <1>4 DEF x

LEMMA FractionRight ==
    ASSUME NEW p \in Nat, NEW n \in Nat, NEW name \in {"python", "typescript"}
    PROVE  Right(name, p, n, SizedByFraction(RoundedWay(p), n))
<1> DEFINE x == SizedByFraction(RoundedWay(p), n)
<1>1. x = Sized(RoundedWay(p), n)
  BY WaysApart, Levels DEF SizedByFraction, Sized
<1>2. SizedFor(p, n, x)
  BY <1>1, Sized2
<1>3. x # Refused => ValidLayout(x.way, x.level, x.num)
  BY SizesValid
<1> HIDE DEF x
<1>4. Right(name, p, n, x)
  BY <1>2, <1>3 DEF Right, Wrapped
<1> QED
  BY <1>4 DEF x

LEMMA AskedRight ==
    ASSUME Next
    PROVE  /\ port' # "none" /\ rate' \in Nat /\ bytes' \in Nat
           /\ Right(port', rate', bytes', layout')
<1>1. PICK p \in Rates, n \in Sizes :
         \/ \E m \in Converted(SizeMax, n) : Ask("core", p, n, Create(p, m))
         \/ Ask("rust", p, n, RustEstimate(p, Saturated(SizeMax, n)))
         \/ Ask("rust, debug", p, n, RustChecked(p, Saturated(SizeMax, n)))
         \/ \E m \in Converted(Uint64Max, n) : Ask("go", p, n, GoNew(p, m))
         \/ Ask("java", p, n, JavaNew(p, Saturated(LongMax, n)))
         \/ \E m \in ConvertedToLong(n) : Ask("csharp", p, n, CsNew(p, m))
         \/ Ask("python", p, n, PyCreate(p, n))
         \/ Ask("typescript", p, n, TsCreateLayout(p, n))
  BY DEF Next
<1>2. p \in Nat /\ n \in Nat
  BY RequestAssumption
<1>3. \A m \in Converted(SizeMax, n) : Right("core", p, n, Create(p, m))
  BY <1>2, CoreRight
<1>4. Right("rust", p, n, RustEstimate(p, Saturated(SizeMax, n)))
  BY <1>2, RustRight
<1>5. Right("rust, debug", p, n, RustChecked(p, Saturated(SizeMax, n)))
  BY <1>2, CheckedRight
<1>6. \A m \in Converted(Uint64Max, n) : Right("go", p, n, GoNew(p, m))
  BY <1>2, GoRight
<1>7. Right("java", p, n, JavaNew(p, Saturated(LongMax, n)))
  BY <1>2, JavaRight
<1>8. \A m \in ConvertedToLong(n) : Right("csharp", p, n, CsNew(p, m))
  BY <1>2, CsRight
<1>9. Right("python", p, n, PyCreate(p, n)) /\ Right("typescript", p, n, TsCreateLayout(p, n))
  BY <1>2, FractionRight DEF PyCreate, TsCreateLayout
<1>10. \E name, x : name # "none" /\ Ask(name, p, n, x) /\ Right(name, p, n, x)
  BY <1>1, <1>3, <1>4, <1>5, <1>6, <1>7, <1>8, <1>9
<1>11. PICK name, x : name # "none" /\ Ask(name, p, n, x) /\ Right(name, p, n, x)
  BY <1>10
<1>12. port' = name /\ rate' = p /\ bytes' = n /\ layout' = x
  BY <1>11 DEF Ask
<1> QED
  BY <1>2, <1>11, <1>12

LEMMA Invariance == Spec => []IInv
<1>1. Init => IInv
  BY DEF Init, IInv
<1>2. ASSUME IInv, Next
      PROVE  IInv'
  BY <1>2, AskedRight DEF IInv
<1>3. ASSUME IInv, UNCHANGED vars
      PROVE  IInv'
  BY <1>3 DEF IInv, vars
<1> QED
  BY <1>1, <1>2, <1>3, PTL DEF Spec

\* A request is refused exactly when it needs too many pages of 4096 bytes, for every
\* request that the port counts; where the sum wraps it gets one page; and what is
\* chosen is always a layout every constructor accepts (pbf.h:206-223, pbf.rs:71-86).
THEOREM RefusesOrFits == Spec => []RefusedOrValid
<1>1. ASSUME IInv
      PROVE  RefusedOrValid
  <2>1. CASE port = "none"
    BY <2>1 DEF RefusedOrValid, Asked
  <2>2. CASE port # "none" /\ rate \in Nat /\ bytes \in Nat /\ Right(port, rate, bytes, layout)
    <3>1. layout # Refused => ValidLayout(layout.way, layout.level, layout.num)
      BY <2>2 DEF Right
    <3>2. Counted(port, bytes) => (layout # Refused <=> bytes <= MaxBytes)
      <4>1. SUFFICES ASSUME Counted(port, bytes)
                     PROVE  layout # Refused <=> bytes <= MaxBytes
        OBVIOUS
      <4>2. PICK way \in 4..8 : layout = Sized(way, bytes)
        BY <2>2, <4>1 DEF Right, SizedFor
      <4>3. layout = Refused <=> bytes > MaxBytes
        BY <2>2, <4>2, SizedShape
      <4>4. MaxBytes \in Nat
        BY DEF MaxBytes, kMaxPageNum, PageSize
      <4> QED
        BY <2>2, <4>3, <4>4
    <3>3. Wrapped(port, bytes) => layout # Refused /\ layout.level = 12 /\ layout.num = 1
      BY <2>2 DEF Right
    <3> QED
      BY <3>1, <3>2, <3>3 DEF RefusedOrValid, Chosen
  <2> QED
    BY <1>1, <2>1, <2>2 DEF IInv
<1> QED
  BY <1>1, Invariance, PTL

\* The bitmap holds the bytes asked for and wastes less than a page, for every request
\* whose pages the port counts (pbf.h:215-219).
THEOREM RequestHeld == Spec => []HoldsRequest
<1>1. ASSUME IInv
      PROVE  HoldsRequest
  <2>1. SUFFICES ASSUME layout # Refused, Counted(port, bytes)
                 PROVE  /\ layout.num * PageSize(layout.level) >= bytes
                        /\ layout.num > 1 => (layout.num - 1) * PageSize(layout.level) < bytes
    BY DEF HoldsRequest, Chosen
  <2>2. rate \in Nat /\ bytes \in Nat /\ SizedFor(rate, bytes, layout)
    BY <1>1, <2>1 DEF IInv, Right
  <2>3. PICK way \in 4..8 : layout = Sized(way, bytes)
    BY <2>2 DEF SizedFor
  <2> DEFINE level == Level(bytes, way)
             num == Pages(bytes, level)
  <2>4. layout = [way |-> way, level |-> level, num |-> num]
    BY <2>1, <2>2, <2>3, SizedShape
  <2>5. /\ num * PageSize(level) >= bytes
        /\ num > 1 => (num - 1) * PageSize(level) < bytes
    BY <2>2, Sizing
  <2> HIDE DEF level, num
  <2>6. layout.level = level /\ layout.num = num
    BY <2>4
  <2> QED
    BY <2>5, <2>6
<1> QED
  BY <1>1, Invariance, PTL

\* For a request whose pages both count, every port allocates a bitmap of the core's
\* shape, unless the request is small and one of the two uses four ways, with the
\* core's ways or one fewer (pbf.h:164-223).
THEOREM ShapesAlike == Spec => []SameShape
<1>1. ASSUME IInv
      PROVE  SameShape
  <2>1. SUFFICES ASSUME port # "none", Counted(port, bytes), Counted("core", bytes)
                 PROVE  SameShape
    BY DEF SameShape, Asked
  <2>2. rate \in Nat /\ bytes \in Nat /\ SizedFor(rate, bytes, layout)
    BY <1>1, <2>1 DEF IInv, Right
  <2>3. PICK way \in 4..8 : BestWay(rate) - way \in 0..1 /\ layout = Sized(way, bytes)
    BY <2>2 DEF SizedFor
  <2> DEFINE core == Create(rate, bytes)
             best == BestWay(rate)
  <2>4. best \in 4..8 /\ core = Sized(best, bytes)
    <3>1. best \in 4..8
      BY <2>2, WaysApart
    <3>2. SizeMax \in Nat /\ SizeMax >= kMaxPageNum * 4096 /\ Fits(SizeMax, bytes)
      BY <2>1, WidthAssumption DEF Counted
    <3>3. core = SizedIn(SizeMax, best, bytes)
      BY DEF Create
    <3> HIDE DEF core, best
    <3> QED
      BY <2>2, <3>1, <3>2, <3>3, FitsCounts
  <2> DEFINE l1 == Level(bytes, best)
             l2 == Level(bytes, way)
             n1 == Pages(bytes, l1)
             n2 == Pages(bytes, l2)
  <2>5. /\ core = Refused <=> layout = Refused
        /\ core # Refused => core = [way |-> best, level |-> l1, num |-> n1]
        /\ layout # Refused => layout = [way |-> way, level |-> l2, num |-> n2]
    BY <2>2, <2>3, <2>4, SizedShape
  <2>6. bytes >= 1024 \/ (way = 4 <=> best = 4) => l1 = l2
    BY <2>2, <2>4, Levels
  <2>7. l1 = l2 => n1 = n2
    OBVIOUS
  <2> HIDE DEF l1, l2, n1, n2, core, best
  <2>8. layout # Refused => /\ core.way = best /\ core.level = l1 /\ core.num = n1
                            /\ layout.way = way /\ layout.level = l2 /\ layout.num = n2
    BY <2>5
  <2>9. best - way \in 0..1
    BY <2>3 DEF best
  <2> QED
    BY <2>5, <2>6, <2>7, <2>8, <2>9 DEF SameShape, Chosen, core
<1> QED
  BY <1>1, Invariance, PTL
=============================================================================
