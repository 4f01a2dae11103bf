----------------------------- MODULE CoreProofs -----------------------------
(***************************************************************************)
(* Theorems of the core's three parts below the filter: the division by a  *)
(* stored factor, the vectorised test of a page, and the AES-NI hash.      *)
(***************************************************************************)
EXTENDS Divisor, ProbeLanes, AesHash, SequenceTheorems, TLAPS

-----------------------------------------------------------------------------
(***************************************************************************)
(* Divisor is exact for words of any number of values.                     *)
(***************************************************************************)
\* The quotient and the remainder of a sum are read off its parts.
LEMMA DivisionUnique ==
    ASSUME NEW d \in Nat \ {0}, NEW q \in Nat, NEW x \in 0..(d - 1)
    PROVE  (q * d + x) \div d = q /\ (q * d + x) % d = x
<1> DEFINE n == q * d + x
           u == n \div d
           r == n % d
<1>1. n \in Nat
  OBVIOUS
<1>2. u \in Nat /\ r \in 0..(d - 1) /\ n = d * u + r
  <2> HIDE DEF n
  <2> QED
    BY <1>1
<1>3. q * d + x = d * u + r
  BY <1>2
<1> HIDE DEF n, u, r
<1>4. ~(u < q)
  <2> SUFFICES ASSUME u < q PROVE FALSE
    OBVIOUS
  <2>1. d * (u + 1) <= q * d
    BY <1>2
  <2>2. d * (u + 1) = d * u + d
    BY <1>2
  <2> QED
    BY <1>2, <1>3, <2>1, <2>2
<1>5. ~(q < u)
  <2> SUFFICES ASSUME q < u PROVE FALSE
    OBVIOUS
  <2>1. (q + 1) * d <= d * u
    BY <1>2
  <2>2. (q + 1) * d = q * d + d
    OBVIOUS
  <2> QED
    BY <1>2, <1>3, <2>1, <2>2
<1>6. u = q /\ r = x
  <2>1. u = q
    BY <1>2, <1>4, <1>5
  <2> QED
    BY <1>2, <1>3, <2>1
<1> QED
  BY <1>6 DEF n, u, r

\* A product of factors below their bounds is below the product of the bounds.
LEMMA ProductBelow ==
    ASSUME NEW a \in Nat, NEW b \in Nat, NEW c \in Nat, NEW d \in Nat,
           a <= c, b <= d
    PROVE  a * b <= c * d
<1>1. a * b <= c * b
  OBVIOUS
<1>2. c * b <= c * d
  OBVIOUS
<1> QED
  BY <1>1, <1>2

\* The factor of a divisor above one is DoubleBase / n rounded up: times n it
\* exceeds DoubleBase by less than n.
LEMMA FactorRoundsUp ==
    ASSUME NEW n \in Word, n > 1
    PROVE  /\ Factor(n) \in 1..(DoubleBase - 1)
           /\ \E e \in 0..(n - 1) : Factor(n) * n = DoubleBase + e
<1> DEFINE D == DoubleBase
           a == (D - 1) \div n
           b == (D - 1) % n
<1>1. Base \in Nat /\ n \in Nat /\ n < Base /\ D = Base * Base
  BY BaseAssumption DEF Word, DoubleBase
<1>2. D \in Nat /\ D >= 3 * n
  <2>1. 3 * n <= Base * Base
    BY <1>1, ProductBelow
  <2> QED
    BY <1>1, <2>1
<1> HIDE DEF D
<1>3. a \in Nat /\ b \in 0..(n - 1) /\ D - 1 = n * a + b
  BY <1>1, <1>2
<1> HIDE DEF a, b
<1>4. (a + 1) * n = D + (n - 1 - b)
  <2>1. (a + 1) * n = n * a + n
    BY <1>1, <1>3
  <2> QED
    BY <1>1, <1>2, <1>3, <2>1
<1>5. a + 1 < D
  <2>1. (a + 1) * 2 <= (a + 1) * n
    BY <1>1, <1>3, ProductBelow
  <2> QED
    BY <1>1, <1>2, <1>3, <1>4, <2>1
<1>6. Factor(n) = a + 1
  <2>1. (a + 1) % D = a + 1
    BY <1>2, <1>3, <1>5
  <2>2. Factor(n) = (a + 1) % D
    BY <1>1 DEF Factor, a, D
  <2> QED
    BY <2>1, <2>2
<1> QED
  BY <1>1, <1>2, <1>3, <1>4, <1>5, <1>6 DEF D

\* The product of the factor and an operand is the quotient, in the high double
\* word, and a fraction, in the low one; the fraction times the divisor has the
\* remainder in its high double word.
LEMMA Fraction ==
    ASSUME NEW n \in Word, n > 1, NEW m \in Word
    PROVE  \E X \in 0..(DoubleBase - 1) :
              /\ Factor(n) * m = (m \div n) * DoubleBase + X
              /\ (n * X) \div DoubleBase = m % n
<1> DEFINE D == DoubleBase
           c == Factor(n)
           q == m \div n
           r == m % n
<1>1. /\ Base \in Nat /\ n \in Nat /\ n < Base /\ m \in Nat /\ m < Base
      /\ D = Base * Base /\ D \in Nat \ {0}
  BY BaseAssumption DEF Word, DoubleBase
<1>2. c \in Nat
  BY FactorRoundsUp
<1>3. PICK e \in 0..(n - 1) : c * n = D + e
  BY FactorRoundsUp
<1>4. q \in Nat /\ r \in 0..(n - 1) /\ m = n * q + r
  BY <1>1
<1> HIDE DEF D, c, q, r
<1> DEFINE X == q * e + c * r
<1>5. X \in Nat
  <2>1. q * e \in Nat /\ c * r \in Nat
    BY <1>2, <1>3, <1>4
  <2> QED
    BY <2>1
<1>6. c * m = q * D + X
  <2>1. c * m = c * (n * q) + c * r
    BY <1>1, <1>2, <1>4
  <2>2. c * (n * q) = q * (c * n)
    BY <1>1, <1>2, <1>4
  <2>3. q * (c * n) = q * D + q * e
    BY <1>1, <1>3, <1>4
  <2> QED
    BY <1>1, <1>2, <1>3, <1>4, <2>1, <2>2, <2>3
<1>7. n * X = r * D + e * m
  <2>1. n * X = n * (q * e) + n * (c * r)
    BY <1>1, <1>2, <1>3, <1>4
  <2>2. n * (c * r) = r * (c * n)
    BY <1>1, <1>2, <1>4
  <2>3. r * (c * n) = r * D + r * e
    BY <1>1, <1>3, <1>4
  <2>4. n * (q * e) + r * e = e * (n * q + r)
    BY <1>1, <1>3, <1>4
  <2> QED
    BY <1>1, <1>2, <1>3, <1>4, <2>1, <2>2, <2>3, <2>4
<1>8. e * m \in 0..(D - 1)
  <2>1. e * m <= (Base - 1) * (Base - 1)
    BY <1>1, <1>3, ProductBelow
  <2>2. (Base - 1) * (Base - 1) < Base * Base
    BY <1>1
  <2>3. e * m \in Nat
    BY <1>1, <1>3
  <2> QED
    BY <1>1, <2>1, <2>2, <2>3
<1> HIDE DEF X
<1>9. X < D
  <2> SUFFICES ASSUME X >= D PROVE FALSE
    BY <1>1, <1>5
  <2>1. n * D <= n * X
    BY <1>1, <1>5
  <2>2. (r + 1) * D <= n * D
    BY <1>1, <1>4
  <2>3. (r + 1) * D = r * D + D
    BY <1>1, <1>4
  <2> QED
    BY <1>1, <1>4, <1>5, <1>7, <1>8, <2>1, <2>2, <2>3
<1>10. (n * X) \div D = r
  <2> DEFINE y == e * m
  <2>1. r \in Nat /\ D \in Nat \ {0} /\ y \in 0..(D - 1) /\ n * X = r * D + y
    BY <1>1, <1>4, <1>7, <1>8
  <2> HIDE DEF y
  <2>2. (r * D + y) \div D = r
    BY <2>1, DivisionUnique
  <2> QED
    BY <2>1, <2>2
<1>11. X \in 0..(D - 1)
  BY <1>1, <1>5, <1>9
<1> QED
  BY <1>6, <1>10, <1>11 DEF D, c, q, r

-----------------------------------------------------------------------------
(***************************************************************************)
(* Quotient and remainder.                                                 *)
(***************************************************************************)

\* Both calls are exact for every divisor but zero.
LEMMA CallsExact ==
    ASSUME NEW n \in Word, n # 0, NEW m \in Word
    PROVE  /\ Quotient(m, Factor(n)) = m \div n
           /\ Remainder(m, n, Factor(n)) = m % n
<1> DEFINE D == DoubleBase
<1>1. n \in Nat /\ m \in Nat /\ D \in Nat \ {0}
  BY BaseAssumption DEF Word, DoubleBase
<1>2. CASE n = 1
  <2>1. Factor(n) = 0
    <3>1. (D - 1) \div 1 = D - 1 /\ D % D = 0
      BY <1>1
    <3>2. Factor(1) = ((D - 1) \div 1 + 1) % D
      BY DEF Factor
    <3> HIDE DEF D
    <3>3. (D - 1) + 1 = D
      BY <1>1
    <3> QED
      BY <1>2, <3>1, <3>2, <3>3
  <2>2. Quotient(m, 0) = m
    BY DEF Quotient
  <2>3. Remainder(m, 1, 0) = 0
    <3>1. m * 0 = 0 /\ 0 % D = 0 /\ 1 * 0 = 0 /\ 0 \div D = 0
      BY <1>1
    <3> QED
      BY <3>1 DEF Remainder, MultiplyHigh
  <2>4. m \div 1 = m /\ m % 1 = 0
    BY <1>1
  <2> QED
    BY <1>2, <2>1, <2>2, <2>3, <2>4
<1>3. CASE n > 1
  <2>1. PICK X \in 0..(D - 1) : /\ Factor(n) * m = (m \div n) * D + X
                                /\ (n * X) \div D = m % n
    BY <1>3, Fraction
  <2>2. Factor(n) \in Nat \ {0}
    BY <1>3, FactorRoundsUp
  <2>3. m \div n \in Nat
    BY <1>1, <1>3
  <2> HIDE DEF D
  <2>4. (Factor(n) * m) \div D = m \div n /\ (Factor(n) * m) % D = X
    <3> DEFINE q == m \div n
    <3> HIDE DEF q
    <3>1. (q * D + X) \div D = q /\ (q * D + X) % D = X
      BY <1>1, <2>1, <2>3, DivisionUnique DEF q
    <3> QED
      BY <2>1, <3>1 DEF q
  <2>5. m * Factor(n) = Factor(n) * m
    BY <1>1, <2>2
  <2>6. Quotient(m, Factor(n)) = m \div n
    BY <2>2, <2>4, <2>5 DEF Quotient, MultiplyHigh, D
  <2>7. Remainder(m, n, Factor(n)) = m % n
    BY <2>1, <2>4, <2>5 DEF Remainder, MultiplyHigh, D
  <2> QED
    BY <2>6, <2>7
<1> QED
  BY <1>1, <1>2, <1>3

\* With no divisor set the calls still return a word.
LEMMA CallsOfZero ==
    ASSUME NEW m \in Word
    PROVE  Quotient(m, Factor(0)) = m /\ Remainder(m, 0, Factor(0)) = 0
<1> DEFINE D == DoubleBase
<1>1. m \in Nat /\ D \in Nat \ {0}
  BY BaseAssumption DEF Word, DoubleBase
<1>2. Factor(0) = 0
  BY DEF Factor
<1>3. m * 0 = 0 /\ 0 % D = 0 /\ 0 * 0 = 0 /\ 0 \div D = 0
  BY <1>1
<1> QED
  BY <1>2, <1>3 DEF Quotient, Remainder, MultiplyHigh

\* Results fit a word.
LEMMA ResultsInWord ==
    ASSUME NEW n \in Word, NEW m \in Word
    PROVE  Quotient(m, Factor(n)) \in Word /\ Remainder(m, n, Factor(n)) \in Word
<1>1. n \in Nat /\ m \in Nat /\ m < Base /\ Base \in Nat /\ n < Base
  BY BaseAssumption DEF Word
<1>2. CASE n = 0
  BY <1>1, <1>2, CallsOfZero DEF Word
<1>3. CASE n # 0
  <2>1. m \div n \in 0..m /\ m % n \in 0..(n - 1)
    <3> DEFINE q == m \div n
               r == m % n
    <3>1. q \in Nat /\ r \in 0..(n - 1) /\ m = n * q + r
      BY <1>1, <1>3
    <3> HIDE DEF q, r
    <3>2. q <= n * q
      BY <1>1, <1>3, <3>1
    <3>3. q \in 0..m
      BY <1>1, <3>1, <3>2
    <3> QED
      BY <3>1, <3>3 DEF q, r
  <2>2. m \div n \in Word /\ m % n \in Word
    BY <1>1, <2>1 DEF Word
  <2> QED
    BY <1>3, <2>2, CallsExact
<1> QED
  BY <1>2, <1>3

\* A factor fits a double word.
LEMMA FactorInDoubleWord ==
    ASSUME NEW n \in Word
    PROVE  Factor(n) \in 0..(DoubleBase - 1)
<1> DEFINE D == DoubleBase
<1>1. D \in Nat \ {0} /\ n \in Nat
  BY BaseAssumption DEF Word, DoubleBase
<1>2. CASE n = 0
  BY <1>1, <1>2 DEF Factor
<1>3. CASE n # 0
  <2>1. (D - 1) \div n + 1 \in Nat
    BY <1>1, <1>3
  <2> DEFINE x == (D - 1) \div n + 1
  <2>2. Factor(n) = x % D
    BY <1>3 DEF Factor
  <2> HIDE DEF D, x
  <2>3. x % D \in 0..(D - 1)
    BY <1>1, <2>1 DEF x
  <2> QED
    BY <2>2, <2>3 DEF D
<1> QED
  BY <1>2, <1>3

\* Factors fit a double word, results a word, and the factor is always that of
\* the divisor.
LEMMA Invariance == DivisorSpec => []IInv
<1>1. DivisorInit => IInv
  BY FactorInDoubleWord, BaseAssumption
  DEF DivisorInit, IInv, DivisorTypeOK, Exact, None, Word, Factor
<1>2. IInv /\ [DivisorNext]_divisorVars => IInv'
  <2> SUFFICES ASSUME IInv, [DivisorNext]_divisorVars PROVE IInv'
    OBVIOUS
  <2>1. CASE UNCHANGED divisorVars
    BY <2>1 DEF divisorVars, IInv, DivisorTypeOK, Exact
  <2>2. ASSUME NEW n \in Word, Assign(n) PROVE IInv'
    <3>1. 0 \in Word
      BY BaseAssumption DEF Word
    <3> QED
      BY <2>2, <3>1, FactorInDoubleWord DEF Assign, IInv, DivisorTypeOK, Exact, None
  <2>3. ASSUME NEW m \in Word, Div(m) PROVE IInv'
    <3>1. Quotient(m, m_fac) \in Word
      BY ResultsInWord DEF IInv, DivisorTypeOK
    <3>2. m_val # 0 => Quotient(m, m_fac) = m \div m_val
      BY CallsExact DEF IInv, DivisorTypeOK
    <3> QED
      BY <2>3, <3>1, <3>2 DEF Div, IInv, DivisorTypeOK, Exact
  <2>4. ASSUME NEW m \in Word, Mod(m) PROVE IInv'
    <3>1. Remainder(m, m_val, m_fac) \in Word
      BY ResultsInWord DEF IInv, DivisorTypeOK
    <3>2. m_val # 0 => Remainder(m, m_val, m_fac) = m % m_val
      BY CallsExact DEF IInv, DivisorTypeOK
    <3> QED
      BY <2>4, <3>1, <3>2 DEF Mod, IInv, DivisorTypeOK, Exact
  <2> QED
    BY <2>1, <2>2, <2>3, <2>4 DEF DivisorNext
<1> QED
  BY <1>1, <1>2, PTL DEF DivisorSpec

\* The members and the results of a Divisor keep the widths of their types
\* (pbf.h:61-66).
THEOREM DivisorTypeCorrect == DivisorSpec => []DivisorTypeOK
BY Invariance, PTL DEF IInv

\* div and mod are exact for every width of word, every operand and every divisor
\* but zero (pbf.h:73-106); the page a key is sent to depends on it (pbf.cc:41).
THEOREM DivisorExact == DivisorSpec => []Exact
BY Invariance, PTL DEF IInv

-----------------------------------------------------------------------------
(***************************************************************************)
(* The gather of the AVX2 body and the loop of the scalar one are the same *)
(* function, for every hash, page and way, at every level of a filter.     *)
(***************************************************************************)
\* The page sizes of the levels, spelled out: the provers know no exponents but
\* literal ones.  From level 2 a page is a whole number of 32-bit words; its bits
\* divide the halfwords up to level 13 and are a multiple of them from there on.
LEMMA PageSizes ==
    ASSUME NEW lvl \in 0..28
    PROVE  /\ PageSize(lvl) \in Nat \ {0} /\ PageBits(lvl) = 8 * PageSize(lvl)
           /\ lvl >= 2 => \E w \in Nat \ {0} : PageSize(lvl) = 4 * w
           /\ lvl <= 13 => \E q \in Nat \ {0} : HalfRange = q * PageBits(lvl)
           /\ lvl > 13 => \E q \in Nat \ {0} : PageBits(lvl) = q * HalfRange
<1> DEFINE P(l) == 2^l
<1>1. /\ P(0) = 1 /\ P(1) = 2 /\ P(2) = 4 /\ P(3) = 8 /\ P(4) = 16 /\ P(5) = 32
      /\ P(6) = 64 /\ P(7) = 128 /\ P(8) = 256 /\ P(9) = 512 /\ P(10) = 1024
      /\ P(11) = 2048 /\ P(12) = 4096 /\ P(13) = 8192 /\ P(14) = 16384
  OBVIOUS
<1>2. /\ P(15) = 32768 /\ P(16) = 65536 /\ P(17) = 131072 /\ P(18) = 262144
      /\ P(19) = 524288 /\ P(20) = 1048576 /\ P(21) = 2097152 /\ P(22) = 4194304
      /\ P(23) = 8388608 /\ P(24) = 16777216 /\ P(25) = 33554432
      /\ P(26) = 67108864 /\ P(27) = 134217728 /\ P(28) = 268435456
  OBVIOUS
<1> DEFINE Q(l) == P(13 - l)
           W(l) == P(l - 2)
           R(l) == P(l - 13)
<1>3. PageSize(lvl) = P(lvl) /\ PageBits(lvl) = 8 * PageSize(lvl)
  BY DEF PageSize, PageBits
<1> HIDE DEF P
<1>4. P(lvl) \in Nat \ {0}
  BY <1>1, <1>2
<1>5. lvl >= 2 => W(lvl) \in Nat \ {0} /\ P(lvl) = 4 * W(lvl)
  BY <1>1, <1>2
<1>6. lvl <= 13 => Q(lvl) \in Nat \ {0} /\ 65536 = Q(lvl) * (8 * P(lvl))
  BY <1>1
<1>7. lvl > 13 => R(lvl) \in Nat \ {0} /\ 8 * P(lvl) = R(lvl) * 65536
  BY <1>1, <1>2
<1> HIDE DEF Q, W, R
<1> QED
  BY <1>3, <1>4, <1>5, <1>6, <1>7 DEF HalfRange

\* A remainder is known from any way of writing its number.
LEMMA RemainderUnique ==
    ASSUME NEW m \in Nat \ {0}, NEW n \in Nat, NEW s \in 0..(m - 1)
    PROVE  (n * m + s) % m = s
OBVIOUS

\* Masking a word masks its low half: what is above is a multiple of the mask.
LEMMA MaskCutsWord ==
    ASSUME NEW m \in Nat \ {0}, NEW q \in Nat, NEW low \in Nat, NEW high \in Nat
    PROVE  (low + ((q * m) * high)) % m = low % m
<1> DEFINE r == low % m
<1> DEFINE k == low \div m
<1> DEFINE n == k + (q * high)
<1> DEFINE x == low + ((q * m) * high)
<1>1. low = (k * m) + r /\ r \in 0..(m - 1) /\ k \in Nat
  OBVIOUS
<1>2. n \in Nat /\ x = (n * m) + r
  <2> HIDE DEF r, k
  <2>1. (q * m) * high = (q * high) * m /\ q * high \in Nat
    OBVIOUS
  <2>2. (k + (q * high)) * m = (k * m) + ((q * high) * m)
    BY <1>1, <2>1
  <2> QED BY <1>1, <2>1, <2>2
<1>3. x % m = r
  <2> HIDE DEF r, n, x
  <2>1. ((n * m) + r) % m = r
    BY <1>1, <1>2, RemainderUnique
  <2> QED BY <1>2, <2>1
<1> QED BY <1>3

LEMMA MaskPositive ==
    ASSUME NEW lvl \in 0..28
    PROVE  /\ PageBits(lvl) \in Nat \ {0} /\ PageSize(lvl) \in Nat
           /\ LoopBits(lvl) \in Nat \ {0}
           /\ LoopBits(lvl) <= PageBits(lvl) /\ LoopBits(lvl) <= HalfRange
           /\ lvl <= 13 => LoopBits(lvl) = PageBits(lvl)
           /\ lvl > 13 => LoopBits(lvl) = HalfRange
<1> DEFINE m == PageBits(lvl)
<1>1. m \in Nat \ {0} /\ PageSize(lvl) \in Nat
  BY PageSizes
<1>2. lvl <= 13 => m <= HalfRange
  <2>1. SUFFICES ASSUME lvl <= 13 PROVE m <= HalfRange
    OBVIOUS
  <2>2. PICK q \in Nat \ {0} : HalfRange = q * m
    BY <2>1, PageSizes
  <2> HIDE DEF m
  <2>3. (q - 1) * m >= 0
    BY <1>1
  <2> QED
    BY <1>1, <2>2, <2>3
<1>3. lvl > 13 => m >= HalfRange
  <2>1. SUFFICES ASSUME lvl > 13 PROVE m >= HalfRange
    OBVIOUS
  <2>2. PICK q \in Nat \ {0} : m = q * HalfRange
    BY <2>1, PageSizes
  <2> QED
    BY <2>2 DEF HalfRange
<1> HIDE DEF m
<1>4. LoopBits(lvl) = IF m < HalfRange THEN m ELSE HalfRange
  BY DEF LoopBits, m
<1>5. LoopBits(lvl) \in Nat \ {0} /\ LoopBits(lvl) <= m /\ LoopBits(lvl) <= HalfRange
      /\ (lvl <= 13 => LoopBits(lvl) = m) /\ (lvl > 13 => LoopBits(lvl) = HalfRange)
  BY <1>1, <1>2, <1>3, <1>4 DEF HalfRange
<1> QED
  BY <1>1, <1>5 DEF m

\* Every lane holds one of the indices of the loop.
Half(lane) == IF lane < 4 THEN 2 * lane + 1 ELSE 2 * (lane - 4) + 2

LEMMA LaneIsIndex ==
    ASSUME NEW t \in [1..8 -> Halfword], NEW lvl \in 0..13, NEW lane \in 0..7
    PROVE  Lane(t, lane, lvl) = Index(t, Half(lane), lvl)
<1>6. LoopBits(lvl) = PageBits(lvl)
  BY MaskPositive
<1> DEFINE j == IF lane < 4 THEN lane ELSE lane - 4
<1> DEFINE low == t[2 * j + 1]
<1> DEFINE high == t[2 * j + 2]
<1>1. j \in 0..3 /\ 2 * j + 1 \in 1..8 /\ 2 * j + 2 \in 1..8
  OBVIOUS
<1>2. low \in Nat /\ low < HalfRange /\ high \in Nat
  BY <1>1 DEF Halfword
<1>3. WordOf(t, j) = low + HalfRange * high
  BY DEF WordOf
<1>4. CASE lane < 4
  <2>1. PICK q \in Nat \ {0} : HalfRange = q * PageBits(lvl)
    BY PageSizes
  <2> DEFINE m == PageBits(lvl)
  <2>2. (low + HalfRange * high) % m = low % m
    <3>1. m \in Nat \ {0} /\ HalfRange = q * m
      BY <2>1, MaskPositive
    <3>2. low \in Nat /\ high \in Nat
      BY <1>2
    <3> HIDE DEF low, high, m
    <3>3. (low + ((q * m) * high)) % m = low % m
      BY <3>1, <3>2, MaskCutsWord, ZenonT(60)
    <3> QED BY <3>1, <3>3
  <2> QED BY <1>3, <1>4, <1>6, <2>2 DEF Lane, Index, Half
<1>5. CASE ~(lane < 4)
  <2>1. (low + HalfRange * high) \div HalfRange = high
    <3> HIDE DEF low, high
    <3> QED BY <1>2 DEF HalfRange
  <2> QED BY <1>3, <1>5, <1>6, <2>1 DEF Lane, Index, Half
<1> QED BY <1>4, <1>5

\* An index is its byte and the bit in it, and its word and the bit in that.
LEMMA BitIsIndex ==
    ASSUME NEW idx \in Nat
    PROVE  Bit(idx) = idx /\ (32 * GatheredWord(idx)) + (idx % 32) = idx
BY DEF Bit, GatheredWord

LEMMA IndexInPage ==
    ASSUME NEW t \in [1..8 -> Halfword], NEW lvl \in 0..28, NEW i \in 1..8
    PROVE  Index(t, i, lvl) \in 0..(PageBits(lvl) - 1) /\ Index(t, i, lvl) < HalfRange
<1> DEFINE m == LoopBits(lvl)
<1>1. t[i] \in Nat
  BY DEF Halfword
<1>2. m \in Nat \ {0} /\ m <= PageBits(lvl) /\ PageBits(lvl) \in Nat /\ m <= HalfRange
  BY MaskPositive
<1>3. Index(t, i, lvl) = t[i] % m
  BY DEF Index
<1> HIDE DEF m
<1> QED BY <1>1, <1>2, <1>3 DEF HalfRange

LEMMA LaneInPage ==
    ASSUME NEW t \in [1..8 -> Halfword], NEW lvl \in 0..28, NEW lane \in 0..7
    PROVE  Lane(t, lane, lvl) \in 0..(PageBits(lvl) - 1)
<1> DEFINE m == PageBits(lvl)
<1>1. \E x \in Nat : Lane(t, lane, lvl) = x % m
  <2>1. \A j \in 0..3 : WordOf(t, j) \in Nat /\ WordOf(t, j) \div HalfRange \in Nat
    BY DEF WordOf, Halfword, HalfRange
  <2> QED BY <2>1 DEF Lane
<1>2. m \in Nat \ {0}
  BY MaskPositive
<1> HIDE DEF m
<1>3. Lane(t, lane, lvl) \in 0..(m - 1)
  BY <1>1, <1>2
<1> QED BY <1>3 DEF m

\* The lanes that are gathered are the halves of the loop, in another order.
LEMMA LanesCoverLoop ==
    ASSUME NEW n \in 5..8
    PROVE  /\ \A lane \in (0..7) \ Holes(n) : Half(lane) \in 1..n
           /\ \A i \in 1..n : \E lane \in (0..7) \ Holes(n) : Half(lane) = i
<1>1. \A i \in 1..8 : \E lane \in 0..7 : Half(lane) = i
  <2> SUFFICES ASSUME NEW i \in 1..8 PROVE \E lane \in 0..7 : Half(lane) = i
    OBVIOUS
  <2>1. CASE i \in {1, 3, 5, 7}
    <3> WITNESS (i - 1) \div 2 \in 0..7
    <3> QED BY <2>1 DEF Half
  <2>2. CASE i \in {2, 4, 6, 8}
    <3> WITNESS (i - 2) \div 2 + 4 \in 0..7
    <3> QED BY <2>2 DEF Half
  <2> QED BY <2>1, <2>2
<1>2. ASSUME NEW lane \in 0..7
      PROVE  Half(lane) \in 1..n <=> lane \notin Holes(n)
  <2>1. CASE n = 5  BY <2>1 DEF Half, Holes
  <2>2. CASE n = 6  BY <2>2 DEF Half, Holes
  <2>3. CASE n = 7  BY <2>3 DEF Half, Holes
  <2>4. CASE n = 8  BY <2>4 DEF Half, Holes
  <2> QED BY <2>1, <2>2, <2>3, <2>4
<1> QED BY <1>1, <1>2

\* The gather of the AVX2 body answers as the loop does (pbf-internal.h:36-61).
THEOREM WideIsScalar ==
    ASSUME NEW n \in 5..8, NEW t \in [1..8 -> Halfword], NEW lvl \in 0..13, NEW bits
    PROVE  WideTest(n, t, lvl, bits) <=> ScalarTest(n, t, lvl, bits)
<1>1. \A lane \in 0..7 :
         LET idx == Lane(t, lane, lvl)
         IN  (32 * GatheredWord(idx)) + (idx % 32) = Index(t, Half(lane), lvl)
  <2> SUFFICES ASSUME NEW lane \in 0..7
               PROVE  (32 * GatheredWord(Lane(t, lane, lvl))) + (Lane(t, lane, lvl) % 32)
                        = Index(t, Half(lane), lvl)
    OBVIOUS
  <2>1. Half(lane) \in 1..8
    BY DEF Half
  <2>2. Index(t, Half(lane), lvl) \in Nat
    BY <2>1, IndexInPage, MaskPositive
  <2> QED BY <2>2, LaneIsIndex, BitIsIndex
<1>2. \A i \in 1..n : Bit(Index(t, i, lvl)) = Index(t, i, lvl)
  <2> SUFFICES ASSUME NEW i \in 1..n PROVE Bit(Index(t, i, lvl)) = Index(t, i, lvl)
    OBVIOUS
  <2>1. i \in 1..8 /\ lvl \in 0..28
    OBVIOUS
  <2>2. Index(t, i, lvl) \in Nat
    BY <2>1, IndexInPage, MaskPositive
  <2> QED BY <2>2, BitIsIndex
<1>3. WideTest(n, t, lvl, bits) <=>
         \A lane \in (0..7) \ Holes(n) : Index(t, Half(lane), lvl) \in bits
  BY <1>1 DEF WideTest
<1>4. ScalarTest(n, t, lvl, bits) <=> \A i \in 1..n : Index(t, i, lvl) \in bits
  BY <1>2 DEF ScalarTest
<1> QED BY <1>3, <1>4, LanesCoverLoop

\* Above the levels of filters, a lane whose index is that of a bit the loop can set
\* holds the half of the loop.
LEMMA LaneBelowRange ==
    ASSUME NEW t \in [1..8 -> Halfword], NEW lvl \in 0..28, NEW lane \in 0..7,
           lvl > 13, Lane(t, lane, lvl) < HalfRange
    PROVE  Lane(t, lane, lvl) = Index(t, Half(lane), lvl)
<1> DEFINE j == IF lane < 4 THEN lane ELSE lane - 4
           low == t[2 * j + 1]
           high == t[2 * j + 2]
           m == PageBits(lvl)
<1>1. j \in 0..3 /\ 2 * j + 1 \in 1..8 /\ 2 * j + 2 \in 1..8
  OBVIOUS
<1>2. /\ low \in Nat /\ low < HalfRange /\ high \in Nat /\ high < HalfRange
      /\ low % HalfRange = low /\ high % HalfRange = high
  <2>1. low \in Nat /\ low < HalfRange /\ high \in Nat /\ high < HalfRange
    BY <1>1 DEF Halfword
  <2> HIDE DEF low, high
  <2> QED BY <2>1 DEF HalfRange
<1>3. WordOf(t, j) = low + HalfRange * high
  BY DEF WordOf
<1>4. LoopBits(lvl) = HalfRange /\ m \in Nat \ {0} /\ HalfRange <= m
  BY MaskPositive
<1>5. CASE lane < 4
  <2>1. PICK q \in Nat \ {0} : m = q * HalfRange
    BY PageSizes
  <2>2. Lane(t, lane, lvl) = (low + HalfRange * high) % m
    BY <1>3, <1>5 DEF Lane
  <2>3. Index(t, Half(lane), lvl) = low
    BY <1>2, <1>4, <1>5 DEF Index, Half
  <2> DEFINE x == low + HalfRange * high
             d == x \div m
             r == x % m
  <2>4. d \in Nat /\ r \in Nat /\ x = m * d + r
    <3>1. x \in Nat
      BY <1>2 DEF HalfRange
    <3> HIDE DEF x, m
    <3> QED BY <1>4, <3>1
  <2>5. r < HalfRange
    BY <2>2
  <2> DEFINE e == q * d
  <2>6. m * d = HalfRange * e /\ e \in Nat
    <3> HIDE DEF m, d, r
    <3>1. (q * HalfRange) * d = HalfRange * (q * d) /\ q * d \in Nat
      BY <2>4 DEF HalfRange
    <3> QED BY <2>1, <3>1
  <2>7. r = low
    <3> HIDE DEF m, d, r, e, low, high
    <3>1. low + 65536 * high = 65536 * e + r
      BY <2>4, <2>6 DEF HalfRange
    <3> QED BY <1>2, <2>4, <2>5, <2>6, <3>1 DEF HalfRange
  <2> QED BY <2>2, <2>3, <2>7
<1>6. CASE ~(lane < 4)
  <2>1. (low + HalfRange * high) \div HalfRange = high
    <3> HIDE DEF low, high
    <3> QED BY <1>2 DEF HalfRange
  <2>2. Lane(t, lane, lvl) = high % m
    BY <1>3, <1>6, <2>1 DEF Lane
  <2>3. high % m = high
    <3> HIDE DEF high, m
    <3> QED BY <1>2, <1>4 DEF HalfRange
  <2>4. Index(t, Half(lane), lvl) = high
    BY <1>2, <1>4, <1>6 DEF Index, Half
  <2> QED BY <2>2, <2>3, <2>4
<1> QED BY <1>5, <1>6

\* At any level, of a page that only the loop has written, the gather reports no key
\* that the loop does not (pbf-internal.h:45-56).
THEOREM WideInventsNone ==
    ASSUME NEW n \in 5..8, NEW t \in [1..8 -> Halfword], NEW lvl \in 0..28,
           NEW bits, \A b \in bits : b < HalfRange,
           WideTest(n, t, lvl, bits)
    PROVE  ScalarTest(n, t, lvl, bits)
<1>1. CASE lvl <= 13
  <2>1. lvl \in 0..13
    BY <1>1
  <2> QED BY <2>1, WideIsScalar
<1>2. CASE lvl > 13
  <2> SUFFICES ASSUME NEW i \in 1..n PROVE Bit(Index(t, i, lvl)) \in bits
    BY DEF ScalarTest
  <2>1. PICK lane \in (0..7) \ Holes(n) : Half(lane) = i
    BY LanesCoverLoop
  <2>2. Lane(t, lane, lvl) \in bits
    <3>1. Lane(t, lane, lvl) \in Nat
      BY LaneInPage, MaskPositive
    <3>2. (32 * GatheredWord(Lane(t, lane, lvl))) + (Lane(t, lane, lvl) % 32) \in bits
      BY DEF WideTest
    <3> QED BY <3>1, <3>2, BitIsIndex
  <2>3. Lane(t, lane, lvl) = Index(t, i, lvl)
    BY <1>2, <2>1, <2>2, LaneBelowRange
  <2>4. Index(t, i, lvl) \in Nat
    BY IndexInPage, MaskPositive
  <2> QED BY <2>2, <2>3, <2>4, BitIsIndex
<1> QED BY <1>1, <1>2

-----------------------------------------------------------------------------
\* The variables keep their types, and the page the size of its level: init and set
\* turn on only bits that the mask allows (pbf-internal.h:67-72).
THEOREM LanesTypeCorrect == LanesSpec => []LanesTypeOK
<1>1. LanesInit => LanesTypeOK
  <2> SUFFICES ASSUME LanesInit PROVE LanesTypeOK
    OBVIOUS
  <2>1. level \in 0..28 /\ hash \in [1..8 -> Halfword]
    BY LanesAssumption DEF LanesInit
  <2>2. page \subseteq 0..(PageBits(level) - 1)
    BY <2>1, IndexInPage DEF LanesInit
  <2> QED BY <2>2 DEF LanesInit, LanesTypeOK, Answers
<1>2. LanesTypeOK /\ [LanesNext]_lanesVars => LanesTypeOK'
  <2> SUFFICES ASSUME LanesTypeOK, [LanesNext]_lanesVars PROVE LanesTypeOK'
    OBVIOUS
  <2>1. level \in 0..28 /\ hash \in [1..8 -> Halfword]
    BY LanesAssumption DEF LanesTypeOK
  <2>2. CASE Set
    <3>1. \A i \in 1..8 : Bit(Index(hash, i, level)) \in 0..(PageBits(level) - 1)
      BY <2>1, IndexInPage, MaskPositive, BitIsIndex
    <3>2. 1..way \subseteq 1..8
      BY DEF LanesTypeOK
    <3>3. page' \subseteq 0..(PageBits(level) - 1)
      BY <2>2, <3>1, <3>2 DEF Set, LanesTypeOK
    <3> QED BY <2>2, <3>3 DEF Set, LanesTypeOK, Answers
  <2>3. CASE Test
    BY <2>3 DEF Test, LanesTypeOK, Answers, Answer
  <2>4. CASE TestByAvx2
    BY <2>4 DEF TestByAvx2, LanesTypeOK, Answers, Answer
  <2>5. CASE UNCHANGED lanesVars
    BY <2>5 DEF lanesVars, LanesTypeOK
  <2> QED BY <2>2, <2>3, <2>4, <2>5 DEF LanesNext
<1> QED BY <1>1, <1>2, PTL DEF LanesSpec

\* An answer is that of its body for the page as it is, as set, which changes the page,
\* forgets both; and set, which masks by halfwords, wrote all that is in the page.
AnswersCurrent ==
    /\ scalar # "unasked" => scalar = Answer(ScalarTest(way, hash, level, page))
    /\ wide # "unasked" => wide = Answer(Avx2Test(way, hash, level, page))
    /\ \A b \in page : b < HalfRange

LEMMA AnswersStayCurrent == LanesSpec => []AnswersCurrent
<1>1. LanesInit => AnswersCurrent
  <2> SUFFICES ASSUME LanesInit PROVE AnswersCurrent
    OBVIOUS
  <2>1. level \in 0..28 /\ hash \in [1..8 -> Halfword]
    BY LanesAssumption DEF LanesInit
  <2>2. \A b \in page : b < HalfRange
    BY <2>1, IndexInPage DEF LanesInit
  <2> QED BY <2>2 DEF LanesInit, AnswersCurrent
<1>2. LanesTypeOK /\ AnswersCurrent /\ [LanesNext]_lanesVars => AnswersCurrent'
  <2> SUFFICES ASSUME LanesTypeOK, AnswersCurrent, [LanesNext]_lanesVars PROVE AnswersCurrent'
    OBVIOUS
  <2>1. CASE Set
    <3>1. level \in 0..28 /\ hash \in [1..8 -> Halfword] /\ 1..way \subseteq 1..8
      BY LanesAssumption DEF LanesTypeOK
    <3>2. \A i \in 1..8 : Bit(Index(hash, i, level)) < HalfRange
      BY <3>1, IndexInPage, MaskPositive, BitIsIndex
    <3>3. \A b \in page' : b < HalfRange
      BY <2>1, <3>1, <3>2 DEF Set, AnswersCurrent
    <3> QED BY <2>1, <3>3 DEF Set, AnswersCurrent
  <2>2. CASE Test
    BY <2>2 DEF Test, AnswersCurrent
  <2>3. CASE TestByAvx2
    BY <2>3 DEF TestByAvx2, AnswersCurrent
  <2>4. CASE UNCHANGED lanesVars
    BY <2>4 DEF lanesVars, AnswersCurrent
  <2> QED BY <2>1, <2>2, <2>3, <2>4 DEF LanesNext
<1> QED BY <1>1, <1>2, LanesTypeCorrect, PTL DEF LanesSpec

\* Asked of one page, the loop and the gather agree at every level of a filter, and at
\* no level of a raw call does the gather report a key that the loop does not
\* (pbf-internal.h:35-61).
THEOREM BodiesAlwaysAgree == LanesSpec => []BodiesAgree
<1>1. LanesTypeOK /\ AnswersCurrent => BodiesAgree
  <2> SUFFICES ASSUME LanesTypeOK, AnswersCurrent, scalar # "unasked", wide # "unasked"
               PROVE  (level <= 13 => scalar = wide) /\ (wide = "yes" => scalar = "yes")
    BY DEF BodiesAgree
  <2>1. level \in 0..28 /\ hash \in [1..8 -> Halfword] /\ way \in 4..8
    BY LanesAssumption DEF LanesTypeOK
  <2>2. /\ level <= 13 => (Avx2Test(way, hash, level, page) <=> ScalarTest(way, hash, level, page))
        /\ Avx2Test(way, hash, level, page) => ScalarTest(way, hash, level, page)
    <3>1. CASE way > 4
      <4>1. way \in 5..8
        BY <2>1, <3>1
      <4>2. level <= 13 => (WideTest(way, hash, level, page) <=> ScalarTest(way, hash, level, page))
        <5>1. level <= 13 => level \in 0..13
          BY <2>1
        <5> QED BY <2>1, <4>1, <5>1, WideIsScalar
      <4>3. WideTest(way, hash, level, page) => ScalarTest(way, hash, level, page)
        BY <2>1, <4>1, WideInventsNone DEF AnswersCurrent
      <4> QED BY <3>1, <4>2, <4>3 DEF Avx2Test
    <3>2. CASE ~(way > 4)
      BY <3>2 DEF Avx2Test
    <3> QED BY <3>1, <3>2
  <2> QED BY <2>2 DEF AnswersCurrent, Answer
<1> QED BY <1>1, LanesTypeCorrect, AnswersStayCurrent, PTL

\* No gathered word reaches beyond the page, at any level of a filter or of a raw call
\* but 0 and 1, where it is the one the page starts with (pbf-internal.h:47).
THEOREM GatherStaysInPage == LanesSpec => []GatherInPage
<1>1. LanesTypeOK => GatherInPage
  <2> SUFFICES ASSUME LanesTypeOK, NEW lane \in 0..7
               PROVE  LET word == GatheredWord(Lane(hash, lane, level))
                      IN  IF level < 2 THEN word = 0 ELSE 4 * word + 4 <= PageSize(level)
    BY DEF GatherInPage
  <2> DEFINE idx == Lane(hash, lane, level)
             bytes == PageSize(level)
  <2>1. level \in 0..28 /\ hash \in [1..8 -> Halfword]
    BY LanesAssumption DEF LanesTypeOK
  <2>2. idx \in 0..(8 * bytes - 1) /\ bytes \in Nat \ {0}
    BY <2>1, LaneInPage, PageSizes
  <2>3. CASE level < 2
    <3>1. bytes <= 2
      <4>1. PageSize(0) = 1 /\ PageSize(1) = 2
        BY DEF PageSize
      <4>2. level = 0 \/ level = 1
        BY <2>1, <2>3
      <4> QED BY <4>1, <4>2
    <3> HIDE DEF idx, bytes
    <3>2. idx \div 32 = 0
      BY <2>2, <3>1
    <3> QED BY <2>3, <3>2 DEF GatheredWord, idx
  <2>4. CASE ~(level < 2)
    <3>1. PICK w \in Nat \ {0} : bytes = 4 * w
      BY <2>1, <2>4, PageSizes
    <3> HIDE DEF idx, bytes
    <3>2. 4 * (idx \div 32) + 4 <= bytes
      BY <2>2, <3>1
    <3> QED BY <2>4, <3>2 DEF GatheredWord, idx, bytes
  <2> QED BY <2>3, <2>4
<1> QED BY <1>1, LanesTypeCorrect, PTL

-----------------------------------------------------------------------------
(***************************************************************************)
(* The AES-NI hash reads every key alike, whatever its length and wherever *)
(* it lies, and reads no further than a load beyond it.                    *)
(***************************************************************************)
\* The first k blocks of a key.
Blocks(k) == [b \in 1..k |-> Loaded(16 * (b - 1))]

\* What block b of a key of n bytes holds once the tail is filled up.
Filled(n, b) ==
    [i \in 0..15 |-> IF 16 * (b - 1) + i < n THEN 16 * (b - 1) + i ELSE Blank]

\* Until the tail, whole blocks were consumed and mixed in, and only they were read;
\* after it, the properties hold.  PlacementIndependent alone says nothing of a key
\* that is not yet consumed.
Progress ==
    /\ size \in Lengths /\ start \in Offsets /\ greed \in BOOLEAN /\ done \in BOOLEAN
    /\ ~done => \E k \in Nat : /\ at = 16 * k /\ at <= size
                               /\ mixed = Blocks(k)
                               /\ read \subseteq 0..(at - 1)
    /\ done => at = size
    /\ PlacementIndependent
    /\ ReadsNearKey

-----------------------------------------------------------------------------
BlockValue == [0..15 -> Int]

LEMMA LoadedIsBlock == ASSUME NEW from \in Int PROVE Loaded(from) \in BlockValue
BY DEF Loaded, BlockValue

\* A sequence one longer than s that agrees with it and ends in e is Append(s, e).
LEMMA Appended ==
    ASSUME NEW S, NEW s \in Seq(S), NEW t \in Seq(S), NEW e \in S,
           Len(t) = Len(s) + 1,
           \A b \in 1..Len(s) : t[b] = s[b],
           t[Len(s) + 1] = e
    PROVE  Append(s, e) = t
<1> DEFINE u == Append(s, e)
<1>1. /\ u \in Seq(S) /\ Len(u) = Len(s) + 1
      /\ \A b \in 1..Len(s) : u[b] = s[b]
      /\ u[Len(s) + 1] = e
  BY AppendProperties
<1>2. Len(s) \in Nat
  BY LenProperties
<1> HIDE DEF u
<1>3. \A b \in 1..Len(u) : u[b] = t[b]
  <2> SUFFICES ASSUME NEW b \in 1..Len(u) PROVE u[b] = t[b]
    OBVIOUS
  <2>1. b \in 1..Len(s) \/ b = Len(s) + 1
    BY <1>1, <1>2
  <2> QED BY <2>1, <1>1
<1>4. u = t
  BY <1>1, <1>3, SeqEqual
<1> QED BY <1>4 DEF u

\* The same of a concatenation.
LEMMA Joined ==
    ASSUME NEW S, NEW s \in Seq(S), NEW r \in Seq(S), NEW t \in Seq(S),
           Len(t) = Len(s) + Len(r),
           \A b \in 1..Len(s) : t[b] = s[b],
           \A b \in 1..Len(r) : t[Len(s) + b] = r[b]
    PROVE  s \o r = t
<1> DEFINE u == s \o r
<1>1. /\ u \in Seq(S) /\ Len(u) = Len(s) + Len(r)
      /\ \A b \in 1..(Len(s) + Len(r)) :
            u[b] = IF b <= Len(s) THEN s[b] ELSE r[b - Len(s)]
  BY ConcatProperties
<1>2. Len(s) \in Nat /\ Len(r) \in Nat
  BY LenProperties
<1> HIDE DEF u
<1>3. \A b \in 1..Len(u) : u[b] = t[b]
  <2> SUFFICES ASSUME NEW b \in 1..Len(u) PROVE u[b] = t[b]
    OBVIOUS
  <2>1. CASE b <= Len(s)
    BY <2>1, <1>1, <1>2
  <2>2. CASE b > Len(s)
    <3> DEFINE c == b - Len(s)
    <3>1. c \in 1..Len(r) /\ Len(s) + c = b
      BY <2>2, <1>1, <1>2
    <3>2. t[Len(s) + c] = r[c]
      BY <3>1
    <3>3. u[b] = r[c]
      BY <2>2, <1>1, <1>2
    <3> QED BY <3>1, <3>2, <3>3
  <2> QED BY <2>1, <2>2, <1>1, <1>2
<1>4. u = t
  BY <1>1, <1>3, SeqEqual
<1> QED BY <1>4 DEF u

LEMMA BlocksIsSeq ==
    ASSUME NEW k \in Nat
    PROVE  /\ Blocks(k) \in Seq(BlockValue)
           /\ Len(Blocks(k)) = k
           /\ \A b \in 1..k : Blocks(k)[b] = Loaded(16 * (b - 1))
<1>1. \A b \in 1..k : Loaded(16 * (b - 1)) \in BlockValue
  BY LoadedIsBlock
<1>2. Blocks(k) \in [1..k -> BlockValue]
  BY <1>1 DEF Blocks
<1> QED BY <1>2 DEF Blocks

\* One block more is the next sixteen bytes.
LEMMA OneMore ==
    ASSUME NEW k \in Nat
    PROVE  Append(Blocks(k), Loaded(16 * k)) = Blocks(k + 1)
<1>1. Loaded(16 * k) \in BlockValue
  BY LoadedIsBlock
<1>2. Blocks(k + 1)[k + 1] = Loaded(16 * k)
  <2>1. Blocks(k + 1)[k + 1] = Loaded(16 * ((k + 1) - 1))
    BY BlocksIsSeq
  <2> QED BY <2>1
<1>3. \A b \in 1..k : Blocks(k + 1)[b] = Blocks(k)[b]
  BY BlocksIsSeq, 1..k \subseteq 1..(k + 1)
<1> DEFINE s == Blocks(k)
          t == Blocks(k + 1)
          e == Loaded(16 * k)
<1>4. /\ s \in Seq(BlockValue) /\ t \in Seq(BlockValue) /\ e \in BlockValue
      /\ Len(s) = k /\ Len(t) = k + 1
      /\ t[Len(s) + 1] = e
      /\ \A b \in 1..Len(s) : t[b] = s[b]
  BY <1>1, <1>2, <1>3, BlocksIsSeq, SMTT(30)
<1> HIDE DEF s, t, e
<1>5. Append(s, e) = t
  BY <1>4, Appended
<1> QED BY <1>5 DEF s, t, e

\* The four blocks of the bulk loop are the next four.
LEMMA FourMore ==
    ASSUME NEW k \in Nat
    PROVE  Blocks(k) \o [i \in 1..4 |-> Loaded(16 * k + 16 * (i - 1))] = Blocks(k + 4)
<1> DEFINE four == [i \in 1..4 |-> Loaded(16 * k + 16 * (i - 1))]
<1>1. four \in Seq(BlockValue) /\ Len(four) = 4
  <2>1. \A i \in 1..4 : Loaded(16 * k + 16 * (i - 1)) \in BlockValue
    BY LoadedIsBlock
  <2>2. four \in [1..4 -> BlockValue]
    BY <2>1
  <2> QED BY <2>2
<1>2. \A b \in 1..4 : Blocks(k + 4)[k + b] = four[b]
  <2> SUFFICES ASSUME NEW b \in 1..4 PROVE Blocks(k + 4)[k + b] = four[b]
    OBVIOUS
  <2>1. Blocks(k + 4)[k + b] = Loaded(16 * ((k + b) - 1))
    <3>1. k + 4 \in Nat /\ k + b \in 1..(k + 4)
      OBVIOUS
    <3> QED BY <3>1, BlocksIsSeq
  <2>2. 16 * ((k + b) - 1) = 16 * k + 16 * (b - 1)
    OBVIOUS
  <2> QED BY <2>1, <2>2
<1>3. \A b \in 1..k : Blocks(k + 4)[b] = Blocks(k)[b]
  BY BlocksIsSeq, 1..k \subseteq 1..(k + 4)
<1> HIDE DEF four
<1> DEFINE s == Blocks(k)
          t == Blocks(k + 4)
<1>4. s \in Seq(BlockValue) /\ Len(s) = k
  BY BlocksIsSeq
<1>5. t \in Seq(BlockValue) /\ Len(t) = k + 4
  <2>1. k + 4 \in Nat
    OBVIOUS
  <2> QED BY <2>1, BlocksIsSeq
<1>6. /\ \A b \in 1..4 : t[k + b] = four[b]
      /\ \A b \in 1..k : t[b] = s[b]
  BY <1>2, <1>3
<1> HIDE DEF s, t
<1>7. /\ Len(t) = Len(s) + Len(four)
      /\ \A b \in 1..Len(four) : t[Len(s) + b] = four[b]
      /\ \A b \in 1..Len(s) : t[b] = s[b]
  BY <1>1, <1>4, <1>5, <1>6
<1>8. s \o four = t
  BY <1>1, <1>4, <1>5, <1>7, Joined
<1> QED BY <1>8 DEF s, t, four

-----------------------------------------------------------------------------
\* What a consumed key of n bytes was mixed in as.
Whole(n) == [b \in 1..((n + 15) \div 16) |-> Filled(n, b)]

LEMMA FilledIsBlock ==
    ASSUME NEW n \in Nat, NEW b \in Nat \ {0} PROVE Filled(n, b) \in BlockValue
BY DEF Filled, BlockValue, Blank

LEMMA FilledWhole ==
    ASSUME NEW n \in Nat, NEW b \in Nat \ {0}, 16 * b <= n
    PROVE  Filled(n, b) = Loaded(16 * (b - 1))
<1>1. \A i \in 0..15 : 16 * (b - 1) + i < n
  OBVIOUS
<1> QED BY <1>1 DEF Filled, Loaded

\* A key of whole blocks is its blocks.
LEMMA NoTail == ASSUME NEW k \in Nat PROVE Blocks(k) = Whole(16 * k)
<1>1. (16 * k + 15) \div 16 = k
  OBVIOUS
<1>2. \A b \in 1..k : Filled(16 * k, b) = Loaded(16 * (b - 1))
  <2> SUFFICES ASSUME NEW b \in 1..k PROVE Filled(16 * k, b) = Loaded(16 * (b - 1))
    OBVIOUS
  <2>1. 16 * b <= 16 * k /\ b \in Nat \ {0} /\ 16 * k \in Nat
    OBVIOUS
  <2> QED BY <2>1, FilledWhole
<1> QED BY <1>1, <1>2 DEF Blocks, Whole

\* A filled tail completes the key.
LEMMA WithTail ==
    ASSUME NEW k \in Nat, NEW n \in 1..15
    PROVE  Append(Blocks(k), Filled(16 * k + n, k + 1)) = Whole(16 * k + n)
<1> DEFINE size0 == 16 * k + n
           s == Blocks(k)
           e == Filled(size0, k + 1)
           t == Whole(size0)
<1>1. size0 \in Nat /\ (size0 + 15) \div 16 = k + 1
  OBVIOUS
<1>2. s \in Seq(BlockValue) /\ Len(s) = k
  BY BlocksIsSeq
<1>3. t \in Seq(BlockValue) /\ Len(t) = k + 1 /\ \A b \in 1..(k + 1) : t[b] = Filled(size0, b)
  <2>1. t = [b \in 1..(k + 1) |-> Filled(size0, b)]
    BY <1>1 DEF Whole
  <2>2. \A b \in 1..(k + 1) : Filled(size0, b) \in BlockValue
    BY <1>1, FilledIsBlock
  <2> HIDE DEF size0, t
  <2>3. t \in [1..(k + 1) -> BlockValue]
    BY <2>1, <2>2
  <2> QED BY <2>1, <2>3
<1>4. \A b \in 1..k : s[b] = Filled(size0, b)
  <2> SUFFICES ASSUME NEW b \in 1..k PROVE s[b] = Filled(size0, b)
    OBVIOUS
  <2>1. 16 * b <= size0 /\ b \in Nat \ {0}
    OBVIOUS
  <2>2. Filled(size0, b) = Loaded(16 * (b - 1))
    BY <2>1, <1>1, FilledWhole
  <2> QED BY <2>2, BlocksIsSeq
<1>5. e \in BlockValue
  BY <1>1, FilledIsBlock
<1> HIDE DEF size0, s, e, t
<1>6. /\ Len(t) = Len(s) + 1
      /\ \A b \in 1..Len(s) : t[b] = s[b]
  BY <1>2, <1>3, <1>4
<1>7. t[Len(s) + 1] = e
  <2>1. t[k + 1] = Filled(size0, k + 1)
    BY <1>3
  <2> QED BY <2>1, <1>2 DEF e
<1>8. Append(s, e) = t
  BY <1>2, <1>3, <1>5, <1>6, <1>7, Appended
<1> QED BY <1>8 DEF size0, s, e, t

\* Both ways of loading a tail of n bytes fill the same block.
LEMMA TailsAgree ==
    ASSUME NEW k \in Nat, NEW n \in 1..15
    PROVE  /\ GreedyRead(n, 16 * k) = Filled(16 * k + n, k + 1)
           /\ ExactRead(n, 16 * k) = Filled(16 * k + n, k + 1)
<1>1. WordAt(n) \in 0..n
  BY DEF WordAt
<1>2. GreedyRead(n, 16 * k) = Filled(16 * k + n, k + 1)
  BY DEF GreedyRead, Filled
<1>3. ExactRead(n, 16 * k) = Filled(16 * k + n, k + 1)
  <2>1. \A i \in 0..15 : (i < WordAt(n) \/ i \in ExactBytes(n)) <=> i < n
    BY <1>1 DEF ExactBytes
  <2>2. \A i \in 0..15 : /\ (16 * ((k + 1) - 1) + i < 16 * k + n) <=> i < n
                          /\ 16 * ((k + 1) - 1) + i = 16 * k + i
    OBVIOUS
  <2>3. \A i \in 0..15 :
           (IF i < WordAt(n) THEN 16 * k + i
            ELSE IF i \in ExactBytes(n) THEN 16 * k + i ELSE Blank)
           = (IF 16 * ((k + 1) - 1) + i < 16 * k + n THEN 16 * ((k + 1) - 1) + i ELSE Blank)
    <3> SUFFICES ASSUME NEW i \in 0..15
                 PROVE  (IF i < WordAt(n) THEN 16 * k + i
                         ELSE IF i \in ExactBytes(n) THEN 16 * k + i ELSE Blank)
                        = (IF 16 * ((k + 1) - 1) + i < 16 * k + n
                           THEN 16 * ((k + 1) - 1) + i ELSE Blank)
      OBVIOUS
    <3>1. CASE i < n
      <4>1. /\ i < WordAt(n) \/ i \in ExactBytes(n)
            /\ 16 * ((k + 1) - 1) + i < 16 * k + n
        BY <3>1, <2>1, <2>2
      <4>2. 16 * ((k + 1) - 1) + i = 16 * k + i
        OBVIOUS
      <4>3. (IF i < WordAt(n) THEN 16 * k + i
             ELSE IF i \in ExactBytes(n) THEN 16 * k + i ELSE Blank) = 16 * k + i
        BY <4>1, Zenon
      <4> QED BY <4>1, <4>2, <4>3
    <3>2. CASE ~(i < n)
      <4>1. /\ ~(i < WordAt(n)) /\ i \notin ExactBytes(n)
            /\ ~(16 * ((k + 1) - 1) + i < 16 * k + n)
        BY <3>2, <2>1, <2>2
      <4> QED BY <4>1
    <3> QED BY <3>1, <3>2
  <2> QED BY <2>3 DEF ExactRead, Filled
<1> QED BY <1>2, <1>3

LEMMA ReadsOfTail ==
    ASSUME NEW from \in Nat, NEW n \in 1..15
    PROVE  /\ GreedyReads(n, from) \subseteq 0..(from + n + 14)
           /\ ExactReads(n, from) \subseteq 0..(from + n - 1)
<1>1. WordAt(n) \in 0..n
  BY DEF WordAt
<1>2. GreedyReads(n, from) \subseteq 0..(from + n + 14)
  BY DEF GreedyReads
<1>3. ExactReads(n, from) \subseteq 0..(from + n - 1)
  BY <1>1 DEF ExactReads, ExactBytes
<1> QED BY <1>2, <1>3

\* While only the consumed bytes were read, they are bytes of the key.
LEMMA ReadsConsumed ==
    ASSUME NEW n \in Nat, NEW a \in 0..n, NEW r, r \subseteq 0..(a - 1)
    PROVE  r \subseteq 0..(n - 1) /\ r \subseteq 0..(n + 14)
OBVIOUS

-----------------------------------------------------------------------------
LEMMA InitProgress == AesInit => Progress
<1> SUFFICES ASSUME AesInit PROVE Progress
  OBVIOUS
<1>1. size \in Lengths /\ start \in Offsets /\ size \in Nat /\ greed \in BOOLEAN /\ done = FALSE
  BY AesAssumption DEF AesInit, Greed
<1>2. mixed = Blocks(0)
  BY DEF AesInit, Blocks
<1>3. /\ at = 16 * 0 /\ at <= size /\ read \subseteq 0..(at - 1)
  BY <1>1 DEF AesInit
<1>4. PlacementIndependent
  BY <1>1 DEF PlacementIndependent
<1>5. ReadsNearKey
  BY DEF AesInit, ReadsNearKey
<1> QED BY <1>1, <1>2, <1>3, <1>4, <1>5 DEF Progress

LEMMA NextProgress == Progress /\ [AesNext]_aesVars => Progress'
<1> SUFFICES ASSUME Progress, [AesNext]_aesVars PROVE Progress'
  OBVIOUS
<1> USE DEF Left
<1>0. size \in Nat
  BY AesAssumption DEF Progress
<1>1. ASSUME ~done
      PROVE  \E k \in Nat : /\ at = 16 * k /\ at <= size
                            /\ mixed = Blocks(k)
                            /\ read \subseteq 0..(at - 1)
  BY <1>1 DEF Progress
<1>2. CASE Bulk
  <2>1. PICK k \in Nat : /\ at = 16 * k /\ at <= size
                         /\ mixed = Blocks(k)
                         /\ read \subseteq 0..(at - 1)
    BY <1>1, <1>2 DEF Bulk
  <2>2. at' = 16 * (k + 4) /\ at' <= size' /\ at' \in Nat
    BY <1>0, <1>2, <2>1 DEF Bulk, BulkLeft
  <2>3. mixed' = Blocks(k + 4)
    BY <1>2, <2>1, FourMore DEF Bulk
  <2>4. read' \subseteq 0..(at' - 1)
    BY <1>2, <2>1 DEF Bulk
  <2>5. ReadsNearKey'
    BY <1>0, <1>2, <2>2, <2>4, ReadsConsumed DEF Bulk, ReadsNearKey
  <2>6. PlacementIndependent'
    BY <1>2 DEF Bulk, PlacementIndependent
  <2>7. \E j \in Nat : /\ at' = 16 * j /\ at' <= size'
                       /\ mixed' = Blocks(j)
                       /\ read' \subseteq 0..(at' - 1)
    <3>1. k + 4 \in Nat
      OBVIOUS
    <3> QED BY <3>1, <2>2, <2>3, <2>4
  <2> QED BY <1>2, <2>5, <2>6, <2>7 DEF Bulk, Progress
<1>3. CASE Block
  <2>1. PICK k \in Nat : /\ at = 16 * k /\ at <= size
                         /\ mixed = Blocks(k)
                         /\ read \subseteq 0..(at - 1)
    BY <1>1, <1>3 DEF Block
  <2>2. at' = 16 * (k + 1) /\ at' <= size' /\ at' \in Nat
    BY <1>0, <1>3, <2>1 DEF Block
  <2>3. mixed' = Blocks(k + 1)
    BY <1>3, <2>1, OneMore DEF Block
  <2>4. read' \subseteq 0..(at' - 1)
    BY <1>3, <2>1 DEF Block
  <2>5. ReadsNearKey'
    BY <1>0, <1>3, <2>2, <2>4, ReadsConsumed DEF Block, ReadsNearKey
  <2>6. PlacementIndependent'
    BY <1>3 DEF Block, PlacementIndependent
  <2>7. \E j \in Nat : /\ at' = 16 * j /\ at' <= size'
                       /\ mixed' = Blocks(j)
                       /\ read' \subseteq 0..(at' - 1)
    <3>1. k + 1 \in Nat
      OBVIOUS
    <3> QED BY <3>1, <2>2, <2>3, <2>4
  <2> QED BY <1>3, <2>5, <2>6, <2>7 DEF Block, Progress
<1>4. CASE EmptyTail
  <2>1. PICK k \in Nat : at = 16 * k /\ mixed = Blocks(k)
    BY <1>1, <1>4 DEF EmptyTail
  <2>2. size = 16 * k
    BY <1>0, <1>4, <2>1 DEF EmptyTail
  <2>3. mixed' = Whole(size')
    BY <1>4, <2>1, <2>2, NoTail DEF EmptyTail
  <2>4. PlacementIndependent'
    BY <2>3 DEF PlacementIndependent, Whole, Filled
  <2>5. ReadsNearKey'
    BY <1>4 DEF EmptyTail, Progress, ReadsNearKey
  <2> QED BY <1>4, <2>1, <2>2, <2>4, <2>5 DEF EmptyTail, Progress
<1>5. ASSUME NEW k \in Nat, at = 16 * k, at <= size, ~done, Left < 16, Left > 0,
             mixed = Blocks(k), read \subseteq 0..(at - 1)
      PROVE  Left \in 1..15 /\ size = 16 * k + Left /\ at \in Nat
  BY <1>0, <1>5
<1>6. CASE GreedyTail
  <2>1. PICK k \in Nat : /\ at = 16 * k /\ at <= size
                         /\ mixed = Blocks(k)
                         /\ read \subseteq 0..(at - 1)
    BY <1>1, <1>6 DEF GreedyTail
  <2>2. Left \in 1..15 /\ size = 16 * k + Left /\ at \in Nat
    BY <1>5, <1>6, <2>1 DEF GreedyTail
  <2>3. mixed' = Whole(size')
    <3> DEFINE n == Left
    <3>1. mixed' = Append(Blocks(k), GreedyRead(n, 16 * k)) /\ size' = 16 * k + n
      BY <1>6, <2>1, <2>2 DEF GreedyTail
    <3>2. n \in 1..15
      BY <2>2
    <3> HIDE DEF n
    <3> QED BY <3>1, <3>2, TailsAgree, WithTail
  <2>4. PlacementIndependent'
    BY <2>3 DEF PlacementIndependent, Whole, Filled
  <2>5. GreedyReads(Left, at) \subseteq 0..(at + Left + 14)
    BY <2>2, ReadsOfTail
  <2>6. at + Left = size
    BY <2>2
  <2>7. read \subseteq 0..(size + 14)
    BY <1>0, <2>1, ReadsConsumed
  <2>8. ReadsNearKey'
    BY <1>6, <2>5, <2>6, <2>7 DEF GreedyTail, ReadsNearKey
  <2> QED BY <1>6, <2>4, <2>8 DEF GreedyTail, Progress
<1>7. CASE ExactTail
  <2>1. PICK k \in Nat : /\ at = 16 * k /\ at <= size
                         /\ mixed = Blocks(k)
                         /\ read \subseteq 0..(at - 1)
    BY <1>1, <1>7 DEF ExactTail
  <2>2. Left \in 1..15 /\ size = 16 * k + Left /\ at \in Nat
    BY <1>5, <1>7, <2>1 DEF ExactTail
  <2>3. mixed' = Whole(size')
    <3> DEFINE n == Left
    <3>1. mixed' = Append(Blocks(k), ExactRead(n, 16 * k)) /\ size' = 16 * k + n
      BY <1>7, <2>1, <2>2 DEF ExactTail
    <3>2. n \in 1..15
      BY <2>2
    <3> HIDE DEF n
    <3> QED BY <3>1, <3>2, TailsAgree, WithTail
  <2>4. PlacementIndependent'
    BY <2>3 DEF PlacementIndependent, Whole, Filled
  <2>5. ExactReads(Left, at) \subseteq 0..(at + Left - 1)
    BY <2>2, ReadsOfTail
  <2>6. at + Left - 1 = size - 1
    BY <1>0, <2>2
  <2>7. read \subseteq 0..(size - 1)
    BY <1>0, <2>1, ReadsConsumed
  <2>8. read' \subseteq 0..(size - 1)
    BY <1>7, <2>5, <2>6, <2>7 DEF ExactTail
  <2>9. ReadsNearKey'
    BY <1>0, <1>7, <2>8 DEF ExactTail, ReadsNearKey
  <2> QED BY <1>7, <2>4, <2>9 DEF ExactTail, Progress
<1>8. CASE UNCHANGED aesVars
  BY <1>8 DEF aesVars, Progress, PlacementIndependent, ReadsNearKey
<1> QED BY <1>2, <1>3, <1>4, <1>6, <1>7, <1>8 DEF AesNext

LEMMA ProgressImplies == Progress => AesTypeOK /\ PlacementIndependent /\ ReadsNearKey
<1> SUFFICES ASSUME Progress PROVE AesTypeOK
  BY DEF Progress
<1>1. size \in Nat
  BY AesAssumption DEF Progress
<1>2. CASE done
  BY <1>1, <1>2 DEF Progress, AesTypeOK
<1>3. CASE ~done
  <2>1. PICK k \in Nat : at = 16 * k /\ at <= size
    BY <1>3 DEF Progress
  <2>2. at \in 0..size /\ at % 16 = 0
    BY <1>1, <2>1
  <2> QED BY <1>3, <2>2 DEF Progress, AesTypeOK
<1> QED BY <1>2, <1>3

LEMMA ProgressAlways == AesSpec => []Progress
BY InitProgress, NextProgress, PTL DEF AesSpec

\* The loops consume whole blocks and never run past the key, whatever its length.
THEOREM AesTypeCorrect == AesSpec => []AesTypeOK
BY ProgressAlways, ProgressImplies, PTL

\* The hash of a key does not depend on its address: a greedy tail and an exact one
\* fill the same blocks (the two switches at the end of AESNI_Hash128).
THEOREM AlwaysPlacementIndependent == AesSpec => []PlacementIndependent
BY ProgressAlways, ProgressImplies, PTL

\* A key of any length is read within fifteen bytes of its end, and exactly where
\* the greedy load is refused.
THEOREM AlwaysReadsNearKey == AesSpec => []ReadsNearKey
BY ProgressAlways, ProgressImplies, PTL
=============================================================================
