------------------------- MODULE StandardHashProofs -------------------------
(***************************************************************************)
(* Proofs about the standard hash, for keys of every length.               *)
(***************************************************************************)
EXTENDS StandardHash, WellFoundedInduction, TLAPS

(***************************************************************************)
(* Words and their sums.                                                   *)
(***************************************************************************)
LEMMA Halves == \A v \in Halfword : v \in Int /\ 0 <= v /\ v < 65536
BY DEF Halfword

Bit == {0, 1}

LEMMA Ranges ==
    /\ \A v \in Int : 0 <= v /\ v < 65536 => v \in Halfword
    /\ \A v \in Int : 0 <= v /\ v < 2 => v \in Bit
    /\ \A v \in Bit : v \in Int /\ 0 <= v /\ v < 2
BY SMT DEF Halfword, Bit

LEMMA WordHalves ==
    ASSUME NEW x \in Word
    PROVE  x[1] \in Halfword /\ x[2] \in Halfword /\ x[3] \in Halfword /\ x[4] \in Halfword
BY DEF Word

LEMMA WordMade ==
    ASSUME NEW a \in Halfword, NEW b \in Halfword, NEW c \in Halfword, NEW d \in Halfword
    PROVE  /\ <<a, b, c, d>> \in Word
           /\ <<a, b, c, d>>[1] = a /\ <<a, b, c, d>>[2] = b
           /\ <<a, b, c, d>>[3] = c /\ <<a, b, c, d>>[4] = d
BY SMT DEF Word

LEMMA WordsEqual ==
    ASSUME NEW x \in Word, NEW y \in Word,
           x[1] = y[1], x[2] = y[2], x[3] = y[3], x[4] = y[4]
    PROVE  x = y
BY DEF Word

\* A halfword of a sum and the carry out of it.
Kept(s) == s % 65536
Carry(s) == s \div 65536
Net(s, c) == s - (65536 * c)

LEMMA Carried ==
    ASSUME NEW a \in Halfword, NEW b \in Halfword, NEW c \in Bit
    PROVE  LET s == a + b + c
           IN  Kept(s) \in Halfword /\ Carry(s) \in Bit /\ Kept(s) = Net(s, Carry(s))
<1> DEFINE s == a + b + c
<1>0. s \in Int /\ 0 <= s /\ s < 2 * 65536
  <2>1. /\ a \in Int /\ 0 <= a /\ a < 65536 /\ b \in Int /\ 0 <= b /\ b < 65536
        /\ c \in Int /\ 0 <= c /\ c < 2
    BY Halves, Ranges, SMT
  <2> QED BY <2>1, SMT
<1> HIDE DEF s
<1>1. s % 65536 \in Int /\ 0 <= s % 65536 /\ s % 65536 < 65536
  BY <1>0, SMT
<1>2. s % 65536 = s - (65536 * (s \div 65536)) /\ s \div 65536 \in Int
  BY <1>0, SMT
<1>3. 0 <= s \div 65536 /\ s \div 65536 < 2
  BY <1>0, SMT
<1>4. Kept(s) \in Halfword
  BY <1>1, Ranges, SMT DEF Kept
<1>5. Carry(s) \in Bit
  BY <1>2, <1>3, Ranges, SMT DEF Carry
<1>6. Kept(s) = Net(s, Carry(s))
  BY <1>2, SMT DEF Kept, Net, Carry
<1> QED BY <1>4, <1>5, <1>6 DEF s

LEMMA OneHalf ==
    ASSUME NEW s \in Int, NEW z \in Halfword, NEW w \in Halfword, NEW c \in Bit, NEW d \in Bit,
           z = Net(s, c), w = Net(s, d)
    PROVE  z = w /\ c = d
<1>1. /\ z \in Int /\ w \in Int /\ 0 <= z /\ z < 65536 /\ 0 <= w /\ w < 65536
      /\ c \in Int /\ d \in Int
  BY Halves, Ranges, SMT
<1>2. z = s - (65536 * c) /\ w = s - (65536 * d)
  BY <1>1, SMT DEF Net
<1>3. c = d
  BY <1>1, <1>2, SMT
<1> QED BY <1>3

\* A sum carries at most one from each halfword into the next.
HalfSum(x, y, z, i, c, d) == z[i] = Net(x[i] + y[i] + c, d)
Carries(x, y, z, c1, c2, c3, c4) ==
    /\ HalfSum(x, y, z, 1, 0, c1) /\ HalfSum(x, y, z, 2, c1, c2)
    /\ HalfSum(x, y, z, 3, c2, c3) /\ HalfSum(x, y, z, 4, c3, c4)

LEMMA Added ==
    ASSUME NEW x \in Word, NEW y \in Word
    PROVE  /\ Add64(x, y) \in Word
           /\ \E c1, c2, c3, c4 \in Bit : Carries(x, y, Add64(x, y), c1, c2, c3, c4)
<1> DEFINE first == x[1] + y[1] + 0
           second == x[2] + y[2] + Carry(first)
           third == x[3] + y[3] + Carry(second)
           fourth == x[4] + y[4] + Carry(third)
<1>1. Add64(x, y) = <<Kept(first), Kept(second), Kept(third), Kept(fourth)>>
  <2>1. x[1] + y[1] = first
    BY WordHalves, Halves, SMT
  <2>2. Add64(x, y) = LET f == x[1] + y[1]
                          s == x[2] + y[2] + Carry(f)
                          t == x[3] + y[3] + Carry(s)
                          u == x[4] + y[4] + Carry(t)
                      IN  <<Kept(f), Kept(s), Kept(t), Kept(u)>>
    BY SMT DEF Add64, Kept, Carry
  <2> QED BY <2>1, <2>2
<1>a. first = x[1] + y[1] + 0
  OBVIOUS
<1>b. second = x[2] + y[2] + Carry(first)
  OBVIOUS
<1>c. third = x[3] + y[3] + Carry(second)
  OBVIOUS
<1>d. fourth = x[4] + y[4] + Carry(third)
  OBVIOUS
<1> HIDE DEF first, second, third, fourth
<1>2. /\ Kept(first) \in Halfword /\ Carry(first) \in Bit
      /\ Kept(first) = Net(first, Carry(first))
  <2>1. 0 \in Bit
    BY DEF Bit
  <2> QED BY <1>a, <2>1, WordHalves, Carried
<1>3. /\ Kept(second) \in Halfword /\ Carry(second) \in Bit
      /\ Kept(second) = Net(second, Carry(second))
  BY <1>b, <1>2, WordHalves, Carried
<1>4. /\ Kept(third) \in Halfword /\ Carry(third) \in Bit
      /\ Kept(third) = Net(third, Carry(third))
  BY <1>c, <1>3, WordHalves, Carried
<1>5. /\ Kept(fourth) \in Halfword /\ Carry(fourth) \in Bit
      /\ Kept(fourth) = Net(fourth, Carry(fourth))
  BY <1>d, <1>4, WordHalves, Carried
<1>6. /\ Add64(x, y) \in Word
      /\ Add64(x, y)[1] = Kept(first) /\ Add64(x, y)[2] = Kept(second)
      /\ Add64(x, y)[3] = Kept(third) /\ Add64(x, y)[4] = Kept(fourth)
  BY <1>1, <1>2, <1>3, <1>4, <1>5, WordMade
<1>7. Carries(x, y, Add64(x, y), Carry(first), Carry(second), Carry(third), Carry(fourth))
  BY <1>a, <1>b, <1>c, <1>d, <1>2, <1>3, <1>4, <1>5, <1>6, Zenon DEF Carries, HalfSum
<1> QED BY <1>2, <1>3, <1>4, <1>5, <1>6, <1>7, Zenon

\* Carries decide a sum.
LEMMA SumDecided ==
    ASSUME NEW x \in Word, NEW y \in Word, NEW z \in Word,
           NEW c1 \in Bit, NEW c2 \in Bit, NEW c3 \in Bit, NEW c4 \in Bit,
           Carries(x, y, z, c1, c2, c3, c4)
    PROVE  z = Add64(x, y)
<1> DEFINE w == Add64(x, y)
<1>1. w \in Word
  BY Added
<1>2. PICK d1, d2, d3, d4 \in Bit : Carries(x, y, w, d1, d2, d3, d4)
  BY Added
<1> HIDE DEF w
<1> DEFINE s1 == x[1] + y[1] + 0
           s2 == x[2] + y[2] + c1
           s3 == x[3] + y[3] + c2
           s4 == x[4] + y[4] + c3
<1>3. /\ z[1] = Net(s1, c1) /\ z[2] = Net(s2, c2)
      /\ z[3] = Net(s3, c3) /\ z[4] = Net(s4, c4)
  BY Zenon DEF Carries, HalfSum
<1>4. s1 \in Int /\ s2 \in Int /\ s3 \in Int /\ s4 \in Int
  <2>1. /\ x[1] \in Int /\ x[2] \in Int /\ x[3] \in Int /\ x[4] \in Int
        /\ y[1] \in Int /\ y[2] \in Int /\ y[3] \in Int /\ y[4] \in Int
        /\ c1 \in Int /\ c2 \in Int /\ c3 \in Int
    BY WordHalves, Halves, Ranges
  <2> QED BY <2>1
<1>5. z[1] = w[1] /\ c1 = d1
  <2>1. w[1] = Net(s1, d1)
    BY <1>2, Zenon DEF Carries, HalfSum
  <2> HIDE DEF s1
  <2> QED BY <1>1, <1>3, <1>4, <2>1, WordHalves, OneHalf
<1>6. z[2] = w[2] /\ c2 = d2
  <2>1. w[2] = Net(s2, d2)
    BY <1>2, <1>5, Zenon DEF Carries, HalfSum
  <2> HIDE DEF s2
  <2> QED BY <1>1, <1>3, <1>4, <2>1, WordHalves, OneHalf
<1>7. z[3] = w[3] /\ c3 = d3
  <2>1. w[3] = Net(s3, d3)
    BY <1>2, <1>6, Zenon DEF Carries, HalfSum
  <2> HIDE DEF s3
  <2> QED BY <1>1, <1>3, <1>4, <2>1, WordHalves, OneHalf
<1>8. z[4] = w[4]
  <2>1. w[4] = Net(s4, d4)
    BY <1>2, <1>7, Zenon DEF Carries, HalfSum
  <2> HIDE DEF s4
  <2> QED BY <1>1, <1>3, <1>4, <2>1, WordHalves, OneHalf
<1>9. z = w
  BY <1>1, <1>5, <1>6, <1>7, <1>8, WordsEqual
<1> QED BY <1>9 DEF w

LEMMA AddCommutes ==
    ASSUME NEW x \in Word, NEW y \in Word
    PROVE  Add64(x, y) = Add64(y, x)
<1>1. PICK c1, c2, c3, c4 \in Bit : Carries(x, y, Add64(x, y), c1, c2, c3, c4)
  BY Added
<1>2. /\ x[1] + y[1] = y[1] + x[1] /\ x[2] + y[2] = y[2] + x[2]
      /\ x[3] + y[3] = y[3] + x[3] /\ x[4] + y[4] = y[4] + x[4]
  BY WordHalves, Halves
<1>3. Carries(y, x, Add64(x, y), c1, c2, c3, c4)
  BY <1>1, <1>2, Zenon DEF Carries, HalfSum
<1> QED BY <1>1, <1>3, Added, SumDecided

\* Three words added from either side, at a halfword: the carries into it agree.
Halfway(x, y, z, p, q, r, i, c0, d0, e0, f0, c, d, e) ==
    /\ x \in Word /\ y \in Word /\ z \in Word /\ p \in Word /\ q \in Word /\ r \in Word
    /\ c0 \in Bit /\ d0 \in Bit /\ e0 \in Bit /\ f0 \in Bit
    /\ c \in Bit /\ d \in Bit /\ e \in Bit /\ i \in 1..4
    /\ c0 + d0 = e0 + f0
    /\ HalfSum(x, y, p, i, c0, c) /\ HalfSum(p, z, r, i, d0, d) /\ HalfSum(y, z, q, i, e0, e)

LEMMA HalvesAssociate ==
    ASSUME NEW x, NEW y, NEW z, NEW p, NEW q, NEW r, NEW i, NEW c0, NEW d0, NEW e0, NEW f0,
           NEW c, NEW d, NEW e, Halfway(x, y, z, p, q, r, i, c0, d0, e0, f0, c, d, e)
    PROVE  \E f \in Bit : HalfSum(x, q, r, i, f0, f) /\ c + d = e + f
<1>0. /\ x \in Word /\ y \in Word /\ z \in Word /\ p \in Word /\ q \in Word /\ r \in Word
      /\ c0 \in Bit /\ d0 \in Bit /\ e0 \in Bit /\ f0 \in Bit
      /\ c \in Bit /\ d \in Bit /\ e \in Bit /\ i \in 1..4
  BY Zenon DEF Halfway
<1>1. /\ x[i] \in Halfword /\ y[i] \in Halfword /\ z[i] \in Halfword
      /\ p[i] \in Halfword /\ q[i] \in Halfword /\ r[i] \in Halfword
  BY <1>0 DEF Word
<1>2. /\ x[i] \in Int /\ y[i] \in Int /\ z[i] \in Int
      /\ p[i] \in Int /\ q[i] \in Int /\ r[i] \in Int
      /\ 0 <= x[i] /\ x[i] < 65536 /\ 0 <= q[i] /\ q[i] < 65536
      /\ 0 <= r[i] /\ r[i] < 65536
  BY <1>1, Halves, SMT
<1>b. /\ c0 \in Int /\ d0 \in Int /\ e0 \in Int /\ f0 \in Int
      /\ c \in Int /\ d \in Int /\ e \in Int
      /\ 0 <= f0 /\ f0 < 2
  BY <1>0, Ranges, SMT
<1>3. /\ p[i] = x[i] + y[i] + c0 - (65536 * c) /\ r[i] = p[i] + z[i] + d0 - (65536 * d)
      /\ q[i] = y[i] + z[i] + e0 - (65536 * e) /\ c0 + d0 = e0 + f0
  <2>1. /\ p[i] = Net(x[i] + y[i] + c0, c) /\ r[i] = Net(p[i] + z[i] + d0, d)
        /\ q[i] = Net(y[i] + z[i] + e0, e) /\ c0 + d0 = e0 + f0
    BY Zenon DEF Halfway, HalfSum
  <2>2. p[i] = x[i] + y[i] + c0 - (65536 * c)
    BY <1>2, <1>b, <2>1, SMT DEF Net
  <2>3. r[i] = p[i] + z[i] + d0 - (65536 * d)
    BY <1>2, <1>b, <2>1, SMT DEF Net
  <2>4. q[i] = y[i] + z[i] + e0 - (65536 * e)
    BY <1>2, <1>b, <2>1, SMT DEF Net
  <2> QED BY <2>1, <2>2, <2>3, <2>4
<1> DEFINE f == c + d - e
<1>4. f \in Int /\ c + d = e + f
  BY <1>b, SMT
<1>5. r[i] = x[i] + q[i] + f0 - (65536 * f)
  BY <1>2, <1>3, <1>b, SMT
<1> HIDE DEF f
<1>6. 0 <= f /\ f < 2
  BY <1>2, <1>4, <1>5, <1>b, SMT
<1>7. f \in Bit
  BY <1>4, <1>6, Ranges, SMT
<1>8. HalfSum(x, q, r, i, f0, f)
  <2>1. x[i] + q[i] + f0 \in Int
    BY <1>2, <1>b, SMT
  <2>2. r[i] = Net(x[i] + q[i] + f0, f)
    BY <1>2, <1>b, <1>4, <1>5, SMT DEF Net
  <2> QED BY <2>2, Zenon DEF HalfSum
<1> QED BY <1>4, <1>7, <1>8, Zenon

LEMMA AddAssociates ==
    ASSUME NEW x \in Word, NEW y \in Word, NEW z \in Word
    PROVE  Add64(Add64(x, y), z) = Add64(x, Add64(y, z))
<1> DEFINE p == Add64(x, y)
           q == Add64(y, z)
           r == Add64(p, z)
<1>1. p \in Word /\ q \in Word
  BY Added
<1>2. PICK c1, c2, c3, c4 \in Bit : Carries(x, y, p, c1, c2, c3, c4)
  BY Added
<1>3. PICK e1, e2, e3, e4 \in Bit : Carries(y, z, q, e1, e2, e3, e4)
  BY Added
<1> HIDE DEF p, q
<1>4. r \in Word
  BY <1>1, Added
<1>5. PICK d1, d2, d3, d4 \in Bit : Carries(p, z, r, d1, d2, d3, d4)
  BY <1>1, Added
<1> HIDE DEF r
<1>6. PICK f1 \in Bit : HalfSum(x, q, r, 1, 0, f1) /\ c1 + d1 = e1 + f1
  <2>1. /\ HalfSum(x, y, p, 1, 0, c1) /\ HalfSum(p, z, r, 1, 0, d1)
        /\ HalfSum(y, z, q, 1, 0, e1)
    BY <1>2, <1>3, <1>5, Zenon DEF Carries
  <2>2. 0 \in Bit /\ 1 \in 1..4 /\ 0 + 0 = 0 + 0
    BY DEF Bit
  <2>3. Halfway(x, y, z, p, q, r, 1, 0, 0, 0, 0, c1, d1, e1)
    BY <1>1, <1>4, <2>1, <2>2, Zenon DEF Halfway
  <2> QED BY <2>3, HalvesAssociate, SMT
<1>7. PICK f2 \in Bit : HalfSum(x, q, r, 2, f1, f2) /\ c2 + d2 = e2 + f2
  <2>1. /\ HalfSum(x, y, p, 2, c1, c2) /\ HalfSum(p, z, r, 2, d1, d2)
        /\ HalfSum(y, z, q, 2, e1, e2)
    BY <1>2, <1>3, <1>5, Zenon DEF Carries
  <2>2. 2 \in 1..4
    OBVIOUS
  <2>3. Halfway(x, y, z, p, q, r, 2, c1, d1, e1, f1, c2, d2, e2)
    BY <1>1, <1>4, <1>6, <2>1, <2>2, Zenon DEF Halfway
  <2> QED BY <2>3, HalvesAssociate, SMT
<1>8. PICK f3 \in Bit : HalfSum(x, q, r, 3, f2, f3) /\ c3 + d3 = e3 + f3
  <2>1. /\ HalfSum(x, y, p, 3, c2, c3) /\ HalfSum(p, z, r, 3, d2, d3)
        /\ HalfSum(y, z, q, 3, e2, e3)
    BY <1>2, <1>3, <1>5, Zenon DEF Carries
  <2>2. 3 \in 1..4
    OBVIOUS
  <2>3. Halfway(x, y, z, p, q, r, 3, c2, d2, e2, f2, c3, d3, e3)
    BY <1>1, <1>4, <1>7, <2>1, <2>2, Zenon DEF Halfway
  <2> QED BY <2>3, HalvesAssociate, SMT
<1>9. PICK f4 \in Bit : HalfSum(x, q, r, 4, f3, f4) /\ c4 + d4 = e4 + f4
  <2>1. /\ HalfSum(x, y, p, 4, c3, c4) /\ HalfSum(p, z, r, 4, d3, d4)
        /\ HalfSum(y, z, q, 4, e3, e4)
    BY <1>2, <1>3, <1>5, Zenon DEF Carries
  <2>2. 4 \in 1..4
    OBVIOUS
  <2>3. Halfway(x, y, z, p, q, r, 4, c3, d3, e3, f3, c4, d4, e4)
    BY <1>1, <1>4, <1>8, <2>1, <2>2, Zenon DEF Halfway
  <2> QED BY <2>3, HalvesAssociate, SMT
<1>10. Carries(x, q, r, f1, f2, f3, f4)
  BY <1>6, <1>7, <1>8, <1>9, Zenon DEF Carries
<1>11. r = Add64(x, q)
  BY <1>1, <1>4, <1>10, SumDecided
<1> QED BY <1>11 DEF p, q, r

\* Without carries, halfwords are added one by one.
LEMMA NoCarry ==
    ASSUME NEW x \in Word, NEW y \in Word, NEW z \in Word,
           z[1] = x[1] + y[1], z[2] = x[2] + y[2], z[3] = x[3] + y[3], z[4] = x[4] + y[4]
    PROVE  Add64(x, y) = z
<1>1. \A a, b \in Halfword : Net(a + b + 0, 0) = a + b
  BY Halves, SMT DEF Net
<1>2. 0 \in Bit
  BY DEF Bit
<1>3. Carries(x, y, z, 0, 0, 0, 0)
  BY <1>1, WordHalves, Zenon DEF Carries, HalfSum
<1> QED BY <1>2, <1>3, SumDecided

LEMMA ZeroHalf == 0 \in Halfword /\ 1 \in Halfword /\ 65535 \in Halfword
BY SMT DEF Halfword

LEMMA ZeroWord == Zero \in Word /\ Zero[1] = 0 /\ Zero[2] = 0 /\ Zero[3] = 0 /\ Zero[4] = 0
BY ZeroHalf, WordMade DEF Zero

LEMMA AddZero ==
    ASSUME NEW x \in Word
    PROVE  Add64(x, Zero) = x
<1>1. \A a \in Halfword : a = a + 0
  BY Halves
<1> QED BY <1>1, ZeroWord, WordHalves, NoCarry, Zenon

\* What was added can be taken away.
LEMMA AddedTaken ==
    ASSUME NEW x \in Word, NEW y \in Word
    PROVE  Minus(x, y) \in Word /\ Minus(Add64(x, y), y) = x
<1> DEFINE n == [i \in 1..4 |-> 65535 - y[i]]
           one == <<1, 0, 0, 0>>
           full == <<65535, 65535, 65535, 65535>>
<1>1. /\ Minus(x, y) = Add64(Add64(x, n), one)
      /\ Minus(Add64(x, y), y) = Add64(Add64(Add64(x, y), n), one)
  BY SMT DEF Minus
<1>2. /\ one \in Word /\ one[1] = 1 /\ one[2] = 0 /\ one[3] = 0 /\ one[4] = 0
  BY ZeroHalf, WordMade
<1>3. full \in Word /\ full[1] = 65535 /\ full[2] = 65535 /\ full[3] = 65535 /\ full[4] = 65535
  BY ZeroHalf, WordMade
<1>4. /\ n \in Word
      /\ n[1] = 65535 - y[1] /\ n[2] = 65535 - y[2] /\ n[3] = 65535 - y[3] /\ n[4] = 65535 - y[4]
  <2>1. ASSUME NEW v \in Halfword
        PROVE  65535 - v \in Halfword
    <3>1. v \in Int /\ 0 <= v /\ v < 65536
      BY Halves
    <3>2. 65535 - v \in Int /\ 0 <= 65535 - v /\ 65535 - v < 65536
      BY <3>1, SMT
    <3> QED BY <3>2, Ranges
  <2>2. \A i \in 1..4 : y[i] \in Halfword
    BY DEF Word
  <2>3. n \in Word
    BY <2>1, <2>2, SMT DEF Word
  <2> QED BY <2>3, SMT
<1> HIDE DEF n, one, full
<1>5. Add64(y, n) = full
  <2>1. ASSUME NEW v \in Halfword
        PROVE  65535 = v + (65535 - v)
    <3>1. v \in Int
      BY Halves
    <3> QED BY <3>1, SMT
  <2>2. /\ full[1] = y[1] + n[1] /\ full[2] = y[2] + n[2]
        /\ full[3] = y[3] + n[3] /\ full[4] = y[4] + n[4]
    BY <2>1, <1>3, <1>4, WordHalves, SMT
  <2> QED BY <1>3, <1>4, <2>2, NoCarry
<1>6. Add64(full, one) = Zero
  <2>1. 0 = Net(65535 + 1 + 0, 1) /\ 0 = Net(65535 + 0 + 1, 1)
    BY SMT DEF Net
  <2>2. Carries(full, one, Zero, 1, 1, 1, 1)
    BY <2>1, <1>2, <1>3, ZeroWord, SMT DEF Carries, HalfSum
  <2>3. 1 \in Bit
    BY DEF Bit
  <2> QED BY <1>2, <1>3, <2>2, <2>3, ZeroWord, SumDecided
<1>7. Add64(Add64(Add64(x, y), n), one) = Add64(Add64(x, Add64(y, n)), one)
  BY <1>4, AddAssociates
<1>8. Add64(Add64(x, full), one) = Add64(x, Add64(full, one))
  BY <1>2, <1>3, AddAssociates
<1>9. Minus(x, y) \in Word
  BY <1>1, <1>2, <1>4, Added
<1> QED BY <1>1, <1>5, <1>6, <1>7, <1>8, <1>9, AddZero

-----------------------------------------------------------------------------
(***************************************************************************)
(* Recursion over 0..n: the first member of a set of numbers, the function *)
(* that a start and a step define, and what it is.                         *)
(***************************************************************************)
Below == {p \in Nat \X Nat : p[1] < p[2]}

LEMMA BelowWellFounded == IsWellFoundedOn(Below, Nat)
<1>1. IsWellFoundedOn(OpToRel(<, Nat), Nat)
  BY NatLessThanWellFounded
<1>2. OpToRel(<, Nat) = Below
  BY DEF OpToRel, Below
<1> QED BY <1>1, <1>2

LEMMA Least ==
    ASSUME NEW S, S \subseteq Nat, S # {}
    PROVE  \E x \in S : \A y \in S : x <= y
<1>1. PICK x \in S : \A y \in S : <<y, x>> \notin Below
  BY BelowWellFounded, WFMin, Zenon
<1>2. ASSUME NEW y \in S
      PROVE  x <= y
  <2>1. <<y, x>> \notin Below /\ x \in Nat /\ y \in Nat
    BY <1>1
  <2> QED BY <2>1 DEF Below
<1> QED BY <1>2

Stepped(f, n, a, step) == f[0] = a /\ \A i \in 1..n : f[i] = step[i][f[i - 1]]

LEMMA Steps ==
    ASSUME NEW n \in Nat, NEW S, NEW a \in S, NEW step \in [1..n -> [S -> S]]
    PROVE  \E f \in [0..n -> S] : Stepped(f, n, a, step)
<1> DEFINE Reached(m) == \E f \in [0..m -> S] : Stepped(f, m, a, step)
           bad == {m \in 0..n : ~Reached(m)}
<1>1. SUFFICES bad = {}
  <2>1. n \in 0..n
    OBVIOUS
  <2> QED BY <1>1, <2>1, Zenon
<1>2. SUFFICES ASSUME bad # {} PROVE FALSE
  OBVIOUS
<1>3. PICK m \in bad : \A y \in bad : m <= y
  <2>1. bad \subseteq Nat
    OBVIOUS
  <2> HIDE DEF bad
  <2> QED BY <1>2, <2>1, Least
<1>4. m # 0
  <2>1. SUFFICES ASSUME m = 0 PROVE FALSE
    OBVIOUS
  <2> DEFINE f == [i \in 0..0 |-> a]
  <2>2. f \in [0..0 -> S] /\ Stepped(f, 0, a, step)
    BY DEF Stepped
  <2>3. Reached(0)
    BY <2>2
  <2> QED BY <2>1, <2>3, <1>3
<1>5. m \in 1..n /\ m - 1 \in 0..n /\ m \in Nat
  BY <1>4
<1>6. Reached(m - 1)
  <2>1. ~(m <= m - 1)
    BY <1>5
  <2> HIDE DEF Reached
  <2> QED BY <1>3, <1>5, <2>1
<1>7. PICK f \in [0..(m - 1) -> S] : Stepped(f, m - 1, a, step)
  BY <1>6
<1> DEFINE g == [i \in 0..m |-> IF i = m THEN step[m][f[m - 1]] ELSE f[i]]
<1>8. step[m][f[m - 1]] \in S
  <2>1. f[m - 1] \in S
    BY <1>5
  <2> QED BY <1>5, <2>1
<1>9. g \in [0..m -> S]
  <2>1. ASSUME NEW i \in 0..m
        PROVE  g[i] \in S
    <3>1. CASE i = m
      BY <3>1, <1>8
    <3>2. CASE i # m
      <4>1. i \in 0..(m - 1)
        BY <3>2, <1>5
      <4> QED BY <3>2, <4>1
    <3> QED BY <3>1, <3>2
  <2> QED BY <2>1
<1>10. Stepped(g, m, a, step)
  <2>1. g[0] = a
    <3>1. 0 \in 0..m /\ 0 # m /\ f[0] = a
      BY <1>4, <1>5, <1>7 DEF Stepped
    <3> QED BY <3>1
  <2>2. ASSUME NEW i \in 1..m
        PROVE  g[i] = step[i][g[i - 1]]
    <3>1. i - 1 \in 0..m /\ i \in 0..m /\ i - 1 # m
      BY <1>5
    <3>2. g[i - 1] = f[i - 1]
      BY <3>1
    <3>3. CASE i = m
      BY <3>1, <3>2, <3>3
    <3>4. CASE i # m
      <4>1. i \in 1..(m - 1)
        BY <3>4, <1>5
      <4>2. f[i] = step[i][f[i - 1]]
        BY <4>1, <1>7 DEF Stepped
      <4>3. g[i] = f[i]
        BY <3>1, <3>4
      <4> QED BY <3>2, <4>2, <4>3
    <3> QED BY <3>3, <3>4
  <2> HIDE DEF g
  <2> QED BY <2>1, <2>2 DEF Stepped
<1>11. Reached(m)
  <2> HIDE DEF g
  <2> QED BY <1>9, <1>10
<1> QED BY <1>3, <1>11

\* What holds at first and is kept by every step holds all along.
LEMMA Stays ==
    ASSUME NEW n \in Nat, NEW S, NEW f, f[0] \in S,
           \A i \in 1..n : f[i - 1] \in S => f[i] \in S
    PROVE  \A i \in 0..n : f[i] \in S
<1> DEFINE bad == {j \in 0..n : f[j] \notin S}
<1>1. SUFFICES ASSUME bad # {} PROVE FALSE
  OBVIOUS
<1>2. PICK m \in bad : \A y \in bad : m <= y
  <2>1. bad \subseteq Nat
    OBVIOUS
  <2> HIDE DEF bad
  <2> QED BY <1>1, <2>1, Least
<1>3. m \in 0..n /\ f[m] \notin S
  OBVIOUS
<1>4. m \in 1..n /\ m - 1 \in 0..n
  BY <1>3
<1>5. f[m - 1] \in S
  <2>1. ~(m <= m - 1)
    BY <1>4
  <2>2. m - 1 \notin bad
    <3> HIDE DEF bad
    <3> QED BY <1>2, <2>1
  <2> QED BY <1>4, <2>2
<1> QED BY <1>3, <1>4, <1>5

Loaded(parts) == Len(parts) \in Nat /\ \A i \in 1..Len(parts) : Load(parts[i]) \in Word

\* The parts of a sum are added in order, in every port.
LEMMA SumSteps ==
    ASSUME NEW base \in Word, NEW parts, Loaded(parts)
    PROVE  \E f : /\ f[0] = base
                  /\ \A i \in 1..Len(parts) : f[i] = Add64(f[i - 1], Load(parts[i]))
                  /\ Sum(base, parts) = f[Len(parts)]
<1> DEFINE n == Len(parts)
           step == [i \in 1..n |-> [w \in Word |-> Add64(w, Load(parts[i]))]]
           Is(g) == g = [i \in 0..n |->
                           IF i = 0 THEN base
                           ELSE Add64(g[i - 1], IF port = "java" THEN JavaLoad(parts[i])
                                                ELSE Load(parts[i]))]
           f == CHOOSE g : Is(g)
<1>0. n \in Nat /\ \A i \in 1..n : Load(parts[i]) \in Word
  BY DEF Loaded
<1>1. Sum(base, parts) = f[n]
  BY Zenon DEF Sum
<1>2. step \in [1..n -> [Word -> Word]]
  BY <1>0, Added
<1>3. PICK e \in [0..n -> Word] : Stepped(e, n, base, step)
  <2> HIDE DEF step
  <2> QED BY <1>0, <1>2, Steps
<1>4. \A i \in 1..n : e[i] = Add64(e[i - 1], Load(parts[i]))
  <2>1. \A i \in 1..n : e[i - 1] \in Word /\ e[i] = step[i][e[i - 1]]
    BY <1>0, <1>3 DEF Stepped
  <2>2. \A i \in 1..n : \A w \in Word : step[i][w] = Add64(w, Load(parts[i]))
    OBVIOUS
  <2> HIDE DEF step
  <2> QED BY <2>1, <2>2
<1>5. Is(e)
  <2>1. \A p : (IF port = "java" THEN JavaLoad(p) ELSE Load(p)) = Load(p)
    BY DEF JavaLoad
  <2>2. e[0] = base
    BY <1>3 DEF Stepped
  <2>3. e = [i \in 0..n |-> e[i]]
    OBVIOUS
  <2>4. ASSUME NEW i \in 0..n
        PROVE  e[i] = IF i = 0 THEN base
                      ELSE Add64(e[i - 1], IF port = "java" THEN JavaLoad(parts[i])
                                           ELSE Load(parts[i]))
    <3>1. i # 0 => i \in 1..n
      BY <1>0
    <3> QED BY <3>1, <2>1, <2>2, <1>4, Zenon
  <2> QED BY <2>3, <2>4, Zenon
<1>6. Is(f)
  <2> HIDE DEF Is
  <2> QED BY <1>5, Zenon
<1>7. f[0] = base /\ \A i \in 1..n : f[i] = Add64(f[i - 1], Load(parts[i]))
  <2>1. ASSUME NEW i \in 0..n
        PROVE  f[i] = IF i = 0 THEN base
                      ELSE Add64(f[i - 1], IF port = "java" THEN JavaLoad(parts[i])
                                           ELSE Load(parts[i]))
    <3> HIDE DEF f
    <3> QED BY <1>6, Zenon
  <2>2. 0 \in 0..n /\ \A i \in 1..n : i \in 0..n /\ i # 0
    BY <1>0
  <2>3. f[0] = base
    BY <2>1, <2>2, Zenon
  <2>4. ASSUME NEW i \in 1..n
        PROVE  f[i] = Add64(f[i - 1], Load(parts[i]))
    <3> HIDE DEF f
    <3> QED BY <2>1, <2>2, Zenon DEF JavaLoad
  <2> HIDE DEF f
  <2> QED BY <2>3, <2>4
<1> HIDE DEF f, n
<1> QED BY <1>1, <1>7 DEF n

LEMMA SumOne ==
    ASSUME NEW base \in Word, NEW parts, Len(parts) = 1,
           Load(parts[1]) \in Word
    PROVE  Sum(base, parts)
             = Add64(base, Load(parts[1]))
<1>1. PICK f : /\ f[0] = base
               /\ \A i \in 1..Len(parts) : f[i] = Add64(f[i - 1], Load(parts[i]))
               /\ Sum(base, parts) = f[Len(parts)]
  <2>1. Loaded(parts)
    BY DEF Loaded
  <2> QED BY <2>1, SumSteps, Zenon
<1>2. /\ f[1] = Add64(f[0], Load(parts[1]))
  BY <1>1
<1> QED BY <1>1, <1>2

LEMMA SumTwo ==
    ASSUME NEW base \in Word, NEW parts, Len(parts) = 2,
           Load(parts[1]) \in Word, Load(parts[2]) \in Word
    PROVE  Sum(base, parts)
             = Add64(Add64(base, Load(parts[1])), Load(parts[2]))
<1>1. PICK f : /\ f[0] = base
               /\ \A i \in 1..Len(parts) : f[i] = Add64(f[i - 1], Load(parts[i]))
               /\ Sum(base, parts) = f[Len(parts)]
  <2>1. Loaded(parts)
    BY DEF Loaded
  <2> QED BY <2>1, SumSteps, Zenon
<1>2. /\ f[1] = Add64(f[0], Load(parts[1])) /\ f[2] = Add64(f[1], Load(parts[2]))
  BY <1>1
<1> QED BY <1>1, <1>2

LEMMA SumThree ==
    ASSUME NEW base \in Word, NEW parts, Len(parts) = 3,
           Load(parts[1]) \in Word, Load(parts[2]) \in Word, Load(parts[3]) \in Word
    PROVE  Sum(base, parts)
             = Add64(Add64(Add64(base, Load(parts[1])), Load(parts[2])), Load(parts[3]))
<1>1. PICK f : /\ f[0] = base
               /\ \A i \in 1..Len(parts) : f[i] = Add64(f[i - 1], Load(parts[i]))
               /\ Sum(base, parts) = f[Len(parts)]
  <2>1. Loaded(parts)
    BY DEF Loaded
  <2> QED BY <2>1, SumSteps, Zenon
<1>2. /\ f[1] = Add64(f[0], Load(parts[1])) /\ f[2] = Add64(f[1], Load(parts[2]))
      /\ f[3] = Add64(f[2], Load(parts[3]))
  BY <1>1
<1> QED BY <1>1, <1>2

LEMMA SumFour ==
    ASSUME NEW base \in Word, NEW parts, Len(parts) = 4,
           Load(parts[1]) \in Word, Load(parts[2]) \in Word, Load(parts[3]) \in Word, Load(parts[4]) \in Word
    PROVE  Sum(base, parts)
             = Add64(Add64(Add64(Add64(base, Load(parts[1])), Load(parts[2])), Load(parts[3])), Load(parts[4]))
<1>1. PICK f : /\ f[0] = base
               /\ \A i \in 1..Len(parts) : f[i] = Add64(f[i - 1], Load(parts[i]))
               /\ Sum(base, parts) = f[Len(parts)]
  <2>1. Loaded(parts)
    BY DEF Loaded
  <2> QED BY <2>1, SumSteps, SMT
<1>2. /\ f[1] = Add64(f[0], Load(parts[1])) /\ f[2] = Add64(f[1], Load(parts[2]))
      /\ f[3] = Add64(f[2], Load(parts[3])) /\ f[4] = Add64(f[3], Load(parts[4]))
  BY <1>1
<1> QED BY <1>1, <1>2

-----------------------------------------------------------------------------
(***************************************************************************)
(* The bytes of the key: a word that has some of the next eight, and the   *)
(* sums of such words.                                                     *)
(***************************************************************************)
Piece(S, at) ==
    [i \in 1..4 |-> (IF 2 * i - 2 \in S THEN Padded(key, at + 2 * i - 2) ELSE 0)
                       + (256 * (IF 2 * i - 1 \in S THEN Padded(key, at + 2 * i - 1) ELSE 0))]

LEMMA KeyLength ==
    ASSUME key \in Keys
    PROVE  Len(key) \in Nat
BY HashAssumption

LEMMA PaddedByte ==
    ASSUME key \in Keys, NEW j \in Nat
    PROVE  Padded(key, j) \in Int /\ 0 <= Padded(key, j) /\ Padded(key, j) < 256
<1> DEFINE B == 0..255
<1>1. \A v \in B : v \in Int /\ 0 <= v /\ v < 256
  BY SMT
<1>2. key \in Seq(B)
  BY HashAssumption
<1> HIDE DEF B
<1>3. CASE j < Len(key)
  <2>1. j + 1 \in 1..Len(key)
    BY <1>2, <1>3
  <2>2. key[j + 1] \in B
    BY <1>2, <2>1
  <2> QED BY <1>1, <1>3, <2>2 DEF Padded
<1>4. CASE ~(j < Len(key))
  BY <1>4, SMT DEF Padded
<1> QED BY <1>3, <1>4

LEMMA Paired ==
    ASSUME NEW a \in Int, NEW b \in Int, 0 <= a, a < 256, 0 <= b, b < 256
    PROVE  a + (256 * b) \in Halfword
<1>1. a + (256 * b) \in Int /\ 0 <= a + (256 * b) /\ a + (256 * b) < 65536
  BY SMT
<1> QED BY <1>1, Ranges

LEMMA PieceWord ==
    ASSUME key \in Keys, NEW at \in Nat, NEW S
    PROVE  Piece(S, at) \in Word
<1>1. ASSUME NEW i \in 1..4
      PROVE  (IF 2 * i - 2 \in S THEN Padded(key, at + 2 * i - 2) ELSE 0)
               + (256 * (IF 2 * i - 1 \in S THEN Padded(key, at + 2 * i - 1) ELSE 0)) \in Halfword
  <2> DEFINE a == IF 2 * i - 2 \in S THEN Padded(key, at + 2 * i - 2) ELSE 0
             b == IF 2 * i - 1 \in S THEN Padded(key, at + 2 * i - 1) ELSE 0
  <2>1. at + 2 * i - 2 \in Nat /\ at + 2 * i - 1 \in Nat
    BY SMT
  <2>2. /\ Padded(key, at + 2 * i - 2) \in Int /\ 0 <= Padded(key, at + 2 * i - 2)
        /\ Padded(key, at + 2 * i - 2) < 256
    BY <2>1, PaddedByte
  <2>3. /\ Padded(key, at + 2 * i - 1) \in Int /\ 0 <= Padded(key, at + 2 * i - 1)
        /\ Padded(key, at + 2 * i - 1) < 256
    BY <2>1, PaddedByte
  <2>4. a \in Int /\ 0 <= a /\ a < 256
    BY <2>2, SMT
  <2>5. b \in Int /\ 0 <= b /\ b < 256
    BY <2>3, SMT
  <2> HIDE DEF a, b
  <2>6. a + (256 * b) \in Halfword
    BY <2>4, <2>5, Paired
  <2> QED BY <2>6 DEF a, b
<1> QED BY <1>1 DEF Piece, Word

LEMMA PiecesAdd ==
    ASSUME key \in Keys, NEW at \in Nat, NEW S, NEW T, S \cap T = {}
    PROVE  Add64(Piece(S, at), Piece(T, at)) = Piece(S \cup T, at)
<1>1. ASSUME NEW i \in 1..4
      PROVE  Piece(S \cup T, at)[i] = Piece(S, at)[i] + Piece(T, at)[i]
  <2> DEFINE j == 2 * i - 2
             k == 2 * i - 1
             a == Padded(key, at + 2 * i - 2)
             b == Padded(key, at + 2 * i - 1)
  <2>1. at + 2 * i - 2 \in Nat /\ at + 2 * i - 1 \in Nat
    BY SMT
  <2>2. a \in Int /\ b \in Int
    BY <2>1, PaddedByte
  <2>3. /\ Piece(S, at)[i] = (IF j \in S THEN a ELSE 0) + (256 * (IF k \in S THEN b ELSE 0))
        /\ Piece(T, at)[i] = (IF j \in T THEN a ELSE 0) + (256 * (IF k \in T THEN b ELSE 0))
        /\ Piece(S \cup T, at)[i]
             = (IF j \in S \cup T THEN a ELSE 0) + (256 * (IF k \in S \cup T THEN b ELSE 0))
    BY SMT DEF Piece
  <2>4. /\ j \in S \cup T <=> (j \in S \/ j \in T)
        /\ k \in S \cup T <=> (k \in S \/ k \in T)
        /\ ~(j \in S /\ j \in T) /\ ~(k \in S /\ k \in T)
    OBVIOUS
  <2> HIDE DEF j, k, a, b
  <2>5. (IF j \in S \cup T THEN a ELSE 0)
          = (IF j \in S THEN a ELSE 0) + (IF j \in T THEN a ELSE 0)
    BY <2>2, <2>4, SMT
  <2>6. (IF k \in S \cup T THEN b ELSE 0)
          = (IF k \in S THEN b ELSE 0) + (IF k \in T THEN b ELSE 0)
    BY <2>2, <2>4, SMT
  <2> DEFINE a1 == IF j \in S THEN a ELSE 0
             a2 == IF j \in T THEN a ELSE 0
             b1 == IF k \in S THEN b ELSE 0
             b2 == IF k \in T THEN b ELSE 0
  <2>7. a1 \in Int /\ a2 \in Int /\ b1 \in Int /\ b2 \in Int
    BY <2>2
  <2>8. /\ Piece(S, at)[i] = a1 + (256 * b1) /\ Piece(T, at)[i] = a2 + (256 * b2)
        /\ Piece(S \cup T, at)[i] = (a1 + a2) + (256 * (b1 + b2))
    BY <2>3, <2>5, <2>6
  <2> HIDE DEF a1, a2, b1, b2
  <2> QED BY <2>7, <2>8, SMT
<1>2. Piece(S, at) \in Word /\ Piece(T, at) \in Word /\ Piece(S \cup T, at) \in Word
  BY PieceWord
<1>3. 1 \in 1..4 /\ 2 \in 1..4 /\ 3 \in 1..4 /\ 4 \in 1..4
  OBVIOUS
<1> QED BY <1>1, <1>2, <1>3, NoCarry, Zenon

\* A part within the key is the bytes it covers.
LEMMA LoadPiece ==
    ASSUME key \in Keys, NEW at \in Nat, NEW f \in Nat, NEW n \in Nat,
           f + n <= 8, at + f + n <= Len(key)
    PROVE  Load(Part(at + f, n, 8 * f)) = Piece(f..(f + n - 1), at)
<1> DEFINE S == f..(f + n - 1)
           p == Part(at + f, n, 8 * f)
<1>1. p.at = at + f /\ p.n = n /\ p.shift = 8 * f
  BY DEF Part
<1>2. (8 * f) \div 8 = f
  BY SMT
<1> HIDE DEF p
<1>3. ASSUME NEW i \in Nat
      PROVE  (IF i \in (p.shift \div 8)..((p.shift \div 8) + p.n - 1)
                THEN ByteAt(p.at + i - (p.shift \div 8)) ELSE 0)
               = IF i \in S THEN Padded(key, at + i) ELSE 0
  <2>1. p.shift \div 8 = f /\ p.at + i - f = at + i
    BY <1>1, <1>2, SMT
  <2>2. ASSUME i \in S
        PROVE  ByteAt(at + i) = Padded(key, at + i)
    <3>1. at + i < Len(key)
      BY <2>2, KeyLength, SMT
    <3> QED BY <3>1 DEF ByteAt, Padded
  <2> QED BY <1>1, <2>1, <2>2
<1>4. ASSUME NEW i \in 1..4
      PROVE  Load(p)[i] = Piece(S, at)[i]
  <2>1. 2 * i - 2 \in Nat /\ 2 * i - 1 \in Nat
    BY SMT
  <2>2. at + (2 * i - 2) = at + 2 * i - 2 /\ at + (2 * i - 1) = at + 2 * i - 1
    BY SMT
  <2>3. Load(p)[i] = (IF 2 * i - 2 \in (p.shift \div 8)..((p.shift \div 8) + p.n - 1)
                        THEN ByteAt(p.at + (2 * i - 2) - (p.shift \div 8)) ELSE 0)
                    + (256 * (IF 2 * i - 1 \in (p.shift \div 8)..((p.shift \div 8) + p.n - 1)
                                THEN ByteAt(p.at + (2 * i - 1) - (p.shift \div 8)) ELSE 0))
    BY Zenon DEF Load
  <2>4. Piece(S, at)[i] = (IF 2 * i - 2 \in S THEN Padded(key, at + 2 * i - 2) ELSE 0)
                           + (256 * (IF 2 * i - 1 \in S THEN Padded(key, at + 2 * i - 1) ELSE 0))
    BY Zenon DEF Piece
  <2>5. (IF 2 * i - 2 \in (p.shift \div 8)..((p.shift \div 8) + p.n - 1)
           THEN ByteAt(p.at + (2 * i - 2) - (p.shift \div 8)) ELSE 0)
          = IF 2 * i - 2 \in S THEN Padded(key, at + (2 * i - 2)) ELSE 0
    <3> HIDE DEF S
    <3> QED BY <2>1, <1>3, Zenon
  <2>6. (IF 2 * i - 1 \in (p.shift \div 8)..((p.shift \div 8) + p.n - 1)
           THEN ByteAt(p.at + (2 * i - 1) - (p.shift \div 8)) ELSE 0)
          = IF 2 * i - 1 \in S THEN Padded(key, at + (2 * i - 1)) ELSE 0
    <3> HIDE DEF S
    <3> QED BY <2>1, <1>3, Zenon
  <2> HIDE DEF S
  <2> QED BY <2>2, <2>3, <2>4, <2>5, <2>6
<1>5. Load(p) = [i \in 1..4 |-> Load(p)[i]] /\ Piece(S, at) = [i \in 1..4 |-> Piece(S, at)[i]]
  <2>1. Load(p) = [i \in 1..4 |-> Load(p)[i]]
    BY SMT DEF Load
  <2>2. Piece(S, at) = [i \in 1..4 |-> Piece(S, at)[i]]
    <3> HIDE DEF S
    <3> QED BY SMT DEF Piece
  <2> QED BY <2>1, <2>2
<1> HIDE DEF S
<1>6. Load(p) = Piece(S, at)
  BY <1>4, <1>5, Zenon
<1> QED BY <1>6 DEF p, S

\* The bytes that are left of the key are the padded word.
LEMMA PieceWhole ==
    ASSUME key \in Keys, NEW at \in Nat, NEW S,
           \A i \in 0..7 : i \notin S => at + i >= Len(key)
    PROVE  Piece(S, at) = PaddedWord(key, at)
<1>1. ASSUME NEW i \in 0..7
      PROVE  (IF i \in S THEN Padded(key, at + i) ELSE 0) = Padded(key, at + i)
  BY KeyLength DEF Padded
<1>2. ASSUME NEW i \in 1..4
      PROVE  Piece(S, at)[i] = PaddedWord(key, at)[i]
  <2>1. 2 * i - 2 \in 0..7 /\ 2 * i - 1 \in 0..7
    BY SMT
  <2>2. at + (2 * i - 2) = at + 2 * i - 2 /\ at + (2 * i - 1) = at + 2 * i - 1
    BY SMT
  <2>3. Piece(S, at)[i] = (IF 2 * i - 2 \in S THEN Padded(key, at + 2 * i - 2) ELSE 0)
                           + (256 * (IF 2 * i - 1 \in S THEN Padded(key, at + 2 * i - 1) ELSE 0))
    BY Zenon DEF Piece
  <2>4. PaddedWord(key, at)[i] = Padded(key, at + 2 * i - 2) + (256 * Padded(key, at + 2 * i - 1))
    BY Zenon DEF PaddedWord
  <2>5. (IF 2 * i - 2 \in S THEN Padded(key, at + (2 * i - 2)) ELSE 0) = Padded(key, at + (2 * i - 2))
    BY <2>1, <1>1, Zenon
  <2>6. (IF 2 * i - 1 \in S THEN Padded(key, at + (2 * i - 1)) ELSE 0) = Padded(key, at + (2 * i - 1))
    BY <2>1, <1>1, Zenon
  <2> QED BY <2>2, <2>3, <2>4, <2>5, <2>6
<1>3. /\ Piece(S, at) = [i \in 1..4 |-> Piece(S, at)[i]]
      /\ PaddedWord(key, at) = [i \in 1..4 |-> PaddedWord(key, at)[i]]
  BY ZenonT(60) DEF Piece, PaddedWord
<1> QED BY <1>2, <1>3, Zenon

-----------------------------------------------------------------------------
(***************************************************************************)
(* What is left of the key.  Parts that run down to its offset, each where *)
(* the one before began, add up to the padded word.                        *)
(***************************************************************************)
\* The m bytes from offset at are the padded word: all of it, or all there is.
Ends(at, m) == m \in 0..8 /\ at + m <= Len(key) /\ (m = 8 \/ at + m = Len(key))

\* A part is those of them from e on, up to f.
Runs(part, at, m, e, f) ==
    /\ e \in Nat /\ f \in Nat /\ e <= f /\ f <= m
    /\ part = Part(at + e, f - e, 8 * e)

\* A sum that has had those from f on.
Had(base, at, m, f) == Add64(base, Piece(f..(m - 1), at))

LEMMA NoneHad ==
    ASSUME key \in Keys, NEW base \in Word, NEW at \in Nat, NEW m, Ends(at, m)
    PROVE  Had(base, at, m, m) = base
<1>1. m..(m - 1) = {}
  BY SMT DEF Ends
<1>2. Piece({}, at) \in Word
  BY PieceWord
<1>3. /\ Piece({}, at)[1] = 0 /\ Piece({}, at)[2] = 0
      /\ Piece({}, at)[3] = 0 /\ Piece({}, at)[4] = 0
  BY SMT DEF Piece
<1>4. Piece({}, at) = Zero
  BY <1>2, <1>3, ZeroWord, WordsEqual
<1> QED BY <1>1, <1>4, AddZero DEF Had

LEMMA AllHad ==
    ASSUME key \in Keys, NEW base \in Word, NEW at \in Nat, NEW m, Ends(at, m)
    PROVE  Had(base, at, m, 0) = Add64(base, PaddedWord(key, at))
<1>1. m \in Nat /\ (m = 8 \/ at + m = Len(key))
  BY DEF Ends
<1>2. \A i \in 0..7 : i \notin 0..(m - 1) => at + i >= Len(key)
  BY <1>1, KeyLength
<1>3. Piece(0..(m - 1), at) = PaddedWord(key, at)
  BY <1>2, PieceWhole
<1> QED BY <1>3 DEF Had

LEMMA NextPart ==
    ASSUME key \in Keys, NEW base \in Word, NEW at \in Nat, NEW m, Ends(at, m),
           NEW part, NEW e, NEW f, Runs(part, at, m, e, f)
    PROVE  /\ Load(part) \in Word
           /\ Add64(Had(base, at, m, f), Load(part)) = Had(base, at, m, e)
<1> DEFINE S == f..(m - 1)
           T == e..(f - 1)
<1>0. /\ e \in Nat /\ f \in Nat /\ e <= f /\ f <= m
      /\ part = Part(at + e, f - e, 8 * e)
  BY DEF Runs
<1>m. m \in Nat /\ m <= 8 /\ at + m <= Len(key)
  BY DEF Ends
<1>1. /\ f - e \in Nat /\ e + (f - e) = f
      /\ f <= 8 /\ at + e + (f - e) <= Len(key) /\ e + (f - e) - 1 = f - 1
  BY <1>0, <1>m, KeyLength, SMT
<1>2. Load(part) = Piece(T, at)
  <2>1. Load(Part(at + e, f - e, 8 * e)) = Piece(e..(e + (f - e) - 1), at)
    BY <1>0, <1>1, LoadPiece
  <2> QED BY <1>0, <1>1, <2>1
<1>3. S \cap T = {} /\ S \cup T = e..(m - 1)
  BY <1>0, <1>m, SMT
<1>4. Piece(S, at) \in Word /\ Piece(T, at) \in Word
  BY PieceWord
<1> HIDE DEF S, T
<1>5. Add64(Piece(S, at), Piece(T, at)) = Piece(e..(m - 1), at)
  BY <1>3, PiecesAdd
<1>6. Add64(Add64(base, Piece(S, at)), Piece(T, at)) = Add64(base, Piece(e..(m - 1), at))
  BY <1>4, <1>5, AddAssociates
<1> QED BY <1>2, <1>4, <1>6 DEF S, Had

LEMMA TailOne ==
    ASSUME key \in Keys, NEW base \in Word, NEW at \in Nat, NEW m, Ends(at, m),
           NEW parts, Len(parts) = 1, 
           Runs(parts[1], at, m, 0, m)
    PROVE  Sum(base, parts) = Add64(base, PaddedWord(key, at))
<1>1. /\ Load(parts[1]) \in Word
      /\ Add64(Had(base, at, m, m), Load(parts[1])) = Had(base, at, m, 0)
  BY NextPart
<1> QED BY <1>1, NoneHad, AllHad, SumOne

LEMMA TailTwo ==
    ASSUME key \in Keys, NEW base \in Word, NEW at \in Nat, NEW m, Ends(at, m),
           NEW parts, Len(parts) = 2, NEW e1,
           Runs(parts[1], at, m, e1, m), Runs(parts[2], at, m, 0, e1)
    PROVE  Sum(base, parts) = Add64(base, PaddedWord(key, at))
<1>1. /\ Load(parts[1]) \in Word
      /\ Add64(Had(base, at, m, m), Load(parts[1])) = Had(base, at, m, e1)
  BY NextPart
<1>2. /\ Load(parts[2]) \in Word
      /\ Add64(Had(base, at, m, e1), Load(parts[2])) = Had(base, at, m, 0)
  BY NextPart
<1> QED BY <1>1, <1>2, NoneHad, AllHad, SumTwo

LEMMA TailThree ==
    ASSUME key \in Keys, NEW base \in Word, NEW at \in Nat, NEW m, Ends(at, m),
           NEW parts, Len(parts) = 3, NEW e1, NEW e2,
           Runs(parts[1], at, m, e1, m), Runs(parts[2], at, m, e2, e1), Runs(parts[3], at, m, 0, e2)
    PROVE  Sum(base, parts) = Add64(base, PaddedWord(key, at))
<1>1. /\ Load(parts[1]) \in Word
      /\ Add64(Had(base, at, m, m), Load(parts[1])) = Had(base, at, m, e1)
  BY NextPart
<1>2. /\ Load(parts[2]) \in Word
      /\ Add64(Had(base, at, m, e1), Load(parts[2])) = Had(base, at, m, e2)
  BY NextPart
<1>3. /\ Load(parts[3]) \in Word
      /\ Add64(Had(base, at, m, e2), Load(parts[3])) = Had(base, at, m, 0)
  BY NextPart
<1> QED BY <1>1, <1>2, <1>3, NoneHad, AllHad, SumThree

LEMMA TailFour ==
    ASSUME key \in Keys, NEW base \in Word, NEW at \in Nat, NEW m, Ends(at, m),
           NEW parts, Len(parts) = 4, NEW e1, NEW e2, NEW e3,
           Runs(parts[1], at, m, e1, m), Runs(parts[2], at, m, e2, e1), Runs(parts[3], at, m, e3, e2), Runs(parts[4], at, m, 0, e3)
    PROVE  Sum(base, parts) = Add64(base, PaddedWord(key, at))
<1>1. /\ Load(parts[1]) \in Word
      /\ Add64(Had(base, at, m, m), Load(parts[1])) = Had(base, at, m, e1)
  BY NextPart
<1>2. /\ Load(parts[2]) \in Word
      /\ Add64(Had(base, at, m, e1), Load(parts[2])) = Had(base, at, m, e2)
  BY NextPart
<1>3. /\ Load(parts[3]) \in Word
      /\ Add64(Had(base, at, m, e2), Load(parts[3])) = Had(base, at, m, e3)
  BY NextPart
<1>4. /\ Load(parts[4]) \in Word
      /\ Add64(Had(base, at, m, e3), Load(parts[4])) = Had(base, at, m, 0)
  BY NextPart
<1> QED BY <1>1, <1>2, <1>3, <1>4, NoneHad, AllHad, SumFour

ByteParts(to, at) == {Part(at + to - i, 1, 8 * (to - i)) : i \in Nat}

LEMMA BytesAre ==
    ASSUME NEW from \in Nat, NEW to \in Nat, from <= to, NEW at \in Nat
    PROVE  /\ Bytes(from, to, at) \in Seq(ByteParts(to, at))
           /\ Len(Bytes(from, to, at)) = to - from
           /\ \A i \in 1..(to - from) :
                 Bytes(from, to, at)[i] = Part(at + to - i, 1, 8 * (to - i))
<1> DEFINE S == ByteParts(to, at)
           b(i) == Part(at + to - i, 1, 8 * (to - i))
           n == to - from
<1>1. n \in Nat /\ \A i \in 1..n : b(i) \in S
  BY DEF ByteParts
<1>2. Bytes(from, to, at) = [i \in 1..n |-> b(i)]
  BY DEF Bytes
<1> HIDE DEF S, b, n
<1>3. [i \in 1..n |-> b(i)] \in [1..n -> S]
  BY <1>1
<1>4. [i \in 1..n |-> b(i)] \in Seq(S) /\ Len([i \in 1..n |-> b(i)]) = n
  BY <1>1, <1>3
<1>5. \A i \in 1..n : Bytes(from, to, at)[i] = b(i)
  BY <1>2
<1> QED BY <1>2, <1>4, <1>5 DEF S, b, n

\* The cases a switch falls through, each a byte but for the last from four on.
LEMMA FallingRuns ==
    ASSUME NEW n \in 1..7, NEW at \in Nat
    PROVE  /\ n < 4 => /\ Len(Falling(n, at)) = n
                       /\ \A i \in 1..n : Runs(Falling(n, at)[i], at, n, n - i, n - i + 1)
           /\ n >= 4 => /\ Len(Falling(n, at)) = n - 3
                        /\ \A i \in 1..(n - 4) :
                              Runs(Falling(n, at)[i], at, n, n - i, n - i + 1)
                        /\ Runs(Falling(n, at)[n - 3], at, n, 0, 4)
<1> DEFINE from == IF n < 4 THEN 0 ELSE 4
           b == Bytes(from, n, at)
           S == ByteParts(n, at)
<1>1. from \in Nat /\ n \in Nat /\ (n < 4 => from = 0) /\ (n >= 4 => from = 4) /\ from <= n
  OBVIOUS
<1> HIDE DEF from
<1>2. /\ b \in Seq(S) /\ Len(b) = n - from
      /\ \A i \in 1..(n - from) : b[i] = Part(at + n - i, 1, 8 * (n - i))
  BY <1>1, BytesAre
<1>3. \A i \in 1..(n - from) : Runs(b[i], at, n, n - i, n - i + 1)
  <2> TAKE i \in 1..(n - from)
  <2>1. /\ at + n - i = at + (n - i) /\ (n - i + 1) - (n - i) = 1
        /\ n - i \in Nat /\ n - i + 1 \in Nat /\ n - i <= n - i + 1 /\ n - i + 1 <= n
    BY <1>1, SMT
  <2>2. b[i] = Part(at + n - i, 1, 8 * (n - i))
    BY <1>2
  <2> HIDE DEF b
  <2>3. b[i] = Part(at + (n - i), (n - i + 1) - (n - i), 8 * (n - i))
    BY <2>1, <2>2
  <2> QED BY <2>1, <2>3 DEF Runs
<1> HIDE DEF b, S
<1>4. CASE n < 4
  <2>1. Falling(n, at) = b /\ n - from = n
    BY <1>1, <1>4 DEF Falling, b
  <2> QED BY <1>2, <1>3, <1>4, <2>1
<1>5. CASE n >= 4
  <2> DEFINE last == Part(at, 4, 0)
             T == S \cup {last}
  <2>1. Falling(n, at) = Append(b, last)
    BY <1>1, <1>5 DEF Falling, b
  <2>2. b \in Seq(T) /\ last \in T
    BY <1>2
  <2> HIDE DEF last, T
  <2>3. Len(Append(b, last)) = n - 3
    BY <1>1, <1>2, <1>5, <2>2
  <2>4. Append(b, last)[n - 3] = last
    BY <1>1, <1>2, <1>5, <2>2
  <2>5. \A i \in 1..(n - 4) : Append(b, last)[i] = b[i]
    BY <1>1, <1>2, <1>5, <2>2
  <2>6. Runs(last, at, n, 0, 4)
    <3>1. at + 0 = at /\ 4 - 0 = 4 /\ 8 * 0 = 0
      OBVIOUS
    <3> QED BY <1>5, <3>1 DEF Runs, last
  <2>7. \A i \in 1..(n - 4) : Runs(Append(b, last)[i], at, n, n - i, n - i + 1)
    BY <1>1, <1>3, <1>5, <2>5
  <2> QED BY <1>5, <2>1, <2>3, <2>4, <2>6, <2>7
<1> QED BY <1>4, <1>5

LEMMA FallingSum ==
    ASSUME key \in Keys, NEW base \in Word, NEW at \in Nat, NEW n \in 1..7, at + n = Len(key)
    PROVE  Sum(base, Falling(n, at)) = Add64(base, PaddedWord(key, at))
<1> DEFINE parts == Falling(n, at)
<1>1. Ends(at, n)
  BY DEF Ends
<1>2. /\ n < 4 => /\ Len(parts) = n
                  /\ \A i \in 1..n : Runs(parts[i], at, n, n - i, n - i + 1)
      /\ n >= 4 => /\ Len(parts) = n - 3
                   /\ \A i \in 1..(n - 4) : Runs(parts[i], at, n, n - i, n - i + 1)
                   /\ Runs(parts[n - 3], at, n, 0, 4)
  BY FallingRuns
<1> HIDE DEF parts
<1>c1. CASE n = 1
  <2>1. Len(parts) = 1
    BY <1>2, <1>c1
  <2>2. Runs(parts[1], at, n, 0, n)
    BY <1>2, <1>c1
  <2> QED BY <1>1, <2>1, <2>2, TailOne DEF parts
<1>c2. CASE n = 2
  <2>1. Len(parts) = 2
    BY <1>2, <1>c2
  <2>2. Runs(parts[1], at, n, 1, n)
    BY <1>2, <1>c2
  <2>3. Runs(parts[2], at, n, 0, 1)
    BY <1>2, <1>c2
  <2> QED BY <1>1, <2>1, <2>2, <2>3, TailTwo DEF parts
<1>c3. CASE n = 3
  <2>1. Len(parts) = 3
    BY <1>2, <1>c3
  <2>2. Runs(parts[1], at, n, 2, n)
    BY <1>2, <1>c3
  <2>3. Runs(parts[2], at, n, 1, 2)
    BY <1>2, <1>c3
  <2>4. Runs(parts[3], at, n, 0, 1)
    BY <1>2, <1>c3
  <2> QED BY <1>1, <2>1, <2>2, <2>3, <2>4, TailThree DEF parts
<1>c4. CASE n = 4
  <2>1. Len(parts) = 1
    BY <1>2, <1>c4
  <2>2. Runs(parts[1], at, n, 0, n)
    BY <1>2, <1>c4
  <2> QED BY <1>1, <2>1, <2>2, TailOne DEF parts
<1>c5. CASE n = 5
  <2>1. Len(parts) = 2
    BY <1>2, <1>c5
  <2>2. Runs(parts[1], at, n, 4, n)
    BY <1>2, <1>c5
  <2>3. Runs(parts[2], at, n, 0, 4)
    BY <1>2, <1>c5
  <2> QED BY <1>1, <2>1, <2>2, <2>3, TailTwo DEF parts
<1>c6. CASE n = 6
  <2>1. Len(parts) = 3
    BY <1>2, <1>c6
  <2>2. Runs(parts[1], at, n, 5, n)
    BY <1>2, <1>c6
  <2>3. Runs(parts[2], at, n, 4, 5)
    BY <1>2, <1>c6
  <2>4. Runs(parts[3], at, n, 0, 4)
    BY <1>2, <1>c6
  <2> QED BY <1>1, <2>1, <2>2, <2>3, <2>4, TailThree DEF parts
<1>c7. CASE n = 7
  <2>1. Len(parts) = 4
    BY <1>2, <1>c7
  <2>2. Runs(parts[1], at, n, 6, n)
    BY <1>2, <1>c7
  <2>3. Runs(parts[2], at, n, 5, 6)
    BY <1>2, <1>c7
  <2>4. Runs(parts[3], at, n, 4, 5)
    BY <1>2, <1>c7
  <2>5. Runs(parts[4], at, n, 0, 4)
    BY <1>2, <1>c7
  <2> QED BY <1>1, <2>1, <2>2, <2>3, <2>4, <2>5, TailFour DEF parts
<1> QED BY <1>c1, <1>c2, <1>c3, <1>c4, <1>c5, <1>c6, <1>c7

\* Rust's cases, a part of two bytes where it can.
LEMMA ArmsSum ==
    ASSUME key \in Keys, NEW base \in Word, NEW at \in Nat, NEW n \in 1..7, at + n = Len(key)
    PROVE  Sum(base, Arms(at)[n]) = Add64(base, PaddedWord(key, at))
<1> DEFINE parts == Arms(at)[n]
<1>1. Ends(at, n)
  BY DEF Ends
<1>2. at + 0 = at
  OBVIOUS
<1>c1. CASE n = 1
  <2>1. parts = <<Part(at, 1, 0)>>
    BY <1>c1 DEF Arms
  <2> HIDE DEF parts
  <2>2. Len(parts) = 1
    BY <2>1
  <2>3. Runs(parts[1], at, n, 0, n)
    BY <1>2, <2>1, <1>c1 DEF Runs
  <2> QED BY <1>1, <2>2, <2>3, TailOne DEF parts
<1>c2. CASE n = 2
  <2>1. parts = <<Part(at, 2, 0)>>
    BY <1>c2 DEF Arms
  <2> HIDE DEF parts
  <2>2. Len(parts) = 1
    BY <2>1
  <2>3. Runs(parts[1], at, n, 0, n)
    BY <1>2, <2>1, <1>c2 DEF Runs
  <2> QED BY <1>1, <2>2, <2>3, TailOne DEF parts
<1>c3. CASE n = 3
  <2>1. parts = <<Part(at + 2, 1, 16), Part(at, 2, 0)>>
    BY <1>c3 DEF Arms
  <2> HIDE DEF parts
  <2>2. Len(parts) = 2
    BY <2>1
  <2>3. Runs(parts[1], at, n, 2, n)
    BY <1>2, <2>1, <1>c3 DEF Runs
  <2>4. Runs(parts[2], at, n, 0, 2)
    BY <1>2, <2>1, <1>c3 DEF Runs
  <2> QED BY <1>1, <2>2, <2>3, <2>4, TailTwo DEF parts
<1>c4. CASE n = 4
  <2>1. parts = <<Part(at, 4, 0)>>
    BY <1>c4 DEF Arms
  <2> HIDE DEF parts
  <2>2. Len(parts) = 1
    BY <2>1
  <2>3. Runs(parts[1], at, n, 0, n)
    BY <1>2, <2>1, <1>c4 DEF Runs
  <2> QED BY <1>1, <2>2, <2>3, TailOne DEF parts
<1>c5. CASE n = 5
  <2>1. parts = <<Part(at + 4, 1, 32), Part(at, 4, 0)>>
    BY <1>c5 DEF Arms
  <2> HIDE DEF parts
  <2>2. Len(parts) = 2
    BY <2>1
  <2>3. Runs(parts[1], at, n, 4, n)
    BY <1>2, <2>1, <1>c5 DEF Runs
  <2>4. Runs(parts[2], at, n, 0, 4)
    BY <1>2, <2>1, <1>c5 DEF Runs
  <2> QED BY <1>1, <2>2, <2>3, <2>4, TailTwo DEF parts
<1>c6. CASE n = 6
  <2>1. parts = <<Part(at + 4, 2, 32), Part(at, 4, 0)>>
    BY <1>c6 DEF Arms
  <2> HIDE DEF parts
  <2>2. Len(parts) = 2
    BY <2>1
  <2>3. Runs(parts[1], at, n, 4, n)
    BY <1>2, <2>1, <1>c6 DEF Runs
  <2>4. Runs(parts[2], at, n, 0, 4)
    BY <1>2, <2>1, <1>c6 DEF Runs
  <2> QED BY <1>1, <2>2, <2>3, <2>4, TailTwo DEF parts
<1>c7. CASE n = 7
  <2>1. parts = <<Part(at + 6, 1, 48), Part(at + 4, 2, 32), Part(at, 4, 0)>>
    BY <1>c7 DEF Arms
  <2> HIDE DEF parts
  <2>2. Len(parts) = 3
    BY <2>1
  <2>3. Runs(parts[1], at, n, 6, n)
    BY <1>2, <2>1, <1>c7 DEF Runs
  <2>4. Runs(parts[2], at, n, 4, 6)
    BY <1>2, <2>1, <1>c7 DEF Runs
  <2>5. Runs(parts[3], at, n, 0, 4)
    BY <1>2, <2>1, <1>c7 DEF Runs
  <2> QED BY <1>1, <2>2, <2>3, <2>4, <2>5, TailThree DEF parts
<1> QED BY <1>c1, <1>c2, <1>c3, <1>c4, <1>c5, <1>c6, <1>c7

LEMMA LongSum ==
    ASSUME key \in Keys, NEW base \in Word, NEW at \in Nat, at + 8 <= Len(key)
    PROVE  Sum(base, Long(at)) = Add64(base, PaddedWord(key, at))
<1> DEFINE parts == Long(at)
<1>1. parts = <<Part(at, 8, 0)>>
  BY DEF Long
<1> HIDE DEF parts
<1>2. Len(parts) = 1
  BY <1>1
<1>3. at + 0 = at
  OBVIOUS
<1>4. Runs(parts[1], at, 8, 0, 8)
  BY <1>1, <1>3 DEF Runs
<1>5. Ends(at, 8)
  BY DEF Ends
<1> QED BY <1>2, <1>4, <1>5, TailOne DEF parts

-----------------------------------------------------------------------------
(***************************************************************************)
(* Exclusive or, by its bits: what is changed twice is as it was.          *)
(***************************************************************************)
FromBits(b0, b1, b2, b3, b4, b5, b6, b7,
         b8, b9, b10, b11, b12, b13, b14, b15) ==
    b0 + (2 * b1) + (4 * b2) + (8 * b3)
      + (16 * b4) + (32 * b5) + (64 * b6) + (128 * b7)
      + (256 * b8) + (512 * b9) + (1024 * b10) + (2048 * b11)
      + (4096 * b12) + (8192 * b13) + (16384 * b14) + (32768 * b15)

XorBit(a, b, p) == ((a \div p) + (b \div p)) % 2

LEMMA XorIs ==
    ASSUME NEW a, NEW b
    PROVE  Xor16(a, b) = FromBits(XorBit(a, b, 1), XorBit(a, b, 2), XorBit(a, b, 4), XorBit(a, b, 8),
                                  XorBit(a, b, 16), XorBit(a, b, 32), XorBit(a, b, 64), XorBit(a, b, 128),
                                  XorBit(a, b, 256), XorBit(a, b, 512), XorBit(a, b, 1024), XorBit(a, b, 2048),
                                  XorBit(a, b, 4096), XorBit(a, b, 8192), XorBit(a, b, 16384), XorBit(a, b, 32768))
<1>1. /\ 2^0 = 1 /\ 2^1 = 2 /\ 2^2 = 4 /\ 2^3 = 8 /\ 2^4 = 16 /\ 2^5 = 32 /\ 2^6 = 64
      /\ 2^7 = 128 /\ 2^8 = 256 /\ 2^9 = 512 /\ 2^10 = 1024 /\ 2^11 = 2048 /\ 2^12 = 4096
      /\ 2^13 = 8192 /\ 2^14 = 16384 /\ 2^15 = 32768
  OBVIOUS
<1> QED BY <1>1, SMT DEF Xor16, FromBits, XorBit

LEMMA XorBitIs ==
    ASSUME NEW a \in Nat, NEW b \in Nat, NEW p \in Nat \ {0}
    PROVE  XorBit(a, b, p) \in Bit
<1>1. a \div p \in Nat /\ b \div p \in Nat
  OBVIOUS
<1> DEFINE s == (a \div p) + (b \div p)
<1>2. s \in Nat
  BY <1>1
<1> HIDE DEF s
<1>3. s % 2 = 0 \/ s % 2 = 1
  BY <1>2
<1> QED BY <1>3 DEF s, Bit, XorBit

AreBits(b0, b1, b2, b3, b4, b5, b6, b7,
        b8, b9, b10, b11, b12, b13, b14, b15) ==
    /\ b0 \in Bit /\ b1 \in Bit /\ b2 \in Bit /\ b3 \in Bit /\ b4 \in Bit /\ b5 \in Bit
    /\ b6 \in Bit /\ b7 \in Bit /\ b8 \in Bit /\ b9 \in Bit /\ b10 \in Bit
    /\ b11 \in Bit /\ b12 \in Bit /\ b13 \in Bit /\ b14 \in Bit /\ b15 \in Bit

LEMMA Bits ==
    ASSUME NEW b0, NEW b1, NEW b2, NEW b3, NEW b4, NEW b5, NEW b6, NEW b7,
           NEW b8, NEW b9, NEW b10, NEW b11, NEW b12, NEW b13, NEW b14, NEW b15,
           AreBits(b0, b1, b2, b3, b4, b5, b6, b7,
                   b8, b9, b10, b11, b12, b13, b14, b15)
    PROVE  LET v == FromBits(b0, b1, b2, b3, b4, b5, b6, b7, b8, b9, b10, b11, b12, b13, b14, b15)
           IN  /\ v \in Halfword
               /\ v \div 1 \in Nat /\ (v \div 1) % 2 = b0
               /\ v \div 2 \in Nat /\ (v \div 2) % 2 = b1
               /\ v \div 4 \in Nat /\ (v \div 4) % 2 = b2
               /\ v \div 8 \in Nat /\ (v \div 8) % 2 = b3
               /\ v \div 16 \in Nat /\ (v \div 16) % 2 = b4
               /\ v \div 32 \in Nat /\ (v \div 32) % 2 = b5
               /\ v \div 64 \in Nat /\ (v \div 64) % 2 = b6
               /\ v \div 128 \in Nat /\ (v \div 128) % 2 = b7
               /\ v \div 256 \in Nat /\ (v \div 256) % 2 = b8
               /\ v \div 512 \in Nat /\ (v \div 512) % 2 = b9
               /\ v \div 1024 \in Nat /\ (v \div 1024) % 2 = b10
               /\ v \div 2048 \in Nat /\ (v \div 2048) % 2 = b11
               /\ v \div 4096 \in Nat /\ (v \div 4096) % 2 = b12
               /\ v \div 8192 \in Nat /\ (v \div 8192) % 2 = b13
               /\ v \div 16384 \in Nat /\ (v \div 16384) % 2 = b14
               /\ v \div 32768 \in Nat /\ (v \div 32768) % 2 = b15
<1> DEFINE v == FromBits(b0, b1, b2, b3, b4, b5, b6, b7, b8, b9, b10, b11, b12, b13, b14, b15)
<1>1. /\ b0 \in Int /\ 0 <= b0 /\ b0 < 2 /\ b1 \in Int /\ 0 <= b1 /\ b1 < 2 /\ b2 \in Int /\ 0 <= b2 /\ b2 < 2
      /\ b3 \in Int /\ 0 <= b3 /\ b3 < 2 /\ b4 \in Int /\ 0 <= b4 /\ b4 < 2 /\ b5 \in Int /\ 0 <= b5 /\ b5 < 2
      /\ b6 \in Int /\ 0 <= b6 /\ b6 < 2 /\ b7 \in Int /\ 0 <= b7 /\ b7 < 2 /\ b8 \in Int /\ 0 <= b8 /\ b8 < 2
      /\ b9 \in Int /\ 0 <= b9 /\ b9 < 2 /\ b10 \in Int /\ 0 <= b10 /\ b10 < 2 /\ b11 \in Int /\ 0 <= b11 /\ b11 < 2
      /\ b12 \in Int /\ 0 <= b12 /\ b12 < 2 /\ b13 \in Int /\ 0 <= b13 /\ b13 < 2 /\ b14 \in Int /\ 0 <= b14 /\ b14 < 2
      /\ b15 \in Int /\ 0 <= b15 /\ b15 < 2
  BY Ranges DEF AreBits
<1>2. v = b0 + (2 * b1) + (4 * b2) + (8 * b3)
          + (16 * b4) + (32 * b5) + (64 * b6) + (128 * b7)
          + (256 * b8) + (512 * b9) + (1024 * b10) + (2048 * b11)
          + (4096 * b12) + (8192 * b13) + (16384 * b14) + (32768 * b15)
  BY SMT DEF FromBits
<1> HIDE DEF v
<1>3. v \in Int /\ 0 <= v /\ v < 65536
  BY <1>1, <1>2, SMT
<1>4. v \in Halfword
  BY <1>3, Ranges
<1>b0. v \div 1 \in Nat /\ (v \div 1) % 2 = b0
  <2> DEFINE q == b0 + (2 * b1) + (4 * b2) + (8 * b3)
                  + (16 * b4) + (32 * b5) + (64 * b6) + (128 * b7)
                  + (256 * b8) + (512 * b9) + (1024 * b10) + (2048 * b11)
                  + (4096 * b12) + (8192 * b13) + (16384 * b14) + (32768 * b15)
             r == 0
             k == b1 + (2 * b2) + (4 * b3) + (8 * b4)
                  + (16 * b5) + (32 * b6) + (64 * b7) + (128 * b8)
                  + (256 * b9) + (512 * b10) + (1024 * b11) + (2048 * b12)
                  + (4096 * b13) + (8192 * b14) + (16384 * b15)
  <2>1. q \in Int /\ r \in Int /\ 0 <= q /\ 0 <= r /\ r < 1 /\ v = (1 * q) + r
    BY <1>1, <1>2, SMT
  <2>2. k \in Int /\ q = (2 * k) + b0
    BY <1>1, SMT
  <2> HIDE DEF q, r, k
  <2>3. v \div 1 = q
    BY <1>3, <2>1, SMT
  <2>4. q % 2 = b0
    BY <1>1, <2>2, SMT
  <2> QED BY <2>1, <2>3, <2>4
<1>b1. v \div 2 \in Nat /\ (v \div 2) % 2 = b1
  <2> DEFINE q == b1 + (2 * b2) + (4 * b3) + (8 * b4)
                  + (16 * b5) + (32 * b6) + (64 * b7) + (128 * b8)
                  + (256 * b9) + (512 * b10) + (1024 * b11) + (2048 * b12)
                  + (4096 * b13) + (8192 * b14) + (16384 * b15)
             r == b0
             k == b2 + (2 * b3) + (4 * b4) + (8 * b5)
                  + (16 * b6) + (32 * b7) + (64 * b8) + (128 * b9)
                  + (256 * b10) + (512 * b11) + (1024 * b12) + (2048 * b13)
                  + (4096 * b14) + (8192 * b15)
  <2>1. q \in Int /\ r \in Int /\ 0 <= q /\ 0 <= r /\ r < 2 /\ v = (2 * q) + r
    BY <1>1, <1>2, SMT
  <2>2. k \in Int /\ q = (2 * k) + b1
    BY <1>1, SMT
  <2> HIDE DEF q, r, k
  <2>3. v \div 2 = q
    BY <1>3, <2>1, SMT
  <2>4. q % 2 = b1
    BY <1>1, <2>2, SMT
  <2> QED BY <2>1, <2>3, <2>4
<1>b2. v \div 4 \in Nat /\ (v \div 4) % 2 = b2
  <2> DEFINE q == b2 + (2 * b3) + (4 * b4) + (8 * b5)
                  + (16 * b6) + (32 * b7) + (64 * b8) + (128 * b9)
                  + (256 * b10) + (512 * b11) + (1024 * b12) + (2048 * b13)
                  + (4096 * b14) + (8192 * b15)
             r == b0 + (2 * b1)
             k == b3 + (2 * b4) + (4 * b5) + (8 * b6)
                  + (16 * b7) + (32 * b8) + (64 * b9) + (128 * b10)
                  + (256 * b11) + (512 * b12) + (1024 * b13) + (2048 * b14)
                  + (4096 * b15)
  <2>1. q \in Int /\ r \in Int /\ 0 <= q /\ 0 <= r /\ r < 4 /\ v = (4 * q) + r
    BY <1>1, <1>2, SMT
  <2>2. k \in Int /\ q = (2 * k) + b2
    BY <1>1, SMT
  <2> HIDE DEF q, r, k
  <2>3. v \div 4 = q
    BY <1>3, <2>1, SMT
  <2>4. q % 2 = b2
    BY <1>1, <2>2, SMT
  <2> QED BY <2>1, <2>3, <2>4
<1>b3. v \div 8 \in Nat /\ (v \div 8) % 2 = b3
  <2> DEFINE q == b3 + (2 * b4) + (4 * b5) + (8 * b6)
                  + (16 * b7) + (32 * b8) + (64 * b9) + (128 * b10)
                  + (256 * b11) + (512 * b12) + (1024 * b13) + (2048 * b14)
                  + (4096 * b15)
             r == b0 + (2 * b1) + (4 * b2)
             k == b4 + (2 * b5) + (4 * b6) + (8 * b7)
                  + (16 * b8) + (32 * b9) + (64 * b10) + (128 * b11)
                  + (256 * b12) + (512 * b13) + (1024 * b14) + (2048 * b15)
  <2>1. q \in Int /\ r \in Int /\ 0 <= q /\ 0 <= r /\ r < 8 /\ v = (8 * q) + r
    BY <1>1, <1>2, SMT
  <2>2. k \in Int /\ q = (2 * k) + b3
    BY <1>1, SMT
  <2> HIDE DEF q, r, k
  <2>3. v \div 8 = q
    BY <1>3, <2>1, SMT
  <2>4. q % 2 = b3
    BY <1>1, <2>2, SMT
  <2> QED BY <2>1, <2>3, <2>4
<1>b4. v \div 16 \in Nat /\ (v \div 16) % 2 = b4
  <2> DEFINE q == b4 + (2 * b5) + (4 * b6) + (8 * b7)
                  + (16 * b8) + (32 * b9) + (64 * b10) + (128 * b11)
                  + (256 * b12) + (512 * b13) + (1024 * b14) + (2048 * b15)
             r == b0 + (2 * b1) + (4 * b2) + (8 * b3)
             k == b5 + (2 * b6) + (4 * b7) + (8 * b8)
                  + (16 * b9) + (32 * b10) + (64 * b11) + (128 * b12)
                  + (256 * b13) + (512 * b14) + (1024 * b15)
  <2>1. q \in Int /\ r \in Int /\ 0 <= q /\ 0 <= r /\ r < 16 /\ v = (16 * q) + r
    BY <1>1, <1>2, SMT
  <2>2. k \in Int /\ q = (2 * k) + b4
    BY <1>1, SMT
  <2> HIDE DEF q, r, k
  <2>3. v \div 16 = q
    BY <1>3, <2>1, SMT
  <2>4. q % 2 = b4
    BY <1>1, <2>2, SMT
  <2> QED BY <2>1, <2>3, <2>4
<1>b5. v \div 32 \in Nat /\ (v \div 32) % 2 = b5
  <2> DEFINE q == b5 + (2 * b6) + (4 * b7) + (8 * b8)
                  + (16 * b9) + (32 * b10) + (64 * b11) + (128 * b12)
                  + (256 * b13) + (512 * b14) + (1024 * b15)
             r == b0 + (2 * b1) + (4 * b2) + (8 * b3)
                  + (16 * b4)
             k == b6 + (2 * b7) + (4 * b8) + (8 * b9)
                  + (16 * b10) + (32 * b11) + (64 * b12) + (128 * b13)
                  + (256 * b14) + (512 * b15)
  <2>1. q \in Int /\ r \in Int /\ 0 <= q /\ 0 <= r /\ r < 32 /\ v = (32 * q) + r
    BY <1>1, <1>2, SMT
  <2>2. k \in Int /\ q = (2 * k) + b5
    BY <1>1, SMT
  <2> HIDE DEF q, r, k
  <2>3. v \div 32 = q
    BY <1>3, <2>1, SMT
  <2>4. q % 2 = b5
    BY <1>1, <2>2, SMT
  <2> QED BY <2>1, <2>3, <2>4
<1>b6. v \div 64 \in Nat /\ (v \div 64) % 2 = b6
  <2> DEFINE q == b6 + (2 * b7) + (4 * b8) + (8 * b9)
                  + (16 * b10) + (32 * b11) + (64 * b12) + (128 * b13)
                  + (256 * b14) + (512 * b15)
             r == b0 + (2 * b1) + (4 * b2) + (8 * b3)
                  + (16 * b4) + (32 * b5)
             k == b7 + (2 * b8) + (4 * b9) + (8 * b10)
                  + (16 * b11) + (32 * b12) + (64 * b13) + (128 * b14)
                  + (256 * b15)
  <2>1. q \in Int /\ r \in Int /\ 0 <= q /\ 0 <= r /\ r < 64 /\ v = (64 * q) + r
    BY <1>1, <1>2, SMT
  <2>2. k \in Int /\ q = (2 * k) + b6
    BY <1>1, SMT
  <2> HIDE DEF q, r, k
  <2>3. v \div 64 = q
    BY <1>3, <2>1, SMT
  <2>4. q % 2 = b6
    BY <1>1, <2>2, SMT
  <2> QED BY <2>1, <2>3, <2>4
<1>b7. v \div 128 \in Nat /\ (v \div 128) % 2 = b7
  <2> DEFINE q == b7 + (2 * b8) + (4 * b9) + (8 * b10)
                  + (16 * b11) + (32 * b12) + (64 * b13) + (128 * b14)
                  + (256 * b15)
             r == b0 + (2 * b1) + (4 * b2) + (8 * b3)
                  + (16 * b4) + (32 * b5) + (64 * b6)
             k == b8 + (2 * b9) + (4 * b10) + (8 * b11)
                  + (16 * b12) + (32 * b13) + (64 * b14) + (128 * b15)
  <2>1. q \in Int /\ r \in Int /\ 0 <= q /\ 0 <= r /\ r < 128 /\ v = (128 * q) + r
    BY <1>1, <1>2, SMT
  <2>2. k \in Int /\ q = (2 * k) + b7
    BY <1>1, SMT
  <2> HIDE DEF q, r, k
  <2>3. v \div 128 = q
    BY <1>3, <2>1, SMT
  <2>4. q % 2 = b7
    BY <1>1, <2>2, SMT
  <2> QED BY <2>1, <2>3, <2>4
<1>b8. v \div 256 \in Nat /\ (v \div 256) % 2 = b8
  <2> DEFINE q == b8 + (2 * b9) + (4 * b10) + (8 * b11)
                  + (16 * b12) + (32 * b13) + (64 * b14) + (128 * b15)
             r == b0 + (2 * b1) + (4 * b2) + (8 * b3)
                  + (16 * b4) + (32 * b5) + (64 * b6) + (128 * b7)
             k == b9 + (2 * b10) + (4 * b11) + (8 * b12)
                  + (16 * b13) + (32 * b14) + (64 * b15)
  <2>1. q \in Int /\ r \in Int /\ 0 <= q /\ 0 <= r /\ r < 256 /\ v = (256 * q) + r
    BY <1>1, <1>2, SMT
  <2>2. k \in Int /\ q = (2 * k) + b8
    BY <1>1, SMT
  <2> HIDE DEF q, r, k
  <2>3. v \div 256 = q
    BY <1>3, <2>1, SMT
  <2>4. q % 2 = b8
    BY <1>1, <2>2, SMT
  <2> QED BY <2>1, <2>3, <2>4
<1>b9. v \div 512 \in Nat /\ (v \div 512) % 2 = b9
  <2> DEFINE q == b9 + (2 * b10) + (4 * b11) + (8 * b12)
                  + (16 * b13) + (32 * b14) + (64 * b15)
             r == b0 + (2 * b1) + (4 * b2) + (8 * b3)
                  + (16 * b4) + (32 * b5) + (64 * b6) + (128 * b7)
                  + (256 * b8)
             k == b10 + (2 * b11) + (4 * b12) + (8 * b13)
                  + (16 * b14) + (32 * b15)
  <2>1. q \in Int /\ r \in Int /\ 0 <= q /\ 0 <= r /\ r < 512 /\ v = (512 * q) + r
    BY <1>1, <1>2, SMT
  <2>2. k \in Int /\ q = (2 * k) + b9
    BY <1>1, SMT
  <2> HIDE DEF q, r, k
  <2>3. v \div 512 = q
    BY <1>3, <2>1, SMT
  <2>4. q % 2 = b9
    BY <1>1, <2>2, SMT
  <2> QED BY <2>1, <2>3, <2>4
<1>b10. v \div 1024 \in Nat /\ (v \div 1024) % 2 = b10
  <2> DEFINE q == b10 + (2 * b11) + (4 * b12) + (8 * b13)
                  + (16 * b14) + (32 * b15)
             r == b0 + (2 * b1) + (4 * b2) + (8 * b3)
                  + (16 * b4) + (32 * b5) + (64 * b6) + (128 * b7)
                  + (256 * b8) + (512 * b9)
             k == b11 + (2 * b12) + (4 * b13) + (8 * b14)
                  + (16 * b15)
  <2>1. q \in Int /\ r \in Int /\ 0 <= q /\ 0 <= r /\ r < 1024 /\ v = (1024 * q) + r
    BY <1>1, <1>2, SMT
  <2>2. k \in Int /\ q = (2 * k) + b10
    BY <1>1, SMT
  <2> HIDE DEF q, r, k
  <2>3. v \div 1024 = q
    BY <1>3, <2>1, SMT
  <2>4. q % 2 = b10
    BY <1>1, <2>2, SMT
  <2> QED BY <2>1, <2>3, <2>4
<1>b11. v \div 2048 \in Nat /\ (v \div 2048) % 2 = b11
  <2> DEFINE q == b11 + (2 * b12) + (4 * b13) + (8 * b14)
                  + (16 * b15)
             r == b0 + (2 * b1) + (4 * b2) + (8 * b3)
                  + (16 * b4) + (32 * b5) + (64 * b6) + (128 * b7)
                  + (256 * b8) + (512 * b9) + (1024 * b10)
             k == b12 + (2 * b13) + (4 * b14) + (8 * b15)
  <2>1. q \in Int /\ r \in Int /\ 0 <= q /\ 0 <= r /\ r < 2048 /\ v = (2048 * q) + r
    BY <1>1, <1>2, SMT
  <2>2. k \in Int /\ q = (2 * k) + b11
    BY <1>1, SMT
  <2> HIDE DEF q, r, k
  <2>3. v \div 2048 = q
    BY <1>3, <2>1, SMT
  <2>4. q % 2 = b11
    BY <1>1, <2>2, SMT
  <2> QED BY <2>1, <2>3, <2>4
<1>b12. v \div 4096 \in Nat /\ (v \div 4096) % 2 = b12
  <2> DEFINE q == b12 + (2 * b13) + (4 * b14) + (8 * b15)
             r == b0 + (2 * b1) + (4 * b2) + (8 * b3)
                  + (16 * b4) + (32 * b5) + (64 * b6) + (128 * b7)
                  + (256 * b8) + (512 * b9) + (1024 * b10) + (2048 * b11)
             k == b13 + (2 * b14) + (4 * b15)
  <2>1. q \in Int /\ r \in Int /\ 0 <= q /\ 0 <= r /\ r < 4096 /\ v = (4096 * q) + r
    BY <1>1, <1>2, SMT
  <2>2. k \in Int /\ q = (2 * k) + b12
    BY <1>1, SMT
  <2> HIDE DEF q, r, k
  <2>3. v \div 4096 = q
    BY <1>3, <2>1, SMT
  <2>4. q % 2 = b12
    BY <1>1, <2>2, SMT
  <2> QED BY <2>1, <2>3, <2>4
<1>b13. v \div 8192 \in Nat /\ (v \div 8192) % 2 = b13
  <2> DEFINE q == b13 + (2 * b14) + (4 * b15)
             r == b0 + (2 * b1) + (4 * b2) + (8 * b3)
                  + (16 * b4) + (32 * b5) + (64 * b6) + (128 * b7)
                  + (256 * b8) + (512 * b9) + (1024 * b10) + (2048 * b11)
                  + (4096 * b12)
             k == b14 + (2 * b15)
  <2>1. q \in Int /\ r \in Int /\ 0 <= q /\ 0 <= r /\ r < 8192 /\ v = (8192 * q) + r
    BY <1>1, <1>2, SMT
  <2>2. k \in Int /\ q = (2 * k) + b13
    BY <1>1, SMT
  <2> HIDE DEF q, r, k
  <2>3. v \div 8192 = q
    BY <1>3, <2>1, SMT
  <2>4. q % 2 = b13
    BY <1>1, <2>2, SMT
  <2> QED BY <2>1, <2>3, <2>4
<1>b14. v \div 16384 \in Nat /\ (v \div 16384) % 2 = b14
  <2> DEFINE q == b14 + (2 * b15)
             r == b0 + (2 * b1) + (4 * b2) + (8 * b3)
                  + (16 * b4) + (32 * b5) + (64 * b6) + (128 * b7)
                  + (256 * b8) + (512 * b9) + (1024 * b10) + (2048 * b11)
                  + (4096 * b12) + (8192 * b13)
             k == b15
  <2>1. q \in Int /\ r \in Int /\ 0 <= q /\ 0 <= r /\ r < 16384 /\ v = (16384 * q) + r
    BY <1>1, <1>2, SMT
  <2>2. k \in Int /\ q = (2 * k) + b14
    BY <1>1, SMT
  <2> HIDE DEF q, r, k
  <2>3. v \div 16384 = q
    BY <1>3, <2>1, SMT
  <2>4. q % 2 = b14
    BY <1>1, <2>2, SMT
  <2> QED BY <2>1, <2>3, <2>4
<1>b15. v \div 32768 \in Nat /\ (v \div 32768) % 2 = b15
  <2> DEFINE q == b15
             r == b0 + (2 * b1) + (4 * b2) + (8 * b3)
                  + (16 * b4) + (32 * b5) + (64 * b6) + (128 * b7)
                  + (256 * b8) + (512 * b9) + (1024 * b10) + (2048 * b11)
                  + (4096 * b12) + (8192 * b13) + (16384 * b14)
             k == 0
  <2>1. q \in Int /\ r \in Int /\ 0 <= q /\ 0 <= r /\ r < 32768 /\ v = (32768 * q) + r
    BY <1>1, <1>2, SMT
  <2>2. k \in Int /\ q = (2 * k) + b15
    BY <1>1, SMT
  <2> HIDE DEF q, r, k
  <2>3. v \div 32768 = q
    BY <1>3, <2>1, SMT
  <2>4. q % 2 = b15
    BY <1>1, <2>2, SMT
  <2> QED BY <2>1, <2>3, <2>4
<1> QED BY <1>4, <1>b0, <1>b1, <1>b2, <1>b3, <1>b4, <1>b5, <1>b6, <1>b7, <1>b8, <1>b9, <1>b10, <1>b11, <1>b12, <1>b13, <1>b14, <1>b15 DEF v

LEMMA BitsMake ==
    ASSUME NEW z \in Halfword
    PROVE  z = FromBits((z \div 1) % 2, (z \div 2) % 2, (z \div 4) % 2, (z \div 8) % 2,
                        (z \div 16) % 2, (z \div 32) % 2, (z \div 64) % 2, (z \div 128) % 2,
                        (z \div 256) % 2, (z \div 512) % 2, (z \div 1024) % 2, (z \div 2048) % 2,
                        (z \div 4096) % 2, (z \div 8192) % 2, (z \div 16384) % 2, (z \div 32768) % 2)
<1>0. z \in Int /\ 0 <= z /\ z < 65536
  BY Halves
<1>b0. (z \div 1) % 2 = (z \div 1) - (2 * (z \div 2)) /\ z \div 1 \in Int
  BY <1>0, SMT
<1>b1. (z \div 2) % 2 = (z \div 2) - (2 * (z \div 4)) /\ z \div 2 \in Int
  BY <1>0, SMT
<1>b2. (z \div 4) % 2 = (z \div 4) - (2 * (z \div 8)) /\ z \div 4 \in Int
  BY <1>0, SMT
<1>b3. (z \div 8) % 2 = (z \div 8) - (2 * (z \div 16)) /\ z \div 8 \in Int
  BY <1>0, SMT
<1>b4. (z \div 16) % 2 = (z \div 16) - (2 * (z \div 32)) /\ z \div 16 \in Int
  BY <1>0, SMT
<1>b5. (z \div 32) % 2 = (z \div 32) - (2 * (z \div 64)) /\ z \div 32 \in Int
  BY <1>0, SMT
<1>b6. (z \div 64) % 2 = (z \div 64) - (2 * (z \div 128)) /\ z \div 64 \in Int
  BY <1>0, SMT
<1>b7. (z \div 128) % 2 = (z \div 128) - (2 * (z \div 256)) /\ z \div 128 \in Int
  BY <1>0, SMT
<1>b8. (z \div 256) % 2 = (z \div 256) - (2 * (z \div 512)) /\ z \div 256 \in Int
  BY <1>0, SMT
<1>b9. (z \div 512) % 2 = (z \div 512) - (2 * (z \div 1024)) /\ z \div 512 \in Int
  BY <1>0, SMT
<1>b10. (z \div 1024) % 2 = (z \div 1024) - (2 * (z \div 2048)) /\ z \div 1024 \in Int
  BY <1>0, SMT
<1>b11. (z \div 2048) % 2 = (z \div 2048) - (2 * (z \div 4096)) /\ z \div 2048 \in Int
  BY <1>0, SMT
<1>b12. (z \div 4096) % 2 = (z \div 4096) - (2 * (z \div 8192)) /\ z \div 4096 \in Int
  BY <1>0, SMT
<1>b13. (z \div 8192) % 2 = (z \div 8192) - (2 * (z \div 16384)) /\ z \div 8192 \in Int
  BY <1>0, SMT
<1>b14. (z \div 16384) % 2 = (z \div 16384) - (2 * (z \div 32768)) /\ z \div 16384 \in Int
  BY <1>0, SMT
<1>b15. (z \div 32768) % 2 = (z \div 32768) - (2 * 0) /\ z \div 32768 \in Int
  BY <1>0, SMT
<1>1. z \div 1 = z
  BY <1>0, SMT
<1>2. z = ((z \div 1) % 2) + (2 * ((z \div 2) % 2))
          + (4 * ((z \div 4) % 2)) + (8 * ((z \div 8) % 2))
          + (16 * ((z \div 16) % 2)) + (32 * ((z \div 32) % 2))
          + (64 * ((z \div 64) % 2)) + (128 * ((z \div 128) % 2))
          + (256 * ((z \div 256) % 2)) + (512 * ((z \div 512) % 2))
          + (1024 * ((z \div 1024) % 2)) + (2048 * ((z \div 2048) % 2))
          + (4096 * ((z \div 4096) % 2)) + (8192 * ((z \div 8192) % 2))
          + (16384 * ((z \div 16384) % 2)) + (32768 * ((z \div 32768) % 2))
  BY <1>0, <1>1, <1>b0, <1>b1, <1>b2, <1>b3, <1>b4, <1>b5, <1>b6, <1>b7, <1>b8, <1>b9, <1>b10, <1>b11, <1>b12, <1>b13, <1>b14, <1>b15, SMT
<1> QED BY <1>2, SMT DEF FromBits

LEMMA Parity ==
    ASSUME NEW x \in Nat, NEW y \in Nat, NEW z \in Nat, x % 2 = (z + y) % 2
    PROVE  (x + y) % 2 = z % 2
BY SMT

\* Every bit of an exclusive or is that of the bits.
LEMMA XorBits ==
    ASSUME NEW z \in Halfword, NEW t \in Halfword
    PROVE  LET v == Xor16(z, t)
               Has(p) == v \div p \in Nat /\ (v \div p) % 2 = XorBit(z, t, p)
           IN  /\ v \in Halfword
               /\ Has(1) /\ Has(2) /\ Has(4) /\ Has(8) /\ Has(16) /\ Has(32)
               /\ Has(64) /\ Has(128) /\ Has(256) /\ Has(512) /\ Has(1024) /\ Has(2048)
               /\ Has(4096) /\ Has(8192) /\ Has(16384) /\ Has(32768)
<1> DEFINE v == Xor16(z, t)
           x(p) == XorBit(z, t, p)
<1>0. z \in Nat /\ t \in Nat
  BY Halves
<1>1. \A p \in Nat \ {0} : x(p) \in Bit /\ z \div p \in Nat /\ t \div p \in Nat
  BY <1>0, XorBitIs
<1>2. v = FromBits(x(1), x(2), x(4), x(8), x(16), x(32), x(64), x(128), x(256), x(512), x(1024), x(2048), x(4096), x(8192), x(16384), x(32768))
  BY XorIs
<1>3. /\ x(1) \in Bit /\ x(2) \in Bit /\ x(4) \in Bit /\ x(8) \in Bit
      /\ x(16) \in Bit /\ x(32) \in Bit /\ x(64) \in Bit /\ x(128) \in Bit
      /\ x(256) \in Bit /\ x(512) \in Bit /\ x(1024) \in Bit /\ x(2048) \in Bit
      /\ x(4096) \in Bit /\ x(8192) \in Bit /\ x(16384) \in Bit /\ x(32768) \in Bit
  BY <1>1
<1> HIDE DEF v
<1> DEFINE Has(p) == v \div p \in Nat /\ (v \div p) % 2 = x(p)
<1>4. /\ v \in Halfword
      /\ Has(1) /\ Has(2) /\ Has(4) /\ Has(8) /\ Has(16) /\ Has(32)
      /\ Has(64) /\ Has(128) /\ Has(256) /\ Has(512) /\ Has(1024) /\ Has(2048)
      /\ Has(4096) /\ Has(8192) /\ Has(16384) /\ Has(32768)
  <2> HIDE DEF x
  <2>1. AreBits(x(1), x(2), x(4), x(8), x(16), x(32), x(64), x(128),
                x(256), x(512), x(1024), x(2048), x(4096), x(8192), x(16384), x(32768))
    BY <1>3, SMT DEF AreBits
  <2> QED BY <1>2, <2>1, Bits
<1> QED BY <1>4 DEF v

LEMMA XorHalf ==
    ASSUME NEW z \in Halfword, NEW t \in Halfword
    PROVE  Xor16(z, t) \in Halfword /\ Xor16(Xor16(z, t), t) = z
<1> DEFINE v == Xor16(z, t)
           x(p) == XorBit(z, t, p)
<1>0. z \in Nat /\ t \in Nat
  BY Halves
<1>1. \A p \in Nat \ {0} : x(p) \in Bit /\ z \div p \in Nat /\ t \div p \in Nat
  BY <1>0, XorBitIs
<1> DEFINE Has(p) == v \div p \in Nat /\ (v \div p) % 2 = x(p)
<1>4. /\ v \in Halfword
      /\ Has(1) /\ Has(2) /\ Has(4) /\ Has(8) /\ Has(16) /\ Has(32)
      /\ Has(64) /\ Has(128) /\ Has(256) /\ Has(512) /\ Has(1024) /\ Has(2048)
      /\ Has(4096) /\ Has(8192) /\ Has(16384) /\ Has(32768)
  BY XorBits
<1> HIDE DEF v
<1>5. ASSUME NEW p \in Nat \ {0}, Has(p)
      PROVE  XorBit(v, t, p) = (z \div p) % 2
  <2> DEFINE a == v \div p
             b == t \div p
             c == z \div p
  <2>1. a \in Nat /\ b \in Nat /\ c \in Nat /\ a % 2 = (c + b) % 2
    BY <1>1, <1>5 DEF XorBit
  <2> HIDE DEF a, b, c
  <2>2. (a + b) % 2 = c % 2
    BY <2>1, Parity
  <2> QED BY <2>2 DEF a, b, c, XorBit
<1>6. /\ XorBit(v, t, 1) = (z \div 1) % 2 /\ XorBit(v, t, 2) = (z \div 2) % 2
      /\ XorBit(v, t, 4) = (z \div 4) % 2 /\ XorBit(v, t, 8) = (z \div 8) % 2
      /\ XorBit(v, t, 16) = (z \div 16) % 2 /\ XorBit(v, t, 32) = (z \div 32) % 2
      /\ XorBit(v, t, 64) = (z \div 64) % 2 /\ XorBit(v, t, 128) = (z \div 128) % 2
      /\ XorBit(v, t, 256) = (z \div 256) % 2 /\ XorBit(v, t, 512) = (z \div 512) % 2
      /\ XorBit(v, t, 1024) = (z \div 1024) % 2 /\ XorBit(v, t, 2048) = (z \div 2048) % 2
      /\ XorBit(v, t, 4096) = (z \div 4096) % 2 /\ XorBit(v, t, 8192) = (z \div 8192) % 2
      /\ XorBit(v, t, 16384) = (z \div 16384) % 2 /\ XorBit(v, t, 32768) = (z \div 32768) % 2
  <2> HIDE DEF Has, x
  <2> QED BY <1>4, <1>5
<1>7. Xor16(v, t) = FromBits(XorBit(v, t, 1), XorBit(v, t, 2), XorBit(v, t, 4), XorBit(v, t, 8),
                               XorBit(v, t, 16), XorBit(v, t, 32), XorBit(v, t, 64), XorBit(v, t, 128),
                               XorBit(v, t, 256), XorBit(v, t, 512), XorBit(v, t, 1024), XorBit(v, t, 2048),
                               XorBit(v, t, 4096), XorBit(v, t, 8192), XorBit(v, t, 16384), XorBit(v, t, 32768))
  BY XorIs
<1>8. Xor16(v, t) = z
  <2>1. z = FromBits((z \div 1) % 2, (z \div 2) % 2, (z \div 4) % 2, (z \div 8) % 2,
                     (z \div 16) % 2, (z \div 32) % 2, (z \div 64) % 2, (z \div 128) % 2,
                     (z \div 256) % 2, (z \div 512) % 2, (z \div 1024) % 2, (z \div 2048) % 2,
                     (z \div 4096) % 2, (z \div 8192) % 2, (z \div 16384) % 2, (z \div 32768) % 2)
    BY BitsMake
  <2> QED BY <1>6, <1>7, <2>1, SMT
<1> QED BY <1>4, <1>8 DEF v

LEMMA XorWord ==
    ASSUME NEW z \in Word, NEW t \in Word
    PROVE  Xor64(z, t) \in Word /\ Xor64(Xor64(z, t), t) = z
<1>1. \A i \in 1..4 : z[i] \in Halfword /\ t[i] \in Halfword
  BY DEF Word
<1>2. Xor64(z, t) \in Word /\ \A i \in 1..4 : Xor64(z, t)[i] = Xor16(z[i], t[i])
  BY <1>1, XorHalf DEF Xor64, Word
<1>3. /\ Xor64(Xor64(z, t), t) \in Word
      /\ \A i \in 1..4 : Xor64(Xor64(z, t), t)[i] = Xor16(Xor64(z, t)[i], t[i])
  <2> DEFINE u == Xor64(z, t)
  <2>1. \A i \in 1..4 : u[i] \in Halfword
    BY <1>2 DEF Word
  <2> HIDE DEF u
  <2>2. Xor64(u, t) \in Word /\ \A i \in 1..4 : Xor64(u, t)[i] = Xor16(u[i], t[i])
    BY <1>1, <2>1, XorHalf DEF Xor64, Word
  <2> QED BY <2>2 DEF u
<1>4. \A i \in 1..4 : Xor64(Xor64(z, t), t)[i] = z[i]
  BY <1>1, <1>2, <1>3, XorHalf
<1> DEFINE w == Xor64(Xor64(z, t), t)
<1>5. w \in Word /\ w[1] = z[1] /\ w[2] = z[2] /\ w[3] = z[3] /\ w[4] = z[4]
  BY <1>3, <1>4
<1> HIDE DEF w
<1>6. w = z
  BY <1>5, WordsEqual
<1> QED BY <1>2, <1>6 DEF w

-----------------------------------------------------------------------------
(***************************************************************************)
(* Rotation: by q halfwords and by the bits that p and r stand for, powers *)
(* of two whose product is the size of a halfword.                         *)
(***************************************************************************)
Turn(a, b, p, r) == ((a * p) % 65536) + (b \div r)

Shift(p, r) ==
    \/ (p = 1 /\ r = 65536) \/ (p = 2 /\ r = 32768) \/ (p = 4 /\ r = 16384) \/ (p = 8 /\ r = 8192)
    \/ (p = 16 /\ r = 4096) \/ (p = 32 /\ r = 2048) \/ (p = 64 /\ r = 1024) \/ (p = 128 /\ r = 512)
    \/ (p = 256 /\ r = 256) \/ (p = 512 /\ r = 128) \/ (p = 1024 /\ r = 64) \/ (p = 2048 /\ r = 32)
    \/ (p = 4096 /\ r = 16) \/ (p = 8192 /\ r = 8) \/ (p = 16384 /\ r = 4) \/ (p = 32768 /\ r = 2)

LEMMA TurnIs ==
    ASSUME NEW a \in Halfword, NEW b \in Halfword, NEW p, NEW r, Shift(p, r)
    PROVE  /\ Turn(a, b, p, r) \in Halfword
           /\ Turn(a, b, p, r) = (p * (a % r)) + (b \div r)
<1>0. a \in Int /\ 0 <= a /\ a < 65536 /\ b \in Int /\ 0 <= b /\ b < 65536
  BY Halves
<1>s0. CASE p = 1 /\ r = 65536
  <2>1. (a * 1) % 65536 = 1 * (a % 65536)
    BY <1>0, SMT
  <2>2. /\ (1 * (a % 65536)) + (b \div 65536) \in Int
        /\ 0 <= (1 * (a % 65536)) + (b \div 65536) /\ (1 * (a % 65536)) + (b \div 65536) < 65536
    BY <1>0, SMT
  <2>3. (1 * (a % 65536)) + (b \div 65536) \in Halfword
    BY <2>2, Ranges
  <2>4. Turn(a, b, p, r) = (1 * (a % 65536)) + (b \div 65536)
    BY <2>1, <1>s0, SMT DEF Turn
  <2> QED BY <2>3, <2>4, <1>s0
<1>s1. CASE p = 2 /\ r = 32768
  <2>1. (a * 2) % 65536 = 2 * (a % 32768)
    BY <1>0, SMT
  <2>2. /\ (2 * (a % 32768)) + (b \div 32768) \in Int
        /\ 0 <= (2 * (a % 32768)) + (b \div 32768) /\ (2 * (a % 32768)) + (b \div 32768) < 65536
    BY <1>0, SMT
  <2>3. (2 * (a % 32768)) + (b \div 32768) \in Halfword
    BY <2>2, Ranges
  <2>4. Turn(a, b, p, r) = (2 * (a % 32768)) + (b \div 32768)
    BY <2>1, <1>s1, SMT DEF Turn
  <2> QED BY <2>3, <2>4, <1>s1
<1>s2. CASE p = 4 /\ r = 16384
  <2>1. (a * 4) % 65536 = 4 * (a % 16384)
    BY <1>0, SMT
  <2>2. /\ (4 * (a % 16384)) + (b \div 16384) \in Int
        /\ 0 <= (4 * (a % 16384)) + (b \div 16384) /\ (4 * (a % 16384)) + (b \div 16384) < 65536
    BY <1>0, SMT
  <2>3. (4 * (a % 16384)) + (b \div 16384) \in Halfword
    BY <2>2, Ranges
  <2>4. Turn(a, b, p, r) = (4 * (a % 16384)) + (b \div 16384)
    BY <2>1, <1>s2, SMT DEF Turn
  <2> QED BY <2>3, <2>4, <1>s2
<1>s3. CASE p = 8 /\ r = 8192
  <2>1. (a * 8) % 65536 = 8 * (a % 8192)
    BY <1>0, SMT
  <2>2. /\ (8 * (a % 8192)) + (b \div 8192) \in Int
        /\ 0 <= (8 * (a % 8192)) + (b \div 8192) /\ (8 * (a % 8192)) + (b \div 8192) < 65536
    BY <1>0, SMT
  <2>3. (8 * (a % 8192)) + (b \div 8192) \in Halfword
    BY <2>2, Ranges
  <2>4. Turn(a, b, p, r) = (8 * (a % 8192)) + (b \div 8192)
    BY <2>1, <1>s3, SMT DEF Turn
  <2> QED BY <2>3, <2>4, <1>s3
<1>s4. CASE p = 16 /\ r = 4096
  <2>1. (a * 16) % 65536 = 16 * (a % 4096)
    BY <1>0, SMT
  <2>2. /\ (16 * (a % 4096)) + (b \div 4096) \in Int
        /\ 0 <= (16 * (a % 4096)) + (b \div 4096) /\ (16 * (a % 4096)) + (b \div 4096) < 65536
    BY <1>0, SMT
  <2>3. (16 * (a % 4096)) + (b \div 4096) \in Halfword
    BY <2>2, Ranges
  <2>4. Turn(a, b, p, r) = (16 * (a % 4096)) + (b \div 4096)
    BY <2>1, <1>s4, SMT DEF Turn
  <2> QED BY <2>3, <2>4, <1>s4
<1>s5. CASE p = 32 /\ r = 2048
  <2>1. (a * 32) % 65536 = 32 * (a % 2048)
    BY <1>0, SMT
  <2>2. /\ (32 * (a % 2048)) + (b \div 2048) \in Int
        /\ 0 <= (32 * (a % 2048)) + (b \div 2048) /\ (32 * (a % 2048)) + (b \div 2048) < 65536
    BY <1>0, SMT
  <2>3. (32 * (a % 2048)) + (b \div 2048) \in Halfword
    BY <2>2, Ranges
  <2>4. Turn(a, b, p, r) = (32 * (a % 2048)) + (b \div 2048)
    BY <2>1, <1>s5, SMT DEF Turn
  <2> QED BY <2>3, <2>4, <1>s5
<1>s6. CASE p = 64 /\ r = 1024
  <2>1. (a * 64) % 65536 = 64 * (a % 1024)
    BY <1>0, SMT
  <2>2. /\ (64 * (a % 1024)) + (b \div 1024) \in Int
        /\ 0 <= (64 * (a % 1024)) + (b \div 1024) /\ (64 * (a % 1024)) + (b \div 1024) < 65536
    BY <1>0, SMT
  <2>3. (64 * (a % 1024)) + (b \div 1024) \in Halfword
    BY <2>2, Ranges
  <2>4. Turn(a, b, p, r) = (64 * (a % 1024)) + (b \div 1024)
    BY <2>1, <1>s6, SMT DEF Turn
  <2> QED BY <2>3, <2>4, <1>s6
<1>s7. CASE p = 128 /\ r = 512
  <2>1. (a * 128) % 65536 = 128 * (a % 512)
    BY <1>0, SMT
  <2>2. /\ (128 * (a % 512)) + (b \div 512) \in Int
        /\ 0 <= (128 * (a % 512)) + (b \div 512) /\ (128 * (a % 512)) + (b \div 512) < 65536
    BY <1>0, SMT
  <2>3. (128 * (a % 512)) + (b \div 512) \in Halfword
    BY <2>2, Ranges
  <2>4. Turn(a, b, p, r) = (128 * (a % 512)) + (b \div 512)
    BY <2>1, <1>s7, SMT DEF Turn
  <2> QED BY <2>3, <2>4, <1>s7
<1>s8. CASE p = 256 /\ r = 256
  <2>1. (a * 256) % 65536 = 256 * (a % 256)
    BY <1>0, SMT
  <2>2. /\ (256 * (a % 256)) + (b \div 256) \in Int
        /\ 0 <= (256 * (a % 256)) + (b \div 256) /\ (256 * (a % 256)) + (b \div 256) < 65536
    BY <1>0, SMT
  <2>3. (256 * (a % 256)) + (b \div 256) \in Halfword
    BY <2>2, Ranges
  <2>4. Turn(a, b, p, r) = (256 * (a % 256)) + (b \div 256)
    BY <2>1, <1>s8, SMT DEF Turn
  <2> QED BY <2>3, <2>4, <1>s8
<1>s9. CASE p = 512 /\ r = 128
  <2>1. (a * 512) % 65536 = 512 * (a % 128)
    BY <1>0, SMT
  <2>2. /\ (512 * (a % 128)) + (b \div 128) \in Int
        /\ 0 <= (512 * (a % 128)) + (b \div 128) /\ (512 * (a % 128)) + (b \div 128) < 65536
    BY <1>0, SMT
  <2>3. (512 * (a % 128)) + (b \div 128) \in Halfword
    BY <2>2, Ranges
  <2>4. Turn(a, b, p, r) = (512 * (a % 128)) + (b \div 128)
    BY <2>1, <1>s9, SMT DEF Turn
  <2> QED BY <2>3, <2>4, <1>s9
<1>s10. CASE p = 1024 /\ r = 64
  <2>1. (a * 1024) % 65536 = 1024 * (a % 64)
    BY <1>0, SMT
  <2>2. /\ (1024 * (a % 64)) + (b \div 64) \in Int
        /\ 0 <= (1024 * (a % 64)) + (b \div 64) /\ (1024 * (a % 64)) + (b \div 64) < 65536
    BY <1>0, SMT
  <2>3. (1024 * (a % 64)) + (b \div 64) \in Halfword
    BY <2>2, Ranges
  <2>4. Turn(a, b, p, r) = (1024 * (a % 64)) + (b \div 64)
    BY <2>1, <1>s10, SMT DEF Turn
  <2> QED BY <2>3, <2>4, <1>s10
<1>s11. CASE p = 2048 /\ r = 32
  <2>1. (a * 2048) % 65536 = 2048 * (a % 32)
    BY <1>0, SMT
  <2>2. /\ (2048 * (a % 32)) + (b \div 32) \in Int
        /\ 0 <= (2048 * (a % 32)) + (b \div 32) /\ (2048 * (a % 32)) + (b \div 32) < 65536
    BY <1>0, SMT
  <2>3. (2048 * (a % 32)) + (b \div 32) \in Halfword
    BY <2>2, Ranges
  <2>4. Turn(a, b, p, r) = (2048 * (a % 32)) + (b \div 32)
    BY <2>1, <1>s11, SMT DEF Turn
  <2> QED BY <2>3, <2>4, <1>s11
<1>s12. CASE p = 4096 /\ r = 16
  <2>1. (a * 4096) % 65536 = 4096 * (a % 16)
    BY <1>0, SMT
  <2>2. /\ (4096 * (a % 16)) + (b \div 16) \in Int
        /\ 0 <= (4096 * (a % 16)) + (b \div 16) /\ (4096 * (a % 16)) + (b \div 16) < 65536
    BY <1>0, SMT
  <2>3. (4096 * (a % 16)) + (b \div 16) \in Halfword
    BY <2>2, Ranges
  <2>4. Turn(a, b, p, r) = (4096 * (a % 16)) + (b \div 16)
    BY <2>1, <1>s12, SMT DEF Turn
  <2> QED BY <2>3, <2>4, <1>s12
<1>s13. CASE p = 8192 /\ r = 8
  <2>1. (a * 8192) % 65536 = 8192 * (a % 8)
    BY <1>0, SMT
  <2>2. /\ (8192 * (a % 8)) + (b \div 8) \in Int
        /\ 0 <= (8192 * (a % 8)) + (b \div 8) /\ (8192 * (a % 8)) + (b \div 8) < 65536
    BY <1>0, SMT
  <2>3. (8192 * (a % 8)) + (b \div 8) \in Halfword
    BY <2>2, Ranges
  <2>4. Turn(a, b, p, r) = (8192 * (a % 8)) + (b \div 8)
    BY <2>1, <1>s13, SMT DEF Turn
  <2> QED BY <2>3, <2>4, <1>s13
<1>s14. CASE p = 16384 /\ r = 4
  <2>1. (a * 16384) % 65536 = 16384 * (a % 4)
    BY <1>0, SMT
  <2>2. /\ (16384 * (a % 4)) + (b \div 4) \in Int
        /\ 0 <= (16384 * (a % 4)) + (b \div 4) /\ (16384 * (a % 4)) + (b \div 4) < 65536
    BY <1>0, SMT
  <2>3. (16384 * (a % 4)) + (b \div 4) \in Halfword
    BY <2>2, Ranges
  <2>4. Turn(a, b, p, r) = (16384 * (a % 4)) + (b \div 4)
    BY <2>1, <1>s14, SMT DEF Turn
  <2> QED BY <2>3, <2>4, <1>s14
<1>s15. CASE p = 32768 /\ r = 2
  <2>1. (a * 32768) % 65536 = 32768 * (a % 2)
    BY <1>0, SMT
  <2>2. /\ (32768 * (a % 2)) + (b \div 2) \in Int
        /\ 0 <= (32768 * (a % 2)) + (b \div 2) /\ (32768 * (a % 2)) + (b \div 2) < 65536
    BY <1>0, SMT
  <2>3. (32768 * (a % 2)) + (b \div 2) \in Halfword
    BY <2>2, Ranges
  <2>4. Turn(a, b, p, r) = (32768 * (a % 2)) + (b \div 2)
    BY <2>1, <1>s15, SMT DEF Turn
  <2> QED BY <2>3, <2>4, <1>s15
<1> QED BY <1>s0, <1>s1, <1>s2, <1>s3, <1>s4, <1>s5, <1>s6, <1>s7, <1>s8, <1>s9, <1>s10, <1>s11, <1>s12, <1>s13, <1>s14, <1>s15, SMT DEF Shift

\* Turned and turned back.
LEMMA TurnBack ==
    ASSUME NEW a \in Halfword, NEW b \in Halfword, NEW c \in Halfword,
           NEW p, NEW r, Shift(p, r), Shift(r, p)
    PROVE  Turn(Turn(a, b, p, r), Turn(b, c, p, r), r, p) = b
<1> DEFINE u == Turn(a, b, p, r)
           v == Turn(b, c, p, r)
<1>0. /\ a \in Int /\ 0 <= a /\ a < 65536 /\ b \in Int /\ 0 <= b /\ b < 65536
      /\ c \in Int /\ 0 <= c /\ c < 65536
  BY Halves
<1>1. /\ u \in Halfword /\ u = (p * (a % r)) + (b \div r)
      /\ v \in Halfword /\ v = (p * (b % r)) + (c \div r)
  BY TurnIs
<1> HIDE DEF u, v
<1>2. Turn(u, v, r, p) = (r * (u % p)) + (v \div p)
  BY <1>1, TurnIs
<1>3. u \in Int /\ 0 <= u /\ u < 65536 /\ v \in Int /\ 0 <= v /\ v < 65536
  BY <1>1, Halves
<1>s1. CASE p = 2 /\ r = 32768
  <2>1. u % 2 = b \div 32768
    BY <1>0, <1>1, <1>s1, SMT
  <2>2. v \div 2 = b % 32768
    BY <1>0, <1>1, <1>s1, SMT
  <2>3. b = (32768 * (b \div 32768)) + (b % 32768)
    BY <1>0, SMT
  <2> QED BY <1>2, <2>1, <2>2, <2>3, <1>s1 DEF u, v
<1>s2. CASE p = 4 /\ r = 16384
  <2>1. u % 4 = b \div 16384
    BY <1>0, <1>1, <1>s2, SMT
  <2>2. v \div 4 = b % 16384
    BY <1>0, <1>1, <1>s2, SMT
  <2>3. b = (16384 * (b \div 16384)) + (b % 16384)
    BY <1>0, SMT
  <2> QED BY <1>2, <2>1, <2>2, <2>3, <1>s2 DEF u, v
<1>s3. CASE p = 8 /\ r = 8192
  <2>1. u % 8 = b \div 8192
    BY <1>0, <1>1, <1>s3, SMT
  <2>2. v \div 8 = b % 8192
    BY <1>0, <1>1, <1>s3, SMT
  <2>3. b = (8192 * (b \div 8192)) + (b % 8192)
    BY <1>0, SMT
  <2> QED BY <1>2, <2>1, <2>2, <2>3, <1>s3 DEF u, v
<1>s4. CASE p = 16 /\ r = 4096
  <2>1. u % 16 = b \div 4096
    BY <1>0, <1>1, <1>s4, SMT
  <2>2. v \div 16 = b % 4096
    BY <1>0, <1>1, <1>s4, SMT
  <2>3. b = (4096 * (b \div 4096)) + (b % 4096)
    BY <1>0, SMT
  <2> QED BY <1>2, <2>1, <2>2, <2>3, <1>s4 DEF u, v
<1>s5. CASE p = 32 /\ r = 2048
  <2>1. u % 32 = b \div 2048
    BY <1>0, <1>1, <1>s5, SMT
  <2>2. v \div 32 = b % 2048
    BY <1>0, <1>1, <1>s5, SMT
  <2>3. b = (2048 * (b \div 2048)) + (b % 2048)
    BY <1>0, SMT
  <2> QED BY <1>2, <2>1, <2>2, <2>3, <1>s5 DEF u, v
<1>s6. CASE p = 64 /\ r = 1024
  <2>1. u % 64 = b \div 1024
    BY <1>0, <1>1, <1>s6, SMT
  <2>2. v \div 64 = b % 1024
    BY <1>0, <1>1, <1>s6, SMT
  <2>3. b = (1024 * (b \div 1024)) + (b % 1024)
    BY <1>0, SMT
  <2> QED BY <1>2, <2>1, <2>2, <2>3, <1>s6 DEF u, v
<1>s7. CASE p = 128 /\ r = 512
  <2>1. u % 128 = b \div 512
    BY <1>0, <1>1, <1>s7, SMT
  <2>2. v \div 128 = b % 512
    BY <1>0, <1>1, <1>s7, SMT
  <2>3. b = (512 * (b \div 512)) + (b % 512)
    BY <1>0, SMT
  <2> QED BY <1>2, <2>1, <2>2, <2>3, <1>s7 DEF u, v
<1>s8. CASE p = 256 /\ r = 256
  <2>1. u % 256 = b \div 256
    BY <1>0, <1>1, <1>s8, SMT
  <2>2. v \div 256 = b % 256
    BY <1>0, <1>1, <1>s8, SMT
  <2>3. b = (256 * (b \div 256)) + (b % 256)
    BY <1>0, SMT
  <2> QED BY <1>2, <2>1, <2>2, <2>3, <1>s8 DEF u, v
<1>s9. CASE p = 512 /\ r = 128
  <2>1. u % 512 = b \div 128
    BY <1>0, <1>1, <1>s9, SMT
  <2>2. v \div 512 = b % 128
    BY <1>0, <1>1, <1>s9, SMT
  <2>3. b = (128 * (b \div 128)) + (b % 128)
    BY <1>0, SMT
  <2> QED BY <1>2, <2>1, <2>2, <2>3, <1>s9 DEF u, v
<1>s10. CASE p = 1024 /\ r = 64
  <2>1. u % 1024 = b \div 64
    BY <1>0, <1>1, <1>s10, SMT
  <2>2. v \div 1024 = b % 64
    BY <1>0, <1>1, <1>s10, SMT
  <2>3. b = (64 * (b \div 64)) + (b % 64)
    BY <1>0, SMT
  <2> QED BY <1>2, <2>1, <2>2, <2>3, <1>s10 DEF u, v
<1>s11. CASE p = 2048 /\ r = 32
  <2>1. u % 2048 = b \div 32
    BY <1>0, <1>1, <1>s11, SMT
  <2>2. v \div 2048 = b % 32
    BY <1>0, <1>1, <1>s11, SMT
  <2>3. b = (32 * (b \div 32)) + (b % 32)
    BY <1>0, SMT
  <2> QED BY <1>2, <2>1, <2>2, <2>3, <1>s11 DEF u, v
<1>s12. CASE p = 4096 /\ r = 16
  <2>1. u % 4096 = b \div 16
    BY <1>0, <1>1, <1>s12, SMT
  <2>2. v \div 4096 = b % 16
    BY <1>0, <1>1, <1>s12, SMT
  <2>3. b = (16 * (b \div 16)) + (b % 16)
    BY <1>0, SMT
  <2> QED BY <1>2, <2>1, <2>2, <2>3, <1>s12 DEF u, v
<1>s13. CASE p = 8192 /\ r = 8
  <2>1. u % 8192 = b \div 8
    BY <1>0, <1>1, <1>s13, SMT
  <2>2. v \div 8192 = b % 8
    BY <1>0, <1>1, <1>s13, SMT
  <2>3. b = (8 * (b \div 8)) + (b % 8)
    BY <1>0, SMT
  <2> QED BY <1>2, <2>1, <2>2, <2>3, <1>s13 DEF u, v
<1>s14. CASE p = 16384 /\ r = 4
  <2>1. u % 16384 = b \div 4
    BY <1>0, <1>1, <1>s14, SMT
  <2>2. v \div 16384 = b % 4
    BY <1>0, <1>1, <1>s14, SMT
  <2>3. b = (4 * (b \div 4)) + (b % 4)
    BY <1>0, SMT
  <2> QED BY <1>2, <2>1, <2>2, <2>3, <1>s14 DEF u, v
<1>s15. CASE p = 32768 /\ r = 2
  <2>1. u % 32768 = b \div 2
    BY <1>0, <1>1, <1>s15, SMT
  <2>2. v \div 32768 = b % 2
    BY <1>0, <1>1, <1>s15, SMT
  <2>3. b = (2 * (b \div 2)) + (b % 2)
    BY <1>0, SMT
  <2> QED BY <1>2, <2>1, <2>2, <2>3, <1>s15 DEF u, v
<1>c. ~(p = 1 /\ r = 65536)
  <2>1. ~Shift(65536, 1)
    BY SMT DEF Shift
  <2> QED BY <2>1, SMT
<1> QED BY <1>c, <1>s1, <1>s2, <1>s3, <1>s4, <1>s5, <1>s6, <1>s7, <1>s8, <1>s9, <1>s10, <1>s11, <1>s12, <1>s13, <1>s14, <1>s15, SMT DEF Shift

\* What rotating by k bits is made of.
Turns(k, q, p, r) ==
    /\ k \div 16 = q /\ 2 ^ (k % 16) = p /\ 2 ^ (16 - (k % 16)) = r
    /\ q \in 0..3 /\ Shift(p, r)

\* Halfword i of a word, counted around.
Around(x, i) == x[((i - 1) % 4) + 1]

LEMMA RotIs ==
    ASSUME NEW x \in Word, NEW k, NEW q, NEW p, NEW r, Turns(k, q, p, r)
    PROVE  /\ Rot64(x, k) \in Word
           /\ \A i \in 1..4 :
                 Rot64(x, k)[i] = Turn(Around(x, i - q), Around(x, i - q - 1), p, r)
<1>0. q \in 0..3 /\ Shift(p, r)
  BY Zenon DEF Turns
<1>1. \A j \in Int : Around(x, j) \in Halfword
  <2> TAKE j \in Int
  <2>1. ((j - 1) % 4) + 1 \in 1..4
    BY SMT
  <2> QED BY <2>1 DEF Around, Word
<1>2. ASSUME NEW i \in 1..4
      PROVE  /\ i - q \in Int /\ i - q - 1 \in Int
             /\ i - 1 - q = i - q - 1 /\ i - 1 - 1 - q = (i - q - 1) - 1
  BY <1>0, SMT
<1>3. Rot64(x, k) = [i \in 1..4 |-> ((x[((i - 1 - q) % 4) + 1] * p) % 65536)
                                     + (x[((i - 1 - 1 - q) % 4) + 1] \div r)]
  BY SMT DEF Rot64, Turns
<1>4. ASSUME NEW i \in 1..4
      PROVE  Rot64(x, k)[i] = Turn(Around(x, i - q), Around(x, i - q - 1), p, r)
  <2>1. Rot64(x, k)[i] = ((x[((i - 1 - q) % 4) + 1] * p) % 65536)
                            + (x[((i - 1 - 1 - q) % 4) + 1] \div r)
    BY <1>3
  <2>2. Rot64(x, k)[i] = ((x[((i - q - 1) % 4) + 1] * p) % 65536)
                            + (x[(((i - q - 1) - 1) % 4) + 1] \div r)
    BY <1>2, <2>1
  <2> QED BY <2>2 DEF Turn, Around
<1>5. \A i \in 1..4 : Turn(Around(x, i - q), Around(x, i - q - 1), p, r) \in Halfword
  BY <1>0, <1>1, <1>2, TurnIs
<1>6. Rot64(x, k) = [i \in 1..4 |-> Rot64(x, k)[i]]
  BY <1>3
<1>7. Rot64(x, k) \in Word
  <2> DEFINE y == Rot64(x, k)
  <2>1. y = [i \in 1..4 |-> y[i]] /\ \A i \in 1..4 : y[i] \in Halfword
    BY <1>4, <1>5, <1>6
  <2> HIDE DEF y
  <2>2. y \in Word
    BY <2>1 DEF Word
  <2> QED BY <2>2 DEF y
<1> QED BY <1>4, <1>7

LEMMA RotBack ==
    ASSUME NEW x \in Word, NEW k, NEW l, NEW q, NEW p, NEW r,
           Turns(k, q, p, r), Turns(l, 3 - q, r, p)
    PROVE  Rot64(Rot64(x, k), l) = x
<1> DEFINE y == Rot64(x, k)
           z == Rot64(y, l)
<1>0. q \in 0..3 /\ Shift(p, r) /\ Shift(r, p)
  BY Zenon DEF Turns
<1>1. /\ y \in Word
      /\ \A i \in 1..4 : y[i] = Turn(Around(x, i - q), Around(x, i - q - 1), p, r)
  BY RotIs
<1> HIDE DEF y
<1>2. /\ z \in Word
      /\ \A i \in 1..4 : z[i] = Turn(Around(y, i - (3 - q)), Around(y, i - (3 - q) - 1), r, p)
  BY <1>1, RotIs
<1> HIDE DEF z
<1>3. ASSUME NEW i \in 1..4
      PROVE  z[i] = x[i]
  <2> DEFINE j == ((i - (3 - q) - 1) % 4) + 1
             m == ((i - (3 - q) - 1 - 1) % 4) + 1
  <2>1. j \in 1..4 /\ m \in 1..4
    BY <1>0, SMT
  <2>2. Around(y, i - (3 - q)) = y[j] /\ Around(y, i - (3 - q) - 1) = y[m]
    BY Zenon DEF Around
  <2>3. /\ ((j - q - 1 - 1) % 4) + 1 = i /\ ((m - q - 1) % 4) + 1 = i
    BY <1>0, SMT
  <2> HIDE DEF j, m
  <2>4. /\ y[j] = Turn(Around(x, j - q), Around(x, j - q - 1), p, r)
        /\ y[m] = Turn(Around(x, m - q), Around(x, m - q - 1), p, r)
    BY <1>1, <2>1
  <2>5. Around(x, j - q - 1) = x[i] /\ Around(x, m - q) = x[i]
    BY <2>3, Zenon DEF Around
  <2>6. x[i] \in Halfword /\ Around(x, j - q) \in Halfword /\ Around(x, m - q - 1) \in Halfword
    <3>1. ((j - q - 1) % 4) + 1 \in 1..4 /\ ((m - q - 1 - 1) % 4) + 1 \in 1..4
      BY <1>0, <2>1, SMT
    <3> QED BY <3>1 DEF Around, Word
  <2>7. Turn(y[j], y[m], r, p) = x[i]
    BY <1>0, <2>4, <2>5, <2>6, TurnBack
  <2> QED BY <1>2, <2>2, <2>7
<1>4. /\ z[1] = x[1] /\ z[2] = x[2] /\ z[3] = x[3] /\ z[4] = x[4]
  BY <1>3
<1>5. z = x
  BY <1>2, <1>4, WordsEqual
<1> QED BY <1>5 DEF y, z

\* The one rotation of Mix by whole halfwords.
LEMMA RotHalves ==
    ASSUME NEW x \in Word
    PROVE  Rot64(Rot64(x, 48), 16) = x
<1> DEFINE y == Rot64(x, 48)
           z == Rot64(y, 16)
<1>0. Turns(48, 3, 1, 65536) /\ Turns(16, 1, 1, 65536)
  <2>1. /\ 48 \div 16 = 3 /\ 16 \div 16 = 1 /\ 48 % 16 = 0 /\ 16 % 16 = 0
        /\ 2 ^ 0 = 1 /\ 2 ^ (16 - 0) = 65536
    OBVIOUS
  <2>2. Shift(1, 65536)
    BY SMT DEF Shift
  <2> QED BY <2>1, <2>2 DEF Turns
<1>1. /\ y \in Word
      /\ \A i \in 1..4 : y[i] = Turn(Around(x, i - 3), Around(x, i - 3 - 1), 1, 65536)
  BY <1>0, RotIs
<1> HIDE DEF y
<1>2. /\ z \in Word
      /\ \A i \in 1..4 : z[i] = Turn(Around(y, i - 1), Around(y, i - 1 - 1), 1, 65536)
  BY <1>0, <1>1, RotIs
<1> HIDE DEF z
<1>3. \A a, b \in Halfword : Turn(a, b, 1, 65536) = a
  BY Halves, SMT DEF Turn
<1>4. ASSUME NEW i \in 1..4
      PROVE  z[i] = x[i]
  <2> DEFINE j == ((i - 1 - 1) % 4) + 1
             m == ((i - 1 - 1 - 1) % 4) + 1
  <2>1. j \in 1..4 /\ m \in 1..4 /\ ((j - 3 - 1) % 4) + 1 = i
    BY SMT
  <2>2. Around(y, i - 1) = y[j] /\ Around(y, i - 1 - 1) = y[m]
    BY Zenon DEF Around
  <2> HIDE DEF j, m
  <2>3. y[j] = Turn(Around(x, j - 3), Around(x, j - 3 - 1), 1, 65536)
    BY <1>1, <2>1
  <2>4. Around(x, j - 3) = x[i]
    BY <2>1, Zenon DEF Around
  <2>5. ((j - 3 - 1 - 1) % 4) + 1 \in 1..4
    BY <2>1, SMT
  <2>6. x[i] \in Halfword /\ Around(x, j - 3 - 1) \in Halfword
    BY <2>5 DEF Around, Word
  <2>7. y[j] = x[i]
    BY <1>3, <2>3, <2>4, <2>6
  <2>8. y[j] \in Halfword /\ y[m] \in Halfword
    BY <1>1, <2>1 DEF Word
  <2>9. z[i] = Turn(y[j], y[m], 1, 65536)
    BY <1>2, <2>2
  <2> QED BY <1>3, <2>7, <2>8, <2>9
<1>5. z[1] = x[1] /\ z[2] = x[2] /\ z[3] = x[3] /\ z[4] = x[4]
  BY <1>4
<1>7. z = x
  BY <1>2, <1>5, WordsEqual
<1> QED BY <1>7 DEF y, z


\* The powers of two of a shift by fewer bits than a halfword has.
LEMMA Powers ==
    ASSUME NEW m \in 0..15
    PROVE  Shift(2 ^ m, 2 ^ (16 - m))
<1>1. CASE m = 0
  <2>1. 2 ^ 0 = 1 /\ 2 ^ (16 - 0) = 65536
    BY SMT
  <2>2. Shift(1, 65536)
    BY SMT DEF Shift
  <2> QED BY <1>1, <2>1, <2>2
<1>2. CASE m = 1
  <2>1. 2 ^ 1 = 2 /\ 2 ^ (16 - 1) = 32768
    BY SMT
  <2>2. Shift(2, 32768)
    BY SMT DEF Shift
  <2> QED BY <1>2, <2>1, <2>2
<1>3. CASE m = 2
  <2>1. 2 ^ 2 = 4 /\ 2 ^ (16 - 2) = 16384
    BY SMT
  <2>2. Shift(4, 16384)
    BY SMT DEF Shift
  <2> QED BY <1>3, <2>1, <2>2
<1>4. CASE m = 3
  <2>1. 2 ^ 3 = 8 /\ 2 ^ (16 - 3) = 8192
    BY SMT
  <2>2. Shift(8, 8192)
    BY SMT DEF Shift
  <2> QED BY <1>4, <2>1, <2>2
<1>5. CASE m = 4
  <2>1. 2 ^ 4 = 16 /\ 2 ^ (16 - 4) = 4096
    BY SMT
  <2>2. Shift(16, 4096)
    BY SMT DEF Shift
  <2> QED BY <1>5, <2>1, <2>2
<1>6. CASE m = 5
  <2>1. 2 ^ 5 = 32 /\ 2 ^ (16 - 5) = 2048
    BY SMT
  <2>2. Shift(32, 2048)
    BY SMT DEF Shift
  <2> QED BY <1>6, <2>1, <2>2
<1>7. CASE m = 6
  <2>1. 2 ^ 6 = 64 /\ 2 ^ (16 - 6) = 1024
    BY SMT
  <2>2. Shift(64, 1024)
    BY SMT DEF Shift
  <2> QED BY <1>7, <2>1, <2>2
<1>8. CASE m = 7
  <2>1. 2 ^ 7 = 128 /\ 2 ^ (16 - 7) = 512
    BY SMT
  <2>2. Shift(128, 512)
    BY SMT DEF Shift
  <2> QED BY <1>8, <2>1, <2>2
<1>9. CASE m = 8
  <2>1. 2 ^ 8 = 256 /\ 2 ^ (16 - 8) = 256
    BY SMT
  <2>2. Shift(256, 256)
    BY SMT DEF Shift
  <2> QED BY <1>9, <2>1, <2>2
<1>10. CASE m = 9
  <2>1. 2 ^ 9 = 512 /\ 2 ^ (16 - 9) = 128
    BY SMT
  <2>2. Shift(512, 128)
    BY SMT DEF Shift
  <2> QED BY <1>10, <2>1, <2>2
<1>11. CASE m = 10
  <2>1. 2 ^ 10 = 1024 /\ 2 ^ (16 - 10) = 64
    BY SMT
  <2>2. Shift(1024, 64)
    BY SMT DEF Shift
  <2> QED BY <1>11, <2>1, <2>2
<1>12. CASE m = 11
  <2>1. 2 ^ 11 = 2048 /\ 2 ^ (16 - 11) = 32
    BY SMT
  <2>2. Shift(2048, 32)
    BY SMT DEF Shift
  <2> QED BY <1>12, <2>1, <2>2
<1>13. CASE m = 12
  <2>1. 2 ^ 12 = 4096 /\ 2 ^ (16 - 12) = 16
    BY SMT
  <2>2. Shift(4096, 16)
    BY SMT DEF Shift
  <2> QED BY <1>13, <2>1, <2>2
<1>14. CASE m = 13
  <2>1. 2 ^ 13 = 8192 /\ 2 ^ (16 - 13) = 8
    BY SMT
  <2>2. Shift(8192, 8)
    BY SMT DEF Shift
  <2> QED BY <1>14, <2>1, <2>2
<1>15. CASE m = 14
  <2>1. 2 ^ 14 = 16384 /\ 2 ^ (16 - 14) = 4
    BY SMT
  <2>2. Shift(16384, 4)
    BY SMT DEF Shift
  <2> QED BY <1>15, <2>1, <2>2
<1>16. CASE m = 15
  <2>1. 2 ^ 15 = 32768 /\ 2 ^ (16 - 15) = 2
    BY SMT
  <2>2. Shift(32768, 2)
    BY SMT DEF Shift
  <2> QED BY <1>16, <2>1, <2>2
<1> QED BY <1>1, <1>2, <1>3, <1>4, <1>5, <1>6, <1>7, <1>8, <1>9, <1>10, <1>11, <1>12, <1>13, <1>14, <1>15, <1>16

LEMMA TurnsOf ==
    ASSUME NEW k \in 0..63
    PROVE  Turns(k, k \div 16, 2 ^ (k % 16), 2 ^ (16 - (k % 16)))
<1>1. k \div 16 \in 0..3 /\ k % 16 \in 0..15
  BY SMT
<1>2. Shift(2 ^ (k % 16), 2 ^ (16 - (k % 16)))
  BY <1>1, Powers
<1> QED BY <1>1, <1>2, Zenon DEF Turns

\* A rotation keeps to words.
LEMMA RotWord ==
    ASSUME NEW x \in Word, NEW k \in 0..63
    PROVE  Rot64(x, k) \in Word
BY TurnsOf, RotIs

\* And what Unmix rotates back is what Mix has rotated.
LEMMA RotUndone ==
    ASSUME NEW x \in Word, NEW k \in 1..63, k % 16 # 0 \/ k = 48
    PROVE  Rot64(Rot64(x, k), UnrotatedBy(k)) = x
<1>1. CASE k = 48
  <2>1. UnrotatedBy(48) = 16
    BY SMT DEF UnrotatedBy
  <2> QED BY <1>1, <2>1, RotHalves
<1>2. CASE k % 16 # 0
  <2> DEFINE l == 64 - k
  <2>1. UnrotatedBy(k) = l
    BY SMT DEF UnrotatedBy
  <2>2. /\ l \in 0..63 /\ k \in 0..63
        /\ l \div 16 = 3 - (k \div 16) /\ l % 16 = 16 - (k % 16)
        /\ 16 - (16 - (k % 16)) = k % 16
    BY <1>2, SMT
  <2> HIDE DEF l
  <2>3. Turns(l, l \div 16, 2 ^ (l % 16), 2 ^ (16 - (l % 16)))
    BY <2>2, TurnsOf
  <2>4. Turns(l, 3 - (k \div 16), 2 ^ (16 - (k % 16)), 2 ^ (k % 16))
    BY <2>2, <2>3, Zenon
  <2>5. Turns(k, k \div 16, 2 ^ (k % 16), 2 ^ (16 - (k % 16)))
    BY <2>2, TurnsOf
  <2>6. Rot64(Rot64(x, k), l) = x
    BY <2>4, <2>5, RotBack
  <2> QED BY <2>1, <2>6
<1> QED BY <1>1, <1>2

-----------------------------------------------------------------------------
(***************************************************************************)
(* The lines of Mix and End: each keeps four words four words, and a line  *)
(* of Mix can be undone.                                                   *)
(***************************************************************************)
State == [1..4 -> Word]

LEMMA MixTurns ==
    ASSUME NEW j \in 1..12
    PROVE  /\ MixRotations[j] \in 1..63
           /\ MixRotations[j] % 16 # 0 \/ MixRotations[j] = 48
<1>1. /\ MixRotations[1] = 50 /\ MixRotations[2] = 52 /\ MixRotations[3] = 30
      /\ MixRotations[4] = 41 /\ MixRotations[5] = 54 /\ MixRotations[6] = 48
      /\ MixRotations[7] = 38 /\ MixRotations[8] = 37 /\ MixRotations[9] = 62
      /\ MixRotations[10] = 34 /\ MixRotations[11] = 5 /\ MixRotations[12] = 36
  BY DEF MixRotations
<1> QED BY <1>1, SMT

LEMMA EndTurns ==
    ASSUME NEW j \in 1..11
    PROVE  EndRotations[j] \in 0..63
<1>1. /\ EndRotations[1] = 15 /\ EndRotations[2] = 52 /\ EndRotations[3] = 26
      /\ EndRotations[4] = 51 /\ EndRotations[5] = 28 /\ EndRotations[6] = 9
      /\ EndRotations[7] = 47 /\ EndRotations[8] = 54 /\ EndRotations[9] = 32
      /\ EndRotations[10] = 25 /\ EndRotations[11] = 63
  BY DEF EndRotations
<1> QED BY <1>1, SMT

LEMMA MixLineUndone ==
    ASSUME NEW s \in State, NEW j \in 1..12
    PROVE  MixLine(s, j) \in State /\ UnmixLine(MixLine(s, j), j) = s
<1> DEFINE x == ((j + 1) % 4) + 1
           y == ((j + 2) % 4) + 1
           z == ((j + 3) % 4) + 1
           k == MixRotations[j]
           turned == Add64(Rot64(s[x], k), s[y])
           given == Xor64(s[z], turned)
           t == MixLine(s, j)
<1>1. x \in 1..4 /\ y \in 1..4 /\ z \in 1..4 /\ x # y /\ y # z /\ x # z
  BY SMT
<1>2. k \in 1..63 /\ k \in 0..63 /\ (k % 16 # 0 \/ k = 48)
  BY MixTurns
<1>3. t = [s EXCEPT ![x] = turned, ![z] = Xor64(s[z], turned)]
  BY Zenon DEF MixLine
<1>4. UnmixLine(t, j) = [t EXCEPT ![z] = Xor64(t[z], t[x]),
                                ![x] = Rot64(Minus(t[x], t[y]), UnrotatedBy(k))]
  BY Zenon DEF UnmixLine
<1> HIDE DEF x, y, z, k, t
<1>5. s[x] \in Word /\ s[y] \in Word /\ s[z] \in Word
  BY <1>1 DEF State
<1>6. Rot64(s[x], k) \in Word
  BY <1>2, <1>5, RotWord
<1>7. turned \in Word /\ Minus(turned, s[y]) = Rot64(s[x], k)
  BY <1>5, <1>6, Added, AddedTaken
<1>8. Rot64(Rot64(s[x], k), UnrotatedBy(k)) = s[x]
  BY <1>2, <1>5, RotUndone
<1> HIDE DEF turned
<1>9. given \in Word /\ Xor64(given, turned) = s[z]
  BY <1>5, <1>7, XorWord
<1> HIDE DEF given
<1>10. /\ t \in State /\ t[x] = turned /\ t[y] = s[y] /\ t[z] = given
       /\ \A i \in 1..4 : i # x /\ i # z => t[i] = s[i]
  BY <1>1, <1>3, <1>7, <1>9 DEF State, given
<1>11. UnmixLine(t, j) = [t EXCEPT ![z] = s[z], ![x] = s[x]]
  BY <1>1, <1>4, <1>7, <1>8, <1>9, <1>10 DEF State
<1>12. UnmixLine(t, j) = s
  BY <1>1, <1>10, <1>11 DEF State
<1> QED BY <1>10, <1>12 DEF t

LEMMA EndLineWords ==
    ASSUME NEW s \in State, NEW j \in 1..11
    PROVE  EndLine(s, j) \in State
<1> DEFINE z == ((j + 2) % 4) + 1
           y == ((j + 1) % 4) + 1
           turned == Rot64(s[y], EndRotations[j])
<1>1. y \in 1..4 /\ z \in 1..4
  BY SMT
<1>2. EndLine(s, j) = [s EXCEPT ![z] = Add64(Xor64(s[z], s[y]), turned), ![y] = turned]
  BY Zenon DEF EndLine
<1> HIDE DEF y, z
<1>3. s[y] \in Word /\ s[z] \in Word
  BY <1>1 DEF State
<1>4. turned \in Word /\ Xor64(s[z], s[y]) \in Word
  BY <1>3, EndTurns, RotWord, XorWord
<1> HIDE DEF turned
<1>5. Add64(Xor64(s[z], s[y]), turned) \in Word
  BY <1>4, Added
<1> QED BY <1>1, <1>2, <1>4, <1>5 DEF State

\* Undoing keeps to words too.
LEMMA UnmixLineWords ==
    ASSUME NEW s \in State, NEW j \in 1..12
    PROVE  UnmixLine(s, j) \in State
<1> DEFINE x == ((j + 1) % 4) + 1
           y == ((j + 2) % 4) + 1
           z == ((j + 3) % 4) + 1
           u == UnrotatedBy(MixRotations[j])
<1>1. x \in 1..4 /\ y \in 1..4 /\ z \in 1..4
  BY SMT
<1>2. UnmixLine(s, j) = [s EXCEPT ![z] = Xor64(s[z], s[x]), ![x] = Rot64(Minus(s[x], s[y]), u)]
  BY Zenon DEF UnmixLine
<1> HIDE DEF x, y, z
<1>3. s[x] \in Word /\ s[y] \in Word /\ s[z] \in Word
  BY <1>1 DEF State
<1>4. u \in 0..63
  BY MixTurns, SMT DEF UnrotatedBy
<1>5. Minus(s[x], s[y]) \in Word
  BY <1>3, AddedTaken
<1>6. Rot64(Minus(s[x], s[y]), u) \in Word /\ Xor64(s[z], s[x]) \in Word
  BY <1>3, <1>4, <1>5, RotWord, XorWord
<1> QED BY <1>1, <1>2, <1>6 DEF State

\* The lines of Mix, one after the other.
LEMMA MixSteps ==
    ASSUME NEW s \in State
    PROVE  \E f : /\ f[0] = s
                  /\ \A i \in 0..12 : f[i] \in State
                  /\ \A i \in 1..12 : f[i] = MixLine(f[i - 1], i)
                  /\ Mix(s) = f[12]
<1> DEFINE n == 12
           step == [i \in 1..n |-> [w \in State |-> MixLine(w, i)]]
           Is(g) == g = [i \in 0..n |-> IF i = 0 THEN s ELSE MixLine(g[i - 1], i)]
           f == CHOOSE g : Is(g)
<1>1. Mix(s) = f[n]
  BY Zenon DEF Mix
<1>2. n \in Nat /\ step \in [1..n -> [State -> State]]
  <2>1. \A i \in 1..n : \A w \in State : MixLine(w, i) \in State
    BY MixLineUndone
  <2> QED BY <2>1
<1>3. PICK e \in [0..n -> State] : Stepped(e, n, s, step)
  <2> HIDE DEF step, n
  <2> QED BY <1>2, Steps
<1>4. \A i \in 1..n : e[i] = MixLine(e[i - 1], i)
  <2>1. \A i \in 1..n : e[i - 1] \in State /\ e[i] = step[i][e[i - 1]]
    BY <1>3 DEF Stepped
  <2>2. \A i \in 1..n : \A w \in State : step[i][w] = MixLine(w, i)
    OBVIOUS
  <2> HIDE DEF step
  <2> QED BY <2>1, <2>2
<1>5. Is(e)
  <2>1. e[0] = s /\ e = [i \in 0..n |-> e[i]]
    BY <1>3 DEF Stepped
  <2>2. ASSUME NEW i \in 0..n
        PROVE  e[i] = IF i = 0 THEN s ELSE MixLine(e[i - 1], i)
    <3>1. i # 0 => i \in 1..n
      BY <1>2
    <3> QED BY <3>1, <2>1, <1>4, Zenon
  <2> HIDE DEF n
  <2> QED BY <2>1, <2>2, Zenon
<1>6. Is(f)
  <2> HIDE DEF Is
  <2> QED BY <1>5, Zenon
<1>7. f[0] = s /\ \A i \in 1..n : f[i] = MixLine(f[i - 1], i)
  <2>1. ASSUME NEW i \in 0..n
        PROVE  f[i] = IF i = 0 THEN s ELSE MixLine(f[i - 1], i)
    <3> HIDE DEF f, n
    <3> QED BY <1>6, Zenon
  <2>2. 0 \in 0..n /\ \A i \in 1..n : i \in 0..n /\ i # 0
    BY <1>2
  <2> HIDE DEF f, n
  <2> QED BY <2>1, <2>2
<1>8. \A i \in 0..n : f[i] \in State
  <2>1. \A i \in 1..n : f[i - 1] \in State => f[i] \in State
    <3>1. \A i \in 1..n : \A w \in State : MixLine(w, i) \in State
      BY MixLineUndone
    <3> HIDE DEF f, n
    <3> QED BY <3>1, <1>7
  <2> HIDE DEF f, n
  <2> QED BY <2>1, <1>2, <1>7, Stays
<1> HIDE DEF f
<1> QED BY <1>1, <1>7, <1>8

\* The lines of Unmix, the last one first.
LEMMA UnmixSteps ==
    ASSUME NEW s \in State
    PROVE  \E f : /\ f[0] = s
                  /\ \A i \in 0..12 : f[i] \in State
                  /\ \A i \in 1..12 : f[i] = UnmixLine(f[i - 1], 13 - i)
                  /\ Unmix(s) = f[12]
<1> DEFINE n == 12
           step == [i \in 1..n |-> [w \in State |-> UnmixLine(w, 13 - i)]]
           Is(g) == g = [i \in 0..n |-> IF i = 0 THEN s ELSE UnmixLine(g[i - 1], 13 - i)]
           f == CHOOSE g : Is(g)
<1>1. Unmix(s) = f[n]
  BY Zenon DEF Unmix
<1>2. n \in Nat /\ step \in [1..n -> [State -> State]]
  <2>1. \A i \in 1..n : \A w \in State : UnmixLine(w, 13 - i) \in State
    BY UnmixLineWords
  <2> QED BY <2>1
<1>3. PICK e \in [0..n -> State] : Stepped(e, n, s, step)
  <2> HIDE DEF step, n
  <2> QED BY <1>2, Steps
<1>4. \A i \in 1..n : e[i] = UnmixLine(e[i - 1], 13 - i)
  <2>1. \A i \in 1..n : e[i - 1] \in State /\ e[i] = step[i][e[i - 1]]
    BY <1>3 DEF Stepped
  <2>2. \A i \in 1..n : \A w \in State : step[i][w] = UnmixLine(w, 13 - i)
    OBVIOUS
  <2> HIDE DEF step
  <2> QED BY <2>1, <2>2
<1>5. Is(e)
  <2>1. e[0] = s /\ e = [i \in 0..n |-> e[i]]
    BY <1>3 DEF Stepped
  <2>2. ASSUME NEW i \in 0..n
        PROVE  e[i] = IF i = 0 THEN s ELSE UnmixLine(e[i - 1], 13 - i)
    <3>1. i # 0 => i \in 1..n
      BY <1>2
    <3> QED BY <3>1, <2>1, <1>4, Zenon
  <2> HIDE DEF n
  <2> QED BY <2>1, <2>2, Zenon
<1>6. Is(f)
  <2> HIDE DEF Is
  <2> QED BY <1>5, Zenon
<1>7. f[0] = s /\ \A i \in 1..n : f[i] = UnmixLine(f[i - 1], 13 - i)
  <2>1. ASSUME NEW i \in 0..n
        PROVE  f[i] = IF i = 0 THEN s ELSE UnmixLine(f[i - 1], 13 - i)
    <3> HIDE DEF f, n
    <3> QED BY <1>6, Zenon
  <2>2. 0 \in 0..n /\ \A i \in 1..n : i \in 0..n /\ i # 0
    BY <1>2
  <2> HIDE DEF f, n
  <2> QED BY <2>1, <2>2
<1>8. \A i \in 0..n : f[i] \in State
  <2>1. \A i \in 1..n : f[i - 1] \in State => f[i] \in State
    <3>1. \A i \in 1..n : \A w \in State : UnmixLine(w, 13 - i) \in State
      BY UnmixLineWords
    <3> HIDE DEF f, n
    <3> QED BY <3>1, <1>7
  <2> HIDE DEF f, n
  <2> QED BY <2>1, <1>2, <1>7, Stays
<1> HIDE DEF f
<1> QED BY <1>1, <1>7, <1>8

\* The lines of End.
LEMMA EndSteps ==
    ASSUME NEW s \in State
    PROVE  \E f : /\ f[0] = s
                  /\ \A i \in 0..11 : f[i] \in State
                  /\ \A i \in 1..11 : f[i] = EndLine(f[i - 1], i)
                  /\ End(s) = f[11]
<1> DEFINE n == 11
           step == [i \in 1..n |-> [w \in State |-> EndLine(w, i)]]
           Is(g) == g = [i \in 0..n |-> IF i = 0 THEN s ELSE EndLine(g[i - 1], i)]
           f == CHOOSE g : Is(g)
<1>1. End(s) = f[n]
  BY Zenon DEF End
<1>2. n \in Nat /\ step \in [1..n -> [State -> State]]
  <2>1. \A i \in 1..n : \A w \in State : EndLine(w, i) \in State
    BY EndLineWords
  <2> QED BY <2>1
<1>3. PICK e \in [0..n -> State] : Stepped(e, n, s, step)
  <2> HIDE DEF step, n
  <2> QED BY <1>2, Steps
<1>4. \A i \in 1..n : e[i] = EndLine(e[i - 1], i)
  <2>1. \A i \in 1..n : e[i - 1] \in State /\ e[i] = step[i][e[i - 1]]
    BY <1>3 DEF Stepped
  <2>2. \A i \in 1..n : \A w \in State : step[i][w] = EndLine(w, i)
    OBVIOUS
  <2> HIDE DEF step
  <2> QED BY <2>1, <2>2
<1>5. Is(e)
  <2>1. e[0] = s /\ e = [i \in 0..n |-> e[i]]
    BY <1>3 DEF Stepped
  <2>2. ASSUME NEW i \in 0..n
        PROVE  e[i] = IF i = 0 THEN s ELSE EndLine(e[i - 1], i)
    <3>1. i # 0 => i \in 1..n
      BY <1>2
    <3> QED BY <3>1, <2>1, <1>4, Zenon
  <2> HIDE DEF n
  <2> QED BY <2>1, <2>2, Zenon
<1>6. Is(f)
  <2> HIDE DEF Is
  <2> QED BY <1>5, Zenon
<1>7. f[0] = s /\ \A i \in 1..n : f[i] = EndLine(f[i - 1], i)
  <2>1. ASSUME NEW i \in 0..n
        PROVE  f[i] = IF i = 0 THEN s ELSE EndLine(f[i - 1], i)
    <3> HIDE DEF f, n
    <3> QED BY <1>6, Zenon
  <2>2. 0 \in 0..n /\ \A i \in 1..n : i \in 0..n /\ i # 0
    BY <1>2
  <2> HIDE DEF f, n
  <2> QED BY <2>1, <2>2
<1>8. \A i \in 0..n : f[i] \in State
  <2>1. \A i \in 1..n : f[i - 1] \in State => f[i] \in State
    <3>1. \A i \in 1..n : \A w \in State : EndLine(w, i) \in State
      BY EndLineWords
    <3> HIDE DEF f, n
    <3> QED BY <3>1, <1>7
  <2> HIDE DEF f, n
  <2> QED BY <2>1, <1>2, <1>7, Stays
<1> HIDE DEF f
<1> QED BY <1>1, <1>7, <1>8

LEMMA MixWords ==
    ASSUME NEW s \in State
    PROVE  Mix(s) \in State
<1>1. PICK f : (\A i \in 0..12 : f[i] \in State) /\ Mix(s) = f[12]
  BY MixSteps
<1>2. 12 \in 0..12
  OBVIOUS
<1> QED BY <1>1, <1>2, Zenon

LEMMA EndWords ==
    ASSUME NEW s \in State
    PROVE  End(s) \in State
<1>1. PICK f : (\A i \in 0..11 : f[i] \in State) /\ End(s) = f[11]
  BY EndSteps
<1>2. 11 \in 0..11
  OBVIOUS
<1> QED BY <1>1, <1>2, Zenon

\* Each line of Unmix, from the last, undoes the line of Mix it is for.
LEMMA MixUndone ==
    ASSUME NEW s \in State
    PROVE  Unmix(Mix(s)) = s
<1>1. PICK f : /\ f[0] = s
               /\ \A i \in 0..12 : f[i] \in State
               /\ \A i \in 1..12 : f[i] = MixLine(f[i - 1], i)
               /\ Mix(s) = f[12]
  BY MixSteps
<1>2. PICK g : /\ g[0] = Mix(s)
               /\ \A i \in 1..12 : g[i] = UnmixLine(g[i - 1], 13 - i)
               /\ Unmix(Mix(s)) = g[12]
  BY MixWords, UnmixSteps
<1> DEFINE same == [i \in 0..12 |-> IF g[i] = f[12 - i] THEN 0 ELSE 1]
<1>3. same[0] \in {0}
  <2>1. 0 \in 0..12 /\ 12 - 0 = 12
    OBVIOUS
  <2>2. g[0] = f[12 - 0]
    BY <1>1, <1>2, <2>1, Zenon
  <2> QED BY <2>1, <2>2
<1>4. ASSUME NEW i \in 1..12, same[i - 1] \in {0}
      PROVE  same[i] \in {0}
  <2>1. /\ i \in 0..12 /\ i - 1 \in 0..12 /\ 13 - i \in 1..12 /\ 12 - i \in 0..12
        /\ 12 - (i - 1) = 13 - i /\ (13 - i) - 1 = 12 - i
    OBVIOUS
  <2>2. g[i - 1] = f[13 - i]
    <3>1. same[i - 1] = IF g[i - 1] = f[13 - i] THEN 0 ELSE 1
      BY <2>1
    <3> HIDE DEF same
    <3> QED BY <3>1, <1>4
  <2>3. f[13 - i] = MixLine(f[12 - i], 13 - i)
    BY <1>1, <2>1, Zenon
  <2>4. UnmixLine(MixLine(f[12 - i], 13 - i), 13 - i) = f[12 - i]
    BY <1>1, <2>1, MixLineUndone
  <2>5. g[i] = f[12 - i]
    BY <1>2, <2>2, <2>3, <2>4, Zenon
  <2> QED BY <2>1, <2>5
<1>5. 12 \in Nat /\ 12 \in 0..12 /\ 12 - 12 = 0
  OBVIOUS
<1>6. same[12] \in {0}
  <2> HIDE DEF same
  <2> QED BY <1>3, <1>4, <1>5, Stays
<1>7. g[12] = f[0]
  BY <1>5, <1>6
<1> QED BY <1>1, <1>2, <1>7

-----------------------------------------------------------------------------
(***************************************************************************)
(* What the layout says has been absorbed, block by block.                 *)
(***************************************************************************)
LEMMA PaddedIs ==
    ASSUME key \in Keys, NEW at \in Nat
    PROVE  PaddedWord(key, at) \in Word
<1> DEFINE S == 0..7
<1>1. \A i \in 0..7 : i \notin S => at + i >= Len(key)
  OBVIOUS
<1> HIDE DEF S
<1> QED BY <1>1, PieceWord, PieceWhole

LEMMA Constants == Zero \in Word /\ Magic \in Word /\ Start \in State
<1>1. 48879 \in Halfword /\ 57005 \in Halfword
  BY Ranges, SMT
<1>2. Magic \in Word
  BY <1>1, WordMade DEF Magic
<1>3. Start \in State
  BY <1>2, ZeroWord, SMT DEF Start, State
<1> QED BY <1>2, <1>3, ZeroWord

LEMMA LowAdded ==
    ASSUME NEW s \in State, NEW x \in Word, NEW y \in Word
    PROVE  [s EXCEPT ![1] = Add64(s[1], x), ![2] = Add64(s[2], y)] \in State
<1>1. Add64(s[1], x) \in Word /\ Add64(s[2], y) \in Word
  BY Added DEF State
<1> QED BY <1>1 DEF State

LEMMA HighAdded ==
    ASSUME NEW s \in State, NEW x \in Word, NEW y \in Word
    PROVE  [s EXCEPT ![3] = Add64(s[3], x), ![4] = Add64(s[4], y)] \in State
<1>1. Add64(s[3], x) \in Word /\ Add64(s[4], y) \in Word
  BY Added DEF State
<1> QED BY <1>1 DEF State

LEMMA FedWords ==
    ASSUME key \in Keys, NEW s \in State, NEW at \in Nat
    PROVE  Fed(key, s, at) \in State
<1>1. PaddedWord(key, at) \in Word /\ PaddedWord(key, at + 8) \in Word
  BY PaddedIs
<1> QED BY <1>1, HighAdded DEF Fed

\* Block b of sixteen bytes absorbed.
OneMore(s, b) ==
    IF b % 2 = 1 THEN Mix(Fed(key, s, 16 * (b - 1)))
    ELSE [s EXCEPT ![1] = Add64(s[1], PaddedWord(key, 16 * (b - 1))),
                   ![2] = Add64(s[2], PaddedWord(key, 16 * (b - 1) + 8))]

LEMMA OneMoreWords ==
    ASSUME key \in Keys, NEW s \in State, NEW b \in Nat, b >= 1
    PROVE  OneMore(s, b) \in State
<1> DEFINE at == 16 * (b - 1)
<1>1. at \in Nat /\ at + 8 \in Nat
  OBVIOUS
<1> HIDE DEF at
<1>2. Mix(Fed(key, s, at)) \in State
  BY <1>1, FedWords, MixWords
<1>3. PaddedWord(key, at) \in Word /\ PaddedWord(key, at + 8) \in Word
  BY <1>1, PaddedIs
<1>4. [s EXCEPT ![1] = Add64(s[1], PaddedWord(key, at)),
                ![2] = Add64(s[2], PaddedWord(key, at + 8))] \in State
  BY <1>3, LowAdded
<1> QED BY <1>2, <1>4 DEF OneMore, at

LEMMA AbsorbedSteps ==
    ASSUME key \in Keys
    PROVE  /\ Absorbed(key)[0] = Start
           /\ \A b \in 0..(Len(key) \div 16) : Absorbed(key)[b] \in State
           /\ \A b \in 1..(Len(key) \div 16) :
                 Absorbed(key)[b] = OneMore(Absorbed(key)[b - 1], b)
<1> DEFINE n == Len(key) \div 16
           step == [b \in 1..n |-> [w \in State |-> OneMore(w, b)]]
           Is(g) == g = [b \in 0..n |->
                           IF b = 0 THEN Start
                           ELSE IF b % 2 = 1 THEN Mix(Fed(key, g[b - 1], 16 * (b - 1)))
                           ELSE [g[b - 1] EXCEPT
                                   ![1] = Add64(g[b - 1][1], PaddedWord(key, 16 * (b - 1))),
                                   ![2] = Add64(g[b - 1][2], PaddedWord(key, 16 * (b - 1) + 8))]]
           f == CHOOSE g : Is(g)
<1>1. Absorbed(key) = f
  BY Zenon DEF Absorbed
<1>2. n \in Nat /\ \A b \in 1..n : \A w \in State : OneMore(w, b) \in State
  <2>1. n \in Nat
    BY KeyLength
  <2> HIDE DEF n
  <2>2. \A b \in 1..n : b \in Nat /\ b >= 1
    BY <2>1
  <2> QED BY <2>1, <2>2, OneMoreWords
<1> HIDE DEF n
<1>3. step \in [1..n -> [State -> State]]
  BY <1>2
<1>4. PICK e \in [0..n -> State] : Stepped(e, n, Start, step)
  <2> HIDE DEF step
  <2> QED BY <1>2, <1>3, Constants, Steps
<1>5. \A b \in 1..n : e[b] = OneMore(e[b - 1], b)
  <2>1. \A b \in 1..n : e[b - 1] \in State /\ e[b] = step[b][e[b - 1]]
    BY <1>2, <1>4 DEF Stepped
  <2>2. \A b \in 1..n : \A w \in State : step[b][w] = OneMore(w, b)
    OBVIOUS
  <2> HIDE DEF step
  <2> QED BY <2>1, <2>2
<1>6. Is(e)
  <2>1. e[0] = Start /\ e = [b \in 0..n |-> e[b]]
    BY <1>4 DEF Stepped
  <2>2. ASSUME NEW b \in 0..n
        PROVE  e[b] = IF b = 0 THEN Start
                      ELSE IF b % 2 = 1 THEN Mix(Fed(key, e[b - 1], 16 * (b - 1)))
                      ELSE [e[b - 1] EXCEPT
                              ![1] = Add64(e[b - 1][1], PaddedWord(key, 16 * (b - 1))),
                              ![2] = Add64(e[b - 1][2], PaddedWord(key, 16 * (b - 1) + 8))]
    <3>1. b # 0 => b \in 1..n
      BY <1>2
    <3> QED BY <3>1, <2>1, <1>5, Zenon DEF OneMore
  <2> QED BY <2>1, <2>2, Zenon
<1>7. Is(f)
  <2> HIDE DEF Is
  <2> QED BY <1>6, Zenon
<1>8. f[0] = Start /\ \A b \in 1..n : f[b] = OneMore(f[b - 1], b)
  <2>1. ASSUME NEW b \in 0..n
        PROVE  f[b] = IF b = 0 THEN Start
                      ELSE IF b % 2 = 1 THEN Mix(Fed(key, f[b - 1], 16 * (b - 1)))
                      ELSE [f[b - 1] EXCEPT
                              ![1] = Add64(f[b - 1][1], PaddedWord(key, 16 * (b - 1))),
                              ![2] = Add64(f[b - 1][2], PaddedWord(key, 16 * (b - 1) + 8))]
    <3> HIDE DEF f
    <3> QED BY <1>7, Zenon
  <2>2. 0 \in 0..n /\ \A b \in 1..n : b \in 0..n /\ b # 0
    BY <1>2
  <2> HIDE DEF f
  <2>3. f[0] = Start
    BY <2>1, <2>2, Zenon
  <2> QED BY <2>1, <2>2, <2>3, Zenon DEF OneMore
<1> HIDE DEF f
<1>9. \A b \in 0..n : f[b] \in State
  <2>1. \A b \in 1..n : f[b - 1] \in State => f[b] \in State
    BY <1>2, <1>8
  <2> QED BY <2>1, <1>2, <1>8, Constants, Stays
<1> QED BY <1>1, <1>8, <1>9 DEF n

-----------------------------------------------------------------------------
(***************************************************************************)
(* The rest of the key, in every port: both words of it as the layout has  *)
(* them.                                                                   *)
(***************************************************************************)
LEMMA PastEnd ==
    ASSUME key \in Keys, NEW at \in Nat, at >= Len(key)
    PROVE  PaddedWord(key, at) = Zero
<1>1. \A i \in 0..7 : i \notin {} => at + i >= Len(key)
  BY KeyLength
<1>2. PaddedWord(key, at) = Piece({}, at)
  BY <1>1, PieceWhole
<1>3. /\ Piece({}, at)[1] = 0 /\ Piece({}, at)[2] = 0
      /\ Piece({}, at)[3] = 0 /\ Piece({}, at)[4] = 0
  BY SMT DEF Piece
<1>4. Piece({}, at) \in Word
  BY PieceWord
<1> QED BY <1>2, <1>3, <1>4, ZeroWord, WordsEqual

LEMMA SumNone ==
    ASSUME NEW base \in Word
    PROVE  Sum(base, <<>>) = base
<1>1. Len(<<>>) = 0 /\ Loaded(<<>>)
  BY DEF Loaded
<1> QED BY <1>1, SumSteps

LEMMA TailsSum ==
    ASSUME key \in Keys, NEW at \in Nat, NEW n \in 1..15, at + n = Len(key),
           NEW base \in Word
    PROVE  /\ Sum(base, TailC(n, at)) = Add64(base, PaddedWord(key, at))
           /\ Sum(base, TailD(n, at)) = Add64(base, PaddedWord(key, at + 8))
<1>1. CASE n < 8
  <2>1. n \in 1..7 /\ ~(n >= 8) /\ ~(n > 8) /\ at + 8 \in Nat /\ at + 8 >= Len(key)
    BY <1>1
  <2>2. TailC(n, at) = IF port = "rust" THEN Arms(at)[n] ELSE Falling(n, at)
    BY <2>1, Zenon DEF TailC, RustC, SwitchC
  <2>3. TailD(n, at) = <<>>
    BY <2>1, Zenon DEF TailD, RustD, SwitchD
  <2>4. Add64(base, PaddedWord(key, at + 8)) = base
    BY <2>1, PastEnd, AddZero
  <2>5. /\ Sum(base, Arms(at)[n]) = Add64(base, PaddedWord(key, at))
        /\ Sum(base, Falling(n, at)) = Add64(base, PaddedWord(key, at))
    BY <2>1, ArmsSum, FallingSum
  <2> QED BY <2>2, <2>3, <2>4, <2>5, SumNone, Zenon
<1>2. CASE n = 8
  <2>1. n >= 8 /\ ~(n > 8) /\ at + 8 \in Nat /\ at + 8 >= Len(key) /\ at + 8 <= Len(key)
    BY <1>2, KeyLength
  <2>2. TailC(n, at) = Long(at)
    BY <2>1, Zenon DEF TailC, RustC, SwitchC
  <2>3. TailD(n, at) = <<>>
    BY <2>1, Zenon DEF TailD, RustD, SwitchD
  <2>4. Add64(base, PaddedWord(key, at + 8)) = base
    BY <2>1, PastEnd, AddZero
  <2> QED BY <2>1, <2>2, <2>3, <2>4, LongSum, SumNone, Zenon
<1>3. CASE n > 8
  <2>1. /\ n >= 8 /\ n - 8 \in 1..7 /\ at + 8 \in Nat /\ at + 8 <= Len(key)
        /\ (at + 8) + (n - 8) = Len(key)
    BY <1>3, KeyLength
  <2>2. TailC(n, at) = Long(at)
    BY <2>1, Zenon DEF TailC, RustC, SwitchC
  <2>3. TailD(n, at) = IF port = "rust" THEN Arms(at + 8)[n - 8] ELSE Falling(n - 8, at + 8)
    BY <1>3, Zenon DEF TailD, RustD, SwitchD
  <2>4. /\ Sum(base, Arms(at + 8)[n - 8]) = Add64(base, PaddedWord(key, at + 8))
        /\ Sum(base, Falling(n - 8, at + 8)) = Add64(base, PaddedWord(key, at + 8))
    BY <2>1, ArmsSum, FallingSum
  <2> QED BY <2>1, <2>2, <2>3, <2>4, LongSum, Zenon
<1> QED BY <1>1, <1>2, <1>3

\* What an absorbed block reads.
LEMMA AbsorbIs ==
    ASSUME key \in Keys, NEW s \in State, NEW at \in Nat, at + 16 <= Len(key)
    PROVE  Absorb(s, at) = Fed(key, s, at)
<1>1. at + 8 \in Nat /\ at + 8 <= Len(key) /\ at + 8 + 8 <= Len(key)
  BY KeyLength
<1>2. s[3] \in Word /\ s[4] \in Word
  BY DEF State
<1>3. /\ Sum(s[3], Long(at)) = Add64(s[3], PaddedWord(key, at))
      /\ Sum(s[4], Long(at + 8)) = Add64(s[4], PaddedWord(key, at + 8))
  BY <1>1, <1>2, LongSum
<1> QED BY <1>3, Zenon DEF Absorb, Fed

\* Every port leaves the blocks of thirty-two, and takes the half block, when as many
\* bytes are left.
LEMMA Leaves ==
    ASSUME Typed, NEW j \in Nat, off = 32 * j, off <= Len(key)
    PROVE  /\ BlockLeft <=> Len(key) - off >= 32
           /\ Len(key) - off < 32 => (HalfBlockLeft <=> Len(key) - off >= 16)
<1>1. Len(key) \in Nat /\ port \in {"core", "go", "java", "csharp", "rust"}
  BY KeyLength, HashAssumption DEF Typed
<1> DEFINE n == Len(key)
<1> HIDE DEF n
<1>2. n \in Nat /\ off \in Nat /\ n = Len(key)
  BY <1>1 DEF n
<1>3. off < n - (n % 32) <=> n - off >= 32
  BY <1>2, SMT
<1>4. n - off < 32 => ((n \div 16) % 2 = 1 <=> n - off >= 16)
  <2>1. CASE n - off < 16
    <3>1. n \div 16 = 2 * j
      BY <2>1, <1>2, SMT
    <3> QED BY <3>1, <2>1, <1>2, SMT
  <2>2. CASE n - off >= 16 /\ n - off < 32
    <3>1. n \div 16 = (2 * j) + 1
      BY <2>2, <1>2, SMT
    <3> QED BY <3>1, <2>2, <1>2, SMT
  <2> QED BY <2>1, <2>2, <1>2, SMT
<1>5. BlockLeft <=> n - off >= 32
  BY <1>1, <1>2, <1>3 DEF BlockLeft
<1>6. n - off < 32 => (HalfBlockLeft <=> n - off >= 16)
  BY <1>1, <1>2, <1>4 DEF HalfBlockLeft
<1> QED BY <1>5, <1>6, <1>2

-----------------------------------------------------------------------------
(***************************************************************************)
(* The invariant.                                                          *)
(***************************************************************************)
LEMMA HashInit == Init => IInv
<1> SUFFICES ASSUME Init PROVE IInv
  OBVIOUS
<1>1. key \in Keys /\ Typed
  BY Constants DEF Init, Typed, State
<1>2. Absorbing
  <2>1. 0 \in 0..Len(key) /\ 32 * 0 = 0 /\ 2 * 0 = 0 /\ 0 <= Len(key)
    BY <1>1, KeyLength
  <2>2. Absorbed(key)[0] = Start
    BY <1>1, AbsorbedSteps
  <2>3. off = 0 /\ h = Start
    BY DEF Init
  <2> QED BY <2>1, <2>2, <2>3, Zenon DEF Absorbing
<1>3. SameHash
  BY DEF Init, SameHash
<1> QED BY <1>1, <1>2, <1>3 DEF IInv

LEMMA HashBlock == IInv /\ Block => IInv'
<1> SUFFICES ASSUME IInv, Block PROVE IInv'
  OBVIOUS
<1>0. ~done /\ BlockLeft /\ off' = off + 32 /\ port' = port /\ key' = key /\ done' = done
  BY Zenon DEF Block
<1>1. PICK j \in 0..Len(key) : off = 32 * j /\ off <= Len(key) /\ h = Absorbed(key)[2 * j]
  BY <1>0 DEF IInv, Absorbing
<1>2. Typed /\ key \in Keys /\ h \in State /\ Len(key) \in Nat
  BY KeyLength DEF IInv, Typed, State
<1>3. Len(key) - off >= 32
  BY <1>0, <1>1, <1>2, Leaves
<1>4. /\ off \in Nat /\ off + 16 <= Len(key)
      /\ off + 16 \in Nat /\ off + 16 + 8 <= Len(key)
      /\ off + 24 \in Nat /\ off + 24 + 8 <= Len(key)
  BY <1>1, <1>2, <1>3
<1> DEFINE b == (2 * j) + 1
           c == (2 * j) + 2
           n == Len(key) \div 16
           mixed == Mix(Absorb(h, off))
<1>5. /\ b \in 1..n /\ c \in 1..n /\ b - 1 = 2 * j /\ c - 1 = b
      /\ b % 2 = 1 /\ c % 2 # 1
      /\ 16 * (b - 1) = off /\ 16 * (c - 1) = off + 16 /\ 16 * (c - 1) + 8 = off + 24
      /\ b \in 0..n /\ 2 * (j + 1) = c
  BY <1>1, <1>2, <1>3, SMT
<1> HIDE DEF b, c, n
<1>6. mixed = Absorbed(key)[b]
  <2>1. Absorbed(key)[b] = OneMore(Absorbed(key)[b - 1], b)
    BY <1>2, <1>5, AbsorbedSteps DEF n
  <2>2. Absorbed(key)[b] = Mix(Fed(key, h, off))
    BY <2>1, <1>1, <1>5, Zenon DEF OneMore
  <2>3. Absorb(h, off) = Fed(key, h, off)
    BY <1>2, <1>4, AbsorbIs
  <2> QED BY <2>2, <2>3, Zenon
<1>7. mixed \in State
  BY <1>2, <1>5, <1>6, AbsorbedSteps DEF n
<1>8. h' = [mixed EXCEPT ![1] = Sum(mixed[1], Long(off + 16)), ![2] = Sum(mixed[2], Long(off + 24))]
  BY Zenon DEF Block
<1> HIDE DEF mixed
<1>9. /\ Sum(mixed[1], Long(off + 16)) = Add64(mixed[1], PaddedWord(key, off + 16))
      /\ Sum(mixed[2], Long(off + 24)) = Add64(mixed[2], PaddedWord(key, off + 24))
  <2>1. mixed[1] \in Word /\ mixed[2] \in Word
    BY <1>7 DEF State
  <2> QED BY <1>2, <1>4, <2>1, LongSum
<1>10. h' = Absorbed(key)[c]
  <2>1. Absorbed(key)[c] = OneMore(Absorbed(key)[c - 1], c)
    BY <1>2, <1>5, AbsorbedSteps DEF n
  <2>2. Absorbed(key)[c]
          = [mixed EXCEPT ![1] = Add64(mixed[1], PaddedWord(key, off + 16)),
                          ![2] = Add64(mixed[2], PaddedWord(key, off + 24))]
    BY <2>1, <1>5, <1>6, Zenon DEF OneMore
  <2> QED BY <2>2, <1>8, <1>9, Zenon
<1>11. Absorbing'
  <2>1. j + 1 \in 0..Len(key) /\ off + 32 = 32 * (j + 1) /\ off + 32 <= Len(key)
    BY <1>1, <1>2, <1>3
  <2>2. h' = Absorbed(key)[2 * (j + 1)]
    BY <1>5, <1>10
  <2> QED BY <2>1, <2>2, <1>0, Zenon DEF Absorbing
<1>12. Typed'
  <2>1. h' \in State
    <3>1. c \in 0..n
      BY <1>5
    <3> QED BY <3>1, <1>2, <1>10, AbsorbedSteps DEF n
  <2> QED BY <2>1, <1>0, <1>2 DEF Typed, State
<1>13. SameHash'
  BY <1>0 DEF SameHash
<1> QED BY <1>11, <1>12, <1>13 DEF IInv

LEMMA LengthWordIs == key \in Keys => LengthWord \in Word
<1> SUFFICES ASSUME key \in Keys PROVE LengthWord \in Word
  OBVIOUS
<1> DEFINE n == 256 * (Len(key) % 256)
<1>1. n \in Int /\ 0 <= n /\ n < 65536
  BY KeyLength, SMT
<1>2. LengthWord = <<0, 0, 0, n>>
  BY SMT DEF LengthWord
<1> HIDE DEF n
<1>3. n \in Halfword
  BY <1>1, Ranges
<1> QED BY <1>2, <1>3, ZeroHalf, WordMade

LEMMA AddSwapped ==
    ASSUME NEW x \in Word, NEW y \in Word, NEW z \in Word
    PROVE  Add64(Add64(x, y), z) = Add64(Add64(x, z), y)
<1>1. Add64(Add64(x, y), z) = Add64(x, Add64(y, z))
  BY AddAssociates
<1>2. Add64(Add64(x, z), y) = Add64(x, Add64(z, y))
  BY AddAssociates
<1> QED BY <1>1, <1>2, AddCommutes

LEMMA Sixteenths ==
    ASSUME NEW m \in Nat
    PROVE  /\ m \div 16 \in Nat /\ m % 16 \in 0..15 /\ m = (16 * (m \div 16)) + (m % 16)
           /\ m \div 16 \in 0..(m \div 16)
<1>1. m \div 16 \in Nat
  BY SMT
<1>2. m % 16 \in 0..15
  BY SMT
<1>3. m = (16 * (m \div 16)) + (m % 16)
  BY SMT
<1>4. \A q \in Nat : q \in 0..q
  OBVIOUS
<1> QED BY <1>1, <1>2, <1>3, <1>4, Zenon

\* The end is that of the layout.
LEMMA HashFinish == IInv /\ Finish => IInv'
<1> SUFFICES ASSUME IInv, Finish PROVE IInv'
  OBVIOUS
<1> DEFINE half == HalfBlockLeft
           s == IF half THEN Mix(Absorb(h, off)) ELSE h
           at == IF half THEN off + 16 ELSE off
           n == Len(key) % 16
           c == IF n = 0 THEN Add64(s[3], Magic) ELSE Sum(s[3], TailC(n, at))
           l == Add64(s[4], LengthWord)
           d == IF n = 0 THEN Add64(l, Magic) ELSE Sum(l, TailD(n, at))
           blocks == Len(key) \div 16
<1>0. /\ ~done /\ ~BlockLeft /\ port' = port /\ key' = key /\ done' = TRUE
      /\ h' = End([s EXCEPT ![3] = c, ![4] = d])
  BY Zenon DEF Finish
<1>1. PICK j \in 0..Len(key) : off = 32 * j /\ off <= Len(key) /\ h = Absorbed(key)[2 * j]
  BY <1>0 DEF IInv, Absorbing
<1>2. Typed /\ key \in Keys /\ h \in State /\ Len(key) \in Nat
  BY KeyLength DEF IInv, Typed, State
<1>3. Len(key) - off < 32 /\ (half <=> Len(key) - off >= 16)
  <2>1. BlockLeft <=> Len(key) - off >= 32
    BY <1>1, <1>2, Leaves
  <2>2. Len(key) - off < 32
    BY <1>0, <1>1, <1>2, <2>1
  <2> QED BY <1>1, <1>2, <2>2, Leaves
<1> HIDE DEF half
<1>4. /\ blocks \in Nat /\ blocks \in 0..blocks /\ n \in 0..15
      /\ at = 16 * blocks /\ at \in Nat /\ at + n = Len(key)
      /\ half => blocks = (2 * j) + 1 /\ off + 16 <= Len(key) /\ off \in Nat
      /\ ~half => blocks = 2 * j
  <2> DEFINE m == Len(key)
  <2> HIDE DEF m
  <2>0. /\ m = Len(key) /\ m \in Nat /\ j \in Nat
        /\ off = 32 * j /\ off \in Nat /\ off <= m /\ m - off < 32
        /\ (half <=> m - off >= 16)
    BY <1>1, <1>2, <1>3 DEF m
  <2>1. /\ m \div 16 \in Nat /\ m % 16 \in 0..15 /\ m = (16 * (m \div 16)) + (m % 16)
        /\ m \div 16 \in 0..(m \div 16)
    BY <2>0, Sixteenths, Zenon
  <2>2. CASE half
    <3>1. m \div 16 = (2 * j) + 1
      BY <2>0, <2>2, SMT
    <3>2. off + 16 = 16 * (m \div 16) /\ off + 16 <= m
      BY <3>1, <2>0, <2>2, SMT
    <3> QED BY <2>0, <2>1, <2>2, <3>1, <3>2
  <2>3. CASE ~half
    <3>1. m \div 16 = 2 * j
      BY <2>0, <2>3, SMT
    <3>2. off = 16 * (m \div 16)
      BY <3>1, <2>0, SMT
    <3> QED BY <2>0, <2>1, <2>3, <3>1, <3>2
  <2> QED BY <2>2, <2>3
<1>5. s = Absorbed(key)[blocks] /\ s \in State
  <2>1. CASE half
    <3>1. Absorb(h, off) = Fed(key, h, off)
      BY <1>2, <1>4, <2>1, AbsorbIs
    <3>2. blocks \in 1..blocks /\ blocks - 1 = 2 * j /\ blocks % 2 = 1 /\ 16 * (blocks - 1) = off
      BY <1>1, <1>4, <2>1, SMT
    <3>3. Absorbed(key)[blocks] = OneMore(Absorbed(key)[blocks - 1], blocks)
      BY <1>2, <3>2, AbsorbedSteps
    <3> HIDE DEF blocks
    <3>4. Absorbed(key)[blocks] = Mix(Fed(key, h, off))
      BY <1>1, <3>2, <3>3, Zenon DEF OneMore
    <3>5. s = Absorbed(key)[blocks]
      BY <2>1, <3>1, <3>4, Zenon
    <3> QED BY <1>2, <1>4, <3>5, AbsorbedSteps DEF blocks
  <2>2. CASE ~half
    BY <1>1, <1>2, <1>4, <2>2
  <2> QED BY <2>1, <2>2
<1> HIDE DEF s, at
<1>6. s[3] \in Word /\ s[4] \in Word /\ LengthWord \in Word /\ Magic \in Word
  BY <1>2, <1>5, LengthWordIs, Constants DEF State
<1>7. l \in Word
  BY <1>6, Added
<1>8. LengthWord = <<0, 0, 0, 256 * (Len(key) % 256)>>
  BY SMT DEF LengthWord
<1> DEFINE rest == IF n = 0 THEN [s EXCEPT ![3] = Add64(s[3], Magic), ![4] = Add64(s[4], Magic)]
                   ELSE Fed(key, s, 16 * blocks)
<1>9. LayoutHash(key) = End([rest EXCEPT ![4] = Add64(rest[4], LengthWord)])
  BY <1>5, <1>8, ZenonT(60) DEF LayoutHash
<1>10. [s EXCEPT ![3] = c, ![4] = d] = [rest EXCEPT ![4] = Add64(rest[4], LengthWord)]
  <2>1. CASE n = 0
    <3>1. Add64(l, Magic) = Add64(Add64(s[4], Magic), LengthWord)
      BY <1>6, AddSwapped
    <3>2. c = Add64(s[3], Magic) /\ d = Add64(Add64(s[4], Magic), LengthWord)
      BY <2>1, <3>1, Zenon
    <3>3. rest = [s EXCEPT ![3] = Add64(s[3], Magic), ![4] = Add64(s[4], Magic)]
      BY <2>1, Zenon
    <3> HIDE DEF c, d, rest, n, l
    <3> QED BY <1>5, <3>2, <3>3 DEF State
  <2>2. CASE n # 0
    <3>1. /\ Sum(s[3], TailC(n, at)) = Add64(s[3], PaddedWord(key, at))
          /\ Sum(l, TailD(n, at)) = Add64(l, PaddedWord(key, at + 8))
      <4>1. n \in 1..15
        BY <1>4, <2>2
      <4> HIDE DEF n, l
      <4> QED BY <1>2, <1>4, <1>6, <1>7, <4>1, TailsSum, ZenonT(60)
    <3>2. Add64(l, PaddedWord(key, at + 8)) = Add64(Add64(s[4], PaddedWord(key, at + 8)), LengthWord)
      <4>1. PaddedWord(key, at + 8) \in Word
        BY <1>2, <1>4, PaddedIs
      <4> QED BY <4>1, <1>6, AddSwapped
    <3>3. /\ c = Add64(s[3], PaddedWord(key, at))
          /\ d = Add64(Add64(s[4], PaddedWord(key, at + 8)), LengthWord)
      BY <2>2, <3>1, <3>2, Zenon
    <3>4. rest = [s EXCEPT ![3] = Add64(s[3], PaddedWord(key, at)),
                           ![4] = Add64(s[4], PaddedWord(key, at + 8))]
      BY <1>4, <2>2, Zenon DEF Fed
    <3> HIDE DEF c, d, rest, n, l
    <3> QED BY <1>5, <3>3, <3>4 DEF State
  <2> QED BY <2>1, <2>2
<1>11. h' = LayoutHash(key)
  <2> HIDE DEF c, d, rest
  <2> QED BY <1>0, <1>9, <1>10, Zenon
<1>12. SameHash'
  BY <1>0, <1>11, Zenon DEF SameHash
<1>13. Typed'
  <2>1. c \in Word /\ d \in Word
    <3>1. CASE n = 0
      BY <3>1, <1>6, <1>7, Added
    <3>2. CASE n # 0
      <4>1. n \in 1..15
        BY <1>4, <3>2
      <4> HIDE DEF n, l
      <4>2. /\ Sum(s[3], TailC(n, at)) = Add64(s[3], PaddedWord(key, at))
            /\ Sum(l, TailD(n, at)) = Add64(l, PaddedWord(key, at + 8))
        BY <1>2, <1>4, <1>6, <1>7, <4>1, TailsSum
      <4>3. PaddedWord(key, at) \in Word /\ PaddedWord(key, at + 8) \in Word
        BY <1>2, <1>4, PaddedIs
      <4>4. /\ Add64(s[3], PaddedWord(key, at)) \in Word
            /\ Add64(l, PaddedWord(key, at + 8)) \in Word
        BY <4>3, <1>6, <1>7, Added
      <4> QED BY <3>2, <4>2, <4>4, Zenon
    <3> QED BY <3>1, <3>2
  <2> HIDE DEF c, d
  <2>2. [s EXCEPT ![3] = c, ![4] = d] \in State
    BY <1>5, <2>1 DEF State
  <2>3. h' \in State
    BY <1>0, <2>2, EndWords
  <2> QED BY <2>3, <1>0, <1>2 DEF Typed, State
<1>14. Absorbing'
  BY <1>0 DEF Absorbing
<1> QED BY <1>12, <1>13, <1>14 DEF IInv

\* Types, and what has been absorbed so far: the words of every run of every port are
\* words, and as long as blocks are left they are those of the layout.
THEOREM LayoutKept == Spec => []IInv
<1>1. IInv /\ [Next]_vars => IInv'
  <2> SUFFICES ASSUME IInv, [Next]_vars PROVE IInv'
    OBVIOUS
  <2>1. CASE Block
    BY <2>1, HashBlock
  <2>2. CASE Finish
    BY <2>2, HashFinish
  <2>3. CASE UNCHANGED vars
    BY <2>3 DEF vars, IInv, Typed, Absorbing, SameHash
  <2> QED BY <2>1, <2>2, <2>3 DEF Next
<1> QED BY <1>1, HashInit, PTL DEF Spec

\* Every port ends with the hash of the layout, whatever the keys are: how it ends its
\* loops and gathers the last bytes (hash.cc:90-160 and its ports) changes nothing.
THEOREM AlwaysSameHash == Spec => []SameHash
<1>1. IInv => SameHash
  BY DEF IInv
<1> QED BY <1>1, LayoutKept, PTL

\* A mix can be undone from any words a hash goes through (hash.cc:40-56).
THEOREM MixAlwaysLosesNothing == Spec => []MixLosesNothing
<1>1. IInv => MixLosesNothing
  BY MixUndone DEF IInv, Typed, State, MixLosesNothing
<1> QED BY <1>1, LayoutKept, PTL

(***************************************************************************)
(* What the operators on words mean, for words of any value.               *)
(***************************************************************************)

\* The integer a word stands for, and how many there are.
Value(x) == x[1] + (65536 * (x[2] + (65536 * (x[3] + (65536 * x[4])))))
Words64 == 65536 * (65536 * (65536 * 65536))

LEMMA Above ==
    ASSUME NEW a \in Int, NEW v \in Int, NEW n \in Int, 0 <= a, a < 65536, 0 <= v, v < n
    PROVE  a + (65536 * v) \in Int /\ 0 <= a + (65536 * v) /\ a + (65536 * v) < 65536 * n
BY SMT

LEMMA ValueBelow ==
    ASSUME NEW x \in Word
    PROVE  Value(x) \in Nat /\ Value(x) < Words64
<1>1. /\ x[1] \in Int /\ x[2] \in Int /\ x[3] \in Int /\ x[4] \in Int
      /\ 0 <= x[1] /\ 0 <= x[2] /\ 0 <= x[3] /\ 0 <= x[4]
      /\ x[1] < 65536 /\ x[2] < 65536 /\ x[3] < 65536 /\ x[4] < 65536
  BY WordHalves, Halves, SMT
<1> DEFINE u == x[3] + (65536 * x[4])
           v == x[2] + (65536 * u)
           w == x[1] + (65536 * v)
<1>2. u \in Int /\ 0 <= u /\ u < 65536 * 65536
  BY <1>1, Above, SMT
<1> HIDE DEF u
<1>3. v \in Int /\ 0 <= v /\ v < 65536 * (65536 * 65536)
  BY <1>1, <1>2, Above, SMT
<1> HIDE DEF v
<1>4. w \in Int /\ 0 <= w /\ w < 65536 * (65536 * (65536 * 65536))
  <2> DEFINE n == 65536 * (65536 * 65536)
  <2>1. n \in Int /\ v < n
    BY <1>3, SMT
  <2> HIDE DEF n
  <2>2. w \in Int /\ 0 <= w /\ w < 65536 * n
    BY <1>1, <1>3, <2>1, Above, SMT
  <2> QED BY <2>2 DEF n
<1>5. Value(x) = w
  BY SMT DEF Value, u, v
<1> HIDE DEF w
<1> QED BY <1>4, <1>5, SMT DEF Words64

\* Words are added as the integers they stand for, modulo 2^64, which is what the
\* additions of unsigned 64-bit integers in hash.cc do.
THEOREM AddIsSum ==
    ASSUME NEW x \in Word, NEW y \in Word
    PROVE  Value(Add64(x, y)) = (Value(x) + Value(y)) % Words64
<1> DEFINE z == Add64(x, y)
<1>1. PICK c1, c2, c3, c4 \in Bit : Carries(x, y, z, c1, c2, c3, c4)
  BY Added
<1>2. z \in Word
  BY Added
<1> HIDE DEF z
<1>3. /\ x[1] \in Int /\ x[2] \in Int /\ x[3] \in Int /\ x[4] \in Int
      /\ y[1] \in Int /\ y[2] \in Int /\ y[3] \in Int /\ y[4] \in Int
  BY WordHalves, Halves, SMT
<1>4. c1 \in Int /\ c2 \in Int /\ c3 \in Int /\ c4 \in Int /\ 0 <= c4 /\ c4 < 2
  BY Ranges, SMT
<1>5. Value(x) + Value(y) = Value(z) + (Words64 * c4)
  <2>1. /\ z[1] = x[1] + y[1] - (65536 * c1)
        /\ z[2] = x[2] + y[2] + c1 - (65536 * c2)
        /\ z[3] = x[3] + y[3] + c2 - (65536 * c3)
        /\ z[4] = x[4] + y[4] + c3 - (65536 * c4)
    BY <1>1, <1>3, <1>4, SMT DEF Carries, HalfSum, Net
  <2>2. /\ z[3] + (65536 * z[4]) + (65536 * (65536 * c4))
             = (x[3] + (65536 * x[4])) + (y[3] + (65536 * y[4])) + c2
    BY <2>1, <1>3, <1>4, SMT
  <2> DEFINE p(i) == i[3] + (65536 * i[4])
             q(i) == i[2] + (65536 * p(i))
  <2>3. p(x) \in Int /\ p(y) \in Int /\ p(z) \in Int
    BY <1>3, <1>4, <2>1, SMT
  <2>4. p(z) = p(x) + p(y) + c2 - (65536 * (65536 * c4))
    BY <2>2, <2>3, <1>4, SMT
  <2>5. /\ Value(x) = x[1] + (65536 * q(x)) /\ Value(y) = y[1] + (65536 * q(y))
        /\ Value(z) = z[1] + (65536 * q(z))
    BY SMT DEF Value
  <2> HIDE DEF p
  <2>6. /\ q(x) \in Int /\ q(y) \in Int /\ q(z) \in Int
        /\ q(z) = q(x) + q(y) + c1 - (65536 * (65536 * (65536 * c4)))
    BY <2>1, <2>3, <2>4, <1>3, <1>4, SMT
  <2> HIDE DEF q
  <2> DEFINE t == 65536 * (65536 * (65536 * c4))
  <2>7. t \in Int /\ q(z) = q(x) + q(y) + c1 - t
    BY <2>6, <1>4, SMT
  <2>8. 65536 * t = Words64 * c4
    <3>1. c4 = 0 \/ c4 = 1
      BY <1>4, SMT
    <3>2. CASE c4 = 0
      BY <3>2, SMT DEF Words64
    <3>3. CASE c4 = 1
      BY <3>3, SMT DEF Words64
    <3> QED BY <3>1, <3>2, <3>3
  <2> HIDE DEF q, t
  <2>9. Value(x) + Value(y) = Value(z) + (65536 * t)
    BY <2>1, <2>5, <2>6, <2>7, <1>3, <1>4, SMT
  <2> QED BY <2>8, <2>9
<1>6. Value(z) \in Nat /\ Value(z) < Words64
  BY <1>2, ValueBelow, SMT
<1> DEFINE v == Value(x) + Value(y)
           w == Value(z)
<1>7. v \in Nat /\ w \in Nat /\ w < Words64 /\ v = w + (Words64 * c4)
  BY <1>5, <1>6, ValueBelow, SMT
<1> HIDE DEF v, w
<1>8. v % Words64 = w
  <2>1. c4 = 0 \/ c4 = 1
    BY <1>4, SMT
  <2>2. CASE c4 = 0
    BY <2>2, <1>7, SMT DEF Words64
  <2>3. CASE c4 = 1
    BY <2>3, <1>7, SMT DEF Words64
  <2> QED BY <2>1, <2>2, <2>3, SMT
<1> QED BY <1>8, SMT DEF v, w, z

\* 2^k and 2^(64 - k), in factors.
Upto(q) == IF q = 0 THEN 1 ELSE IF q = 1 THEN 65536
           ELSE IF q = 2 THEN 65536 * 65536 ELSE 65536 * (65536 * 65536)
Left(k) == (2 ^ (k % 16)) * Upto(k \div 16)
Right(k) == (2 ^ (16 - (k % 16))) * Upto(3 - (k \div 16))

\* The quotient and the remainder of a sum are read off its parts.
LEMMA DivisionParts ==
    ASSUME NEW d \in Nat \ {0}, NEW q \in Nat, NEW x \in 0..(d - 1)
    PROVE  ((d * q) + x) \div d = q /\ ((d * q) + x) % d = x
<1> DEFINE n == (d * q) + x
           u == n \div d
           r == n % d
<1>1. n \in Nat
  BY SMT
<1>2. u \in Nat /\ r \in 0..(d - 1) /\ n = (d * u) + r
  <2> HIDE DEF n
  <2> QED BY <1>1, SMT
<1>3. (d * q) + x = (d * u) + r
  BY <1>2
<1> HIDE DEF n, u, r
<1>4. ~(u < q)
  <2> SUFFICES ASSUME u < q PROVE FALSE
    OBVIOUS
  <2>1. d * (u + 1) <= d * q /\ d * (u + 1) = (d * u) + d
    BY <1>2, SMT
  <2> QED BY <1>2, <1>3, <2>1, SMT
<1>5. ~(q < u)
  <2> SUFFICES ASSUME q < u PROVE FALSE
    OBVIOUS
  <2>1. d * (q + 1) <= d * u /\ d * (q + 1) = (d * q) + d
    BY <1>2, SMT
  <2> QED BY <1>2, <1>3, <2>1, SMT
<1>6. u = q
  BY <1>2, <1>4, <1>5, SMT
<1>7. r = x
  BY <1>2, <1>3, <1>6, SMT
<1> QED BY <1>6, <1>7 DEF n, u, r

\* A number of two parts, shifted left past the end and right.
ShiftedLeft(v, p, m) == (v * p) % m
ShiftedRight(v, r) == v \div r

TwoParts(v, lo, hi, p, r, m) ==
    /\ lo \in Nat /\ hi \in Nat /\ p \in Nat \ {0} /\ r \in Nat \ {0} /\ lo < r
    /\ m = p * r /\ v = lo + (r * hi)

LEMMA ShiftedParts ==
    ASSUME NEW v, NEW l, NEW k, NEW p, NEW r, NEW m, TwoParts(v, l, k, p, r, m)
    PROVE  ShiftedLeft(v, p, m) = p * l /\ ShiftedRight(v, r) = k
<1> DEFINE x == p * l
<1> USE DEF TwoParts
<1>1. x \in Nat /\ m \in Nat \ {0}
  BY SMT
<1>2. v * p = (m * k) + x
  <2> DEFINE t == r * k
  <2>1. t \in Nat /\ p * t = m * k
    BY SMT
  <2> HIDE DEF t
  <2>2. (l + t) * p = (p * t) + (p * l)
    BY <2>1, SMT
  <2> QED BY <2>1, <2>2 DEF t
<1>3. x < m
  <2> DEFINE d == r - l - 1
  <2>1. d \in Nat /\ r = l + 1 + d
    BY SMT
  <2> HIDE DEF d
  <2>2. p * r = (p * l) + p + (p * d) /\ p * d \in Nat
    BY <2>1, SMT
  <2> QED BY <1>1, <2>2, SMT
<1>4. ((m * k) + x) % m = x
  <2> HIDE DEF x
  <2>1. x \in 0..(m - 1)
    BY <1>1, <1>3, SMT
  <2> QED BY <1>1, <2>1, DivisionParts
<1>5. v \div r = k
  <2>1. l \in 0..(r - 1) /\ v = (r * k) + l
    BY SMT
  <2> QED BY <2>1, DivisionParts
<1> QED BY <1>2, <1>4, <1>5 DEF ShiftedLeft, ShiftedRight

\* A halfword in the bits that a turn moves out of it and the bits that stay.
LEMMA Halved ==
    ASSUME NEW x \in Halfword, NEW p, NEW r, Shift(p, r)
    PROVE  LET a == x \div r
               b == x % r
           IN  /\ a \in Nat /\ b \in Nat /\ b < r /\ x = b + (r * a)
               /\ p * x = (p * b) + (65536 * a)
<1> DEFINE a == x \div r
           b == x % r
<1>1. p \in Nat \ {0} /\ r \in Nat \ {0} /\ p * r = 65536
  BY SMT DEF Shift
<1>2. x \in Nat
  BY Halves, SMT
<1>3. a \in Nat /\ b \in Nat /\ b < r /\ x = b + (r * a)
  BY <1>1, <1>2, SMT
<1> HIDE DEF a, b
<1>4. p * x = (p * b) + (65536 * a)
  <2>1. p * (b + (r * a)) = (p * b) + (p * (r * a)) /\ p * (r * a) = (p * r) * a
    BY <1>1, <1>3, SMT
  <2> QED BY <1>1, <1>3, <2>1
<1> QED BY <1>3, <1>4 DEF a, b

\* Four halfwords read as one number.
Nest(a, b, c, d) == a + (65536 * (b + (65536 * (c + (65536 * d)))))

Scaled(p, a, b, c, d) ==
    /\ Nest(a, b, c, d) \in Int
    /\ p * Nest(a, b, c, d) = Nest(p * a, p * b, p * c, p * d)

LEMMA NestTimes ==
    ASSUME NEW p \in Int, NEW a \in Int, NEW b \in Int, NEW c \in Int, NEW d \in Int
    PROVE  Scaled(p, a, b, c, d)
<1>1. ASSUME NEW u \in Int, NEW v \in Int
      PROVE  /\ u + (65536 * v) \in Int
             /\ p * (u + (65536 * v)) = (p * u) + (65536 * (p * v))
  BY SMT
<1> DEFINE v == c + (65536 * d)
           w == b + (65536 * v)
<1>2. v \in Int /\ p * v = (p * c) + (65536 * (p * d))
  BY <1>1
<1> HIDE DEF v
<1>3. w \in Int /\ p * w = (p * b) + (65536 * (p * v))
  BY <1>1, <1>2
<1> HIDE DEF w
<1>4. a + (65536 * w) \in Int /\ p * (a + (65536 * w)) = (p * a) + (65536 * (p * w))
  BY <1>1, <1>3
<1> QED BY <1>2, <1>3, <1>4 DEF Scaled, Nest, v, w

\* Rotated, each halfword has the bits that stay of one and those moved out of the next.
LEMMA RotDigits ==
    ASSUME NEW x \in Word, NEW k \in 0..63
    PROVE  LET q == k \div 16
               p == 2 ^ (k % 16)
               r == 2 ^ (16 - (k % 16))
               y == Rot64(x, k)
               digit(i, j) == (p * (x[i] % r)) + (x[j] \div r)
           IN  /\ q = 0 => /\ y[1] = digit(1, 4) /\ y[2] = digit(2, 1)
                            /\ y[3] = digit(3, 2) /\ y[4] = digit(4, 3)
               /\ q = 1 => /\ y[1] = digit(4, 3) /\ y[2] = digit(1, 4)
                            /\ y[3] = digit(2, 1) /\ y[4] = digit(3, 2)
               /\ q = 2 => /\ y[1] = digit(3, 2) /\ y[2] = digit(4, 3)
                            /\ y[3] = digit(1, 4) /\ y[4] = digit(2, 1)
               /\ q = 3 => /\ y[1] = digit(2, 1) /\ y[2] = digit(3, 2)
                            /\ y[3] = digit(4, 3) /\ y[4] = digit(1, 4)
<1> DEFINE q == k \div 16
           p == 2 ^ (k % 16)
           r == 2 ^ (16 - (k % 16))
           y == Rot64(x, k)
           digit(i, j) == (p * (x[i] % r)) + (x[j] \div r)
<1>1. Turns(k, q, p, r)
  BY TurnsOf
<1>2. \A i \in 1..4 : y[i] = Turn(Around(x, i - q), Around(x, i - q - 1), p, r)
  BY <1>1, RotIs
<1>3. Shift(p, r) /\ q \in 0..3
  BY <1>1, Zenon DEF Turns
<1> HIDE DEF q, p, r, y
<1>4. ASSUME NEW i \in 1..4, NEW j \in 1..4
      PROVE  Turn(x[i], x[j], p, r) = digit(i, j)
  BY <1>3, TurnIs DEF Word
<1>5. ASSUME NEW i \in 1..4, NEW n \in 0..3
      PROVE  /\ ((i - n - 1) % 4) + 1 = IF i > n THEN i - n ELSE i - n + 4
             /\ (((i - n - 1) - 1) % 4) + 1 = IF i > n + 1 THEN i - n - 1 ELSE i - n + 3
  BY SMT
<1>6. ASSUME NEW i \in 1..4, NEW n \in 0..3
      PROVE  /\ Around(x, i - n) = x[IF i > n THEN i - n ELSE i - n + 4]
             /\ Around(x, i - n - 1) = x[IF i > n + 1 THEN i - n - 1 ELSE i - n + 3]
  BY <1>5, Zenon DEF Around
<1>7. ASSUME NEW i \in 1..4
      PROVE  y[i] = digit(IF i > q THEN i - q ELSE i - q + 4,
                          IF i > q + 1 THEN i - q - 1 ELSE i - q + 3)
  <2> DEFINE u == IF i > q THEN i - q ELSE i - q + 4
             v == IF i > q + 1 THEN i - q - 1 ELSE i - q + 3
  <2>1. u \in 1..4 /\ v \in 1..4
    BY <1>3, SMT
  <2>2. Around(x, i - q) = x[u] /\ Around(x, i - q - 1) = x[v]
    BY <1>3, <1>6
  <2> HIDE DEF u, v
  <2>3. y[i] = Turn(x[u], x[v], p, r)
    BY <1>2, <2>2
  <2>4. y[i] = digit(u, v)
    BY <1>4, <2>1, <2>3
  <2> QED BY <2>4 DEF u, v
<1> HIDE DEF digit
<1>8. q = 0 => /\ y[1] = digit(1, 4) /\ y[2] = digit(2, 1)
            /\ y[3] = digit(3, 2) /\ y[4] = digit(4, 3)
  BY <1>7, SMT
<1>9. q = 1 => /\ y[1] = digit(4, 3) /\ y[2] = digit(1, 4)
            /\ y[3] = digit(2, 1) /\ y[4] = digit(3, 2)
  BY <1>7, SMT
<1>10. q = 2 => /\ y[1] = digit(3, 2) /\ y[2] = digit(4, 3)
            /\ y[3] = digit(1, 4) /\ y[4] = digit(2, 1)
  BY <1>7, SMT
<1>11. q = 3 => /\ y[1] = digit(2, 1) /\ y[2] = digit(3, 2)
            /\ y[3] = digit(4, 3) /\ y[4] = digit(1, 4)
  BY <1>7, SMT
<1>12. q = 0 \/ q = 1 \/ q = 2 \/ q = 3
  BY <1>3, SMT
<1> QED BY <1>8, <1>9, <1>10, <1>11, <1>12 DEF q, p, r, y, digit


\* A rotated word is that of the two parts of the word, each moved to the other's place.
Parted(x, k, lo, hi) ==
    /\ lo \in Nat /\ hi \in Nat /\ lo < Right(k)
    /\ Value(x) = lo + (Right(k) * hi)
    /\ Value(Rot64(x, k)) = (Left(k) * lo) + hi

LEMMA RotParted ==
    ASSUME NEW x \in Word, NEW k \in 0..63
    PROVE  \E lo, hi : Parted(x, k, lo, hi)
<1> DEFINE q == k \div 16
           p == 2 ^ (k % 16)
           r == 2 ^ (16 - (k % 16))
           y == Rot64(x, k)
           digit(i, j) == (p * (x[i] % r)) + (x[j] \div r)
<1>1. Shift(p, r) /\ q \in 0..3
  BY TurnsOf, Zenon DEF Turns
<1>2. /\ q = 0 => y[1] = digit(1, 4) /\ y[2] = digit(2, 1) /\ y[3] = digit(3, 2) /\ y[4] = digit(4, 3)
      /\ q = 1 => y[1] = digit(4, 3) /\ y[2] = digit(1, 4) /\ y[3] = digit(2, 1) /\ y[4] = digit(3, 2)
      /\ q = 2 => y[1] = digit(3, 2) /\ y[2] = digit(4, 3) /\ y[3] = digit(1, 4) /\ y[4] = digit(2, 1)
      /\ q = 3 => y[1] = digit(2, 1) /\ y[2] = digit(3, 2) /\ y[3] = digit(4, 3) /\ y[4] = digit(1, 4)
  BY RotDigits
<1>3. /\ Left(k) = p * Upto(q) /\ Right(k) = r * Upto(3 - q)
  BY DEF Left, Right
<1> HIDE DEF q, p, r, y
<1>4. p \in Nat \ {0} /\ r \in Nat \ {0} /\ p * r = 65536
  BY <1>1, SMT DEF Shift
<1> DEFINE a(i) == x[i] \div r
           b(i) == x[i] % r
           c(i) == p * (x[i] % r)
           e(i) == p * x[i]
           f(i) == r * (x[i] \div r)
<1>5. ASSUME NEW i \in 1..4
      PROVE  /\ x[i] \in Halfword /\ x[i] \in Nat
             /\ a(i) \in Nat /\ b(i) \in Nat /\ c(i) \in Nat /\ e(i) \in Nat /\ f(i) \in Nat
             /\ b(i) < r /\ x[i] = b(i) + f(i) /\ e(i) = c(i) + (65536 * a(i))
             /\ p * b(i) = c(i) /\ r * a(i) = f(i) /\ p * x[i] = e(i)
  <2>1. x[i] \in Halfword /\ x[i] \in Nat
    BY Halves DEF Word
  <2>2. /\ a(i) \in Nat /\ b(i) \in Nat /\ b(i) < r /\ x[i] = b(i) + (r * a(i))
        /\ p * x[i] = (p * b(i)) + (65536 * a(i))
    BY <1>1, <2>1, Halved
  <2> HIDE DEF a, b
  <2>3. p * b(i) \in Nat /\ p * x[i] \in Nat /\ r * a(i) \in Nat
    BY <1>4, <2>1, <2>2, SMT
  <2> QED BY <2>1, <2>2, <2>3 DEF a, b
<1>6. ASSUME NEW i \in 1..4 PROVE r * e(i) = 65536 * x[i]
  <2> DEFINE z == x[i]
  <2>1. z \in Nat
    BY <1>5
  <2> HIDE DEF z
  <2>2. r * (p * z) = (p * r) * z
    BY <1>4, <2>1, SMT
  <2> QED BY <1>4, <2>2 DEF e, z
<1>7. \A i, j : digit(i, j) = c(i) + a(j)
  OBVIOUS
<1>8. /\ 0 \in Halfword /\ Value(x) = Nest(x[1], x[2], x[3], x[4])
      /\ Value(y) = Nest(y[1], y[2], y[3], y[4])
  BY ZeroHalf, SMT DEF Value, Nest
<1> HIDE DEF digit, a, b, c, e, f
<1>9. CASE q = 0
  <2> DEFINE lo == Nest(x[1], x[2], x[3], b(4))
             hi == a(4)
  <2>1. Left(k) = p * 1 /\ Right(k) = r * (65536 * (65536 * 65536))
    BY <1>3, <1>9, SMT DEF Upto
  <2>2. hi \in Nat
    BY <1>5, SMT
  <2>3. lo \in Nat /\ lo < Right(k)
    BY <1>4, <1>5, <2>1, SMT DEF Nest, Halfword
  <2>4. Value(x) = lo + (Right(k) * hi)
    <3>1. r * hi = f(4)
      <4>1. r * hi = f(4)
        BY <1>4, <1>5, SMT
      <4> QED BY <1>5, <1>6, <4>1, SMT
    <3>2. (r * (65536 * (65536 * 65536))) * hi = (65536 * (65536 * 65536)) * (r * hi)
      <4> HIDE DEF hi
      <4> QED BY <1>4, <2>2, SMT
    <3> QED BY <1>5, <1>8, <2>1, <3>1, <3>2, SMT DEF Nest
  <2>5. Left(k) * lo = Nest(e(1), e(2), e(3), c(4))
    <3>1. lo \in Int /\ p * lo = Nest(p * x[1], p * x[2], p * x[3], p * b(4))
      <4>1. p \in Int /\ x[1] \in Int /\ x[2] \in Int /\ x[3] \in Int /\ b(4) \in Int
        BY <1>4, <1>5, SMT
      <4>2. Scaled(p, x[1], x[2], x[3], b(4))
        BY <4>1, NestTimes, Zenon
      <4> QED BY <4>2, Zenon DEF Scaled
    <3>2. (p * 1) * lo = 1 * (p * lo)
      <4> HIDE DEF lo
      <4> QED BY <1>4, <3>1, SMT
    <3>3. p * lo = Nest(e(1), e(2), e(3), c(4))
      BY <1>4, <1>5, <3>1, SMT
    <3> QED BY <1>5, <2>1, <3>2, <3>3, SMT DEF Nest
  <2>6. Value(y) = (Left(k) * lo) + hi
    BY <1>2, <1>5, <1>7, <1>8, <1>9, <2>5, SMT DEF Nest
  <2> QED BY <2>2, <2>3, <2>4, <2>6 DEF Parted, y
<1>10. CASE q = 1
  <2> DEFINE lo == Nest(x[1], x[2], b(3), 0)
             hi == a(3) + e(4)
  <2>1. Left(k) = p * 65536 /\ Right(k) = r * (65536 * 65536)
    BY <1>3, <1>10, SMT DEF Upto
  <2>2. hi \in Nat
    BY <1>5, SMT
  <2>3. lo \in Nat /\ lo < Right(k)
    BY <1>4, <1>5, <2>1, SMT DEF Nest, Halfword
  <2>4. Value(x) = lo + (Right(k) * hi)
    <3>1. r * hi = f(3) + (65536 * x[4])
      <4>1. r * hi = (r * a(3)) + (r * e(4))
        BY <1>4, <1>5, SMT
      <4> QED BY <1>5, <1>6, <4>1, SMT
    <3>2. (r * (65536 * 65536)) * hi = (65536 * 65536) * (r * hi)
      <4> HIDE DEF hi
      <4> QED BY <1>4, <2>2, SMT
    <3> QED BY <1>5, <1>8, <2>1, <3>1, <3>2, SMT DEF Nest
  <2>5. Left(k) * lo = Nest(0, e(1), e(2), c(3))
    <3>1. lo \in Int /\ p * lo = Nest(p * x[1], p * x[2], p * b(3), p * 0)
      <4>1. p \in Int /\ x[1] \in Int /\ x[2] \in Int /\ b(3) \in Int /\ 0 \in Int
        BY <1>4, <1>5, SMT
      <4>2. Scaled(p, x[1], x[2], b(3), 0)
        BY <4>1, NestTimes, Zenon
      <4> QED BY <4>2, Zenon DEF Scaled
    <3>2. (p * 65536) * lo = 65536 * (p * lo)
      <4> HIDE DEF lo
      <4> QED BY <1>4, <3>1, SMT
    <3>3. p * lo = Nest(e(1), e(2), c(3), 0)
      BY <1>4, <1>5, <3>1, SMT
    <3> QED BY <1>5, <2>1, <3>2, <3>3, SMT DEF Nest
  <2>6. Value(y) = (Left(k) * lo) + hi
    BY <1>2, <1>5, <1>7, <1>8, <1>10, <2>5, SMT DEF Nest
  <2> QED BY <2>2, <2>3, <2>4, <2>6 DEF Parted, y
<1>11. CASE q = 2
  <2> DEFINE lo == Nest(x[1], b(2), 0, 0)
             hi == a(2) + e(3) + (65536 * e(4))
  <2>1. Left(k) = p * (65536 * 65536) /\ Right(k) = r * 65536
    BY <1>3, <1>11, SMT DEF Upto
  <2>2. hi \in Nat
    BY <1>5, SMT
  <2>3. lo \in Nat /\ lo < Right(k)
    BY <1>4, <1>5, <2>1, SMT DEF Nest, Halfword
  <2>4. Value(x) = lo + (Right(k) * hi)
    <3>1. r * hi = f(2) + (65536 * x[3]) + (65536 * (65536 * x[4]))
      <4>1. r * hi = (r * a(2)) + (r * e(3)) + (65536 * (r * e(4)))
        BY <1>4, <1>5, SMT
      <4> QED BY <1>5, <1>6, <4>1, SMT
    <3>2. (r * 65536) * hi = 65536 * (r * hi)
      <4> HIDE DEF hi
      <4> QED BY <1>4, <2>2, SMT
    <3> QED BY <1>5, <1>8, <2>1, <3>1, <3>2, SMT DEF Nest
  <2>5. Left(k) * lo = Nest(0, 0, e(1), c(2))
    <3>1. lo \in Int /\ p * lo = Nest(p * x[1], p * b(2), p * 0, p * 0)
      <4>1. p \in Int /\ x[1] \in Int /\ b(2) \in Int /\ 0 \in Int
        BY <1>4, <1>5, SMT
      <4>2. Scaled(p, x[1], b(2), 0, 0)
        BY <4>1, NestTimes, Zenon
      <4> QED BY <4>2, Zenon DEF Scaled
    <3>2. (p * (65536 * 65536)) * lo = (65536 * 65536) * (p * lo)
      <4> HIDE DEF lo
      <4> QED BY <1>4, <3>1, SMT
    <3>3. p * lo = Nest(e(1), c(2), 0, 0)
      BY <1>4, <1>5, <3>1, SMT
    <3> QED BY <1>5, <2>1, <3>2, <3>3, SMT DEF Nest
  <2>6. Value(y) = (Left(k) * lo) + hi
    BY <1>2, <1>5, <1>7, <1>8, <1>11, <2>5, SMT DEF Nest
  <2> QED BY <2>2, <2>3, <2>4, <2>6 DEF Parted, y
<1>12. CASE q = 3
  <2> DEFINE lo == Nest(b(1), 0, 0, 0)
             hi == a(1) + e(2) + (65536 * (e(3) + (65536 * e(4))))
  <2>1. Left(k) = p * (65536 * (65536 * 65536)) /\ Right(k) = r * 1
    BY <1>3, <1>12, SMT DEF Upto
  <2>2. hi \in Nat
    BY <1>5, SMT
  <2>3. lo \in Nat /\ lo < Right(k)
    BY <1>4, <1>5, <2>1, SMT DEF Nest, Halfword
  <2>4. Value(x) = lo + (Right(k) * hi)
    <3>1. r * hi = f(1) + (65536 * x[2]) + (65536 * ((65536 * x[3]) + (65536 * (65536 * x[4]))))
      <4>1. r * hi = (r * a(1)) + (r * e(2)) + (65536 * ((r * e(3)) + (65536 * (r * e(4)))))
        BY <1>4, <1>5, SMT
      <4> QED BY <1>5, <1>6, <4>1, SMT
    <3>2. (r * 1) * hi = 1 * (r * hi)
      <4> HIDE DEF hi
      <4> QED BY <1>4, <2>2, SMT
    <3> QED BY <1>5, <1>8, <2>1, <3>1, <3>2, SMT DEF Nest
  <2>5. Left(k) * lo = Nest(0, 0, 0, c(1))
    <3>1. lo \in Int /\ p * lo = Nest(p * b(1), p * 0, p * 0, p * 0)
      <4>1. p \in Int /\ b(1) \in Int /\ 0 \in Int
        BY <1>4, <1>5, SMT
      <4>2. Scaled(p, b(1), 0, 0, 0)
        BY <4>1, NestTimes, Zenon
      <4> QED BY <4>2, Zenon DEF Scaled
    <3>2. (p * (65536 * (65536 * 65536))) * lo = (65536 * (65536 * 65536)) * (p * lo)
      <4> HIDE DEF lo
      <4> QED BY <1>4, <3>1, SMT
    <3>3. p * lo = Nest(c(1), 0, 0, 0)
      BY <1>4, <1>5, <3>1, SMT
    <3> QED BY <1>5, <2>1, <3>2, <3>3, SMT DEF Nest
  <2>6. Value(y) = (Left(k) * lo) + hi
    BY <1>2, <1>5, <1>7, <1>8, <1>12, <2>5, SMT DEF Nest
  <2> QED BY <2>2, <2>3, <2>4, <2>6 DEF Parted, y
<1> QED BY <1>1, <1>9, <1>10, <1>11, <1>12, SMT


\* A word is rotated as the integer it stands for, (x << k) | (x >> (64 - k)), as Rot64 of
\* hash.cc:38-40 has it, by any number of bits below 64: what the two shifts keep does not
\* overlap, so that their sum is their union.
THEOREM RotIsRotation ==
    ASSUME NEW x \in Word, NEW k \in 0..63
    PROVE  /\ Left(k) * Right(k) = Words64
           /\ Value(Rot64(x, k)) =
                 ((Value(x) * Left(k)) % Words64) + (Value(x) \div Right(k))
<1> DEFINE q == k \div 16
           p == 2 ^ (k % 16)
           r == 2 ^ (16 - (k % 16))
           P == Left(k)
           R == Right(k)
<1>1. Shift(p, r) /\ q \in 0..3
  BY TurnsOf, Zenon DEF Turns
<1>2. P = p * Upto(q) /\ R = r * Upto(3 - q)
  BY DEF Left, Right
<1> HIDE DEF q, p, r, P, R
<1>3. p \in Nat \ {0} /\ r \in Nat \ {0} /\ p * r = 65536
  BY <1>1, SMT DEF Shift
<1>4. Upto(q) \in Nat \ {0} /\ Upto(3 - q) \in Nat \ {0}
      /\ Upto(q) * Upto(3 - q) = 65536 * (65536 * 65536)
  BY <1>1, SMT DEF Upto
<1>5. P \in Nat \ {0} /\ R \in Nat \ {0} /\ P * R = Words64
  <2> DEFINE s == Upto(q)
             t == Upto(3 - q)
  <2>1. s \in Nat \ {0} /\ t \in Nat \ {0} /\ s * t = 65536 * (65536 * 65536)
    BY <1>4
  <2> HIDE DEF s, t
  <2>2. p * s \in Nat \ {0} /\ r * t \in Nat \ {0} /\ (p * s) * (r * t) = (p * r) * (s * t)
    BY <1>3, <2>1, SMT
  <2>3. P = p * s /\ R = r * t
    BY <1>2 DEF s, t
  <2>4. P * R = Words64
    <3> DEFINE m == 65536
               n == 65536 * (65536 * 65536)
    <3>1. p * r = m /\ s * t = n /\ m * n = Words64
      BY <1>3, <2>1, SMT DEF Words64
    <3> HIDE DEF m, n
    <3> QED BY <2>2, <2>3, <3>1, Zenon
  <2> QED BY <2>2, <2>3, <2>4
<1>6. PICK lo, hi : Parted(x, k, lo, hi)
  BY RotParted
<1> DEFINE v == Value(x)
<1>7. /\ lo \in Nat /\ hi \in Nat /\ lo < R /\ v = lo + (R * hi)
      /\ Value(Rot64(x, k)) = (P * lo) + hi
  BY <1>6, Zenon DEF Parted, P, R
<1> HIDE DEF v
<1>8. ShiftedLeft(v, P, Words64) = P * lo /\ ShiftedRight(v, R) = hi
  <2>1. TwoParts(v, lo, hi, P, R, Words64)
    BY <1>5, <1>7 DEF TwoParts
  <2> QED BY <2>1, ShiftedParts, ZenonT(60)
<1>9. Value(Rot64(x, k)) = ShiftedLeft(v, P, Words64) + ShiftedRight(v, R)
  BY <1>7, <1>8, Zenon
<1> QED BY <1>5, <1>9, Zenon DEF ShiftedLeft, ShiftedRight, v, P, R

\* Exclusive or is that of the bits: bit b of the words' halfwords added without carry
\* (hash.cc:42-55, the ^= of Mix).
BitOf(n, b) == (n \div (2 ^ b)) % 2

THEOREM XorIsBitwise ==
    ASSUME NEW x \in Word, NEW y \in Word, NEW i \in 1..4, NEW b \in 0..15
    PROVE  BitOf(Xor64(x, y)[i], b) = (BitOf(x[i], b) + BitOf(y[i], b)) % 2
<1> DEFINE z == x[i]
           t == y[i]
           v == Xor16(z, t)
           p == 2 ^ b
<1>1. z \in Halfword /\ t \in Halfword /\ Xor64(x, y)[i] = v
  BY DEF Word, Xor64
<1>2. Shift(p, 2 ^ (16 - b))
  BY Powers
<1>3. \/ p = 1 \/ p = 2 \/ p = 4 \/ p = 8 \/ p = 16 \/ p = 32 \/ p = 64 \/ p = 128
      \/ p = 256 \/ p = 512 \/ p = 1024 \/ p = 2048 \/ p = 4096 \/ p = 8192
      \/ p = 16384 \/ p = 32768
  <2> HIDE DEF p
  <2> QED BY <1>2, SMT DEF Shift
<1> HIDE DEF z, t, v, p
<1>4. (v \div p) % 2 = XorBit(z, t, p)
  BY <1>1, <1>3, XorBits DEF v
<1>5. z \div p \in Nat /\ t \div p \in Nat
  BY <1>1, <1>3, Halves, SMT
<1>6. XorBit(z, t, p) = (((z \div p) % 2) + ((t \div p) % 2)) % 2
  <2> DEFINE m == z \div p
             n == t \div p
  <2>1. m \in Nat /\ n \in Nat
    BY <1>5
  <2> HIDE DEF m, n
  <2>2. (m + n) % 2 = ((m % 2) + (n % 2)) % 2
    BY <2>1, SMT
  <2> QED BY <2>2 DEF m, n, XorBit
<1> QED BY <1>1, <1>4, <1>6, Zenon DEF BitOf, z, t, p

\* Two states of four words that differ are mixed into two that differ, whatever the
\* words are: a call of Mix (hash.cc:42-55) never makes two hashes meet that differed.
THEOREM MixInjective ==
    ASSUME NEW s \in State, NEW t \in State, Mix(s) = Mix(t)
    PROVE  s = t
BY MixUndone, Zenon
=============================================================================
