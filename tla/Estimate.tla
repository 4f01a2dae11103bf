------------------------------ MODULE Estimate ------------------------------
(***************************************************************************)
(* The layout each port chooses for an expected number of items and a      *)
(* false-positive rate: BestWay and Create of the core (include/pbf.h) and *)
(* what stands for them in the six ports.                                  *)
(*                                                                         *)
(* A rate is p ten-thousandths.  The bytes that items at that rate need are *)
(* computed in floating point, by the same formula everywhere; their whole *)
(* part is an input here, n, of any size.  From there on the integers of   *)
(* each port are modelled with their widths: what the conversion yields of *)
(* an n that does not fit, and what the sum that rounds it up to pages     *)
(* yields where it wraps.                                                  *)
(* Rounding -log2 of the rate is exact: half-integers are square roots of  *)
(* powers of two, which no p/10000 is, so no port meets a tie.             *)
(***************************************************************************)
EXTENDS Layout, FiniteSets

CONSTANTS
    Rates,      \* the rates asked for
    Sizes,      \* the bytes they come to
    SizeMax,    \* the last size_t of the core and usize of Rust
    Uint64Max,  \* the last uint64 of Go
    LongMax,    \* the last long of Java and C#
    IntValues   \* how many values the int or uint has that they cast pages to

ASSUME RequestAssumption == Rates \subseteq Nat /\ Sizes \subseteq Nat

\* 2^32 - 1 or 2^64 - 1, 2^64 - 1, 2^63 - 1 and 2^32 are of this kind.
ASSUME WidthAssumption ==
    /\ SizeMax \in Nat /\ Uint64Max \in Nat /\ LongMax \in Nat /\ IntValues \in Nat
    /\ \A max \in {SizeMax, Uint64Max, LongMax} : max >= kMaxPageNum * 4096
    /\ IntValues > kMaxPageNum
    /\ (LongMax + 1) % (IntValues * 4096) = 0

VARIABLES
    port,       \* the port asked last
    rate, bytes,
    layout      \* the layout it chose

vars == <<port, rate, bytes, layout>>

Refused == [way |-> 0, level |-> 0, num |-> 0]

Clamp(p) == IF p < 5 THEN 5 ELSE IF p > 1000 THEN 1000 ELSE p

\* The core and Rust look for the highest bit of 2/rate + 1.
HighBit(n) == CHOOSE i \in 1..31 :
                 /\ n < 2 ^ (i + 1)
                 /\ \A j \in 1..(i - 1) : n >= 2 ^ (j + 1)
BestWay(p) ==
    LET i == HighBit((20000 \div Clamp(p)) + 1)
    IN  IF i < 4 THEN 4 ELSE IF i > 8 THEN 8 ELSE i

\* The others round -log2(rate) and clamp: one more way for each half-integer
\* from 4.5 to 7.5 that it reaches.
Reaches(p, k) == p * p <= 100000000 \div 2 ^ (2 * k + 1)
RoundedWay(p) == 4 + Cardinality({k \in 4..7 : Reaches(Clamp(p), k)})

\* The first level whose pages would be fewer than sixteen; twelve for the rest.
FirstLevel(n) ==
    IF n >= 2 ^ 15 THEN 12
    ELSE CHOOSE i \in 6..11 : n < 2 ^ (i + 4) /\ \A j \in 6..(i - 1) : n >= 2 ^ (j + 4)

\* Raised once where the level is too low for the way.
LevelNotRaised(n, way) == FirstLevel(n)
Level(n, way) ==
    IF FirstLevel(n) < MinLevel(way) THEN FirstLevel(n) + 1 ELSE FirstLevel(n)

\* Python and TypeScript compare with the fraction 8 - 8 / way.
FractionNotRaised(n, way) == FirstLevel(n)
LevelByFraction(n, way) ==
    IF way * FirstLevel(n) < 8 * way - 8 THEN FirstLevel(n) + 1 ELSE FirstLevel(n)

\* Whole pages, one at least.
AtLeastOne(m) == IF m = 0 THEN 1 ELSE m
Pages(n, level) == AtLeastOne((n + PageSize(level) - 1) \div PageSize(level))

\* ... of a sum in an unsigned word whose last value is max,
PagesInCut(max, n, level) == AtLeastOne(n \div PageSize(level))
PagesIn(max, n, level) ==
    AtLeastOne(((n + PageSize(level) - 1) % (max + 1)) \div PageSize(level))

\* ... and of one in a signed word, which turns negative.
LongSum(n, level) ==
    LET sum == n + PageSize(level) - 1
    IN  IF sum > LongMax THEN (sum - LongMax - 1) - LongMax - 1 ELSE sum
LongPages(n, level) == AtLeastOne(LongSum(n, level) \div PageSize(level))

\* The constructor that every estimate ends in.
Constructed(way, level, num) ==
    IF ValidLayout(way, level, num)
      THEN [way |-> way, level |-> level, num |-> num]
      ELSE Refused

\* At the limit the call is refused: a null filter, an exception or a panic.
Limited(way, level, num) ==
    IF num >= kMaxPageNum THEN Refused ELSE Constructed(way, level, num)

SizedIn(max, way, n) == Limited(way, Level(n, way), PagesIn(max, n, Level(n, way)))

\* Java and C# cast what is below the limit, also below zero, to the constructor's int.
SizedInLong(way, n) ==
    LET num == LongPages(n, Level(n, way))
    IN  IF num >= kMaxPageNum THEN Refused
        ELSE Constructed(way, Level(n, way), num % IntValues)

SizedByFraction(way, n) ==
    Limited(way, LevelByFraction(n, way), Pages(n, LevelByFraction(n, way)))

\* Conversions of n to an integer type: Rust and Java take the last value for what
\* is above it; C++ leaves it undefined, Go to the implementation, C# unspecified.
Saturated(max, n) == IF n <= max THEN n ELSE max
Converted(max, n) == IF n <= max THEN {n} ELSE {m \in Sizes : m <= max}
ConvertedToLong(n) ==
    IF n <= LongMax THEN {n}
    ELSE UNION {{m, -m - 1} : m \in {s \in Sizes : s <= LongMax}}

Create(p, n) == SizedIn(SizeMax, BestWay(p), n)
RustEstimate(p, n) == SizedIn(SizeMax, BestWay(p), n)
GoNew(p, n) == SizedIn(Uint64Max, RoundedWay(p), n)
JavaNew(p, n) == SizedInLong(RoundedWay(p), n)
CsNew(p, n) == SizedInLong(RoundedWay(p), n)
PyCreate(p, n) == SizedByFraction(RoundedWay(p), n)
TsCreateLayout(p, n) == SizedByFraction(RoundedWay(p), n)

\* A debug build of Rust panics where the sum overflows, before one is taken off it.
RustChecked(p, n) ==
    IF n + PageSize(Level(n, BestWay(p))) > SizeMax THEN Refused ELSE RustEstimate(p, n)

-----------------------------------------------------------------------------
Init == port = "none" /\ rate = 1000 /\ bytes = 0 /\ layout = Refused

Ask(name, p, n, chosen) ==
    /\ port' = name
    /\ rate' = p
    /\ bytes' = n
    /\ layout' = chosen

\* The bytes of one item, the least a rate can come to: what the formula
\* (pbf.h:196-204) yields for the supported rates.
OneItem(p) == IF Clamp(p) = 5 THEN 2 ELSE IF Clamp(p) <= 222 THEN 1 ELSE 0

\* One call: nothing is kept from it, so nothing follows from another.
Next ==
    /\ port = "none"
    /\ \E p \in Rates : \E n \in {m \in Sizes : m >= OneItem(p)} :
          \/ \E m \in Converted(SizeMax, n) : Ask("core", p, n, Create(p, m))
          \/ Ask("rust", p, n, RustEstimate(p, Saturated(SizeMax, n)))
          \/ Ask("rust, debug", p, n, RustChecked(p, Saturated(SizeMax, n)))
          \/ \E m \in Converted(Uint64Max, n) : Ask("go", p, n, GoNew(p, m))
          \/ Ask("java", p, n, JavaNew(p, Saturated(LongMax, n)))
          \/ \E m \in ConvertedToLong(n) : Ask("csharp", p, n, CsNew(p, m))
          \/ Ask("python", p, n, PyCreate(p, n))
          \/ Ask("typescript", p, n, TsCreateLayout(p, n))

Spec == Init /\ [][Next]_vars

-----------------------------------------------------------------------------
(***************************************************************************)
(* Properties.                                                             *)
(***************************************************************************)
Asked == port # "none"
Chosen == layout # Refused

\* The most bytes that the limit on pages allows.
MaxBytes == (kMaxPageNum - 1) * PageSize(12)

\* Rounding n up to pages of 4096 bytes does not leave an unsigned word.
Fits(max, n) == n <= max - 4095

\* A port counts the pages of n: Java, Python, TypeScript and a debug build of Rust
\* do of any n, or stop at the limit; C# does of every long.
Counted(name, n) ==
    /\ name \in {"core", "rust"} => Fits(SizeMax, n)
    /\ name = "go" => Fits(Uint64Max, n)
    /\ name = "csharp" => n <= LongMax

\* The sum wraps to less than a page: the last 4095 values of the word, which all
\* that is above them becomes in Rust.
Wrapped(name, n) ==
    \/ name \in {"core", "rust"} /\ n <= SizeMax /\ ~Fits(SizeMax, n)
    \/ name = "rust" /\ n > SizeMax
    \/ name = "go" /\ n <= Uint64Max /\ ~Fits(Uint64Max, n)

\* What is chosen is a layout every constructor accepts: the one raise of the level
\* is enough for every way (pbf.h:206-223).  A request whose pages the port counts
\* is refused exactly when it needs more of 4096 bytes than the limit allows; where
\* the sum wraps it is not refused, but given one page (pbf.h:218, pbf.rs:71-86).
RefusedOrValid ==
    Asked => /\ Chosen => ValidLayout(layout.way, layout.level, layout.num)
             /\ Counted(port, bytes) => (Chosen <=> bytes <= MaxBytes)
             /\ Wrapped(port, bytes) => Chosen /\ layout.level = 12 /\ layout.num = 1

\* The bitmap holds the bytes asked for and wastes less than a page, unless the
\* port's conversion or its sum could not hold the request.
HoldsRequest ==
    Chosen /\ Counted(port, bytes) =>
        /\ layout.num * PageSize(layout.level) >= bytes
        /\ layout.num > 1 => (layout.num - 1) * PageSize(layout.level) < bytes

\* For a request whose pages both count, every port allocates a bitmap of the same
\* shape as the core, unless one of them uses four ways and the request is under
\* 1024 bytes; and none uses more ways than the core, or fewer by two.
SameShape ==
    Asked /\ Counted(port, bytes) /\ Counted("core", bytes) =>
      LET core == Create(rate, bytes)
      IN  /\ Chosen <=> core # Refused
          /\ Chosen => /\ core.way - layout.way \in 0..1
                       /\ (bytes >= 1024 \/ (layout.way = 4 <=> core.way = 4)) =>
                             layout.level = core.level /\ layout.num = core.num
=============================================================================
