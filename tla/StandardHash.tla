---------------------------- MODULE StandardHash ----------------------------
(***************************************************************************)
(* The standard hash (src/hash.cc), written five times: by the core, Go,   *)
(* Java, .NET and Rust.  A key is absorbed thirty-two bytes at a time,     *)
(* then sixteen, then the rest, into four words of 64 bits; the first two  *)
(* of them, after a last scrambling, are the hash.                         *)
(*                                                                         *)
(* A word is its four halfwords, the low one first.  The scrambling is the *)
(* same text in every port and modelled once; how the loops end and how    *)
(* the last bytes are gathered is modelled port by port.                   *)
(***************************************************************************)
EXTENDS Sequences, Halfwords

CONSTANTS
    Keys,       \* the keys hashed, sequences of bytes
    Ports       \* the ports that hash them

ASSUME HashAssumption ==
    /\ Keys \subseteq Seq(0..255)
    /\ Ports \subseteq {"core", "go", "java", "csharp", "rust"}

VARIABLES
    port, key,
    off,        \* the bytes absorbed
    h,          \* the four words a, b, c, d
    done

vars == <<port, key, off, h, done>>

-----------------------------------------------------------------------------
(***************************************************************************)
(* Words of 64 bits.                                                       *)
(***************************************************************************)
Word == [1..4 -> Halfword]

Zero == <<0, 0, 0, 0>>
Magic == <<48879, 57005, 48879, 57005>>

\* Modulo 2^64: each halfword takes the carry of the one before.
Add64(x, y) ==
    LET first == x[1] + y[1]
        second == x[2] + y[2] + (first \div 65536)
        third == x[3] + y[3] + (second \div 65536)
        fourth == x[4] + y[4] + (third \div 65536)
    IN  <<first % 65536, second % 65536, third % 65536, fourth % 65536>>

Xor64(x, y) == [i \in 1..4 |-> Xor16(x[i], y[i])]

\* Left by k bits: by halfwords, then by the bits that remain.
Rot64Lossy(x, k) ==
    LET half(i) == x[((i - 1 - (k \div 16)) % 4) + 1]
    IN  [i \in 1..4 |-> ((half(i) * 2 ^ (k % 16)) % 65536)
                           + (half(i - 1) \div 2 ^ (17 - (k % 16)))]
Rot64(x, k) ==
    LET half(i) == x[((i - 1 - (k \div 16)) % 4) + 1]
    IN  [i \in 1..4 |-> ((half(i) * 2 ^ (k % 16)) % 65536)
                           + (half(i - 1) \div 2 ^ (16 - (k % 16)))]

\* The lines of Mix: word x is rotated, word y added to it, and word z changed by
\* it; each line moves on by one word.
MixRotations == <<50, 52, 30, 41, 54, 48, 38, 37, 62, 34, 5, 36>>

MixLine(s, j) ==
    LET x == ((j + 1) % 4) + 1
        y == ((j + 2) % 4) + 1
        z == ((j + 3) % 4) + 1
        turned == Add64(Rot64(s[x], MixRotations[j]), s[y])
    IN  [s EXCEPT ![x] = turned, ![z] = Xor64(@, turned)]

Mix(s) ==
    LET after[j \in 0..12] == IF j = 0 THEN s ELSE MixLine(after[j - 1], j)
    IN  after[12]

\* The lines of End: word z is changed by y, y rotated, and then added to z.
EndRotations == <<15, 52, 26, 51, 28, 9, 47, 54, 32, 25, 63>>

EndLine(s, j) ==
    LET z == ((j + 2) % 4) + 1
        y == ((j + 1) % 4) + 1
        turned == Rot64(s[y], EndRotations[j])
    IN  [s EXCEPT ![z] = Add64(Xor64(@, s[y]), turned), ![y] = turned]

End(s) ==
    LET after[j \in 0..11] == IF j = 0 THEN s ELSE EndLine(after[j - 1], j)
    IN  after[11]

-----------------------------------------------------------------------------
(***************************************************************************)
(* Reading the key.  A part is n bytes of it from offset at, n one of 1, 2, *)
(* 4, 8, as a little-endian number shifted left by whole bytes.            *)
(***************************************************************************)
Part(at, n, shift) == [at |-> at, n |-> n, shift |-> shift]

\* Past its end is other memory, which no port may read.
ByteAt(i) == IF i < Len(key) THEN key[i + 1] ELSE 170

Load(part) ==
    LET first == part.shift \div 8
        byte(i) == IF i \in first..(first + part.n - 1) THEN ByteAt(part.at + i - first) ELSE 0
    IN  [i \in 1..4 |-> byte(2 * i - 2) + (256 * byte(2 * i - 1))]

\* Java's bytes are signed; widened and masked with 0xff they are the others'.
JavaSigned(part) ==
    IF part.n = 1 /\ ByteAt(part.at) > 127
      THEN [i \in 1..4 |->
              IF 16 * i <= part.shift THEN 0
              ELSE IF 16 * (i - 1) > part.shift THEN 65535
              ELSE IF part.shift = 16 * (i - 1) THEN 65280 + ByteAt(part.at)
              ELSE 256 * ByteAt(part.at)]
      ELSE Load(part)
JavaLoad(part) == Load(part)

\* Parts are added one after the other.
Sum(base, parts) ==
    LET read(part) == IF port = "java" THEN JavaLoad(part) ELSE Load(part)
        upto[i \in 0..Len(parts)] ==
            IF i = 0 THEN base ELSE Add64(upto[i - 1], read(parts[i]))
    IN  upto[Len(parts)]

Long(at) == <<Part(at, 8, 0)>>

\* What is left after whole blocks, n bytes from offset at, falls through the
\* cases of a switch: single bytes down to a word of four or eight.
Bytes(from, to, at) == [i \in 1..(to - from) |-> Part(at + to - i, 1, 8 * (to - i))]
Falling(n, at) ==
    IF n < 4 THEN Bytes(0, n, at) ELSE Append(Bytes(4, n, at), Part(at, 4, 0))
SwitchC(n, at) == IF n >= 8 THEN Long(at) ELSE Falling(n, at)
SwitchD(n, at) == IF n > 8 THEN Falling(n - 8, at + 8) ELSE <<>>

\* Rust matches each case apart, with a part of two bytes where it can.
Arms(at) ==
    <<<<Part(at, 1, 0)>>,
      <<Part(at, 2, 0)>>,
      <<Part(at + 2, 1, 16), Part(at, 2, 0)>>,
      <<Part(at, 4, 0)>>,
      <<Part(at + 4, 1, 32), Part(at, 4, 0)>>,
      <<Part(at + 4, 2, 32), Part(at, 4, 0)>>,
      <<Part(at + 6, 1, 48), Part(at + 4, 2, 32), Part(at, 4, 0)>>>>
RustC(n, at) == IF n >= 8 THEN Long(at) ELSE Arms(at)[n]
RustD(n, at) == IF n > 8 THEN Arms(at + 8)[n - 8] ELSE <<>>

TailC(n, at) == IF port = "rust" THEN RustC(n, at) ELSE SwitchC(n, at)
TailD(n, at) == IF port = "rust" THEN RustD(n, at) ELSE SwitchD(n, at)

\* The length, cut to its low byte by the shift of 56.
LengthWord == <<0, 0, 0, 256 * (Len(key) % 256)>>

-----------------------------------------------------------------------------
Start == <<Zero, Zero, Magic, Magic>>

\* A program that has hashed nothing yet, and the keys it may.
Init ==
    /\ port \in Ports
    /\ key \in Keys
    /\ off = 0
    /\ h = Start
    /\ done = FALSE

\* The core and .NET compute the end of the blocks of thirty-two beforehand, as
\* does Rust; Go and Java look at what is left.
BlockLeft ==
    CASE port \in {"core", "csharp", "rust"} -> off < Len(key) - (Len(key) % 32)
      [] port \in {"go", "java"} -> Len(key) - off >= 32
\* The core looks at a bit of the length, the others at what is left.
HalfBlockBelow == Len(key) - off > 16
HalfBlockLeft ==
    CASE port = "core" -> (Len(key) \div 16) % 2 = 1
      [] port # "core" -> Len(key) - off >= 16

Absorb(s, at) ==
    [s EXCEPT ![3] = Sum(@, Long(at)), ![4] = Sum(@, Long(at + 8))]

Block ==
    /\ ~done /\ BlockLeft
    /\ LET mixed == Mix(Absorb(h, off))
       IN  h' = [mixed EXCEPT ![1] = Sum(@, Long(off + 16)), ![2] = Sum(@, Long(off + 24))]
    /\ off' = off + 32
    /\ UNCHANGED <<port, key, done>>

\* The half block, the length, the rest and the end run on without a loop.
Finish ==
    /\ ~done /\ ~BlockLeft
    /\ LET half == HalfBlockLeft
           s == IF half THEN Mix(Absorb(h, off)) ELSE h
           at == IF half THEN off + 16 ELSE off
           n == Len(key) % 16
           c == IF n = 0 THEN Add64(s[3], Magic) ELSE Sum(s[3], TailC(n, at))
           l == Add64(s[4], LengthWord)
           d == IF n = 0 THEN Add64(l, Magic) ELSE Sum(l, TailD(n, at))
       IN  h' = End([s EXCEPT ![3] = c, ![4] = d])
    /\ off' = Len(key)
    /\ done' = TRUE
    /\ UNCHANGED <<port, key>>

Next == Block \/ Finish

Spec == Init /\ [][Next]_vars

-----------------------------------------------------------------------------
(***************************************************************************)
(* Properties.                                                             *)
(***************************************************************************)
\* What every port promises: the key k is cut into little-endian words, the last
\* sixteen bytes filled up with zeros (hash.cc:12-18, "every implementation on the
\* same little-endian word layout").
Padded(k, i) == IF i < Len(k) THEN k[i + 1] ELSE 0
PaddedWord(k, at) ==
    [i \in 1..4 |-> Padded(k, at + 2 * i - 2) + (256 * Padded(k, at + 2 * i - 1))]

Fed(k, s, at) ==
    [s EXCEPT ![3] = Add64(@, PaddedWord(k, at)), ![4] = Add64(@, PaddedWord(k, at + 8))]

\* Even blocks go into c and d before a mix, odd ones that end a block of thirty-two
\* into a and b after it.
Absorbed(k) ==
    LET upto[b \in 0..(Len(k) \div 16)] ==
            IF b = 0 THEN Start
            ELSE IF b % 2 = 1 THEN Mix(Fed(k, upto[b - 1], 16 * (b - 1)))
            ELSE [upto[b - 1] EXCEPT ![1] = Add64(@, PaddedWord(k, 16 * (b - 1))),
                                     ![2] = Add64(@, PaddedWord(k, 16 * (b - 1) + 8))]
    IN  upto

LayoutHash(k) ==
    LET blocks == Len(k) \div 16
        s == Absorbed(k)[blocks]
        rest == IF Len(k) % 16 = 0
                  THEN [s EXCEPT ![3] = Add64(@, Magic), ![4] = Add64(@, Magic)]
                  ELSE Fed(k, s, 16 * blocks)
    IN  End([rest EXCEPT ![4] = Add64(@, <<0, 0, 0, 256 * (Len(k) % 256)>>)])

SameHash == done => h = LayoutHash(key)

\* Mixing loses nothing: from what a block was mixed into, the words before it can be
\* had back, so two keys that differ in a block differ in the words after it.
UnrotatedBy(k) == (64 - k) % 64
Minus(x, y) == Add64(Add64(x, [i \in 1..4 |-> 65535 - y[i]]), <<1, 0, 0, 0>>)
UnmixLine(s, j) ==
    LET x == ((j + 1) % 4) + 1
        y == ((j + 2) % 4) + 1
        z == ((j + 3) % 4) + 1
    IN  [s EXCEPT ![z] = Xor64(@, s[x]),
                  ![x] = Rot64(Minus(@, s[y]), UnrotatedBy(MixRotations[j]))]
Unmix(s) ==
    LET before[j \in 0..12] == IF j = 0 THEN s ELSE UnmixLine(before[j - 1], 13 - j)
    IN  before[12]
MixLosesNothing == Unmix(Mix(h)) = h

\* What the proofs need besides: types, and that until the end the blocks consumed are
\* whole ones of thirty-two, absorbed as the layout says.
Typed == port \in Ports /\ key \in Keys /\ done \in BOOLEAN /\ h \in [1..4 -> Word]
Absorbing ==
    ~done => \E j \in 0..Len(key) : /\ off = 32 * j /\ off <= Len(key)
                                    /\ h = Absorbed(key)[2 * j]
IInv == Typed /\ Absorbing /\ SameHash
=============================================================================
