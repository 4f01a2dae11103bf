------------------------------ MODULE Exchange ------------------------------
(***************************************************************************)
(* One filter that travels: built in one language, saved, restored in      *)
(* another, changed there, saved again.  The ports share no code, only the *)
(* promise that a bitmap means the same to each of them.                   *)
(*                                                                         *)
(* The standard hash is common to all; its four words are constants, each  *)
(* a pair of halfwords.  What each port makes of the words - the page, the *)
(* byte and the bit of every probe, in its own integer types - and what it *)
(* checks and copies on restoring is modelled port by port.  Python and    *)
(* TypeScript call the C functions (src/pbf-c.cc) for the former.          *)
(***************************************************************************)
EXTENDS Layout, Halfwords

CONSTANTS
    Keys,
    Words,      \* Words[k][1..4]: the words of the hash of k, as <<high, low>>
    Ports,      \* the ports that take part
    Layouts,    \* the <<way, level, num>> filters are built with
    Readings,   \* the <<way, level>> a file is restored with, besides its own
    Blanks,     \* the sizes of the zeroed buffers that callers also restore
    MaxCount    \* bound: the count with which a file is restored

ASSUME ExchangeAssumption ==
    /\ Words \in [Keys -> [1..4 -> Halfword \X Halfword]]
    /\ Ports \subseteq {"core", "go", "java", "csharp", "rust", "python", "typescript"}
    /\ Layouts \subseteq Nat \X Nat \X Nat
    /\ \A l \in Layouts : ValidLayout(l[1], l[2], l[3])
    /\ Readings \subseteq Nat \X Nat
    /\ Blanks \subseteq Nat

VARIABLES
    home,       \* the port the filter lives in
    filter,
    file,       \* the saved filter: its metadata and its bytes
    shared      \* the filter's bitmap is the file's buffer itself

vars == <<home, filter, file, shared>>

\* keys: history, the keys a filter or a file vouches for.
Filter(way, level, num, cnt, bits, keys) ==
    [way |-> way, level |-> level, num |-> num, cnt |-> cnt, bits |-> bits, keys |-> keys]
File(way, level, size, cnt, bits, keys) ==
    [way |-> way, level |-> level, size |-> size, cnt |-> cnt, bits |-> bits, keys |-> keys]

-----------------------------------------------------------------------------
(***************************************************************************)
(* The page: a word of the hash, in one port a signed one, modulo the page *)
(* number.  The words are rotated by 8, 6, 4 and 2 and added bit by bit.   *)
(***************************************************************************)
High(w) == w[1]
Low(w) == w[2]

Rot32(w, n) ==
    LET turn(a, b) == ((a * 2 ^ n) % 65536) + (b \div 2 ^ (16 - n))
    IN  <<turn(High(w), Low(w)), turn(Low(w), High(w))>>

Xor32(v, w) == <<Xor16(High(v), High(w)), Xor16(Low(v), Low(w))>>

PageHash ==
    [k \in Keys |-> Xor32(Xor32(Rot32(Words[k][1], 8), Rot32(Words[k][2], 6)),
                          Xor32(Rot32(Words[k][3], 4), Rot32(Words[k][4], 2)))]

\* (high * 65536 + low) % num, in two factors of 65536: num is below 2^18, so that no
\* product is beyond the range of TLC.
Remainder(w, num) ==
    (16 * ((4096 * (High(w) % num)) % num) + Low(w)) % num

\* Java masks its signed word with 0xffffffffL first.  Without, a word whose top
\* bit is set would leave a remainder that is not positive.
JavaSignedPage(w, num) ==
    IF High(w) < 32768 THEN Remainder(w, num)
    ELSE 0 - Remainder(<<65535 - High(w), 65536 - Low(w)>>, num)
JavaPage(w, num) == Remainder(w, num)

(***************************************************************************)
(* The probes, each the number of a bit from the start of the buffer.      *)
(***************************************************************************)
Slot(offset, idx) == 8 * (offset + idx \div 8) + (idx % 8)

\* idx = half & ((1 << (level + 3)) - 1)
Unmasked(half, level) == half
Masked(half, level) == half % PageBits(level)

\* The halves in memory order, as a union overlays them on the words: low first.
Half(k, i) == LET w == Words[k][(i + 1) \div 2]
              IN  IF i % 2 = 1 THEN Low(w) ELSE High(w)

Slots(k, f, offset) == {Slot(offset, Masked(Half(k, i), f.level)) : i \in 1..f.way}

\* The core takes the page number modulo by Divisor, the C functions by %.
CoreSlots(k, f) == Slots(k, f, Remainder(PageHash[k], f.num) * PageSize(f.level))
CSlots(k, f) == Slots(k, f, Remainder(PageHash[k], f.num) * PageSize(f.level))

\* Go: v[i] is built from the words, low half first; page is a slice of data.
GoHalves(k) == [i \in 0..7 |-> IF i % 2 = 0 THEN Low(Words[k][i \div 2 + 1])
                                            ELSE High(Words[k][i \div 2 + 1])]
GoSlots(k, f) ==
    LET page == Remainder(PageHash[k], f.num) * PageSize(f.level)
    IN  {Slot(page, Masked(GoHalves(k)[i], f.level)) : i \in 0..(f.way - 1)}

\* Java unrolls the ways: w0, w0 >>> 16, w1, ...; the mask alone cuts w0.
JavaShiftedFirst(k, n) == <<High(Words[k][n]), Low(Words[k][n])>>
JavaPair(k, n) == <<Low(Words[k][n]), High(Words[k][n])>>
JavaSlots(k, f) ==
    LET offset == JavaPage(PageHash[k], f.num) * PageSize(f.level)
        at(n, j) == Slot(offset, Masked(JavaPair(k, n)[j], f.level))
    IN  {at(1, 1), at(1, 2), at(2, 1), at(2, 2)}
          \cup (IF f.way > 4 THEN {at(3, 1)} ELSE {})
          \cup (IF f.way > 5 THEN {at(3, 2)} ELSE {})
          \cup (IF f.way > 6 THEN {at(4, 1)} ELSE {})
          \cup (IF f.way > 7 THEN {at(4, 2)} ELSE {})

\* .NET keeps the eight halves in words and lets the mask cut them.
CsHalves(k) == [i \in 0..7 |-> LET w == Words[k][i \div 2 + 1]
                               IN  IF i % 2 = 0 THEN w ELSE <<0, High(w)>>]
CsSlots(k, f) ==
    LET offset == Remainder(PageHash[k], f.num) * PageSize(f.level)
    IN  {Slot(offset, Masked(Low(CsHalves(k)[i]), f.level)) : i \in 0..(f.way - 1)}

\* Rust: a list of words and shifts per way, and a mask of sixteen bits.
RustList == <<<<0, 0>>, <<0, 16>>, <<1, 0>>, <<1, 16>>, <<2, 0>>, <<2, 16>>, <<3, 0>>, <<3, 16>>>>
RustIndex(k, word, shift) ==
    LET w == Words[k][word + 1] IN IF shift = 0 THEN Low(w) ELSE High(w)
RustSlots(k, f) ==
    LET off == Remainder(PageHash[k], f.num) * PageSize(f.level)
    IN  {Slot(off, Masked(RustIndex(k, RustList[i][1], RustList[i][2]), f.level)) :
           i \in 1..f.way}

SlotsIn(p, k, f) ==
    CASE p = "core" -> CoreSlots(k, f)
      [] p \in {"python", "typescript"} -> CSlots(k, f)
      [] p = "go" -> GoSlots(k, f)
      [] p = "java" -> JavaSlots(k, f)
      [] p = "csharp" -> CsSlots(k, f)
      [] p = "rust" -> RustSlots(k, f)

Finds(p, k, f) == SlotsIn(p, k, f) \subseteq f.bits

-----------------------------------------------------------------------------
(***************************************************************************)
(* What each port checks before it restores `size` bytes.                  *)
(***************************************************************************)
LayoutChecked(way, level) == way \in 4..8 /\ level >= MinLevel(way) /\ level <= 13

GoAccepts(way, level, size) ==
    /\ LayoutChecked(way, level)
    /\ size # 0 /\ size % PageSize(level) = 0
    /\ size \div PageSize(level) < kMaxPageNum

RustAccepts(way, level, size) == GoAccepts(way, level, size)
CsAccepts(way, level, size) == GoAccepts(way, level, size)
JavaAccepts(way, level, size) == GoAccepts(way, level, size)

\* pbf.py shifts the size; the native constructor compares the product with it.
PyAcceptsShifted(way, level, size) ==
    LET page_num == size \div PageSize(level)
    IN  /\ LayoutChecked(way, level)
        /\ page_num # 0 /\ page_num < kMaxPageNum
PyAccepts(way, level, size) ==
    LET page_num == size \div PageSize(level)
    IN  /\ LayoutChecked(way, level)
        /\ page_num # 0 /\ page_num < kMaxPageNum
        /\ size = page_num * PageSize(level)

\* TypeScript: whole pages first, then validateLayout of their number.
TsAccepts(way, level, size) ==
    /\ size # 0 /\ size % PageSize(level) = 0
    /\ LayoutChecked(way, level)
    /\ size \div PageSize(level) >= 1 /\ size \div PageSize(level) < kMaxPageNum

AcceptsIn(p, way, level, size) ==
    CASE p = "core" -> Accepts(way, level, size)
      [] p = "go" -> GoAccepts(way, level, size)
      [] p = "java" -> JavaAccepts(way, level, size)
      [] p = "csharp" -> CsAccepts(way, level, size)
      [] p = "rust" -> RustAccepts(way, level, size)
      [] p = "python" -> PyAccepts(way, level, size)
      [] p = "typescript" -> TsAccepts(way, level, size)

-----------------------------------------------------------------------------
Init ==
    /\ home \in Ports
    /\ \E l \in Layouts : filter = Filter(l[1], l[2], l[3], 0, {}, {})
    /\ file = File(4, 6, 0, 0, {}, {}) /\ shared = FALSE

\* A file that is the filter's own buffer changes with it, and vouches for the
\* filter's keys under the filter's way and level.
SameReading == filter.way = file.way /\ filter.level = file.level

Follow(bits, keys) ==
    file' = IF shared THEN [file EXCEPT !.bits = bits, !.keys = keys] ELSE file

\* The loop over the probes, and the count.
Set(k) ==
    LET bits == filter.bits \cup SlotsIn(home, k, filter)
    IN  /\ filter' = [filter EXCEPT !.bits = bits, !.keys = @ \cup {k},
                                    !.cnt = IF bits = filter.bits THEN @ ELSE @ + 1]
        /\ Follow(bits, IF SameReading THEN file.keys \cup {k} ELSE file.keys)
        /\ UNCHANGED <<home, shared>>

\* A clear that takes a new array instead of zeroing the one it has.
ClearByReplacing ==
    /\ filter' = [filter EXCEPT !.bits = {}, !.keys = {}, !.cnt = 0]
    /\ UNCHANGED <<home, file, shared>>

Clear ==
    /\ filter' = [filter EXCEPT !.bits = {}, !.keys = {}, !.cnt = 0]
    /\ Follow({}, {})
    /\ UNCHANGED <<home, shared>>

\* The caller writes the bytes and the metadata away.
Save ==
    /\ file' = File(filter.way, filter.level, filter.num * PageSize(filter.level),
                    filter.cnt, filter.bits, filter.keys)
    /\ shared' = FALSE
    /\ UNCHANGED <<home, filter>>

\* Or has a buffer of zeros.
Blank(size) ==
    /\ file' = File(4, 6, size, 0, {}, {})
    /\ shared' = FALSE
    /\ UNCHANGED <<home, filter>>

Compatible(way, level) == way <= file.way /\ level = file.level

\* Restore under the file's own metadata or others; a refusal leaves no filter, so
\* the one there is stays.
Restore(p, way, level, adopt) ==
    LET ok == AcceptsIn(p, way, level, file.size)
    IN  /\ file.cnt <= MaxCount
        /\ IF ok
             THEN /\ home' = p
                  /\ filter' = Filter(way, level, file.size \div PageSize(level),
                                      file.cnt, file.bits,
                                      IF Compatible(way, level) THEN file.keys ELSE {})
                  /\ shared' = adopt
             ELSE UNCHANGED <<home, filter, shared>>
        /\ UNCHANGED file

\* Java's byte[] overload takes the array over; the ByteBuffer one copies it.
RestoreByAdopting(way, level) == "java" \in Ports /\ Restore("java", way, level, TRUE)
RestoreByCopying(way, level) == \E p \in Ports : Restore(p, way, level, FALSE)

Next ==
    \/ \E k \in Keys : Set(k)
    \/ Clear
    \/ Save
    \/ \E size \in Blanks : Blank(size)
    \/ \E r \in Readings \cup {<<file.way, file.level>>} :
          RestoreByAdopting(r[1], r[2]) \/ RestoreByCopying(r[1], r[2])

Spec == Init /\ [][Next]_vars

-----------------------------------------------------------------------------
(***************************************************************************)
(* Properties.                                                             *)
(***************************************************************************)
\* The filter has a layout of the core and no bit beyond its pages, in whatever
\* integers its port computed them, and the file none beyond its bytes, also while
\* they are one buffer read in two ways.
SlotsInside ==
    /\ ValidLayout(filter.way, filter.level, filter.num)
    /\ filter.bits \subseteq 0..(filter.num * PageBits(filter.level) - 1)
    /\ file.bits \subseteq 0..(8 * file.size - 1)

\* Whatever the filter went through, every port gives the same answer for every
\* key as the core would (README.md, "Standard-hash implementations share the
\* same bitmap layout").
AnswersAgree ==
    \A p \in Ports, k \in Keys : Finds(p, k, filter) <=> Finds("core", k, filter)

\* A key set in one language is found in every other, in the filter that travels
\* and in the file it was last saved to - also when Java adopted the file's
\* array and went on setting, or cleared it.
Opened(f) == Filter(f.way, f.level, f.size \div PageSize(f.level), f.cnt, f.bits, f.keys)
KeysTravel ==
    \A p \in Ports :
        /\ \A k \in filter.keys : Finds(p, k, filter)
        /\ \A k \in file.keys : Finds(p, k, Opened(file))

\* A file is accepted by one port if and only if the core accepts it: by way, by
\* level, by whole pages and by the number of pages.
SameAcceptance ==
    \A p \in Ports, r \in Readings \cup {<<file.way, file.level>>} :
        AcceptsIn(p, r[1], r[2], file.size) <=> Accepts(r[1], r[2], file.size)

\* A program that hands a filter from language to language sees one filter: a file
\* restored as it was saved gives every answer it gave before, in any language, a set
\* or a clear in any does to the answers what it does in the core, and reaches the file
\* exactly when Java adopted it (README.md, "Standard-hash implementations share the
\* same bitmap layout").
Positives(p, f) == {k \in Keys : f.bits # {} /\ Finds(p, k, f)}

Travel == INSTANCE TravellingFilter WITH
              link          <- IF ~shared THEN "apart" ELSE IF SameReading THEN "one" ELSE "alias",
              keys          <- filter.keys,
              positives     <- Positives(home, filter),
              fileKeys      <- file.keys,
              filePositives <- Positives("core", Opened(file))

TravelsAsOne == Travel!TravelSpec

\* What the proofs need besides: types, of which SlotsInside says the rest, ...
Typed ==
    /\ home \in Ports /\ shared \in BOOLEAN
    /\ filter \in [way : 4..8, level : 6..13, num : Nat \ {0}, cnt : Nat, bits : SUBSET Nat,
                   keys : SUBSET Keys]
    /\ file \in [way : 4..8, level : 6..13, size : Nat, cnt : Nat, bits : SUBSET Nat,
                 keys : SUBSET Keys]

\* ... that a filter on the file's buffer is the whole of it, and vouches for what the
\* file does if it reads it as it was written, ...
SharedWhole ==
    shared => /\ filter.bits = file.bits
              /\ file.size = filter.num * PageSize(filter.level)
              /\ SameReading => filter.keys = file.keys

\* ... and that the keys vouched for have their bits as the core places them.
KeysPlaced ==
    /\ \A k \in filter.keys : CoreSlots(k, filter) \subseteq filter.bits
    /\ \A k \in file.keys : CoreSlots(k, Opened(file)) \subseteq file.bits

IInv == Typed /\ SlotsInside /\ SharedWhole /\ KeysPlaced
=============================================================================
