----------------------------- MODULE ProbeLanes -----------------------------
(***************************************************************************)
(* The two bodies of Test (src/pbf-internal.h): a loop over the halves of  *)
(* the hash, and, where the compiler targets AVX2 and there are more than  *)
(* four ways, one gather of eight 32-bit words.  A page that one build set *)
(* a key in is read by the other.                                          *)
(*                                                                         *)
(* A filter has the levels of its layout, 6 or 7 to 13.  The functions of C *)
(* and the raw calls of Python hand any level on (src/pbf-c.cc:27,         *)
(* src/python/bind.c:62); from 29 the shift by level + 3 is undefined.     *)
(***************************************************************************)
EXTENDS Layout

CONSTANTS
    Hashes,     \* vectors of eight halfwords, in memory order
    Levels      \* of pages of filters and of raw calls

\* Halves have sixteen bits.
HalfRange == 65536
Halfword == {x \in Nat : x < HalfRange}

ASSUME LanesAssumption ==
    /\ Hashes \subseteq [1..8 -> Halfword]
    /\ Levels \subseteq 0..28

VARIABLES
    way, level, hash,
    page,       \* the bits of the page that are on
    scalar,     \* what the loop and the gather last said of the page as it is:
    wide        \* "yes", "no", or "unasked"

lanesVars == <<way, level, hash, page, scalar, wide>>

Answers == {"unasked", "yes", "no"}
Answer(b) == IF b THEN "yes" ELSE "no"

-----------------------------------------------------------------------------
\* The loop: page[idx >> 3] & (1 << (idx & 7)) for each of the first N halves, under
\* a mask of sixteen bits, however large the page.
LoopBits(lvl) == IF PageBits(lvl) < HalfRange THEN PageBits(lvl) ELSE HalfRange
Index(t, i, lvl) == t[i] % LoopBits(lvl)
Bit(idx) == (8 * (idx \div 8)) + (idx % 8)
ScalarTest(n, t, lvl, bits) == \A i \in 1..n : Bit(Index(t, i, lvl)) \in bits

\* The gather: lanes 0..3 hold the words of the hash, lanes 4..7 the same words shifted
\* right by sixteen, all under a mask of thirty-two bits.
WordOf(t, j) == t[2 * j + 1] + (HalfRange * t[2 * j + 2])
Lane(t, lane, lvl) ==
    IF lane < 4 THEN WordOf(t, lane) % PageBits(lvl)
    ELSE (WordOf(t, lane - 4) \div HalfRange) % PageBits(lvl)

\* Lanes left out of the gather keep all ones.
HolesInOrder(n) == n..7
Holes(n) ==
    IF n = 7 THEN {7} ELSE IF n = 6 THEN {3, 7} ELSE IF n = 5 THEN {3, 6, 7} ELSE {}

\* The word idx >> 5 of the page, at four bytes each, and its bit idx & 31.
GatheredWordOff(idx) == idx \div 8
GatheredWord(idx) == idx \div 32
WideTest(n, t, lvl, bits) ==
    \A lane \in (0..7) \ Holes(n) :
        LET idx == Lane(t, lane, lvl)
        IN  (32 * GatheredWord(idx)) + (idx % 32) \in bits

\* Which of the two bodies a build with AVX2 runs.
Avx2Test(n, t, lvl, bits) ==
    IF n > 4 THEN WideTest(n, t, lvl, bits) ELSE ScalarTest(n, t, lvl, bits)

-----------------------------------------------------------------------------
\* A page that Set alone has written, in which other keys left any of the bits this
\* one probes.
LanesInit ==
    /\ way \in 4..8
    /\ level \in Levels
    /\ hash \in Hashes
    /\ page \in SUBSET {Index(hash, i, level) : i \in 1..8}
    /\ scalar = "unasked" /\ wide = "unasked"

Set ==
    /\ page' = page \cup {Bit(Index(hash, i, level)) : i \in 1..way}
    /\ scalar' = "unasked" /\ wide' = "unasked"
    /\ UNCHANGED <<way, level, hash>>

Test ==
    /\ scalar' = Answer(ScalarTest(way, hash, level, page))
    /\ UNCHANGED <<way, level, hash, page, wide>>

TestByAvx2 ==
    /\ wide' = Answer(Avx2Test(way, hash, level, page))
    /\ UNCHANGED <<way, level, hash, page, scalar>>

LanesNext == Set \/ Test \/ TestByAvx2

LanesSpec == LanesInit /\ [][LanesNext]_lanesVars

-----------------------------------------------------------------------------
(***************************************************************************)
(* Properties.                                                             *)
(***************************************************************************)
\* The variables have their types, and the page is no larger than its level.
LanesTypeOK ==
    /\ way \in 4..8 /\ level \in Levels
    /\ hash \in Hashes
    /\ page \subseteq 0..(PageBits(level) - 1)
    /\ scalar \in Answers /\ wide \in Answers

\* Asked of one page, the two bodies say the same at every level a filter can have
\* (pbf-internal.h:35-61).  Above those the mask of the gather keeps bits of the upper
\* half in the index of the lower (pbf-internal.h:45, 53): a build with AVX2 may then
\* miss a key that Set has added, but reports none that the loop does not.
BodiesAgree ==
    scalar # "unasked" /\ wide # "unasked" =>
        /\ level <= 13 => scalar = wide
        /\ wide = "yes" => scalar = "yes"

\* The gather loads whole words of four bytes, all inside the page, also the one that
\* holds its last bit (pbf-internal.h:47); but at levels 0 and 1, which only raw calls
\* have, a page is shorter than a word, and the word at its start is loaded.
GatherInPage ==
    \A lane \in 0..7 :
        LET word == GatheredWord(Lane(hash, lane, level))
        IN  IF level < 2 THEN word = 0 ELSE 4 * word + 4 <= PageSize(level)
=============================================================================
