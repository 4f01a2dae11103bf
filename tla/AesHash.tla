------------------------------- MODULE AesHash ------------------------------
(***************************************************************************)
(* How the AES-NI hash (src/aesni-hash.h) reads a key: sixty-four bytes at *)
(* a time while more than eighty are left, then sixteen, then a tail of    *)
(* fewer, zero filled to sixteen.  The tail is loaded whole and cut where  *)
(* the address of the key's last byte allows it, and put together from     *)
(* words and bytes elsewhere.  What is done to the blocks of sixteen is not *)
(* modelled, only which bytes of memory make them up and in which order.   *)
(***************************************************************************)
EXTENDS Integers, Sequences

CONSTANTS
    Lengths,    \* the lengths of keys
    Offsets     \* where in its memory page a key begins

kMemoryPage == 4096

ASSUME AesAssumption == Lengths \subseteq Nat /\ Offsets \subseteq 0..(kMemoryPage - 1)

VARIABLES
    size,       \* the length of the key
    start,      \* its address, modulo a memory page
    at,         \* the bytes consumed
    greed,
    mixed,      \* the blocks mixed in so far
    read,       \* the bytes read, numbered from the start of the key
    done

aesVars == <<size, start, at, greed, mixed, read, done>>

-----------------------------------------------------------------------------
\* A block is its sixteen bytes, each the number of a byte of memory or Blank for
\* a zero that was filled in.
Blank == 0 - 1
Loaded(from) == [i \in 0..15 |-> from + i]

\* Shifted left and right again by 16 - n bytes: the first n bytes stay.
GreedyReadOver(n, from) == [i \in 0..15 |-> IF i <= n THEN from + i ELSE Blank]
GreedyRead(n, from) == [i \in 0..15 |-> IF i < n THEN from + i ELSE Blank]

\* Eight and four bytes have loads of their own; the rest load sixteen.
GreedyReads(n, from) ==
    IF n \in {4, 8} THEN from..(from + n - 1) ELSE from..(from + 15)

\* The other tail: a word of eight or four bytes, and single bytes shifted into the
\* word above it, in their places.
WordAt(n) == IF n >= 12 THEN 12 ELSE IF n >= 8 THEN 8 ELSE IF n >= 4 THEN 4 ELSE 0
ExactBytes(n) == WordAt(n)..(n - 1)
ExactRead(n, from) ==
    [i \in 0..15 |-> IF i < WordAt(n) THEN from + i
                     ELSE IF i \in ExactBytes(n) THEN from + i ELSE Blank]
ExactReadsLong(n, from) == from..(from + (IF n > 8 THEN 15 ELSE 7))
ExactReads(n, from) == (from..(from + WordAt(n) - 1)) \cup {from + i : i \in ExactBytes(n)}

\* (msg + (len - 1)) & 0xfff >= 15, len - 1 wrapping for no key at all: that is a
\* whole number of memory pages.
Greed == (start + size - 1) % kMemoryPage >= 15

-----------------------------------------------------------------------------
AesInit ==
    /\ size \in Lengths
    /\ start \in Offsets
    /\ at = 0 /\ mixed = <<>> /\ read = {} /\ done = FALSE
    /\ greed = Greed

Left == size - at

BulkLeftLate == Left > 60
BulkLeft == Left > 80

\* The four states take a block each; the last of them is folded back into two when
\* no more than eighty bytes are left.
Bulk ==
    /\ ~done /\ BulkLeft
    /\ mixed' = mixed \o [i \in 1..4 |-> Loaded(at + 16 * (i - 1))]
    /\ read' = read \cup at..(at + 63)
    /\ at' = at + 64
    /\ UNCHANGED <<size, start, greed, done>>

Block ==
    /\ ~done /\ ~BulkLeft /\ Left >= 16
    /\ mixed' = Append(mixed, Loaded(at))
    /\ read' = read \cup at..(at + 15)
    /\ at' = at + 16
    /\ UNCHANGED <<size, start, greed, done>>

\* Nothing is read, and the states are stirred with constants instead.
EmptyTail ==
    /\ ~done /\ Left < 16 /\ Left = 0
    /\ done' = TRUE
    /\ UNCHANGED <<size, start, at, greed, mixed, read>>

GreedyTail ==
    /\ ~done /\ Left < 16 /\ Left > 0 /\ greed
    /\ mixed' = Append(mixed, GreedyRead(Left, at))
    /\ read' = read \cup GreedyReads(Left, at)
    /\ at' = size /\ done' = TRUE
    /\ UNCHANGED <<size, start, greed>>

ExactTail ==
    /\ ~done /\ Left < 16 /\ Left > 0 /\ ~greed
    /\ mixed' = Append(mixed, ExactRead(Left, at))
    /\ read' = read \cup ExactReads(Left, at)
    /\ at' = size /\ done' = TRUE
    /\ UNCHANGED <<size, start, greed>>

AesNext == Bulk \/ Block \/ EmptyTail \/ GreedyTail \/ ExactTail

AesSpec == AesInit /\ [][AesNext]_aesVars

-----------------------------------------------------------------------------
(***************************************************************************)
(* Properties.                                                             *)
(***************************************************************************)
\* What is consumed is part of the key, and a tail is shorter than a block.
AesTypeOK ==
    /\ size \in Lengths /\ start \in Offsets
    /\ at \in 0..size /\ greed \in BOOLEAN /\ done \in BOOLEAN
    /\ done => at = size
    /\ ~done => at % 16 = 0

\* Every byte of the key is mixed in once, in its place, whatever address the key
\* has: the same key has the same hash everywhere (a filter is saved and restored by
\* processes that hold their keys elsewhere).
PlacementIndependent ==
    done => mixed = [b \in 1..((size + 15) \div 16) |->
                       [i \in 0..15 |-> IF 16 * (b - 1) + i < size THEN 16 * (b - 1) + i
                                                                   ELSE Blank]]

\* Without greed only the key is read, and never more than one load beyond it.
ReadsNearKey ==
    /\ ~greed => read \subseteq 0..(size - 1)
    /\ read \subseteq 0..(size + 14)

\* What the comment says of the greedy load (aesni-hash.h:29, "do not cross page"):
\* it stays in the memory pages the key is in.
GreedyStaysInPage ==
    \A i \in read : (start + i) \div kMemoryPage <= (start + size - 1) \div kMemoryPage
=============================================================================
