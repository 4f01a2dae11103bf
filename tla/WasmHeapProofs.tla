---------------------------- MODULE WasmHeapProofs ----------------------------
(***************************************************************************)
(* Proofs about the heap of a WasmContext and its filters, for memories,   *)
(* pages, bitmaps and keys of every size and any number of filters.        *)
(***************************************************************************)
EXTENDS WasmHeap, WellFoundedInduction, TLAPS

Apart(a, b) == End(a) <= b.pointer \/ End(b) <= a.pointer
Covers(S, x) == \E b \in S : b.pointer <= x /\ x < End(b)

\* Blocks below top, none of which overlap.
Disjoint(S, top) ==
    /\ S \subseteq Block /\ top \in Nat
    /\ \A b \in S : b.length > 0 /\ End(b) <= top
    /\ \A a, b \in S : a # b => Apart(a, b)

(***************************************************************************)
(* What the heap is to the blocks that filters hold.                       *)
(***************************************************************************)
SoundHeap(held, unused, top) ==
    /\ Disjoint(held \cup unused, top)
    /\ held \cap unused = {}
    /\ \A b \in held \cup unused : b.pointer >= HeapStart
    /\ \A x \in HeapStart..(top - 1) : Covers(held \cup unused, x)
    /\ \A a, b \in unused : End(a) # b.pointer

-----------------------------------------------------------------------------
(***************************************************************************)
(* Least and greatest members.                                             *)
(***************************************************************************)
Less == {p \in Nat \X Nat : p[1] < p[2]}

LEMMA LessWellFounded == IsWellFoundedOn(Less, Nat)
<1>1. IsWellFoundedOn(OpToRel(<, Nat), Nat)
  BY NatLessThanWellFounded
<1>2. OpToRel(<, Nat) = Less
  BY DEF OpToRel, Less
<1> QED
  BY <1>1, <1>2

LEMMA Least ==
    ASSUME NEW S, S \subseteq Nat, S # {}
    PROVE  \E x \in S : \A y \in S : x <= y
<1>1. PICK x \in S : \A y \in S : <<y, x>> \notin Less
  BY LessWellFounded, WFMin, Zenon
<1>2. ASSUME NEW y \in S
      PROVE  x <= y
  <2>1. <<y, x>> \notin Less /\ x \in Nat /\ y \in Nat
    BY <1>1
  <2> QED
    BY <2>1 DEF Less
<1> QED
  BY <1>2

LEMMA LowestBlock ==
    ASSUME NEW S, S \subseteq Block, S # {}
    PROVE  \E b \in S : \A a \in S : b.pointer <= a.pointer
<1> DEFINE P == {b.pointer : b \in S}
<1>1. P \subseteq Nat /\ P # {}
  BY DEF Block
<1>2. PICK x \in P : \A y \in P : x <= y
  BY <1>1, Least
<1>3. PICK b \in S : x = b.pointer
  BY <1>2
<1> QED
  BY <1>2, <1>3

LEMMA HighestBlock ==
    ASSUME NEW S, S \subseteq Block, S # {}, NEW top \in Nat, \A b \in S : b.pointer <= top
    PROVE  \E b \in S : \A a \in S : a.pointer <= b.pointer
<1> DEFINE P == {top - b.pointer : b \in S}
<1>1. P \subseteq Nat /\ P # {}
  BY DEF Block
<1>2. PICK x \in P : \A y \in P : x <= y
  BY <1>1, Least
<1>3. PICK b \in S : x = top - b.pointer
  BY <1>2
<1>4. ASSUME NEW a \in S
      PROVE  a.pointer <= b.pointer
  <2>1. top - b.pointer <= top - a.pointer
    BY <1>2, <1>3
  <2> QED
    BY <2>1 DEF Block
<1> QED
  BY <1>4

\* Rounding up to a unit.
LEMMA Rounding ==
    ASSUME NEW n \in Nat, NEW unit \in Nat \ {0}
    PROVE  RoundUp(n, unit) \in Nat /\ RoundUp(n, unit) >= n /\ RoundUp(n, unit) < n + unit
<1> DEFINE m == n + unit - 1
           q == m \div unit
<1>1. m \in Nat
  OBVIOUS
<1>2. q \in Nat /\ m = q * unit + (m % unit) /\ m % unit \in 0..(unit - 1)
  <2> HIDE DEF m
  <2> QED
    BY <1>1
<1>3. q * unit \in Nat
  <2> HIDE DEF q
  <2> QED
    BY <1>2
<1>4. RoundUp(n, unit) = q * unit
  BY DEF RoundUp
<1> DEFINE r == m % unit
<1>5. m = RoundUp(n, unit) + r /\ r \in 0..(unit - 1) /\ RoundUp(n, unit) \in Nat
  BY <1>2, <1>3, <1>4
<1>6. m = n + unit - 1
  OBVIOUS
<1> HIDE DEF q, m, r
<1> QED
  BY <1>5, <1>6

LEMMA StartPositive == HeapStart \in Nat /\ HeapStart > 0 /\ HeapStart <= InitialMemory
<1>1. HeapStart = RoundUp(HeapBase, 8)
  BY DEF HeapStart
<1>2. HeapBase \in Nat /\ 8 \in Nat \ {0}
  BY MemoryAssumption
<1>3. /\ RoundUp(HeapBase, 8) \in Nat
      /\ RoundUp(HeapBase, 8) >= HeapBase /\ RoundUp(HeapBase, 8) < HeapBase + 8
  BY <1>2, Rounding
<1> QED
  BY <1>1, <1>3, MemoryAssumption

-----------------------------------------------------------------------------
(***************************************************************************)
(* Coalescing.                                                             *)
(***************************************************************************)
LastFrom(S, b) == {a \in S : a.pointer >= b.pointer /\ \A y \in S : y.pointer # End(a)}

\* A run ends with a block at or after its start that none follows, the first such.
LEMMA RunEnds ==
    ASSUME NEW S, NEW top, Disjoint(S, top), NEW b \in S
    PROVE  \E c \in LastFrom(S, b) : /\ RunEnd(S, b) = End(c)
                                     /\ \A a \in LastFrom(S, b) : End(c) <= End(a)
<1> DEFINE L == LastFrom(S, b)
           E == {End(a) : a \in L}
           up == {a \in S : a.pointer >= b.pointer}
<1>0. S \subseteq Block /\ top \in Nat
  BY DEF Disjoint
<1>1. L # {}
  <2>1. up \subseteq Block /\ up # {} /\ \A a \in up : a.pointer <= top
    BY <1>0 DEF Disjoint, End, Block
  <2>2. PICK a \in up : \A y \in up : y.pointer <= a.pointer
    BY <1>0, <2>1, HighestBlock
  <2>3. \A y \in S : y.pointer # End(a)
    BY <1>0, <2>2 DEF Disjoint, End, Block
  <2> QED
    BY <2>2, <2>3 DEF LastFrom
<1>2. E \subseteq Nat /\ E # {}
  BY <1>0, <1>1 DEF LastFrom, End, Block
<1>3. \E e \in E : \A y \in E : e <= y
  BY <1>2, Least
<1>4. RunEnd(S, b) = Min(E)
  BY DEF RunEnd, LastFrom
<1>5. Min(E) \in E /\ \A y \in E : Min(E) <= y
  <2> HIDE DEF E
  <2> QED
    BY <1>3 DEF Min
<1>6. PICK c \in L : Min(E) = End(c)
  BY <1>5
<1> QED
  BY <1>4, <1>5, <1>6

\* Every byte of a run is a block's.
LEMMA WithinRun ==
    ASSUME NEW S, NEW top, Disjoint(S, top), NEW b \in S,
           NEW x \in Nat, b.pointer <= x, x < RunEnd(S, b)
    PROVE  Covers(S, x)
<1>1. SUFFICES ASSUME ~Covers(S, x)
               PROVE  FALSE
  OBVIOUS
<1> DEFINE T == {a \in S : b.pointer <= a.pointer /\ a.pointer <= x}
<1>0. S \subseteq Block /\ top \in Nat
  BY DEF Disjoint
<1>2. T \subseteq Block /\ T # {} /\ \A a \in T : a.pointer <= x
  BY <1>0 DEF Block
<1>3. PICK a \in T : \A y \in T : y.pointer <= a.pointer
  BY <1>2, HighestBlock
<1>4. End(a) <= x
  BY <1>0, <1>1, <1>3 DEF Covers, End, Block
<1>5. a \in LastFrom(S, b)
  <2>1. ASSUME NEW y \in S, y.pointer = End(a)
        PROVE  FALSE
    BY <1>0, <1>3, <1>4, <2>1 DEF Disjoint, End, Block
  <2> QED
    BY <1>0, <1>3, <2>1 DEF LastFrom, Block
<1>6. RunEnd(S, b) <= End(a)
  BY <1>5, RunEnds
<1>7. RunEnd(S, b) \in Nat
  BY <1>0, RunEnds DEF LastFrom, End, Block
<1> QED
  BY <1>0, <1>3, <1>4, <1>6, <1>7 DEF End, Block

\* Every byte of a block is in the run of some start.
LEMMA InSomeRun ==
    ASSUME NEW S, NEW top, Disjoint(S, top), NEW x \in Nat, Covers(S, x)
    PROVE  \E b \in Starts(S) : b.pointer <= x /\ x < RunEnd(S, b)
<1>0. S \subseteq Block /\ top \in Nat
  BY DEF Disjoint
<1>1. PICK a \in S : a.pointer <= x /\ x < End(a)
  BY DEF Covers
<1> DEFINE T == {b \in Starts(S) : b.pointer <= a.pointer}
<1>2. T # {}
  <2>1. PICK m \in S : \A y \in S : m.pointer <= y.pointer
    BY <1>0, <1>1, LowestBlock
  <2>2. \A y \in S : End(y) # m.pointer
    BY <1>0, <2>1 DEF Disjoint, End, Block
  <2> QED
    BY <1>1, <2>1, <2>2 DEF Starts
<1>3. PICK b \in T : \A y \in T : y.pointer <= b.pointer
  <2>1. T \subseteq Block /\ a.pointer \in Nat
    BY <1>0, <1>1 DEF Starts, Block
  <2> QED
    BY <1>2, <2>1, HighestBlock
<1>4. b \in S /\ b \in Starts(S) /\ b.pointer <= a.pointer
  BY <1>3 DEF Starts
<1>5. PICK c \in LastFrom(S, b) : RunEnd(S, b) = End(c)
  BY <1>4, RunEnds
<1>6. c \in S /\ c.pointer >= b.pointer /\ \A y \in S : y.pointer # End(c)
  BY <1>5 DEF LastFrom
<1>7. ASSUME End(c) <= x
      PROVE  FALSE
  <2>1. End(c) <= a.pointer
    BY <1>0, <1>1, <1>6, <1>7 DEF Disjoint, Apart, End, Block
  <2> DEFINE D == {y \in S : y.pointer >= End(c)}
  <2>2. PICK d \in D : \A y \in D : d.pointer <= y.pointer
    <3>1. D \subseteq Block /\ D # {}
      BY <1>0, <1>1, <2>1
    <3> QED
      BY <3>1, LowestBlock
  <2>3. \A y \in S : End(y) # d.pointer
    <3>1. ASSUME NEW y \in S, End(y) = d.pointer
          PROVE  FALSE
      <4>1. y.pointer < End(c)
        BY <1>0, <1>6, <2>2, <3>1 DEF Disjoint, End, Block
      <4>2. y # c
        BY <1>6, <2>2, <3>1
      <4>3. Apart(y, c)
        BY <1>6, <4>2 DEF Disjoint
      <4> QED
        BY <1>0, <1>6, <2>2, <3>1, <4>1, <4>3 DEF Disjoint, Apart, End, Block
    <3> QED
      BY <3>1
  <2>4. d \in T
    BY <1>1, <2>1, <2>2, <2>3 DEF Starts
  <2>5. d.pointer > b.pointer
    BY <1>0, <1>4, <1>6, <2>2 DEF Disjoint, End, Block
  <2> QED
    BY <1>0, <1>3, <1>4, <2>2, <2>4, <2>5 DEF Block
<1> QED
  BY <1>0, <1>1, <1>4, <1>5, <1>6, <1>7 DEF End, Block

\* Runs do not even touch.
LEMMA RunsApart ==
    ASSUME NEW S, NEW top, Disjoint(S, top), NEW b \in Starts(S), NEW d \in Starts(S),
           b.pointer < d.pointer
    PROVE  RunEnd(S, b) < d.pointer
<1>0. S \subseteq Block /\ b \in S /\ d \in S
  BY DEF Disjoint, Starts
<1>1. RunEnd(S, b) \in Nat
  BY <1>0, RunEnds DEF LastFrom, End, Block
<1>2. SUFFICES ASSUME d.pointer <= RunEnd(S, b)
               PROVE  FALSE
  BY <1>0, <1>1 DEF Block
<1> DEFINE x == d.pointer - 1
<1>3. x \in Nat /\ b.pointer <= x /\ x < RunEnd(S, b)
  BY <1>0, <1>1, <1>2 DEF Block
<1>4. Covers(S, x)
  BY <1>0, <1>3, WithinRun
<1>5. PICK a \in S : a.pointer <= x /\ x < End(a)
  BY <1>4 DEF Covers
<1>6. End(a) = d.pointer
  BY <1>0, <1>3, <1>5 DEF Disjoint, Apart, End, Block
<1> QED
  BY <1>5, <1>6 DEF Starts

LEMMA CoalescingIsSound ==
    ASSUME NEW S, NEW top, Disjoint(S, top)
    PROVE  /\ Disjoint(Coalesce(S), top)
           /\ \A x \in Nat : Covers(Coalesce(S), x) <=> Covers(S, x)
           /\ \A a, b \in Coalesce(S) : End(a) # b.pointer
           /\ \A c \in Coalesce(S) : \E b \in S : c.pointer = b.pointer
<1> DEFINE run(b) == [pointer |-> b.pointer, length |-> RunEnd(S, b) - b.pointer]
           C == Coalesce(S)
<1>0. S \subseteq Block /\ top \in Nat /\ Starts(S) \subseteq S
  BY DEF Disjoint, Starts
<1>1. ASSUME NEW b \in S
      PROVE  RunEnd(S, b) \in Nat /\ b.pointer < RunEnd(S, b) /\ RunEnd(S, b) <= top
  <2>1. PICK c \in LastFrom(S, b) : RunEnd(S, b) = End(c)
    BY RunEnds
  <2>2. c \in S /\ c.pointer >= b.pointer
    BY <2>1 DEF LastFrom
  <2> QED
    BY <1>0, <2>1, <2>2 DEF Disjoint, End, Block
<1>2. ASSUME NEW b \in Starts(S)
      PROVE  /\ run(b) \in C /\ run(b) \in Block /\ run(b).length > 0
             /\ run(b).pointer = b.pointer /\ End(run(b)) = RunEnd(S, b)
  BY <1>0, <1>1 DEF Coalesce, End, Block
<1>3. ASSUME NEW c \in C
      PROVE  \E b \in Starts(S) : c = run(b)
  BY DEF Coalesce
<1>4. ASSUME NEW b \in Starts(S), NEW d \in Starts(S)
      PROVE  b = d \/ RunEnd(S, b) < d.pointer \/ RunEnd(S, d) < b.pointer
  <2>1. b = d \/ b.pointer < d.pointer \/ d.pointer < b.pointer
    BY <1>0 DEF Disjoint, Apart, End, Block
  <2> QED
    BY <2>1, RunsApart
<1> HIDE DEF C, run
<1>5. \A c \in C : c \in Block /\ c.length > 0 /\ End(c) <= top
  BY <1>0, <1>1, <1>2, <1>3
<1>6. ASSUME NEW a \in C, NEW c \in C
      PROVE  a = c \/ End(a) < c.pointer \/ End(c) < a.pointer
  BY <1>2, <1>3, <1>4
<1>7. Disjoint(C, top)
  <2>1. ASSUME NEW a \in C, NEW c \in C, a # c
        PROVE  Apart(a, c)
    BY <1>5, <1>6, <2>1 DEF Apart, End, Block
  <2> QED
    BY <1>0, <1>5, <2>1 DEF Disjoint
<1>8. ASSUME NEW x \in Nat
      PROVE  Covers(C, x) <=> Covers(S, x)
  <2>1. ASSUME Covers(C, x)
        PROVE  Covers(S, x)
    <3>1. PICK c \in C : c.pointer <= x /\ x < End(c)
      BY <2>1 DEF Covers
    <3>2. PICK b \in Starts(S) : c = run(b)
      BY <1>3
    <3> QED
      BY <1>0, <1>2, <3>1, <3>2, WithinRun
  <2>2. ASSUME Covers(S, x)
        PROVE  Covers(C, x)
    <3>1. PICK b \in Starts(S) : b.pointer <= x /\ x < RunEnd(S, b)
      BY <2>2, InSomeRun
    <3> QED
      BY <1>2, <3>1 DEF Covers
  <2> QED
    BY <2>1, <2>2
<1>9. ASSUME NEW a \in C, NEW c \in C
      PROVE  End(a) # c.pointer
  BY <1>5, <1>6 DEF End, Block
<1>10. ASSUME NEW c \in C
       PROVE  \E b \in S : c.pointer = b.pointer
  BY <1>0, <1>2, <1>3
<1> QED
  BY <1>7, <1>8, <1>9, <1>10 DEF C

-----------------------------------------------------------------------------
(***************************************************************************)
(* The two changes of a heap: blocks are given back, or one is taken.      *)
(***************************************************************************)
LEMMA Touching ==
    ASSUME NEW a \in Block, NEW b \in Block, a.length > 0, b.length > 0, ~Apart(a, b)
    PROVE  \E x \in Nat : /\ a.pointer <= x /\ x < End(a)
                          /\ b.pointer <= x /\ x < End(b)
<1>1. CASE a.pointer <= b.pointer
  <2>1. b.pointer \in Nat /\ b.pointer < End(a) /\ b.pointer < End(b)
    BY DEF Apart, End, Block
  <2> QED
    BY <1>1, <2>1
<1>2. CASE b.pointer <= a.pointer
  <2>1. a.pointer \in Nat /\ a.pointer < End(a) /\ a.pointer < End(b) /\ a.pointer <= a.pointer
    BY DEF Apart, End, Block
  <2> QED
    BY <1>2, <2>1
<1> QED
  BY <1>1, <1>2 DEF Block

LEMMA ReleaseKeeps ==
    ASSUME NEW held, NEW unused, NEW top, SoundHeap(held, unused, top), NEW G \in SUBSET held
    PROVE  SoundHeap(held \ G, Coalesce(unused \cup G), top)
<1> DEFINE S == unused \cup G
           C == Coalesce(S)
           H == held \ G
<1>0. /\ held \cup unused \subseteq Block /\ top \in Nat
      /\ \A b \in held \cup unused : b.length > 0 /\ End(b) <= top
      /\ \A a, b \in held \cup unused : a # b => Apart(a, b)
  BY DEF SoundHeap, Disjoint
<1>1. Disjoint(S, top)
  BY <1>0 DEF Disjoint
<1>2. /\ Disjoint(C, top)
      /\ \A x \in Nat : Covers(C, x) <=> Covers(S, x)
      /\ \A a, b \in C : End(a) # b.pointer
      /\ \A c \in C : \E b \in S : c.pointer = b.pointer
  BY <1>1, CoalescingIsSound
<1>3. H \cap S = {} /\ H \cup S = held \cup unused
  BY DEF SoundHeap
<1> HIDE DEF C, S
<1>4. ASSUME NEW h \in H, NEW x \in Nat, Covers(C, x), h.pointer <= x, x < End(h)
      PROVE  FALSE
  <2>1. PICK s \in S : s.pointer <= x /\ x < End(s)
    BY <1>2, <1>4 DEF Covers
  <2>2. h \in held \cup unused /\ s \in held \cup unused /\ h # s
    BY <1>3
  <2> QED
    BY <1>0, <1>4, <2>1, <2>2 DEF Apart, End, Block
<1>5. ASSUME NEW h \in H, NEW c \in C
      PROVE  Apart(h, c) /\ h # c
  <2>1. h \in Block /\ c \in Block /\ h.length > 0 /\ c.length > 0
    BY <1>0, <1>2 DEF Disjoint
  <2>2. ASSUME ~Apart(h, c)
        PROVE  FALSE
    <3>1. PICK x \in Nat : /\ h.pointer <= x /\ x < End(h)
                           /\ c.pointer <= x /\ x < End(c)
      BY <2>1, <2>2, Touching
    <3>2. Covers(C, x)
      BY <3>1 DEF Covers
    <3> QED
      BY <1>4, <3>1, <3>2
  <2>3. ~Apart(c, c)
    BY <2>1 DEF Apart, End, Block
  <2> QED
    BY <2>2, <2>3
<1>6. Disjoint(H \cup C, top)
  <2>1. ASSUME NEW a \in H \cup C, NEW b \in H \cup C, a # b
        PROVE  Apart(a, b)
    <3>1. Apart(b, a) <=> Apart(a, b)
      BY DEF Apart
    <3>2. CASE a \in H /\ b \in H
      BY <1>0, <2>1, <3>2
    <3>3. CASE a \in C /\ b \in C
      BY <1>2, <2>1, <3>3 DEF Disjoint
    <3> QED
      BY <1>5, <3>1, <3>2, <3>3
  <2> QED
    BY <1>0, <1>2, <2>1 DEF Disjoint
<1>7. \A b \in H \cup C : b.pointer >= HeapStart
  <2>1. \A b \in H \cup S : b.pointer >= HeapStart
    BY <1>3 DEF SoundHeap
  <2> QED
    BY <1>2, <2>1
<1>8. ASSUME NEW x \in HeapStart..(top - 1)
      PROVE  Covers(H \cup C, x)
  <2>0. x \in Nat
    BY <1>0, StartPositive
  <2>1. Covers(H \cup S, x)
    BY <1>3 DEF SoundHeap
  <2>2. Covers(H, x) \/ Covers(S, x)
    BY <2>1 DEF Covers
  <2> QED
    BY <1>2, <2>0, <2>2 DEF Covers
<1>9. H \cap C = {} /\ \A a, b \in C : End(a) # b.pointer
  BY <1>2, <1>5
<1>10. SoundHeap(H, C, top)
  <2> HIDE DEF H
  <2> QED
    BY <1>6, <1>7, <1>8, <1>9 DEF SoundHeap
<1> QED
  BY <1>10 DEF C, S

LEMMA SoundFacts ==
    ASSUME NEW held, NEW unused, NEW top, SoundHeap(held, unused, top)
    PROVE  /\ held \subseteq Block /\ unused \subseteq Block /\ top \in Nat
           /\ \A b \in held \cup unused : /\ b.length > 0 /\ End(b) <= top
                                          /\ b.pointer >= HeapStart /\ b.pointer > 0
           /\ \A a, b \in held \cup unused : a # b => Apart(a, b)
           /\ held \cap unused = {}
           /\ \A x \in HeapStart..(top - 1) : Covers(held \cup unused, x)
           /\ \A a, b \in unused : End(a) # b.pointer
<1>1. held \cup unused \subseteq Block
  BY DEF SoundHeap, Disjoint
<1>2. \A b \in held \cup unused : b.pointer > 0
  BY <1>1, StartPositive DEF SoundHeap, Block
<1> QED
  BY <1>1, <1>2 DEF SoundHeap, Disjoint

\* A free block gives its front, or all of it.
FrontOf(b, length) == [pointer |-> b.pointer, length |-> length]
RestOf(b, length) == IF b.length = length THEN {} ELSE {Split(b, length)}

LEMMA ReuseKeeps ==
    ASSUME NEW held, NEW unused, NEW top, SoundHeap(held, unused, top),
           NEW b \in unused, NEW length \in Nat \ {0}, length <= b.length
    PROVE  /\ SoundHeap(held \cup {FrontOf(b, length)},
                        (unused \ {b}) \cup RestOf(b, length), top)
           /\ FrontOf(b, length) \notin held
<1> DEFINE block == FrontOf(b, length)
           rest == RestOf(b, length)
           others == held \cup (unused \ {b})
           parts == others \cup {block} \cup rest
<1>0. /\ held \subseteq Block /\ unused \subseteq Block /\ top \in Nat
      /\ \A x \in held \cup unused : /\ x.length > 0 /\ End(x) <= top
                                     /\ x.pointer >= HeapStart /\ x.pointer > 0
      /\ \A x, y \in held \cup unused : x # y => Apart(x, y)
      /\ held \cap unused = {}
      /\ \A x \in HeapStart..(top - 1) : Covers(held \cup unused, x)
      /\ \A x, y \in unused : End(x) # y.pointer
  BY SoundFacts
<1>1. b \in Block /\ b.pointer \in Nat /\ b.length \in Nat /\ End(b) = b.pointer + b.length
  BY <1>0 DEF Block, End
<1>2. /\ block \in Block /\ block.pointer = b.pointer /\ block.length = length
      /\ End(block) = b.pointer + length
  BY <1>1 DEF FrontOf, Block, End
<1>3. ASSUME NEW r \in rest
      PROVE  /\ r \in Block /\ r.pointer = b.pointer + length /\ r.length = b.length - length
             /\ End(r) = End(b) /\ length < b.length /\ r.length > 0
  <2>1. r = [pointer |-> b.pointer + length, length |-> b.length - length] /\ length # b.length
    BY <1>3 DEF RestOf, Split
  <2> QED
    BY <1>1, <2>1 DEF Block, End
<1> HIDE DEF block, rest
<1>4. ASSUME NEW o \in others
      PROVE  /\ o \in Block /\ o.pointer \in Nat /\ o.length \in Nat /\ o.length > 0
             /\ End(o) = o.pointer + o.length
             /\ End(o) <= b.pointer \/ End(b) <= o.pointer
  <2>1. o \in Block /\ o # b /\ o.length > 0
    BY <1>0
  <2>2. Apart(o, b)
    BY <1>0, <2>1
  <2> QED
    BY <1>1, <2>1, <2>2 DEF Apart, Block, End
<1>5. ASSUME NEW o \in others, NEW x \in {block} \cup rest
      PROVE  Apart(o, x) /\ Apart(x, o) /\ o # x
  BY <1>1, <1>2, <1>3, <1>4 DEF Apart
<1>6. ASSUME NEW r \in rest
      PROVE  Apart(block, r) /\ Apart(r, block) /\ block # r
  BY <1>1, <1>2, <1>3 DEF Apart
<1>7. rest = {} \/ \E r \in rest : rest = {r}
  BY DEF RestOf, rest
<1>8. Disjoint(parts, top)
  <2>1. ASSUME NEW x \in parts, NEW y \in parts, x # y
        PROVE  Apart(x, y)
    <3>1. CASE x \in others /\ y \in others
      BY <1>0, <2>1, <3>1
    <3>2. CASE x \notin others /\ y \notin others
      <4>1. x \in {block} \cup rest /\ y \in {block} \cup rest
        BY <3>2
      <4> QED
        BY <1>6, <1>7, <2>1, <4>1
    <3> QED
      BY <1>5, <3>1, <3>2
  <2>2. \A x \in parts : x \in Block /\ x.length > 0 /\ End(x) <= top
    BY <1>0, <1>1, <1>2, <1>3
  <2> QED
    BY <1>0, <2>1, <2>2 DEF Disjoint
<1>9. (held \cup {block}) \cap ((unused \ {b}) \cup rest) = {} /\ block \notin held
  BY <1>0, <1>5, <1>6
<1>10. \A x \in parts : x.pointer >= HeapStart
  <2>1. HeapStart \in Nat /\ b.pointer >= HeapStart
    BY <1>0, StartPositive
  <2> QED
    BY <1>0, <1>1, <1>2, <1>3, <2>1
<1>11. ASSUME NEW x \in HeapStart..(top - 1)
       PROVE  Covers(parts, x)
  <2>1. x \in Nat
    BY <1>0, StartPositive
  <2>2. PICK y \in held \cup unused : y.pointer <= x /\ x < End(y)
    BY <1>0 DEF Covers
  <2>3. CASE y # b
    BY <2>2, <2>3 DEF Covers
  <2>4. CASE y = b /\ x < End(block)
    BY <1>2, <2>2, <2>4 DEF Covers
  <2>5. CASE y = b /\ x >= End(block)
    <3>1. b.length # length
      BY <1>1, <1>2, <2>1, <2>2, <2>5
    <3>2. PICK r \in rest : TRUE
      BY <3>1 DEF RestOf, rest
    <3> QED
      BY <1>1, <1>2, <1>3, <2>2, <2>5, <3>2 DEF Covers
  <2> QED
    BY <1>1, <1>2, <2>1, <2>3, <2>4, <2>5
<1>12. ASSUME NEW x \in (unused \ {b}) \cup rest, NEW y \in (unused \ {b}) \cup rest
       PROVE  End(x) # y.pointer
  <2>1. CASE x \in unused /\ y \in unused
    BY <1>0, <2>1
  <2>2. CASE x \in rest /\ y \in unused \ {b}
    BY <1>0, <1>3, <2>2
  <2>3. CASE x \in unused \ {b} /\ y \in rest
    BY <1>1, <1>3, <1>4, <2>3
  <2>4. CASE x \in rest /\ y \in rest
    BY <1>1, <1>3, <1>7, <2>4
  <2> QED
    BY <2>1, <2>2, <2>3, <2>4
<1> HIDE DEF others
<1>13. parts = (held \cup {block}) \cup ((unused \ {b}) \cup rest)
  BY DEF others
<1> QED
  BY <1>8, <1>9, <1>10, <1>11, <1>12, <1>13 DEF SoundHeap, block, rest

\* A block above everything.
LEMMA BumpKeeps ==
    ASSUME NEW held, NEW unused, NEW top, SoundHeap(held, unused, top),
           top >= HeapStart, NEW length \in Nat \ {0},
           NEW block, block = [pointer |-> top, length |-> length]
    PROVE  SoundHeap(held \cup {block}, unused, top + length) /\ block \notin held
<1> DEFINE old == held \cup unused
           parts == old \cup {block}
<1>0. /\ held \subseteq Block /\ unused \subseteq Block /\ top \in Nat
      /\ \A x \in old : x.length > 0 /\ End(x) <= top /\ x.pointer >= HeapStart
      /\ \A x, y \in old : x # y => Apart(x, y)
      /\ held \cap unused = {}
      /\ \A x \in HeapStart..(top - 1) : Covers(old, x)
      /\ \A x, y \in unused : End(x) # y.pointer
  BY SoundFacts
<1>1. /\ block \in Block /\ block.pointer = top /\ block.length = length
      /\ End(block) = top + length
  BY <1>0 DEF Block, End
<1>2. ASSUME NEW o \in old
      PROVE  Apart(o, block) /\ Apart(block, o) /\ o # block /\ End(o) <= top + length
  <2>1. o \in Block /\ o.length > 0 /\ End(o) <= top
    BY <1>0
  <2>2. o.pointer \in Nat /\ o.length \in Nat /\ End(o) = o.pointer + o.length
    BY <2>1 DEF Block, End
  <2> QED
    BY <1>0, <1>1, <2>1, <2>2 DEF Apart
<1>3. Disjoint(parts, top + length)
  <2>1. ASSUME NEW x \in parts, NEW y \in parts, x # y
        PROVE  Apart(x, y)
    BY <1>0, <1>2, <2>1
  <2>2. \A x \in parts : x \in Block /\ x.length > 0 /\ End(x) <= top + length
    BY <1>0, <1>1, <1>2
  <2> QED
    BY <1>0, <2>1, <2>2 DEF Disjoint
<1>4. ASSUME NEW x \in HeapStart..(top + length - 1)
      PROVE  Covers(parts, x)
  <2>1. CASE x < top
    BY <1>0, <2>1, StartPositive DEF Covers
  <2>2. CASE x >= top
    BY <1>0, <1>1, <2>2, StartPositive DEF Covers
  <2> QED
    BY <1>0, <2>1, <2>2, StartPositive
<1>5. /\ (held \cup {block}) \cap unused = {} /\ block \notin held
      /\ \A x \in parts : x.pointer >= HeapStart
  BY <1>0, <1>1, <1>2
<1>6. parts = (held \cup {block}) \cup unused
  OBVIOUS
<1> HIDE DEF old
<1> QED
  BY <1>0, <1>3, <1>4, <1>5, <1>6 DEF SoundHeap

LEMMA Lengths ==
    ASSUME NEW n \in Nat
    PROVE  AllocationLength(n) \in Nat \ {0} /\ AllocationLength(n) >= n
<1> DEFINE m == Max({n, 1})
<1>1. \E x \in {n, 1} : \A y \in {n, 1} : x >= y
  OBVIOUS
<1>2. m \in {n, 1} /\ \A y \in {n, 1} : m >= y
  BY <1>1 DEF Max
<1> HIDE DEF m
<1>3. m \in Nat /\ m >= n /\ m >= 1
  BY <1>2
<1>4. RoundUp(m, 8) \in Nat /\ RoundUp(m, 8) >= m
  BY <1>3, Rounding
<1>5. AllocationLength(n) = RoundUp(m, 8)
  BY DEF AllocationLength, m
<1> QED
  BY <1>3, <1>4, <1>5

\* An allocation that succeeds takes a block no filter holds, long enough for what was
\* asked, and leaves the rest of the heap a heap.
LEMMA AllocationKeeps ==
    ASSUME NEW held, SoundHeap(held, free, heapTop), heapTop >= HeapStart,
           memory \in Nat, heapTop <= memory,
           NEW n \in Nat, NEW a \in Allocations(n), a.ok
    PROVE  /\ a.block \in Block /\ a.block.length >= n /\ a.block.pointer > 0
           /\ a.block \notin held
           /\ SoundHeap(held \cup {a.block}, a.free, a.top)
           /\ a.top >= HeapStart /\ a.memory \in Nat /\ a.top <= a.memory
<1> DEFINE length == AllocationLength(n)
           fits == {b \in free : b.length >= length}
           next == heapTop + length
<1>0. free \subseteq Block /\ heapTop \in Nat
  BY SoundFacts
<1>1. length \in Nat \ {0} /\ length >= n
  BY Lengths
<1>2. \/ fits # {} /\ a = Reused(FirstOf(fits), length)
      \/ next <= memory /\ a = Bumped(length, memory)
      \/ ~(next <= memory) /\ a = Bumped(length, GrownTo(next))
  <2>1. ~Failed.ok
    BY DEF Failed
  <2> HIDE DEF fits, length, next
  <2>2. \/ fits # {} /\ a \in {Reused(FirstOf(fits), length)}
        \/ next <= memory /\ a \in {Bumped(length, memory)}
        \/ ~(next <= memory) /\ a \in {Failed} \cup {Bumped(length, GrownTo(next))}
    BY DEF Allocations, fits, length, next
  <2> QED
    BY <2>1, <2>2
<1> HIDE DEF length
<1>3. CASE fits # {} /\ a = Reused(FirstOf(fits), length)
  <2> DEFINE b == FirstOf(fits)
  <2>1. b \in fits
    <3>1. \E x \in fits : \A y \in fits : x.pointer <= y.pointer
      BY <1>0, <1>3, LowestBlock
    <3> QED
      BY <3>1 DEF FirstOf
  <2> HIDE DEF b
  <2>2. b \in free /\ b.length >= length /\ b \in Block /\ b.pointer > 0
    BY <1>0, <2>1, SoundFacts
  <2>3. /\ a.block = FrontOf(b, length)
        /\ a.free = (free \ {b}) \cup RestOf(b, length)
        /\ a.top = heapTop /\ a.memory = memory
    BY <1>3 DEF Reused, FrontOf, RestOf, b
  <2>4. a.block \in Block /\ a.block.length = length /\ a.block.pointer > 0
    BY <1>1, <2>2, <2>3 DEF FrontOf, Block
  <2>5. length <= b.length
    BY <1>1, <2>2 DEF Block
  <2>6. SoundHeap(held \cup {a.block}, a.free, a.top) /\ a.block \notin held
    BY <1>1, <2>2, <2>3, <2>5, ReuseKeeps
  <2> QED
    BY <1>1, <2>3, <2>4, <2>6
<1>4. ASSUME NEW size \in Nat, next <= size, a = Bumped(length, size)
      PROVE  /\ a.block \in Block /\ a.block.length >= n /\ a.block.pointer > 0
             /\ a.block \notin held
             /\ SoundHeap(held \cup {a.block}, a.free, a.top)
             /\ a.top >= HeapStart /\ a.memory \in Nat /\ a.top <= a.memory
  <2>1. /\ a.block = [pointer |-> heapTop, length |-> length]
        /\ a.free = free /\ a.top = next /\ a.memory = size
    BY <1>4 DEF Bumped
  <2>2. SoundHeap(held \cup {a.block}, a.free, a.top) /\ a.block \notin held
    BY <1>0, <1>1, <2>1, BumpKeeps
  <2>3. a.top >= HeapStart
    BY <1>0, <1>1, <2>1, StartPositive
  <2>4. a.block \in Block /\ a.block.length = length /\ a.block.pointer > 0
    BY <1>0, <1>1, <2>1, StartPositive DEF Block
  <2> QED
    BY <1>1, <1>4, <2>1, <2>2, <2>3, <2>4
<1>5. CASE ~(next <= memory) /\ a = Bumped(length, GrownTo(next))
  <2> DEFINE more == next - memory
  <2>1. next \in Nat /\ more \in Nat
    BY <1>0, <1>1, <1>5
  <2>2. RoundUp(more, WasmPage) \in Nat /\ RoundUp(more, WasmPage) >= more
    BY <2>1, Rounding, MemoryAssumption
  <2>3. GrownTo(next) = memory + RoundUp(more, WasmPage)
    BY DEF GrownTo
  <2>4. GrownTo(next) \in Nat /\ next <= GrownTo(next)
    BY <2>1, <2>2, <2>3
  <2> QED
    BY <1>4, <1>5, <2>4
<1> QED
  BY <1>2, <1>3, <1>4, <1>5

-----------------------------------------------------------------------------
(***************************************************************************)
(* The inductive invariant.  To the properties it adds types, that a view  *)
(* of the current buffer is one of the scratch in use, and that no module  *)
(* was loaded before the promise was made.                                 *)
(***************************************************************************)
FilterType == [state : {"none", "waiting", "active", "disposed", "forgotten"},
               bitmap : Block, group : SUBSET Block, scratch : Block, view : Block,
               attached : BOOLEAN]

Kept(x) ==
    /\ x.state = "active" =>
           /\ x.group = {x.bitmap} \cup ({x.scratch} \ {Nowhere})
           /\ x.scratch # x.bitmap
           /\ x.attached => x.view = x.scratch
    /\ x.state \in {"none", "waiting", "disposed"} => x.group = {}

FilterInv ==
    /\ filter \in [Filters -> FilterType]
    /\ \A f \in Filters : Kept(filter[f])
    /\ \A f, g \in Filters : f # g => filter[f].group \cap filter[g].group = {}

HeapInv ==
    /\ SoundHeap(Held, free, heapTop)
    /\ heapTop >= HeapStart /\ memory \in Nat /\ heapTop <= memory

LoadInv == loads \in Nat /\ loads <= 1 /\ (context = "none" => loads = 0)

IInv == FilterInv /\ HeapInv /\ outcome # "key lost" /\ LoadInv

\* The blocks that other filters hold.
Others(f) == UNION {filter[g].group : g \in Filters \ {f}}

LEMMA HeldParts ==
    ASSUME FilterInv, NEW f \in Filters
    PROVE  /\ Held = Others(f) \cup filter[f].group
           /\ Others(f) \cap filter[f].group = {}
BY DEF FilterInv, Held, Others

\* A step that changes the blocks of one filter.
LEMMA OneFilter ==
    ASSUME FilterInv, NEW f \in Filters,
           filter' \in [Filters -> FilterType],
           \A g \in Filters : Kept(filter'[g]),
           \A g \in Filters \ {f} : filter'[g].group = filter[g].group,
           Others(f) \cap filter'[f].group = {}
    PROVE  FilterInv' /\ Held' = Others(f) \cup filter'[f].group
<1>1. Held' = Others(f) \cup filter'[f].group
  BY DEF Held, Others
<1>2. ASSUME NEW g \in Filters, NEW h \in Filters, g # h
      PROVE  filter'[g].group \cap filter'[h].group = {}
  <2>1. CASE g # f /\ h # f
    BY <1>2, <2>1 DEF FilterInv
  <2>2. CASE g = f
    BY <1>2, <2>2 DEF Others
  <2>3. CASE h = f
    BY <1>2, <2>3 DEF Others
  <2> QED
    BY <2>1, <2>2, <2>3
<1> QED
  BY <1>1, <1>2 DEF FilterInv, Kept

\* A growth detaches views and changes nothing else.
LEMMA Detaching ==
    ASSUME FilterInv, NEW size
    PROVE  /\ DetachIfGrown(size) \in [Filters -> FilterType]
           /\ \A f \in Filters :
                 LET x == filter[f]
                     y == DetachIfGrown(size)[f]
                 IN  /\ y.state = x.state /\ y.bitmap = x.bitmap /\ y.group = x.group
                     /\ y.scratch = x.scratch /\ y.view = x.view
                     /\ y.attached => x.attached
                     /\ Kept(y)
<1>1. CASE size = memory
  BY <1>1 DEF DetachIfGrown, FilterInv
<1>2. CASE size # memory
  <2> DEFINE D == [f \in Filters |-> [filter[f] EXCEPT !.attached = FALSE]]
  <2>1. DetachIfGrown(size) = D
    BY <1>2 DEF DetachIfGrown
  <2>2. ASSUME NEW f \in Filters
        PROVE  /\ D[f] \in FilterType
               /\ D[f].state = filter[f].state /\ D[f].bitmap = filter[f].bitmap
               /\ D[f].group = filter[f].group /\ D[f].scratch = filter[f].scratch
               /\ D[f].view = filter[f].view /\ D[f].attached = FALSE
    <3>1. filter[f] \in FilterType
      BY DEF FilterInv
    <3> QED
      BY <3>1 DEF FilterType
  <2>3. ASSUME NEW f \in Filters
        PROVE  Kept(D[f])
    <3>1. Kept(filter[f])
      BY DEF FilterInv
    <3> HIDE DEF D
    <3> QED
      BY <2>2, <3>1 DEF Kept
  <2>4. D \in [Filters -> FilterType]
    BY <2>2
  <2> HIDE DEF D
  <2> QED
    BY <2>1, <2>2, <2>3, <2>4
<1> QED
  BY <1>1, <1>2

LEMMA HeapStays ==
    ASSUME HeapInv, Held' = Held, UNCHANGED <<memory, heapTop, free>>
    PROVE  HeapInv'
BY DEF HeapInv, HeapStart

LEMMA NoneTyped == None \in FilterType /\ Kept(None)
<1>1. Nowhere \in Block
  BY DEF Nowhere, Block
<1> QED
  BY <1>1 DEF None, FilterType, Kept

\* One filter is replaced by another with the same blocks.
LEMMA SameBlocks ==
    ASSUME FilterInv, HeapInv, NEW f \in Filters, NEW x \in FilterType, Kept(x),
           x.group = filter[f].group, filter' = [filter EXCEPT ![f] = x],
           UNCHANGED <<memory, heapTop, free>>
    PROVE  FilterInv' /\ HeapInv'
<1>1. filter \in [Filters -> FilterType] /\ \A g \in Filters : Kept(filter[g])
  BY DEF FilterInv
<1>2. filter' \in [Filters -> FilterType] /\ \A g \in Filters : Kept(filter'[g])
  BY <1>1
<1>3. filter'[f].group = filter[f].group
  BY <1>1
<1>4. \A g \in Filters \ {f} : filter'[g].group = filter[g].group
  BY <1>1
<1>5. Held = Others(f) \cup filter[f].group /\ Others(f) \cap filter[f].group = {}
  BY HeldParts
<1>6. FilterInv' /\ Held' = Others(f) \cup filter'[f].group
  BY <1>2, <1>3, <1>4, <1>5, OneFilter
<1>7. Held' = Held
  BY <1>3, <1>5, <1>6
<1> QED
  BY <1>6, <1>7, HeapStays

-----------------------------------------------------------------------------
(***************************************************************************)
(* The steps.                                                              *)
(***************************************************************************)
LEMMA InitHolds == Init => IInv
<1> SUFFICES ASSUME Init
             PROVE  IInv
  OBVIOUS
<1>1. filter = [f \in Filters |-> None]
  BY DEF Init
<1>2. FilterInv
  <2>1. None.group = {}
    BY DEF None
  <2> QED
    BY <1>1, <2>1, NoneTyped DEF FilterInv
<1>3. Held = {}
  BY <1>1 DEF Held, None
<1>4. SoundHeap({}, {}, HeapStart)
  <2>1. HeapStart \in Nat /\ HeapStart..(HeapStart - 1) = {}
    BY StartPositive
  <2> QED
    BY <2>1 DEF SoundHeap, Disjoint
<1>5. HeapInv
  BY <1>3, <1>4, StartPositive, MemoryAssumption DEF HeapInv, Init
<1> QED
  BY <1>2, <1>5 DEF IInv, Init, LoadInv

LEMMA LoadKeeps == IInv /\ Load => IInv'
<1> SUFFICES ASSUME IInv, Load
             PROVE  IInv'
  OBVIOUS
<1>1. UNCHANGED <<memory, heapTop, free, filter, outcome, loads>> /\ context # "none"
      /\ context' # "none"
  BY DEF Load, heapVars
<1>2. Held' = Held
  BY <1>1 DEF Held
<1>3. HeapInv'
  BY <1>1, <1>2, HeapStays DEF IInv
<1>4. FilterInv'
  BY <1>1 DEF IInv, FilterInv
<1> QED
  BY <1>1, <1>3, <1>4 DEF IInv, LoadInv

LEMMA RequestKeeps ==
    ASSUME IInv, NEW f \in Filters, NEW size \in BitmapSizes, Request(f, size)
    PROVE  IInv'
<1> DEFINE x == [filter[f] EXCEPT !.state = "waiting", !.bitmap.length = size]
<1>1. filter[f] \in FilterType /\ filter[f].state = "none" /\ filter[f].group = {}
  BY DEF IInv, FilterInv, Kept, Request
<1>2. filter' = [filter EXCEPT ![f] = x] /\ UNCHANGED <<memory, heapTop, free>>
      /\ outcome' = "done"
  BY DEF Request, IInv, FilterInv
<1>3. x \in FilterType /\ x.state = "waiting" /\ x.group = {}
  <2>1. size \in Nat
    BY MemoryAssumption
  <2>2. [filter[f].bitmap EXCEPT !.length = size] \in Block
    BY <1>1, <2>1 DEF FilterType, Block
  <2> QED
    BY <1>1, <2>2 DEF FilterType
<1>4. Kept(x)
  <2> HIDE DEF x
  <2> QED
    BY <1>3 DEF Kept
<1> HIDE DEF x
<1>5. FilterInv' /\ HeapInv'
  BY <1>1, <1>2, <1>3, <1>4, SameBlocks DEF IInv
<1>6. LoadInv'
  <2>1. loads \in Nat /\ loads <= 1 /\ (context = "none" => loads = 0)
    BY DEF IInv, LoadInv
  <2>2. \/ context = "none" /\ context' = "pending" /\ loads' = loads + 1
        \/ context # "none" /\ context' = context /\ loads' = loads
    BY DEF Request, MustLoad, loadVars
  <2> QED
    BY <2>1, <2>2 DEF LoadInv
<1> QED
  BY <1>2, <1>5, <1>6 DEF IInv

\* A filter that holds nothing goes.
LEMMA DropKeeps ==
    ASSUME IInv, NEW f \in Filters, filter[f].state = "waiting", filter' = Dropped(f),
           UNCHANGED <<memory, heapTop, free, context, loads>>, outcome' # "key lost"
    PROVE  IInv'
<1>1. filter[f].group = {}
  BY DEF IInv, FilterInv, Kept
<1>2. filter' = [filter EXCEPT ![f] = None] /\ None.group = {}
  BY DEF Dropped, None
<1>3. FilterInv' /\ HeapInv'
  BY <1>1, <1>2, SameBlocks, NoneTyped DEF IInv
<1> QED
  BY <1>3 DEF IInv, LoadInv

LEMMA RejectKeeps ==
    ASSUME IInv, NEW f \in Filters, Reject(f)
    PROVE  IInv'
BY DropKeeps DEF Reject, loadVars

LEMMA CreateKeeps ==
    ASSUME IInv, NEW f \in Filters, Create(f)
    PROVE  IInv'
<1> DEFINE n == filter[f].bitmap.length
<1>0. FilterInv /\ HeapInv
  BY DEF IInv
<1>1. filter[f] \in FilterType /\ n \in Nat /\ filter[f].state = "waiting" /\ filter[f].group = {}
  BY <1>0 DEF FilterInv, FilterType, Block, Kept, Create
<1>2. PICK a \in Allocations(n) :
         IF ~a.ok
            THEN /\ filter' = Dropped(f)
                 /\ outcome' = "out of memory"
                 /\ UNCHANGED <<memory, heapTop, free>>
            ELSE /\ Take(a)
                 /\ free' = a.free
                 /\ filter' = [DetachIfGrown(a.memory) EXCEPT ![f] =
                                  [None EXCEPT !.state = "active", !.bitmap = a.block,
                                               !.group = {a.block}]]
                 /\ outcome' = "done"
  BY DEF Create
<1>3. UNCHANGED <<context, loads>>
  BY DEF Create, loadVars
<1>4. CASE ~a.ok
  BY <1>1, <1>2, <1>3, <1>4, DropKeeps
<1>5. CASE a.ok
  <2> DEFINE D == DetachIfGrown(a.memory)
             x == [None EXCEPT !.state = "active", !.bitmap = a.block, !.group = {a.block}]
  <2>1. /\ a.block \in Block /\ a.block.pointer > 0 /\ a.block \notin Held
        /\ SoundHeap(Held \cup {a.block}, a.free, a.top)
        /\ a.top >= HeapStart /\ a.memory \in Nat /\ a.top <= a.memory
    BY <1>0, <1>1, <1>5, AllocationKeeps DEF HeapInv
  <2>2. /\ memory' = a.memory /\ heapTop' = a.top /\ free' = a.free
        /\ filter' = [D EXCEPT ![f] = x] /\ outcome' = "done"
    BY <1>2, <1>5 DEF Take
  <2>3. x \in FilterType /\ x.group = {a.block} /\ Kept(x)
    <3>1. /\ x.state = "active" /\ x.bitmap = a.block /\ x.group = {a.block}
          /\ x.scratch = Nowhere /\ x.attached = FALSE
      BY DEF None
    <3>2. a.block # Nowhere
      BY <2>1 DEF Nowhere
    <3>3. x \in FilterType
      BY <2>1, NoneTyped DEF FilterType, None
    <3> HIDE DEF x
    <3> QED
      BY <3>1, <3>2, <3>3 DEF Kept
  <2>4. D \in [Filters -> FilterType] /\ \A g \in Filters : D[g].group = filter[g].group /\ Kept(D[g])
    BY <1>0, Detaching
  <2> HIDE DEF D, x
  <2>5. Held = Others(f) \cup filter[f].group
    BY <1>0, HeldParts
  <2>6. filter' \in [Filters -> FilterType] /\ \A g \in Filters : Kept(filter'[g])
    BY <2>2, <2>3, <2>4
  <2>7. filter'[f] = x /\ \A g \in Filters \ {f} : filter'[g].group = filter[g].group
    BY <2>2, <2>4
  <2>8. FilterInv' /\ Held' = Others(f) \cup {a.block}
    BY <1>0, <2>1, <2>3, <2>5, <2>6, <2>7, OneFilter
  <2>9. HeapInv'
    BY <1>1, <2>1, <2>2, <2>5, <2>8 DEF HeapInv, HeapStart
  <2> QED
    BY <1>3, <2>2, <2>8, <2>9 DEF IInv, LoadInv
<1> QED
  BY <1>4, <1>5

LEMMA OutcomeDone ==
    ASSUME NEW x, NEW n, n = 0 \/ (x.attached /\ x.view = x.scratch /\ n <= x.view.length)
    PROVE  Outcome(x, n) = "done"
BY DEF Outcome

\* What a scratch is replaced by takes its place in the group, and nothing else's.
LEMMA ListedIs ==
    ASSUME FilterInv, HeapInv, NEW f \in Filters, filter[f].state = "active",
           NEW x, x.group = filter[f].group, x.bitmap = filter[f].bitmap,
           x.scratch = filter[f].scratch
    PROVE  /\ Listed(x) = {x.scratch} \ {Nowhere}
           /\ Unlist(x) = {x.bitmap}
           /\ Listed(x) \subseteq filter[f].group
<1>1. x.group = {x.bitmap} \cup ({x.scratch} \ {Nowhere}) /\ x.scratch # x.bitmap
  BY DEF FilterInv, Kept
<1>2. x.group \subseteq Held
  BY DEF Held
<1>3. \A b \in Held : b \in Block /\ b.pointer > 0 /\ b.length > 0
  BY SoundFacts DEF HeapInv
<1>4. \A a, b \in Held : a # b => Apart(a, b)
  BY SoundFacts DEF HeapInv
<1>5. x.bitmap \in Held /\ x.bitmap \in Block /\ x.bitmap.pointer > 0 /\ x.bitmap.length > 0
  BY <1>1, <1>2, <1>3
<1>6. CASE x.scratch = Nowhere
  <2>1. x.scratch.pointer = 0 /\ x.group = {x.bitmap}
    BY <1>1, <1>6 DEF Nowhere
  <2>2. x.bitmap.pointer # x.scratch.pointer
    BY <1>5, <2>1
  <2> QED
    BY <1>6, <2>1, <2>2 DEF Listed, Unlist
<1>7. CASE x.scratch # Nowhere
  <2>1. x.scratch \in x.group /\ x.group = {x.bitmap, x.scratch}
    BY <1>1, <1>7
  <2>2. x.scratch \in Held /\ x.scratch \in Block /\ x.scratch.length > 0
    BY <1>2, <1>3, <2>1
  <2>3. Apart(x.bitmap, x.scratch)
    BY <1>1, <1>4, <1>5, <2>2
  <2>4. x.bitmap.pointer # x.scratch.pointer
    BY <1>5, <2>2, <2>3 DEF Apart, End, Block
  <2> QED
    BY <1>1, <1>7, <2>1, <2>4 DEF Listed, Unlist
<1> QED
  BY <1>6, <1>7

\* A key that needs no new scratch, or only a new view of it.
LEMMA RefreshKeeps ==
    ASSUME IInv, NEW f \in Filters, filter[f].state = "active",
           filter' = [filter EXCEPT ![f] = Refreshed(@)],
           UNCHANGED <<memory, heapTop, free, context, loads>>, outcome' # "key lost"
    PROVE  IInv'
<1> DEFINE x == Refreshed(filter[f])
<1>1. filter[f] \in FilterType /\ Kept(filter[f])
  BY DEF IInv, FilterInv
<1>2. /\ x \in FilterType /\ x.state = "active" /\ x.group = filter[f].group
      /\ x.bitmap = filter[f].bitmap /\ x.scratch = filter[f].scratch /\ x.view = x.scratch
  BY <1>1 DEF Refreshed, FilterType
<1>3. filter' = [filter EXCEPT ![f] = x]
  OBVIOUS
<1> HIDE DEF x
<1>4. Kept(x)
  BY <1>1, <1>2 DEF Kept
<1>5. FilterInv' /\ HeapInv'
  BY <1>2, <1>3, <1>4, SameBlocks DEF IInv
<1> QED
  BY <1>5 DEF IInv, LoadInv

LEMMA StaysKeeps ==
    ASSUME IInv, UNCHANGED <<memory, heapTop, free, filter, context, loads>>,
           outcome' # "key lost"
    PROVE  IInv'
<1>1. Held' = Held
  BY DEF Held
<1>2. HeapInv'
  BY <1>1, HeapStays DEF IInv
<1>3. FilterInv'
  BY DEF IInv, FilterInv
<1> QED
  BY <1>2, <1>3 DEF IInv, LoadInv

\* A new scratch, and the old one is free.
Replaced(f, a) ==
    LET old == DetachIfGrown(a.memory)
        new == Refreshed([old[f] EXCEPT !.group = Unlist(old[f]) \cup {a.block},
                                        !.scratch = a.block])
    IN  /\ Take(a)
        /\ free' = IF Listed(old[f]) = {} THEN a.free
                   ELSE Coalesce(a.free \cup Listed(old[f]))
        /\ filter' = [old EXCEPT ![f] = new]

LEMMA ReplaceKeeps ==
    ASSUME IInv, NEW f \in Filters, filter[f].state = "active", NEW n \in Nat,
           NEW a \in Allocations(n), a.ok, Replaced(f, a)
    PROVE  /\ FilterInv' /\ HeapInv'
           /\ filter'[f].attached /\ filter'[f].view = filter'[f].scratch
           /\ n <= filter'[f].view.length
<1> DEFINE D == DetachIfGrown(a.memory)
           old == D[f]
           new == Refreshed([old EXCEPT !.group = Unlist(old) \cup {a.block},
                                        !.scratch = a.block])
           gone == Listed(old)
<1>0. FilterInv /\ HeapInv
  BY DEF IInv
<1>1. /\ a.block \in Block /\ a.block.length >= n /\ a.block.pointer > 0 /\ a.block \notin Held
      /\ SoundHeap(Held \cup {a.block}, a.free, a.top)
      /\ a.top >= HeapStart /\ a.memory \in Nat /\ a.top <= a.memory
  BY <1>0, AllocationKeeps DEF HeapInv
<1>2. /\ memory' = a.memory /\ heapTop' = a.top
      /\ free' = IF gone = {} THEN a.free ELSE Coalesce(a.free \cup gone)
      /\ filter' = [D EXCEPT ![f] = new]
  BY DEF Replaced, Take
<1>3. D \in [Filters -> FilterType] /\ \A g \in Filters : D[g].group = filter[g].group /\ Kept(D[g])
  BY <1>0, Detaching
<1>4. old.state = "active" /\ old.bitmap = filter[f].bitmap /\ old.scratch = filter[f].scratch
      /\ old.group = filter[f].group /\ old \in FilterType
  BY <1>0, Detaching
<1> HIDE DEF D
<1>5. gone = {old.scratch} \ {Nowhere} /\ Unlist(old) = {old.bitmap} /\ gone \subseteq filter[f].group
  BY <1>0, <1>4, ListedIs
<1>6. filter[f].group = {old.bitmap} \cup gone /\ old.bitmap \notin gone
  BY <1>0, <1>4, <1>5 DEF FilterInv, Kept
<1> HIDE DEF old
<1>7. /\ new \in FilterType /\ new.state = "active" /\ new.bitmap = old.bitmap
      /\ new.group = {old.bitmap, a.block} /\ new.scratch = a.block
      /\ new.view = a.block /\ new.attached = TRUE
  BY <1>1, <1>4, <1>5 DEF Refreshed, FilterType
<1> HIDE DEF new, gone
<1>8. Held = Others(f) \cup filter[f].group /\ Others(f) \cap filter[f].group = {}
  BY <1>0, HeldParts
<1>9. a.block # Nowhere /\ a.block # old.bitmap /\ a.block \notin gone /\ a.block \notin Others(f)
  BY <1>1, <1>6, <1>8 DEF Nowhere
<1>10. Kept(new)
  BY <1>7, <1>9 DEF Kept
<1>11. filter' \in [Filters -> FilterType] /\ \A g \in Filters : Kept(filter'[g])
  BY <1>2, <1>3, <1>7, <1>10
<1>12. filter'[f] = new /\ \A g \in Filters \ {f} : filter'[g].group = filter[g].group
  BY <1>2, <1>3
<1>13. Others(f) \cap new.group = {}
  BY <1>6, <1>7, <1>8, <1>9
<1>14. FilterInv' /\ Held' = Others(f) \cup new.group
  BY <1>0, <1>11, <1>12, <1>13, OneFilter
<1>15. Held' = (Held \cup {a.block}) \ gone
  BY <1>6, <1>7, <1>8, <1>9, <1>14
<1>16. SoundHeap(Held', free', heapTop')
  <2>1. CASE gone = {}
    BY <1>1, <1>2, <1>15, <2>1
  <2>2. CASE gone # {}
    <3>1. gone \in SUBSET (Held \cup {a.block})
      BY <1>5, <1>8
    <3> QED
      BY <1>1, <1>2, <1>15, <2>2, <3>1, ReleaseKeeps
  <2> QED
    BY <2>1, <2>2
<1>17. HeapInv'
  BY <1>1, <1>2, <1>16 DEF HeapInv, HeapStart
<1> QED
  BY <1>1, <1>7, <1>12, <1>14, <1>17

LEMMA ScratchKeeps ==
    ASSUME IInv, NEW f \in Filters, filter[f].state = "active", NEW n \in Nat,
           NEW step \in {"keep", "refresh", "resize"}, UseScratch(f, n, step),
           UNCHANGED <<context, loads>>,
           step = "keep" => Outcome(filter[f], n) = "done",
           step = "refresh" => n <= filter[f].scratch.length
    PROVE  IInv'
<1>1. CASE step = "keep"
  BY <1>1, StaysKeeps DEF UseScratch
<1>2. CASE step = "refresh"
  <2>1. filter' = [filter EXCEPT ![f] = Refreshed(@)] /\ UNCHANGED <<memory, heapTop, free>>
        /\ outcome' = Outcome(Refreshed(filter[f]), n)
    BY <1>2 DEF UseScratch
  <2>2. filter[f] \in FilterType
    BY DEF IInv, FilterInv
  <2>3. Refreshed(filter[f]).attached /\ Refreshed(filter[f]).view = Refreshed(filter[f]).scratch
        /\ n <= Refreshed(filter[f]).view.length
    BY <1>2, <2>2 DEF Refreshed, FilterType
  <2>4. outcome' = "done"
    BY <2>1, <2>3, OutcomeDone
  <2> QED
    BY <2>1, <2>4, RefreshKeeps
<1>3. CASE step = "resize"
  <2>1. PICK a \in Allocations(n) :
           IF ~a.ok THEN Fail
           ELSE Replaced(f, a) /\ outcome' = Outcome(filter'[f], n)
    <3>1. PICK a \in Allocations(n) :
           IF ~a.ok THEN Fail
           ELSE LET old == DetachIfGrown(a.memory)
                    new == Refreshed([old[f] EXCEPT
                                 !.group = Unlist(old[f]) \cup {a.block},
                                 !.scratch = a.block])
                IN  /\ Take(a)
                    /\ free' = IF Listed(old[f]) = {} THEN a.free
                               ELSE Coalesce(a.free \cup Listed(old[f]))
                    /\ filter' = [old EXCEPT ![f] = new]
                    /\ outcome' = Outcome(new, n)
      BY <1>3 DEF UseScratch
    <3>2. DetachIfGrown(a.memory) \in [Filters -> FilterType]
      BY Detaching DEF IInv
    <3> QED
      BY <3>1, <3>2 DEF Replaced
  <2>2. CASE ~a.ok
    BY <2>1, <2>2, StaysKeeps DEF Fail
  <2>3. CASE a.ok
    <3>1. /\ FilterInv' /\ HeapInv'
          /\ filter'[f].attached /\ filter'[f].view = filter'[f].scratch
          /\ n <= filter'[f].view.length
      BY <2>1, <2>3, ReplaceKeeps
    <3>2. outcome' = "done"
      BY <2>1, <2>3, <3>1, OutcomeDone
    <3> QED
      BY <3>1, <3>2 DEF IInv, LoadInv
  <2> QED
    BY <2>2, <2>3
<1> QED
  BY <1>1, <1>2, <1>3

LEMMA UseKeeps ==
    ASSUME IInv, NEW f \in Filters, NEW n \in KeyLengths, UseArray(f, n) \/ UseOther(f, n),
           UNCHANGED <<context, loads>>
    PROVE  IInv'
<1> DEFINE x == filter[f]
<1>1. x \in FilterType /\ x.state = "active" /\ n \in Nat /\ (x.attached => x.view = x.scratch)
  BY MemoryAssumption DEF IInv, FilterInv, Kept, UseArray, UseOther
<1>2. /\ x.scratch \in Block /\ x.scratch.length \in Nat
      /\ x.view \in Block /\ x.view.length \in Nat /\ x.attached \in BOOLEAN
  BY <1>1 DEF FilterType, Block
<1>3. CASE UseArray(f, n)
  <2> DEFINE step == ArrayStep(x, n)
  <2>1. step \in {"keep", "refresh", "resize"}
    BY DEF ArrayStep
  <2>2. ASSUME step = "keep"
        PROVE  Outcome(x, n) = "done"
    <3>1. ~MustPrepare(x, n)
      BY <2>2 DEF ArrayStep
    <3>2. x.attached /\ n <= x.view.length
      BY <1>1, <1>2, <3>1 DEF MustPrepare, ViewLength
    <3> QED
      BY <1>1, <3>2, OutcomeDone
  <2>3. ASSUME step = "refresh"
        PROVE  n <= x.scratch.length
    BY <1>1, <1>2, <2>3 DEF ArrayStep, NeedsResize
  <2>4. UseScratch(f, n, step)
    BY <1>3 DEF UseArray
  <2> HIDE DEF step
  <2> QED
    BY <1>1, <2>1, <2>2, <2>3, <2>4, ScratchKeeps
<1>4. CASE UseOther(f, n)
  <2> DEFINE step == OtherStep(x, n)
  <2>1. step \in {"keep", "refresh", "resize"}
    BY DEF OtherStep
  <2>2. ASSUME step = "keep"
        PROVE  Outcome(x, n) = "done"
    <3>1. n <= x.scratch.length /\ ViewLength(x) = x.scratch.length
      BY <1>1, <1>2, <2>2 DEF OtherStep, NeedsResize
    <3>2. n = 0 \/ (x.attached /\ n <= x.view.length)
      BY <1>1, <1>2, <3>1 DEF ViewLength
    <3> QED
      BY <1>1, <3>2, OutcomeDone
  <2>3. ASSUME step = "refresh"
        PROVE  n <= x.scratch.length
    BY <1>1, <1>2, <2>3 DEF OtherStep, NeedsResize
  <2>4. UseScratch(f, n, step)
    BY <1>4 DEF UseOther
  <2> HIDE DEF step
  <2> QED
    BY <1>1, <2>1, <2>2, <2>3, <2>4, ScratchKeeps
<1> QED
  BY <1>3, <1>4

LEMMA ReleaseGroupKeeps ==
    ASSUME IInv, NEW f \in Filters, NEW state \in {"none", "disposed"}, Release(f, state),
           UNCHANGED <<context, loads>>, outcome' # "key lost"
    PROVE  IInv'
<1> DEFINE x == [None EXCEPT !.state = state]
           G == filter[f].group
<1>0. FilterInv /\ HeapInv
  BY DEF IInv
<1>1. /\ filter' = [filter EXCEPT ![f] = x] /\ UNCHANGED <<memory, heapTop>>
      /\ free' = IF G = {} THEN free ELSE Coalesce(free \cup G)
  BY DEF Release
<1>2. x \in FilterType /\ x.state \in {"none", "disposed"} /\ x.group = {}
  BY NoneTyped DEF None, FilterType
<1> HIDE DEF x
<1>3. Kept(x)
  BY <1>2 DEF Kept
<1>4. /\ filter' \in [Filters -> FilterType] /\ \A g \in Filters : Kept(filter'[g])
      /\ filter'[f] = x /\ \A g \in Filters \ {f} : filter'[g].group = filter[g].group
  BY <1>0, <1>1, <1>2, <1>3 DEF FilterInv
<1>5. FilterInv' /\ Held' = Others(f)
  BY <1>0, <1>2, <1>4, OneFilter
<1>6. Held = Others(f) \cup G /\ Others(f) \cap G = {}
  BY <1>0, HeldParts
<1>7. Held' = Held \ G /\ G \in SUBSET Held
  BY <1>5, <1>6
<1>8. SoundHeap(Held, free, heapTop)
  BY <1>0 DEF HeapInv
<1> HIDE DEF G
<1>9. SoundHeap(Held', free', heapTop')
  <2>1. CASE G = {}
    BY <1>1, <1>7, <1>8, <2>1
  <2>2. CASE G # {}
    BY <1>1, <1>7, <1>8, <2>2, ReleaseKeeps
  <2> QED
    BY <2>1, <2>2
<1>10. HeapInv'
  BY <1>0, <1>1, <1>9 DEF HeapInv, HeapStart
<1> QED
  BY <1>5, <1>10 DEF IInv, LoadInv

LEMMA ForgetKeeps ==
    ASSUME IInv, NEW f \in Filters, Forget(f), UNCHANGED <<context, loads>>
    PROVE  IInv'
<1> DEFINE x == IF filter[f].state = "active"
                  THEN [None EXCEPT !.state = "forgotten", !.group = filter[f].group]
                  ELSE None
<1>1. filter[f] \in FilterType /\ Kept(filter[f]) /\ filter[f].state \in {"active", "disposed"}
  BY DEF IInv, FilterInv, Forget
<1>2. filter' = [filter EXCEPT ![f] = x] /\ UNCHANGED <<memory, heapTop, free>>
      /\ outcome' = "done"
  BY DEF Forget
<1>3. x \in FilterType /\ x.group = filter[f].group /\ Kept(x)
  <2>1. CASE filter[f].state = "active"
    BY <1>1, <2>1, NoneTyped DEF FilterType, None, Kept
  <2>2. CASE filter[f].state # "active"
    <3>1. filter[f].group = {} /\ x = None
      BY <1>1, <2>2 DEF Kept
    <3> QED
      BY <3>1, NoneTyped DEF None
  <2> QED
    BY <2>1, <2>2
<1> HIDE DEF x
<1>4. FilterInv' /\ HeapInv'
  BY <1>2, <1>3, SameBlocks DEF IInv
<1> QED
  BY <1>2, <1>4 DEF IInv, LoadInv

LEMMA StepKeeps == IInv /\ [Next]_vars => IInv'
<1> SUFFICES ASSUME IInv, [Next]_vars
             PROVE  IInv'
  OBVIOUS
<1>1. CASE Load
  BY <1>1, LoadKeeps
<1>2. ASSUME NEW f \in Filters, NEW size \in BitmapSizes, Request(f, size)
      PROVE  IInv'
  BY <1>2, RequestKeeps
<1>3. ASSUME NEW f \in Filters, Create(f)
      PROVE  IInv'
  BY <1>3, CreateKeeps
<1>4. ASSUME NEW f \in Filters, Reject(f)
      PROVE  IInv'
  BY <1>4, RejectKeeps
<1>5. ASSUME NEW f \in Filters, NEW n \in KeyLengths, UseArray(f, n) \/ UseOther(f, n),
             UNCHANGED loadVars
      PROVE  IInv'
  BY <1>5, UseKeeps DEF loadVars
<1>6. ASSUME NEW f \in Filters, Dispose(f), UNCHANGED loadVars
      PROVE  IInv'
  BY <1>6, ReleaseGroupKeeps DEF Dispose, loadVars
<1>7. ASSUME NEW f \in Filters, Forget(f), UNCHANGED loadVars
      PROVE  IInv'
  BY <1>7, ForgetKeeps DEF loadVars
<1>8. ASSUME NEW f \in Filters, Finalize(f), UNCHANGED loadVars
      PROVE  IInv'
  BY <1>8, ReleaseGroupKeeps DEF Finalize, loadVars
<1>9. CASE UNCHANGED vars
  BY <1>9, StaysKeeps DEF vars, heapVars, loadVars, IInv
<1> QED
  BY <1>1, <1>2, <1>3, <1>4, <1>5, <1>6, <1>7, <1>8, <1>9 DEF Next

LEMMA Invariance == Spec => []IInv
<1> QED
  BY InitHolds, StepKeeps, PTL DEF Spec

-----------------------------------------------------------------------------
\* No two blocks overlap, no filter holds another's, and no byte of the heap is lost,
\* whatever is allocated, fails, grows or is freed in whatever order (wasm.ts:82-128).
THEOREM HeapTiled == Spec => []Tiled
<1>1. ASSUME IInv
      PROVE  Tiled
  <2>1. SoundHeap(Held, free, heapTop) /\ heapTop <= memory
    BY <1>1 DEF IInv, HeapInv
  <2>2. \A f, g \in Filters : f # g => filter[f].group \cap filter[g].group = {}
    BY <1>1 DEF IInv, FilterInv
  <2> QED
    BY <2>1, <2>2, SoundFacts DEF Tiled, Apart, Covers
<1> QED
  BY <1>1, Invariance, PTL

\* Free neighbours are always one block (wasm.ts:86-100).
THEOREM AlwaysCoalesced == Spec => []Coalesced
<1>1. IInv => Coalesced
  BY DEF IInv, HeapInv, SoundHeap, Coalesced
<1> QED
  BY <1>1, Invariance, PTL

\* A filter holds its bitmap and its current scratch, whatever was replaced or failed
\* on the way (wasm.ts:166-181).
THEOREM BlocksHeld == Spec => []HoldsItsBlocks
<1>1. IInv => HoldsItsBlocks
  BY DEF IInv, FilterInv, Kept, HoldsItsBlocks
<1> QED
  BY <1>1, Invariance, PTL

\* The module reads the key that was written, however other filters grow the memory
\* between two calls (api.ts:196-318).
THEOREM KeysReach == Spec => []KeyReachesModule
<1>1. IInv => KeyReachesModule
  BY DEF IInv, KeyReachesModule
<1> QED
  BY <1>1, Invariance, PTL

\* The default context is loaded at most once, whoever asks for it (wasm.ts:202).
THEOREM LoadedOnce == Spec => []OneInstance
<1>1. IInv => OneInstance
  BY DEF IInv, LoadInv, OneInstance
<1> QED
  BY <1>1, Invariance, PTL
=============================================================================
