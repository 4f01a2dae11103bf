---------------------------- MODULE PyFilterProofs ----------------------------
(***************************************************************************)
(* Proofs about the objects of the Python module: for any number of        *)
(* filters, bytearrays, references and nested calls, and any lengths.      *)
(*                                                                         *)
(* A heap is described object by object and bytearray by bytearray         *)
(* (ReleasedHeap, DecrefHeap, InitialisedHeap); from that follows which    *)
(* changes keep a heap sound; the steps of the specification combine them. *)
(***************************************************************************)
EXTENDS PyFilter, FiniteSetTheorems, SequenceTheorems, TLAPS

Layout3 == Nat \X Nat \X Nat
HeapType == [object : [Objects -> Filter], bytearray : [Bitmaps -> Nat]]

\* A filter with the bitmap of its layout.
Filled(x, bytes) ==
    /\ x.refs > 0 /\ Valid(x.layout) /\ x.data \in Bitmaps
    /\ x.size = Size(x.layout) /\ bytes[x.data] = x.size

SoundHeap(h) ==
    /\ h \in HeapType
    /\ \A o \in Objects : Blank(h.object[o]) \/ Filled(h.object[o], h.bytearray)
    /\ \A b \in Bitmaps :
          /\ h.bytearray[b] # 0 => \E o \in Objects : h.object[o].data = b
          /\ \A o, p \in Objects : h.object[o].data = b /\ h.object[p].data = b => o = p

\* The references to a filter that are not those of its n running calls.
Owed(x, n) == (IF x.named THEN 1 ELSE 0) + x.pins + n

BalancedIn(objects, fs) ==
    \A o \in Objects : objects[o].refs = Owed(objects[o], Cardinality(CallsOn(fs, o)))

Pinning(objects, vs) ==
    \A v \in vs : ~v.stale => objects[v.self].pins > 0 /\ objects[v.self].data = v.data

FrameType(fs) ==
    /\ fs \in Seq(Frame)
    /\ \A i \in DOMAIN fs : fs[i].call = "init" => Valid(fs[i].layout)

(***************************************************************************)
(* The inductive invariant: the heap is sound, references are counted, and *)
(* a view that is not stale pins its filter, which is why no death, in     *)
(* whatever call, can take its bitmap away.                                *)
(***************************************************************************)
Inductive(h, vs, fs) ==
    /\ SoundHeap(h)
    /\ vs \subseteq View /\ FrameType(fs)
    /\ BalancedIn(h.object, fs) /\ Pinning(h.object, vs)

IInv == Inductive(Heap, views, frames)

-----------------------------------------------------------------------------
\* The levels a buffer may be cut at have pages of some size.
LEMMA PageSizes ==
    \A level \in 0..31 : PageSize(level) \in Nat \ {0}
<1> DEFINE P == Nat \ {0}
<1>1. /\ 2^0 \in P /\ 2^1 \in P /\ 2^2 \in P /\ 2^3 \in P
        /\ 2^4 \in P /\ 2^5 \in P /\ 2^6 \in P /\ 2^7 \in P
        /\ 2^8 \in P /\ 2^9 \in P /\ 2^10 \in P /\ 2^11 \in P
        /\ 2^12 \in P /\ 2^13 \in P /\ 2^14 \in P /\ 2^15 \in P
        /\ 2^16 \in P /\ 2^17 \in P /\ 2^18 \in P /\ 2^19 \in P
        /\ 2^20 \in P /\ 2^21 \in P /\ 2^22 \in P /\ 2^23 \in P
        /\ 2^24 \in P /\ 2^25 \in P /\ 2^26 \in P /\ 2^27 \in P
        /\ 2^28 \in P /\ 2^29 \in P /\ 2^30 \in P /\ 2^31 \in P
  OBVIOUS
<1>2. \A level \in 0..31 :
           \/ level = 0 \/ level = 1 \/ level = 2 \/ level = 3
           \/ level = 4 \/ level = 5 \/ level = 6 \/ level = 7
           \/ level = 8 \/ level = 9 \/ level = 10 \/ level = 11
           \/ level = 12 \/ level = 13 \/ level = 14 \/ level = 15
           \/ level = 16 \/ level = 17 \/ level = 18 \/ level = 19
           \/ level = 20 \/ level = 21 \/ level = 22 \/ level = 23
           \/ level = 24 \/ level = 25 \/ level = 26 \/ level = 27
           \/ level = 28 \/ level = 29 \/ level = 30 \/ level = 31
  OBVIOUS
<1> HIDE DEF P
<1>3. \A level \in 0..31 : 2^level \in P
  BY <1>1, <1>2, Zenon
<1> QED
  BY <1>3, Zenon DEF P, PageSize

\* The size of a valid layout is positive, and its members are numbers.
LEMMA ValidSizes ==
    ASSUME NEW layout \in Layout3, Valid(layout)
    PROVE  /\ layout[2] \in 0..13
           /\ layout[3] \in Nat \ {0}
           /\ PageSize(layout[2]) \in Nat \ {0}
           /\ Size(layout) \in Nat \ {0}
<1>1. layout[2] \in 0..13 /\ layout[3] \in Nat \ {0}
  BY DEF Layout3, Valid, ValidLayout
<1>2. PageSize(layout[2]) \in Nat \ {0}
  BY <1>1, PageSizes
<1>3. layout[3] * PageSize(layout[2]) \in Nat \ {0}
  BY <1>1, <1>2
<1> QED
  BY <1>1, <1>2, <1>3 DEF Size

-----------------------------------------------------------------------------
(***************************************************************************)
(* What becomes of a heap.                                                 *)
(***************************************************************************)
LEMMA ReleasedHeap ==
    ASSUME NEW h \in HeapType, NEW d \in Bitmaps \cup {NoBitmap}
    PROVE  /\ Released(h, d) \in HeapType
           /\ Released(h, d).object = h.object
           /\ \A c \in Bitmaps :
                 Released(h, d).bytearray[c] = IF c = d THEN 0 ELSE h.bytearray[c]
BY PlaceAssumption DEF HeapType, Released

LEMMA FreeType == Free \in Filter
BY DEF Free, Made, Filter, NoLayout

LEMMA DecrefHeap ==
    ASSUME NEW h \in HeapType, NEW o \in Objects
    PROVE  LET x == h.object[o]
               g == Decref(h, o)
           IN  /\ g \in HeapType
               /\ \A p \in Objects : p # o => g.object[p] = h.object[p]
               /\ x.refs > 1 => /\ g.object[o] = [x EXCEPT !.refs = @ - 1]
                                /\ g.bytearray = h.bytearray
               /\ ~(x.refs > 1) =>
                     /\ g.object[o] = Free
                     /\ \A c \in Bitmaps :
                           g.bytearray[c] = IF c = x.data THEN 0 ELSE h.bytearray[c]
<1> DEFINE x == h.object[o]
           g == Decref(h, o)
<1>1. x \in Filter
  BY DEF HeapType
<1>2. CASE x.refs > 1
  <2>1. g = [h EXCEPT !.object[o].refs = @ - 1]
    BY <1>2 DEF Decref
  <2>2. x.refs - 1 \in Nat
    BY <1>1, <1>2 DEF Filter
  <2>3. [x EXCEPT !.refs = @ - 1] \in Filter
    BY <1>1, <2>2 DEF Filter
  <2> QED
    BY <1>2, <2>1, <2>3 DEF HeapType
<1>3. CASE ~(x.refs > 1)
  <2> DEFINE r == Released(h, x.data)
  <2>1. g = [r EXCEPT !.object[o] = Free]
    BY <1>3 DEF Decref
  <2>2. x.data \in Bitmaps \cup {NoBitmap}
    BY <1>1 DEF Filter
  <2>3. /\ r \in HeapType /\ r.object = h.object
        /\ \A c \in Bitmaps : r.bytearray[c] = IF c = x.data THEN 0 ELSE h.bytearray[c]
    BY <2>2, ReleasedHeap
  <2> HIDE DEF r
  <2> QED
    BY <1>3, <2>1, <2>3, FreeType DEF HeapType
<1> QED
  BY <1>2, <1>3

LEMMA InitialisedHeap ==
    ASSUME NEW h \in HeapType, NEW o \in Objects, NEW layout \in Layout3,
           NEW b \in Bitmaps, Size(layout) \in Nat
    PROVE  LET x == h.object[o]
               g == Initialised(h, o, layout, b)
           IN  /\ g \in HeapType
               /\ \A p \in Objects : p # o => g.object[p] = h.object[p]
               /\ g.object[o] = Members(x, layout, b)
               /\ \A c \in Bitmaps :
                     g.bytearray[c] = IF c = b THEN Size(layout)
                                      ELSE IF c = x.data THEN 0 ELSE h.bytearray[c]
<1> DEFINE x == h.object[o]
           g == Initialised(h, o, layout, b)
           r == Released(h, x.data)
           y == Members(x, layout, b)
<1>1. x \in Filter
  BY DEF HeapType
<1>2. x.data \in Bitmaps \cup {NoBitmap}
  BY <1>1 DEF Filter
<1>3. /\ r \in HeapType /\ r.object = h.object
      /\ \A c \in Bitmaps : r.bytearray[c] = IF c = x.data THEN 0 ELSE h.bytearray[c]
  BY <1>2, ReleasedHeap
<1>4. y \in Filter
  BY <1>1 DEF Filter, Layout3, Members
<1>7. g = [object    |-> [h.object EXCEPT ![o] = y],
           bytearray |-> [r.bytearray EXCEPT ![b] = Size(layout)]]
  BY DEF Initialised, DropsOldData
<1> HIDE DEF r, y, g
<1>8. /\ g \in HeapType
      /\ g.object = [h.object EXCEPT ![o] = y]
      /\ g.bytearray = [r.bytearray EXCEPT ![b] = Size(layout)]
  BY <1>3, <1>4, <1>7 DEF HeapType
<1>9. /\ \A p \in Objects : p # o => g.object[p] = h.object[p]
      /\ g.object[o] = y
      /\ \A c \in Bitmaps :
            g.bytearray[c] = IF c = b THEN Size(layout)
                             ELSE IF c = x.data THEN 0 ELSE h.bytearray[c]
  BY <1>3, <1>8 DEF HeapType
<1> QED
  BY <1>8, <1>9 DEF g, y
-----------------------------------------------------------------------------
(***************************************************************************)
(* What keeps a heap sound.                                                *)
(***************************************************************************)
\* A bitmap that a filter holds has bytes.
LEMMA HeldHasBytes ==
    ASSUME NEW h, SoundHeap(h), NEW o \in Objects, h.object[o].data # NoBitmap
    PROVE  /\ Filled(h.object[o], h.bytearray)
           /\ h.bytearray[h.object[o].data] # 0
<1>1. Filled(h.object[o], h.bytearray)
  BY DEF SoundHeap, Blank
<1>2. h.object[o].layout \in Layout3 /\ Valid(h.object[o].layout)
  BY <1>1 DEF SoundHeap, HeapType, Filter, Layout3, Filled
<1>3. Size(h.object[o].layout) \in Nat \ {0}
  BY <1>2, ValidSizes
<1> QED
  BY <1>1, <1>3 DEF Filled

\* Nothing that only counts references disturbs a sound heap.
LEMMA RecountSound ==
    ASSUME NEW h, SoundHeap(h), NEW g \in HeapType,
           g.bytearray = h.bytearray,
           \A o \in Objects :
              /\ g.object[o].layout = h.object[o].layout
              /\ g.object[o].size = h.object[o].size
              /\ g.object[o].data = h.object[o].data
              /\ h.object[o].refs > 0 => g.object[o].refs > 0
    PROVE  SoundHeap(g)
<1>1. ASSUME NEW o \in Objects
      PROVE  Blank(g.object[o]) \/ Filled(g.object[o], g.bytearray)
  BY <1>1 DEF SoundHeap, Blank, Filled
<1>2. ASSUME NEW b \in Bitmaps
      PROVE  /\ g.bytearray[b] # 0 => \E o \in Objects : g.object[o].data = b
             /\ \A o, p \in Objects : g.object[o].data = b /\ g.object[p].data = b => o = p
  BY <1>2 DEF SoundHeap
<1> QED
  BY <1>1, <1>2 DEF SoundHeap

\* A filter that dies takes its bitmap along, which was nobody else's.
LEMMA DecrefSound ==
    ASSUME NEW h, SoundHeap(h), NEW o \in Objects
    PROVE  SoundHeap(Decref(h, o))
<1> DEFINE x == h.object[o]
           g == Decref(h, o)
<1>h. h \in HeapType
  BY DEF SoundHeap
<1>x. x \in Filter
  BY <1>h DEF HeapType
<1>1. CASE x.refs > 1
  <2>1. /\ g \in HeapType /\ g.bytearray = h.bytearray
        /\ \A p \in Objects : p # o => g.object[p] = h.object[p]
        /\ g.object[o] = [x EXCEPT !.refs = @ - 1]
    BY <1>h, <1>1, DecrefHeap
  <2>2. /\ g.object[o].layout = x.layout /\ g.object[o].size = x.size
        /\ g.object[o].data = x.data /\ g.object[o].refs > 0
    BY <1>x, <1>1, <2>1 DEF Filter
  <2>3. \A p \in Objects :
           /\ g.object[p].layout = h.object[p].layout
           /\ g.object[p].size = h.object[p].size
           /\ g.object[p].data = h.object[p].data
           /\ h.object[p].refs > 0 => g.object[p].refs > 0
    BY <2>1, <2>2
  <2> HIDE DEF g
  <2>4. SoundHeap(g)
    BY <2>1, <2>3, RecountSound
  <2> QED
    BY <2>4 DEF g
<1>2. CASE ~(x.refs > 1)
  <2>1. /\ g \in HeapType
        /\ \A p \in Objects : p # o => g.object[p] = h.object[p]
        /\ g.object[o] = Free
        /\ \A c \in Bitmaps : g.bytearray[c] = IF c = x.data THEN 0 ELSE h.bytearray[c]
    BY <1>h, <1>2, DecrefHeap, ZenonT(60)
  <2> HIDE DEF g
  <2>2. Blank(g.object[o]) /\ g.object[o].data = NoBitmap
    BY <2>1 DEF Free, Made, Blank
  <2>3. ASSUME NEW p \in Objects, p # o
        PROVE  Blank(g.object[p]) \/ Filled(g.object[p], g.bytearray)
    <3>1. CASE Blank(h.object[p])
      BY <2>1, <2>3, <3>1
    <3>2. CASE Filled(h.object[p], h.bytearray)
      <4>1. h.object[p].data \in Bitmaps /\ h.object[p].data # x.data
        BY <2>3, <3>2 DEF SoundHeap, Filled
      <4> QED
        BY <2>1, <2>3, <3>2, <4>1 DEF Filled
    <3> QED
      BY <3>1, <3>2 DEF SoundHeap
  <2>4. ASSUME NEW b \in Bitmaps
        PROVE  /\ g.bytearray[b] # 0 => \E p \in Objects : g.object[p].data = b
               /\ \A p, q \in Objects : g.object[p].data = b /\ g.object[q].data = b => p = q
    <3>1. b # NoBitmap
      BY PlaceAssumption
    <3>2. \A p \in Objects : g.object[p].data = b => p # o /\ h.object[p].data = b
      BY <2>1, <2>2, <3>1
    <3>3. ASSUME g.bytearray[b] # 0
          PROVE  \E p \in Objects : g.object[p].data = b
      <4>1. b # x.data /\ h.bytearray[b] # 0
        BY <2>1, <3>3
      <4>2. PICK p \in Objects : h.object[p].data = b
        BY <4>1 DEF SoundHeap
      <4> QED
        BY <2>1, <4>1, <4>2
    <3> QED
      BY <3>2, <3>3 DEF SoundHeap
  <2>5. SoundHeap(g)
    BY <2>1, <2>2, <2>3, <2>4 DEF SoundHeap
  <2> QED
    BY <2>5 DEF g
<1> QED
  BY <1>1, <1>2

\* __init__ replaces the bitmap of one filter by one that nobody holds.
LEMMA InitialisedSound ==
    ASSUME NEW h, SoundHeap(h), NEW o \in Objects, h.object[o].refs > 0,
           NEW layout \in Layout3, Valid(layout),
           NEW b \in Bitmaps, h.bytearray[b] = 0
    PROVE  SoundHeap(Initialised(h, o, layout, b))
<1> DEFINE x == h.object[o]
           g == Initialised(h, o, layout, b)
<1>0. Size(layout) \in Nat \ {0} /\ h \in HeapType
  BY ValidSizes DEF SoundHeap
<1>1. /\ g \in HeapType
      /\ \A p \in Objects : p # o => g.object[p] = h.object[p]
      /\ g.object[o] = Members(x, layout, b)
      /\ \A c \in Bitmaps : g.bytearray[c] = IF c = b THEN Size(layout)
                                           ELSE IF c = x.data THEN 0 ELSE h.bytearray[c]
  BY <1>0, InitialisedHeap
<1> HIDE DEF g
<1>2. Filled(g.object[o], g.bytearray) /\ g.object[o].data = b
  BY <1>1 DEF Members, Filled
<1>3. ASSUME NEW p \in Objects
      PROVE  h.object[p].data # b
  BY <1>3, HeldHasBytes, PlaceAssumption
<1>4. ASSUME NEW p \in Objects, p # o
      PROVE  Blank(g.object[p]) \/ Filled(g.object[p], g.bytearray)
  <2>1. CASE Blank(h.object[p])
    BY <1>1, <1>4, <2>1
  <2>2. CASE Filled(h.object[p], h.bytearray)
    <3>1. h.object[p].data \in Bitmaps /\ h.object[p].data # x.data
      BY <1>4, <2>2 DEF SoundHeap, Filled
    <3> QED
      BY <1>1, <1>3, <1>4, <2>2, <3>1 DEF Filled
  <2> QED
    BY <2>1, <2>2 DEF SoundHeap
<1>5. ASSUME NEW c \in Bitmaps
      PROVE  /\ g.bytearray[c] # 0 => \E p \in Objects : g.object[p].data = c
             /\ \A p, q \in Objects : g.object[p].data = c /\ g.object[q].data = c => p = q
  <2>1. CASE c = b
    <3>1. \A p \in Objects : g.object[p].data = c => p = o
      BY <1>1, <1>3, <2>1
    <3> QED
      BY <1>2, <2>1, <3>1
  <2>2. CASE c # b
    <3>1. \A p \in Objects : g.object[p].data = c => p # o /\ h.object[p].data = c
      BY <1>1, <1>2, <2>2
    <3>2. ASSUME g.bytearray[c] # 0
          PROVE  \E p \in Objects : g.object[p].data = c
      <4>1. c # x.data /\ h.bytearray[c] # 0
        BY <1>1, <2>2, <3>2
      <4>2. PICK p \in Objects : h.object[p].data = c
        BY <4>1 DEF SoundHeap
      <4> QED
        BY <1>1, <4>1, <4>2
    <3> QED
      BY <3>1, <3>2 DEF SoundHeap
  <2> QED
    BY <2>1, <2>2
<1>6. SoundHeap(g)
  BY <1>1, <1>2, <1>4, <1>5 DEF SoundHeap
<1> QED
  BY <1>6 DEF g
-----------------------------------------------------------------------------
(***************************************************************************)
(* Frames.                                                                 *)
(***************************************************************************)
LEMMA CallsFinite ==
    ASSUME NEW fs \in Seq(Frame), NEW o
    PROVE  IsFiniteSet(CallsOn(fs, o)) /\ Cardinality(CallsOn(fs, o)) \in Nat
<1>1. CallsOn(fs, o) \subseteq 1..Len(fs) /\ Len(fs) \in Nat
  BY DEF CallsOn
<1>2. IsFiniteSet(1..Len(fs))
  BY <1>1, FS_Interval
<1> QED
  BY <1>1, <1>2, FS_Subset, FS_CardinalityType

LEMMA CallsPushed ==
    ASSUME NEW fs \in Seq(Frame), NEW f \in Frame, NEW o
    PROVE  Cardinality(CallsOn(Append(fs, f), o)) =
               Cardinality(CallsOn(fs, o)) + (IF f.self = o THEN 1 ELSE 0)
<1> DEFINE gs == Append(fs, f)
           n == Len(fs) + 1
<1>1. /\ gs \in Seq(Frame) /\ Len(gs) = n /\ gs[n] = f /\ Len(fs) \in Nat
      /\ \A i \in 1..Len(fs) : gs[i] = fs[i]
  BY AppendProperties
<1>2. DOMAIN gs = 1..n /\ DOMAIN fs = 1..Len(fs)
  BY <1>1
<1> HIDE DEF gs
<1>3. n \notin CallsOn(fs, o)
  BY <1>1, <1>2 DEF CallsOn
<1>4. CASE f.self = o
  <2>1. CallsOn(gs, o) = CallsOn(fs, o) \cup {n}
    BY <1>1, <1>2, <1>4 DEF CallsOn
  <2> QED
    BY <1>3, <1>4, <2>1, CallsFinite, FS_AddElement, ZenonT(60) DEF gs
<1>5. CASE f.self # o
  <2>1. CallsOn(gs, o) = CallsOn(fs, o)
    BY <1>1, <1>2, <1>5 DEF CallsOn
  <2> QED
    BY <1>5, <2>1, CallsFinite DEF gs
<1> QED
  BY <1>4, <1>5

LEMMA FrontProperties ==
    ASSUME NEW fs \in Seq(Frame), fs # <<>>
    PROVE  /\ Front(fs) \in Seq(Frame)
           /\ Len(fs) \in Nat \ {0} /\ Len(Front(fs)) = Len(fs) - 1
           /\ \A i \in 1..(Len(fs) - 1) : Front(fs)[i] = fs[i]
           /\ Last(fs) \in Frame /\ Last(fs) = fs[Len(fs)]
<1>1. Len(fs) \in Nat \ {0} /\ \A i \in 1..Len(fs) : fs[i] \in Frame
  BY EmptySeq, ElementOfSeq
<1> DEFINE n == Len(fs) - 1
<1>2. n \in Nat /\ \A i \in 1..n : fs[i] \in Frame
  BY <1>1
<1>3. /\ SubSeq(fs, 1, n) \in Seq(Frame)
      /\ Len(SubSeq(fs, 1, n)) = (IF 1 <= n THEN n - 1 + 1 ELSE 0)
      /\ \A i \in 1..(n - 1 + 1) : SubSeq(fs, 1, n)[i] = fs[1 + i - 1]
  <2> HIDE DEF n
  <2> QED
    BY <1>2, SubSeqProperties
<1>4. /\ Len(SubSeq(fs, 1, n)) = n
      /\ \A i \in 1..n : SubSeq(fs, 1, n)[i] = fs[i]
  <2> HIDE DEF n
  <2> QED
    BY <1>2, <1>3
<1>5. Front(fs) = SubSeq(fs, 1, n) /\ Last(fs) = fs[Len(fs)]
  BY DEF Front, Last
<1> QED
  BY <1>1, <1>3, <1>4, <1>5

LEMMA CallsPopped ==
    ASSUME NEW fs \in Seq(Frame), fs # <<>>, NEW o
    PROVE  Cardinality(CallsOn(fs, o)) =
               Cardinality(CallsOn(Front(fs), o)) + (IF Last(fs).self = o THEN 1 ELSE 0)
<1> DEFINE gs == Front(fs)
           n == Len(fs)
<1>1. /\ gs \in Seq(Frame) /\ n \in Nat \ {0} /\ Len(gs) = n - 1
      /\ \A i \in 1..(n - 1) : gs[i] = fs[i]
      /\ Last(fs) = fs[n]
  BY FrontProperties
<1>2. DOMAIN gs = 1..(n - 1) /\ DOMAIN fs = 1..n
  BY <1>1
<1> HIDE DEF gs
<1>3. n \notin CallsOn(gs, o)
  BY <1>1, <1>2 DEF CallsOn
<1>4. CASE Last(fs).self = o
  <2>1. CallsOn(fs, o) = CallsOn(gs, o) \cup {n}
    BY <1>1, <1>2, <1>4 DEF CallsOn
  <2> QED
    BY <1>1, <1>3, <1>4, <2>1, CallsFinite, FS_AddElement, ZenonT(60) DEF gs
<1>5. CASE Last(fs).self # o
  <2>1. CallsOn(fs, o) = CallsOn(gs, o)
    BY <1>1, <1>2, <1>5 DEF CallsOn
  <2> QED
    BY <1>1, <1>5, <2>1, CallsFinite DEF gs
<1> QED
  BY <1>4, <1>5
-----------------------------------------------------------------------------
(***************************************************************************)
(* What keeps the invariant.                                               *)
(***************************************************************************)
\* A step that changes one filter, in a heap that stays sound, owes the accounts of
\* that filter only.
LEMMA Changed ==
    ASSUME NEW h, NEW vs, NEW fs, Inductive(h, vs, fs),
           NEW g, SoundHeap(g), NEW o \in Objects,
           \A p \in Objects : p # o => g.object[p] = h.object[p],
           NEW ws \in SUBSET View, NEW gs, FrameType(gs),
           \A p \in Objects : p # o => Cardinality(CallsOn(gs, p)) = Cardinality(CallsOn(fs, p)),
           g.object[o].refs = Owed(g.object[o], Cardinality(CallsOn(gs, o))),
           \A w \in ws : ~w.stale =>
               IF w.self = o THEN g.object[o].pins > 0 /\ g.object[o].data = w.data
               ELSE w \in vs
    PROVE  Inductive(g, ws, gs)
<1>1. BalancedIn(g.object, gs)
  <2> SUFFICES ASSUME NEW p \in Objects
               PROVE  g.object[p].refs = Owed(g.object[p], Cardinality(CallsOn(gs, p)))
    BY DEF BalancedIn
  <2> QED
    BY DEF Inductive, BalancedIn
<1>2. Pinning(g.object, ws)
  <2> SUFFICES ASSUME NEW w \in ws, ~w.stale
               PROVE  g.object[w.self].pins > 0 /\ g.object[w.self].data = w.data
    BY DEF Pinning
  <2>1. w.self \in Objects
    BY DEF View
  <2> QED
    BY <2>1 DEF Inductive, Pinning
<1> QED
  BY <1>1, <1>2 DEF Inductive

LEMMA HeapKept ==
    ASSUME NEW h, NEW vs, NEW fs, Inductive(h, vs, fs), NEW ws \in SUBSET View,
           \A w \in ws : ~w.stale => w \in vs
    PROVE  Inductive(h, ws, fs)
BY DEF Inductive, Pinning

LEMMA Members1 ==
    ASSUME NEW h, SoundHeap(h), NEW o \in Objects
    PROVE  /\ h \in HeapType /\ h.object[o] \in Filter
           /\ h.object[o].refs \in Nat /\ h.object[o].pins \in Nat
           /\ h.object[o].named \in BOOLEAN
BY DEF SoundHeap, HeapType, Filter

\* The call on top of the stack returns, and gives its reference back.
LEMMA Popped ==
    ASSUME NEW h, NEW vs, NEW fs, Inductive(h, vs, fs), fs # <<>>
    PROVE  LET o == Last(fs).self
               g == IF o = NoObject THEN h ELSE Decref(h, o)
           IN  Inductive(g, vs, Front(fs))
<1> DEFINE f == Last(fs)
           o == f.self
           gs == Front(fs)
<1>1. /\ fs \in Seq(Frame) /\ gs \in Seq(Frame) /\ f \in Frame
      /\ Len(fs) \in Nat \ {0} /\ Len(gs) = Len(fs) - 1
      /\ \A i \in 1..(Len(fs) - 1) : gs[i] = fs[i]
  BY FrontProperties DEF Inductive, FrameType
<1>2. FrameType(gs)
  <2>1. DOMAIN gs = 1..(Len(fs) - 1) /\ DOMAIN fs = 1..Len(fs)
    BY <1>1
  <2> HIDE DEF gs
  <2> QED
    BY <1>1, <2>1 DEF FrameType, Inductive
<1>3. \A p : Cardinality(CallsOn(fs, p)) =
              Cardinality(CallsOn(gs, p)) + (IF o = p THEN 1 ELSE 0)
  BY <1>1, CallsPopped
<1>4. \A p : Cardinality(CallsOn(fs, p)) \in Nat /\ Cardinality(CallsOn(gs, p)) \in Nat
  BY <1>1, CallsFinite
<1> HIDE DEF gs, f
<1>5. CASE o = NoObject
  <2>1. \A p \in Objects : Cardinality(CallsOn(gs, p)) = Cardinality(CallsOn(fs, p))
    BY <1>3, <1>4, <1>5, PlaceAssumption
  <2>2. Inductive(h, vs, gs)
    BY <1>2, <2>1 DEF Inductive, BalancedIn
  <2> QED
    BY <1>5, <2>2 DEF f, gs
<1>6. CASE o # NoObject
  <2> DEFINE g == Decref(h, o)
             x == h.object[o]
             n == Cardinality(CallsOn(gs, o))
  <2>1. o \in Objects
    BY <1>1, <1>6 DEF Frame
  <2>2. SoundHeap(h) /\ SoundHeap(g) /\ h \in HeapType
    BY <2>1, DecrefSound DEF Inductive, SoundHeap
  <2>3. /\ \A p \in Objects : p # o => g.object[p] = h.object[p]
        /\ x.refs > 1 => g.object[o] = [x EXCEPT !.refs = @ - 1]
        /\ ~(x.refs > 1) => g.object[o] = Free
    BY <2>1, <2>2, DecrefHeap
  <2>4. \A p \in Objects : p # o => Cardinality(CallsOn(gs, p)) = Cardinality(CallsOn(fs, p))
    BY <1>3, <1>4
  <2>5. x.refs = Owed(x, n + 1) /\ n \in Nat
    BY <1>3, <1>4, <2>1 DEF Inductive, BalancedIn
  <2>6. x \in Filter /\ x.refs \in Nat /\ x.pins \in Nat /\ x.named \in BOOLEAN
    BY <2>1, <2>2, Members1
  <2> HIDE DEF g, n
  <2>7. /\ g.object[o].refs = Owed(g.object[o], n)
        /\ x.pins > 0 => g.object[o].pins = x.pins /\ g.object[o].data = x.data
    <3>1. CASE x.refs > 1
      <4>1. /\ g.object[o].refs = x.refs - 1 /\ g.object[o].pins = x.pins
            /\ g.object[o].named = x.named /\ g.object[o].data = x.data
        BY <2>3, <2>6, <3>1 DEF Filter
      <4> QED
        BY <2>5, <2>6, <4>1 DEF Owed
    <3>2. CASE ~(x.refs > 1)
      <4>1. x.pins = 0 /\ n = 0
        BY <2>5, <2>6, <3>2 DEF Owed
      <4>2. g.object[o] = Free
        BY <2>3, <3>2
      <4> QED
        BY <4>1, <4>2 DEF Owed, Free, Made
    <3> QED
      BY <3>1, <3>2
  <2>8. vs \in SUBSET View
    BY DEF Inductive
  <2>9. \A w \in vs : ~w.stale =>
           IF w.self = o THEN g.object[o].pins > 0 /\ g.object[o].data = w.data ELSE w \in vs
    BY <2>7 DEF Inductive, Pinning
  <2> HIDE DEF x
  <2>10. Inductive(g, vs, gs)
    BY <1>2, <2>1, <2>2, <2>3, <2>4, <2>7, <2>8, <2>9, Changed DEF n
  <2> QED
    BY <1>6, <2>10 DEF f, g, gs
<1> QED
  BY <1>5, <1>6

\* A filter is initialised, by __init__ or by restore: it has its references, and the
\* views of it are stale.
LEMMA InitialisedKeeps ==
    ASSUME NEW h, NEW vs, NEW fs, Inductive(h, vs, fs),
           NEW o \in Objects, h.object[o].refs > 0,
           NEW layout \in Layout3, Valid(layout),
           NEW b \in Bitmaps, h.bytearray[b] = 0,
           NEW ws \in SUBSET View,
           \A w \in ws : ~w.stale => w \in vs /\ w.self # o
    PROVE  Inductive(Initialised(h, o, layout, b), ws, fs)
<1> DEFINE g == Initialised(h, o, layout, b)
           x == h.object[o]
<1>1. SoundHeap(h) /\ SoundHeap(g) /\ h \in HeapType
  BY InitialisedSound DEF Inductive, SoundHeap
<1>2. /\ \A p \in Objects : p # o => g.object[p] = h.object[p]
      /\ g.object[o] = Members(x, layout, b)
  BY <1>1, ValidSizes, InitialisedHeap
<1> HIDE DEF g
<1>3. /\ g.object[o].refs = x.refs /\ g.object[o].pins = x.pins
      /\ g.object[o].named = x.named
  BY <1>2 DEF Members
<1>4. g.object[o].refs = Owed(g.object[o], Cardinality(CallsOn(fs, o)))
  BY <1>3 DEF Inductive, BalancedIn, Owed
<1>5. FrameType(fs)
  BY DEF Inductive
<1> HIDE DEF x
<1>6. Inductive(g, ws, fs)
  BY <1>1, <1>2, <1>4, <1>5, Changed
<1> QED
  BY <1>6 DEF g
-----------------------------------------------------------------------------
(***************************************************************************)
(* The steps.                                                              *)
(***************************************************************************)
\* What a step leaves behind is the heap it computed.
LEMMA Arrive ==
    ASSUME NEW g, NEW vs, NEW fs, Inductive(g, vs, fs),
           Becomes(g), views' = vs, frames' = fs
    PROVE  IInv'
<1>1. g \in HeapType
  BY DEF Inductive, SoundHeap
<1>2. Heap' = g
  BY <1>1 DEF HeapType, Heap, Becomes
<1> QED
  BY <1>2 DEF IInv

LEMMA Here ==
    ASSUME IInv
    PROVE  /\ Inductive(Heap, views, frames) /\ SoundHeap(Heap) /\ Heap \in HeapType
           /\ Heap.object = object /\ Heap.bytearray = bytearray
           /\ object \in [Objects -> Filter] /\ bytearray \in [Bitmaps -> Nat]
           /\ views \in SUBSET View /\ FrameType(frames) /\ frames \in Seq(Frame)
           /\ \A o \in Objects :
                 /\ object[o].refs = Owed(object[o], Cardinality(CallsOn(frames, o)))
                 /\ Cardinality(CallsOn(frames, o)) \in Nat
                 /\ object[o].refs \in Nat /\ object[o].pins \in Nat
                 /\ object[o].named \in BOOLEAN
<1>1. /\ Inductive(Heap, views, frames) /\ SoundHeap(Heap) /\ Heap \in HeapType
      /\ Heap.object = object /\ Heap.bytearray = bytearray
      /\ object \in [Objects -> Filter] /\ bytearray \in [Bitmaps -> Nat]
      /\ views \in SUBSET View /\ FrameType(frames) /\ frames \in Seq(Frame)
  BY DEF IInv, Inductive, SoundHeap, HeapType, Heap, FrameType
<1>2. ASSUME NEW o \in Objects
      PROVE  /\ object[o].refs = Owed(object[o], Cardinality(CallsOn(frames, o)))
             /\ Cardinality(CallsOn(frames, o)) \in Nat
             /\ object[o].refs \in Nat /\ object[o].pins \in Nat
             /\ object[o].named \in BOOLEAN
  BY <1>1, CallsFinite DEF Inductive, BalancedIn, Filter
<1> QED
  BY <1>1, <1>2

\* A name is a reference.
LEMMA NamedHasRefs ==
    ASSUME IInv, NEW o \in Objects, object[o].named
    PROVE  object[o].refs > 0
<1> DEFINE n == Cardinality(CallsOn(frames, o))
<1>1. n \in Nat /\ object[o].pins \in Nat /\ object[o].refs = Owed(object[o], n)
  BY Here
<1>2. object[o].refs = 1 + object[o].pins + n
  BY <1>1 DEF Owed
<1> HIDE DEF n
<1> QED
  BY <1>1, <1>2

\* A step on one filter that leaves the stack alone.
LEMMA ChangedHere ==
    ASSUME IInv, NEW g, SoundHeap(g), NEW o \in Objects,
           \A p \in Objects : p # o => g.object[p] = object[p],
           g.object[o].refs = Owed(g.object[o], Cardinality(CallsOn(frames, o))),
           NEW ws \in SUBSET View,
           \A w \in ws : ~w.stale =>
               IF w.self = o THEN g.object[o].pins > 0 /\ g.object[o].data = w.data
               ELSE w \in views
    PROVE  Inductive(g, ws, frames)
<1>1. Inductive(Heap, views, frames) /\ FrameType(frames) /\ Heap.object = object
  BY Here
<1>2. \A p \in Objects : p # o => g.object[p] = Heap.object[p]
  BY <1>1
<1> QED
  BY <1>1, <1>2, Changed

LEMMA RecountHere ==
    ASSUME IInv, NEW g \in HeapType, g.bytearray = bytearray,
           \A o \in Objects :
              /\ g.object[o].layout = object[o].layout
              /\ g.object[o].size = object[o].size
              /\ g.object[o].data = object[o].data
              /\ object[o].refs > 0 => g.object[o].refs > 0
    PROVE  SoundHeap(g)
<1>1. SoundHeap(Heap) /\ Heap.object = object /\ Heap.bytearray = bytearray
  BY Here
<1> QED
  BY <1>1, RecountSound

LEMMA SameKeeps ==
    ASSUME IInv, UNCHANGED <<object, bytearray, views, frames>>
    PROVE  IInv'
<1>1. Inductive(Heap, views, frames)
  BY DEF IInv
<1> QED
  BY <1>1, Arrive DEF Becomes, Heap

\* Room becomes an object with a name.
LEMMA MadeKeeps ==
    ASSUME IInv, NEW o \in Objects, object[o] = Free
    PROVE  Inductive([Heap EXCEPT !.object[o] = Made(1, TRUE)], views, frames)
<1> DEFINE g == [Heap EXCEPT !.object[o] = Made(1, TRUE)]
           x == Made(1, TRUE)
           n == Cardinality(CallsOn(frames, o))
<1>1. x \in Filter
  BY DEF Made, Filter, NoLayout
<1>2. /\ g \in HeapType /\ g.bytearray = bytearray
      /\ \A p \in Objects : p # o => g.object[p] = object[p]
      /\ g.object[o] = x
  <2> HIDE DEF x
  <2> QED
    BY <1>1, Here DEF HeapType, x
<1> HIDE DEF g
<1>3. SoundHeap(g)
  <2>1. \A p \in Objects :
           /\ g.object[p].layout = object[p].layout
           /\ g.object[p].size = object[p].size
           /\ g.object[p].data = object[p].data
           /\ object[p].refs > 0 => g.object[p].refs > 0
    BY <1>2 DEF Made, Free
  <2> QED
    BY <1>2, <2>1, RecountHere
<1>4. n = 0 /\ object[o].pins = 0
  BY Here DEF Free, Made, Owed
<1>5. g.object[o].refs = Owed(g.object[o], n)
  BY <1>2, <1>4 DEF Made, Owed
<1>6. \A w \in views : ~w.stale => w.self # o
  BY <1>4, Here DEF Inductive, Pinning
<1>7. views \in SUBSET View
  BY Here
<1> HIDE DEF x
<1>8. Inductive(g, views, frames)
  BY <1>2, <1>3, <1>5, <1>6, <1>7, ChangedHere DEF n
<1> QED
  BY <1>8 DEF g

LEMMA NewKeeps ==
    ASSUME IInv, NEW o \in Objects, New(o)
    PROVE  IInv'
<1> DEFINE g == [Heap EXCEPT !.object[o] = Made(1, TRUE)]
<1>1. /\ object[o] = Free
      /\ object' = [object EXCEPT ![o] = Made(1, TRUE)]
      /\ UNCHANGED <<bytearray, views, frames>>
  BY DEF New
<1>2. Inductive(g, views, frames)
  BY <1>1, MadeKeeps
<1>3. Becomes(g)
  BY <1>1 DEF Becomes, Heap
<1> QED
  BY <1>1, <1>2, <1>3, Arrive

LEMMA DelKeeps ==
    ASSUME IInv, NEW o \in Objects, Del(o)
    PROVE  IInv'
<1> DEFINE m == [Heap EXCEPT !.object[o].named = FALSE]
           g == Decref(m, o)
           x == object[o]
           n == Cardinality(CallsOn(frames, o))
<1>1. x.named /\ Becomes(g) /\ UNCHANGED <<views, frames>>
  BY DEF Del
<1>2. /\ x \in Filter /\ x.refs = Owed(x, n) /\ n \in Nat
      /\ x.refs \in Nat /\ x.pins \in Nat /\ x.refs > 0
  BY <1>1, Here, NamedHasRefs
<1>3. /\ m \in HeapType /\ m.bytearray = bytearray
      /\ \A p \in Objects : p # o => m.object[p] = object[p]
      /\ m.object[o] = [x EXCEPT !.named = FALSE]
  <2>1. [x EXCEPT !.named = FALSE] \in Filter
    BY <1>2 DEF Filter
  <2> QED
    BY <2>1, Here DEF HeapType
<1>4. /\ m.object[o].refs = x.refs /\ m.object[o].pins = x.pins
      /\ m.object[o].named = FALSE /\ m.object[o].layout = x.layout
      /\ m.object[o].size = x.size /\ m.object[o].data = x.data
      /\ m.object[o] \in Filter
  BY <1>2, <1>3, ZenonT(60) DEF Filter, HeapType
<1> HIDE DEF m
<1>5. SoundHeap(m)
  <2>1. \A p \in Objects :
           /\ m.object[p].layout = object[p].layout
           /\ m.object[p].size = object[p].size
           /\ m.object[p].data = object[p].data
           /\ object[p].refs > 0 => m.object[p].refs > 0
    BY <1>3, <1>4
  <2> QED
    BY <1>3, <2>1, RecountHere
<1>6. SoundHeap(g)
  BY <1>5, DecrefSound
<1>7. /\ \A p \in Objects : p # o => g.object[p] = object[p]
      /\ x.refs > 1 => g.object[o] = [m.object[o] EXCEPT !.refs = @ - 1]
      /\ ~(x.refs > 1) => g.object[o] = Free
  <2>1. LET y == m.object[o]
        IN  /\ \A p \in Objects : p # o => g.object[p] = m.object[p]
            /\ y.refs > 1 => g.object[o] = [y EXCEPT !.refs = @ - 1]
            /\ ~(y.refs > 1) => g.object[o] = Free
    BY <1>3, DecrefHeap, ZenonT(60)
  <2> HIDE DEF g, x
  <2> QED
    BY <1>3, <1>4, <2>1
<1> HIDE DEF g
<1>8. /\ g.object[o].refs = Owed(g.object[o], n)
      /\ x.pins > 0 => g.object[o].pins = x.pins /\ g.object[o].data = x.data
  <2>1. CASE x.refs > 1
    <3>1. /\ g.object[o].refs = x.refs - 1 /\ g.object[o].pins = x.pins
          /\ g.object[o].named = FALSE /\ g.object[o].data = x.data
      BY <1>4, <1>7, <2>1 DEF Filter
    <3> QED
      BY <1>1, <1>2, <3>1 DEF Owed
  <2>2. CASE ~(x.refs > 1)
    <3>1. x.pins = 0 /\ n = 0
      BY <1>1, <1>2, <2>2 DEF Owed
    <3>2. g.object[o] = Free
      BY <1>7, <2>2
    <3> QED
      BY <3>1, <3>2 DEF Owed, Free, Made
  <2> QED
    BY <2>1, <2>2
<1>9. \A w \in views : ~w.stale =>
         IF w.self = o THEN g.object[o].pins > 0 /\ g.object[o].data = w.data
         ELSE w \in views
  BY <1>8, Here DEF Inductive, Pinning
<1>10. views \in SUBSET View
  BY Here
<1>11. Inductive(g, views, frames)
  BY <1>6, <1>7, <1>8, <1>9, <1>10, ChangedHere DEF n
<1> QED
  BY <1>1, <1>11, Arrive DEF g

\* A call begins that will wait for code of the program.
LEMMA PushKeeps ==
    ASSUME IInv, NEW call, NEW o, NEW layout, Push(call, o, layout),
           [call |-> call, self |-> o, layout |-> layout] \in Frame,
           call = "init" => Valid(layout),
           o # NoObject => o \in Objects /\ object[o].refs > 0
    PROVE  IInv'
<1> DEFINE f == [call |-> call, self |-> o, layout |-> layout]
           gs == Append(frames, f)
<1>1. /\ frames' = gs /\ views' = views /\ bytearray' = bytearray
      /\ object' = IF o = NoObject THEN object ELSE [object EXCEPT ![o].refs = @ + 1]
  BY DEF Push
<1>2. frames \in Seq(Frame) /\ f \in Frame /\ f.self = o
  BY Here
<1>3. FrameType(gs)
  <2>1. /\ gs \in Seq(Frame) /\ Len(gs) = Len(frames) + 1 /\ Len(frames) \in Nat
        /\ \A i \in 1..Len(frames) : gs[i] = frames[i]
        /\ gs[Len(frames) + 1] = f
    BY <1>2, AppendProperties
  <2>2. f.call = "init" => Valid(f.layout)
    OBVIOUS
  <2>3. FrameType(frames) /\ DOMAIN frames = 1..Len(frames)
    BY <1>2, Here
  <2>4. DOMAIN gs = 1..(Len(frames) + 1)
    BY <2>1
  <2> HIDE DEF gs, f
  <2> QED
    BY <2>1, <2>2, <2>3, <2>4 DEF FrameType
<1>4. \A p : Cardinality(CallsOn(gs, p)) =
               Cardinality(CallsOn(frames, p)) + (IF o = p THEN 1 ELSE 0)
  BY <1>2, CallsPushed
<1>5. \A p : Cardinality(CallsOn(frames, p)) \in Nat
  BY <1>2, CallsFinite
<1> HIDE DEF gs, f
<1>6. CASE o = NoObject
  <2>1. \A p \in Objects : Cardinality(CallsOn(gs, p)) = Cardinality(CallsOn(frames, p))
    BY <1>4, <1>5, <1>6, PlaceAssumption
  <2>2. Inductive(Heap, views, gs)
    BY <1>3, <2>1 DEF IInv, Inductive, BalancedIn
  <2>3. Becomes(Heap)
    BY <1>1, <1>6 DEF Becomes, Heap
  <2> QED
    BY <1>1, <2>2, <2>3, Arrive
<1>7. CASE o # NoObject
  <2> DEFINE x == object[o]
             y == [x EXCEPT !.refs = @ + 1]
             g == [object |-> [object EXCEPT ![o] = y], bytearray |-> bytearray]
             n == Cardinality(CallsOn(frames, o))
  <2>0. o \in Objects /\ x.refs > 0
    BY <1>7
  <2>1. /\ x \in Filter /\ x.refs \in Nat /\ x.refs = Owed(x, n) /\ n \in Nat
        /\ x.pins \in Nat
    BY <2>0, Here
  <2>2. /\ y \in Filter /\ y.refs = x.refs + 1 /\ y.pins = x.pins /\ y.named = x.named
        /\ y.layout = x.layout /\ y.size = x.size /\ y.data = x.data
    BY <2>1 DEF Filter
  <2>3. object' = [object EXCEPT ![o] = y]
    BY <1>1, <1>7
  <2> HIDE DEF y
  <2>4. /\ g \in HeapType /\ g.bytearray = bytearray /\ g.object[o] = y
        /\ \A p \in Objects : p # o => g.object[p] = object[p]
    BY <2>0, <2>2, Here DEF HeapType
  <2>5. Becomes(g)
    BY <1>1, <2>3 DEF Becomes
  <2> HIDE DEF g, x
  <2>6. SoundHeap(g)
    <3>1. \A p \in Objects :
             /\ g.object[p].layout = object[p].layout
             /\ g.object[p].size = object[p].size
             /\ g.object[p].data = object[p].data
             /\ object[p].refs > 0 => g.object[p].refs > 0
      BY <2>0, <2>1, <2>2, <2>4 DEF x
    <3> QED
      BY <2>4, <3>1, RecountHere
  <2>7. g.object[o].refs = Owed(g.object[o], Cardinality(CallsOn(gs, o)))
    <3>1. Cardinality(CallsOn(gs, o)) = n + 1
      BY <1>4
    <3> HIDE DEF n
    <3> QED
      BY <2>1, <2>2, <2>4, <3>1 DEF Owed
  <2>8. \A p \in Objects : p # o =>
           Cardinality(CallsOn(gs, p)) = Cardinality(CallsOn(frames, p))
    BY <1>4, <1>5
  <2>9. \A w \in views : ~w.stale =>
           IF w.self = o THEN g.object[o].pins > 0 /\ g.object[o].data = w.data
           ELSE w \in views
    BY <2>2, <2>4, Here DEF Inductive, Pinning, x
  <2>10. /\ Inductive(Heap, views, frames) /\ views \in SUBSET View
         /\ \A p \in Objects : p # o => g.object[p] = Heap.object[p]
    BY <2>4, Here
  <2>11. Inductive(g, views, gs)
    BY <1>3, <2>0, <2>6, <2>7, <2>8, <2>9, <2>10, Changed
  <2> QED
    BY <1>1, <2>5, <2>11, Arrive
<1> QED
  BY <1>6, <1>7

\* A call ends with the heap it computed.
LEMMA PopKeeps ==
    ASSUME NEW g, NEW r, NEW vs, frames # <<>>,
           Inductive(g, vs, frames), Pop(g, r), views' = vs
    PROVE  IInv'
<1> DEFINE h == IF Top.self = NoObject THEN g ELSE Decref(g, Top.self)
<1>1. Inductive(h, vs, Front(frames))
  BY Popped DEF Top
<1>2. Becomes(h) /\ frames' = Front(frames)
  BY DEF Pop
<1> HIDE DEF h
<1> QED
  BY <1>1, <1>2, Arrive

LEMMA TopType ==
    ASSUME IInv, frames # <<>>
    PROVE  /\ Top \in Frame /\ Top.layout \in Layout3
           /\ Top.call = "init" => Valid(Top.layout) /\ Top.self \in Objects
           /\ Top.call = "key" => Top.self \in Objects
           /\ Top.call = "restore" => Top.self = NoObject
           /\ Top.self \in Objects => object[Top.self].refs > 0
<1>1. /\ Top \in Frame /\ Top = frames[Len(frames)]
      /\ Len(frames) \in DOMAIN frames
  BY Here, FrontProperties DEF Top
<1>2. Top.call = "init" => Valid(Top.layout)
  BY <1>1, Here DEF FrameType
<1>3. ASSUME Top.self \in Objects
      PROVE  object[Top.self].refs > 0
  <2> DEFINE o == Top.self
             n == Cardinality(CallsOn(frames, o))
             k == Cardinality(CallsOn(Front(frames), o))
  <2>1. n = k + 1
    BY Here, CallsPopped DEF Top
  <2>2. k \in Nat
    BY Here, FrontProperties, CallsFinite
  <2>3. object[o].refs = Owed(object[o], n) /\ object[o].pins \in Nat
    BY <1>3, Here
  <2> HIDE DEF n, k
  <2> QED
    BY <2>1, <2>2, <2>3 DEF Owed
<1> QED
  BY <1>1, <1>2, <1>3 DEF Frame, Layout3

LEMMA RaiseKeeps ==
    ASSUME IInv, frames # <<>>, PopRaise
    PROVE  IInv'
<1>1. Inductive(Heap, views, frames)
  BY DEF IInv
<1>2. Pop(Heap, "raised") /\ views' = views
  BY DEF PopRaise, OnError
<1> QED
  BY <1>1, <1>2, PopKeeps

\* __init__ makes the views of its filter stale, and no other.
LEMMA StaleViews ==
    ASSUME IInv, NEW o \in Objects
    PROVE  /\ Stale(o) \in SUBSET View
           /\ \A w \in Stale(o) : ~w.stale => w \in views /\ w.self # o
<1>1. views \in SUBSET View
  BY Here
<1>2. ASSUME NEW v \in views
      PROVE  LET w == IF v.self = o THEN [v EXCEPT !.stale = TRUE] ELSE v
             IN  w \in View /\ (~w.stale => w \in views /\ w.self # o)
  <2>1. v \in View
    BY <1>1, <1>2
  <2>2. [v EXCEPT !.stale = TRUE] \in View /\ [v EXCEPT !.stale = TRUE].stale
    BY <2>1 DEF View
  <2> QED
    BY <1>2, <2>1, <2>2
<1> QED
  BY <1>2 DEF Stale

\* What __init__ leaves, before the call returns.
LEMMA InitialisedHere ==
    ASSUME IInv, NEW o \in Objects, object[o].refs > 0,
           NEW layout \in Layout3, Valid(layout), NEW b \in Fresh
    PROVE  Inductive(Initialised(Heap, o, layout, b), Stale(o), frames)
<1>1. /\ Inductive(Heap, views, frames)
      /\ Heap.object = object /\ Heap.bytearray = bytearray
  BY Here
<1>2. /\ Stale(o) \in SUBSET View
      /\ \A w \in Stale(o) : ~w.stale => w \in views /\ w.self # o
  BY StaleViews
<1>3. b \in Bitmaps /\ Heap.bytearray[b] = 0 /\ Heap.object[o].refs > 0
  BY <1>1 DEF Fresh
<1> QED
  BY <1>1, <1>2, <1>3, InitialisedKeeps

LEMMA InitZeroedKeeps ==
    ASSUME IInv, NEW o \in Objects, NEW layout \in Layouts, InitZeroed(o, layout)
    PROVE  IInv'
<1>0. object[o].named /\ layout \in Layout3
  BY PyAssumption DEF InitZeroed, Layout3
<1>1. CASE Return("raised") \/ Undefined("shift", layout[2])
  BY <1>1, SameKeeps DEF Return, Undefined
<1>2. CASE ~(Return("raised") \/ Undefined("shift", layout[2]))
  <2>1. /\ Valid(layout) /\ views' = Stale(o) /\ frames' = frames
        /\ \E b \in Fresh : Becomes(Initialised(Heap, o, layout, b))
    BY <1>2 DEF InitZeroed
  <2>2. PICK b \in Fresh : Becomes(Initialised(Heap, o, layout, b))
    BY <2>1
  <2>3. Inductive(Initialised(Heap, o, layout, b), Stale(o), frames)
    BY <1>0, <2>1, NamedHasRefs, InitialisedHere
  <2> QED
    BY <2>1, <2>2, <2>3, Arrive
<1> QED
  BY <1>1, <1>2

LEMMA InitFromKeeps ==
    ASSUME IInv, NEW o \in Objects, NEW layout \in Layouts, InitFrom(o, layout)
    PROVE  IInv'
<1>0. object[o].named /\ layout \in Layout3 /\ object[o].refs > 0
  BY PyAssumption, NamedHasRefs DEF InitFrom, Layout3
<1>1. CASE Valid(layout) /\ Push("init", o, layout)
  <2>1. Push("init", o, layout)
    BY <1>1
  <2>2. [call |-> "init", self |-> o, layout |-> layout] \in Frame
    BY <1>0 DEF Frame, Layout3
  <2> QED
    BY <1>0, <1>1, <2>1, <2>2, PushKeeps
<1>2. CASE Return("raised") \/ Undefined("shift", layout[2])
  BY <1>2, SameKeeps DEF Return, Undefined
<1> QED
  BY <1>1, <1>2 DEF InitFrom

LEMMA FinishInitKeeps ==
    ASSUME IInv, FinishInit
    PROVE  IInv'
<1>0. frames # <<>> /\ Top.call = "init"
  BY DEF FinishInit, Running
<1>1. CASE PopRaise
  BY <1>0, <1>1, RaiseKeeps
<1>2. CASE ~PopRaise
  <2>1. PICK b \in Fresh : /\ Pop(Initialised(Heap, Top.self, Top.layout, b), "done")
                           /\ views' = Stale(Top.self)
    BY <1>2 DEF FinishInit
  <2>2. /\ Top.layout \in Layout3 /\ Valid(Top.layout) /\ Top.self \in Objects
        /\ object[Top.self].refs > 0
    BY <1>0, TopType
  <2>3. Inductive(Initialised(Heap, Top.self, Top.layout, b), Stale(Top.self), frames)
    BY <2>2, InitialisedHere
  <2> QED
    BY <1>0, <2>1, <2>3, PopKeeps
<1> QED
  BY <1>1, <1>2

LEMMA RestoreKeeps ==
    ASSUME IInv, NEW layout \in Layouts, Restore(layout[1], layout[2])
    PROVE  IInv'
<1>1. Push("restore", NoObject, <<layout[1], layout[2], 0>>)
  BY DEF Restore
<1>2. [call |-> "restore", self |-> NoObject, layout |-> <<layout[1], layout[2], 0>>] \in Frame
  BY PyAssumption DEF Frame
<1> QED
  BY <1>1, <1>2, PushKeeps

\* A page number is a number whenever the page has bytes.
LEMMA PageNumType ==
    ASSUME NEW size \in Nat, NEW level \in Nat, level <= 31
    PROVE  PageNum(size, level) \in Nat
<1>1. level \in 0..31
  OBVIOUS
<1>2. PageSize(level) \in Nat \ {0}
  BY <1>1, PageSizes
<1>3. size \div PageSize(level) \in Nat
  BY <1>2
<1> QED
  BY <1>3, PyAssumption DEF PageNum

LEMMA SourceType ==
    ASSUME IInv
    PROVE  SourceSizes \subseteq Nat
<1>1. views \subseteq View /\ bytearray \in [Bitmaps -> Nat]
  BY Here
<1> QED
  BY <1>1, PyAssumption DEF SourceSizes, View

LEMMA FinishRestoreKeeps ==
    ASSUME IInv, FinishRestore
    PROVE  IInv'
<1>0. frames # <<>> /\ Top.call = "restore"
  BY DEF FinishRestore, Running
<1>1. CASE PopRaise
  BY <1>0, <1>1, RaiseKeeps
<1>2. CASE ~PopRaise
  <2> DEFINE level == Top.layout[2]
             layout(size) == <<Top.layout[1], level, PageNum(size, level)>>
             new(o) == [Heap EXCEPT !.object[o] = Made(1, TRUE)]
  <2>1. PICK size \in SourceSizes, o \in Objects, b \in Fresh :
           /\ PageBuffer(size, level) /\ Valid(layout(size)) /\ object[o] = Free
           /\ Pop(Initialised(new(o), o, layout(size), b), "done")
           /\ views' = views
    BY <1>2 DEF FinishRestore
  <2>2. layout(size) \in Layout3
    <3>1. Top.layout[1] \in Nat /\ level \in Nat /\ level <= 31 /\ size \in Nat
      BY <1>0, <2>1, TopType, SourceType DEF Layout3, PageBuffer
    <3> QED
      BY <3>1, PageNumType DEF Layout3
  <2>3. Inductive(new(o), views, frames)
    BY <2>1, MadeKeeps
  <2>4. new(o).object[o].refs > 0 /\ new(o).bytearray[b] = 0 /\ b \in Bitmaps
    <3>1. new(o).object[o] = Made(1, TRUE) /\ new(o).bytearray = bytearray
      BY Here DEF HeapType
    <3> QED
      BY <3>1 DEF Made, Fresh
  <2>5. views \in SUBSET View /\ \A w \in views : ~w.stale => w \in views /\ w.self # o
    BY <2>1, Here DEF Inductive, Pinning, Free, Made
  <2> DEFINE g == Initialised(new(o), o, layout(size), b)
  <2> HIDE DEF new, layout
  <2>6. Inductive(g, views, frames)
    BY <2>1, <2>2, <2>3, <2>4, <2>5, InitialisedKeeps
  <2> QED
    BY <1>0, <2>1, <2>6, PopKeeps
<1> QED
  BY <1>1, <1>2

LEMMA UseKeyKeeps ==
    ASSUME IInv, NEW o \in Objects, UseKey(o)
    PROVE  IInv'
<1>1. Push("key", o, NoLayout) /\ object[o].refs > 0
  BY NamedHasRefs DEF UseKey
<1>2. [call |-> "key", self |-> o, layout |-> NoLayout] \in Frame
  BY DEF Frame, NoLayout
<1> QED
  BY <1>1, <1>2, PushKeeps

LEMMA FinishKeyKeeps ==
    ASSUME IInv, FinishKey
    PROVE  IInv'
<1>0. frames # <<>> /\ Inductive(Heap, views, frames)
  BY DEF FinishKey, Running, IInv
<1>1. CASE PopRaise
  BY <1>0, <1>1, RaiseKeeps
<1>2. CASE Undefined("no bitmap", Top.self)
  BY <1>2, SameKeeps DEF Undefined
<1>3. CASE Pop(Heap, "done") /\ UNCHANGED views
  BY <1>0, <1>3, PopKeeps
<1> QED
  BY <1>1, <1>2, <1>3 DEF FinishKey

\* A view pins the filter whose data it reads.
LEMMA GetDataKeeps ==
    ASSUME IInv, NEW o \in Objects, GetData(o)
    PROVE  IInv'
<1>1. CASE object[o].data = NoBitmap
  BY <1>1, SameKeeps DEF GetData, Undefined
<1>2. CASE object[o].data # NoBitmap
  <2> DEFINE x == object[o]
             z == [x EXCEPT !.refs = @ + 1]
             y == [z EXCEPT !.pins = @ + 1]
             n == Cardinality(CallsOn(frames, o))
             g == [object |-> [object EXCEPT ![o] = y], bytearray |-> bytearray]
             v == [self |-> o, data |-> x.data, stale |-> FALSE]
             ws == views'
  <2>1. /\ x \in Filter /\ x.refs \in Nat /\ x.refs = Owed(x, n) /\ n \in Nat
        /\ x.pins \in Nat
    BY Here
  <2>2. /\ y \in Filter /\ y.refs = x.refs + 1 /\ y.pins = x.pins + 1
        /\ y.named = x.named /\ y.layout = x.layout /\ y.size = x.size /\ y.data = x.data
    <3>1. /\ z \in Filter /\ z.refs = x.refs + 1 /\ z.pins = x.pins /\ z.named = x.named
          /\ z.layout = x.layout /\ z.size = x.size /\ z.data = x.data
      BY <2>1 DEF Filter
    <3> HIDE DEF z, x
    <3> QED
      BY <2>1, <3>1 DEF Filter
  <2>3. /\ object' = Pinned(o) /\ ws \in {views, views \cup {v}}
        /\ UNCHANGED <<bytearray, frames>>
    BY <1>2 DEF GetData
  <2>4. Pinned(o) = [object EXCEPT ![o] = y]
    <3>1. object \in [Objects -> Filter]
      BY Here
    <3>2. [object EXCEPT ![o].refs = @ + 1] = [object EXCEPT ![o] = z]
      OBVIOUS
    <3>3. [object EXCEPT ![o].refs = @ + 1, ![o].pins = @ + 1]
             = [[object EXCEPT ![o] = z] EXCEPT ![o].pins = @ + 1]
      BY <3>2
    <3> HIDE DEF z
    <3> QED
      BY <3>1, <3>3 DEF Pinned
  <2> HIDE DEF y, z
  <2>5. /\ g \in HeapType /\ g.bytearray = bytearray /\ g.object[o] = y
        /\ \A p \in Objects : p # o => g.object[p] = object[p]
    BY <2>2, Here DEF HeapType
  <2>6. Becomes(g)
    BY <2>3, <2>4 DEF Becomes
  <2>7. ws \in SUBSET View
    <3>1. v \in View
      BY <1>2, <2>1 DEF View, Filter
    <3> QED
      BY <2>3, <3>1, Here
  <2>8. SoundHeap(g)
    <3> HIDE DEF g
    <3>1. \A p \in Objects :
             /\ g.object[p].layout = object[p].layout
             /\ g.object[p].size = object[p].size
             /\ g.object[p].data = object[p].data
             /\ object[p].refs > 0 => g.object[p].refs > 0
      BY <2>1, <2>2, <2>5
    <3> QED
      BY <2>5, <3>1, RecountHere
  <2>9. g.object[o].refs = Owed(g.object[o], n)
    <3> HIDE DEF n, g, x
    <3> QED
      BY <2>1, <2>2, <2>5 DEF Owed
  <2>10. \A w \in ws : ~w.stale =>
            IF w.self = o THEN g.object[o].pins > 0 /\ g.object[o].data = w.data
            ELSE w \in views
    <3>1. g.object[o].pins > 0 /\ g.object[o].data = x.data
      BY <2>1, <2>2, <2>5
    <3>2. \A w \in views : ~w.stale /\ w.self = o => x.data = w.data
      BY Here DEF Inductive, Pinning
    <3> HIDE DEF g
    <3> QED
      BY <2>3, <3>1, <3>2
  <2>11. views' = ws
    OBVIOUS
  <2> HIDE DEF g, ws
  <2>12. Inductive(g, ws, frames)
    BY <2>5, <2>7, <2>8, <2>9, <2>10, ChangedHere DEF n
  <2> QED
    BY <2>3, <2>6, <2>11, <2>12, Arrive
<1> QED
  BY <1>1, <1>2

LEMMA DropViewKeeps ==
    ASSUME IInv, NEW v \in views, DropView(v)
    PROVE  IInv'
<1>1. /\ views' = views \ {v} /\ frames' = frames /\ Becomes(Heap)
  BY DEF DropView, Becomes, Heap
<1>2. Inductive(Heap, views \ {v}, frames)
  BY DEF IInv, Inductive, Pinning
<1> QED
  BY <1>1, <1>2, Arrive

\* The calls that only read leave no trace.
LEMMA ReadKeeps ==
    ASSUME IInv,
           \/ \E o \in Objects : WholeBitmap(o) \/ Capacity(o) \/ Inspect(o)
           \/ \E n \in Lengths, level \in Nat : RawCall(n, level)
    PROVE  IInv'
<1>1. UNCHANGED <<object, bytearray, views, frames>>
  BY Zenon DEF WholeBitmap, Capacity, Inspect, RawCall, Undefined, Return
<1> QED
  BY <1>1, SameKeeps

LEMMA NextKeeps ==
    ASSUME IInv, [Next]_vars
    PROVE  IInv'
<1>1. CASE UNCHANGED vars
  BY <1>1, SameKeeps DEF vars
<1>2. CASE FinishInit
  BY <1>2, FinishInitKeeps
<1>3. CASE FinishRestore
  BY <1>3, FinishRestoreKeeps
<1>4. CASE FinishKey
  BY <1>4, FinishKeyKeeps
<1>5. ASSUME NEW layout \in Layouts
      PROVE  /\ Restore(layout[1], layout[2]) => IInv'
             /\ \A o \in Objects : InitZeroed(o, layout) \/ InitFrom(o, layout) => IInv'
             /\ \A n \in Lengths : RawCall(n, layout[2]) => IInv'
  <2>1. layout[2] \in Nat
    BY <1>5, PyAssumption
  <2> QED
    BY <1>5, <2>1, RestoreKeeps, InitZeroedKeeps, InitFromKeeps, ReadKeeps, Zenon
<1>6. ASSUME NEW o \in Objects,
             \/ New(o) \/ Del(o) \/ UseKey(o) \/ GetData(o)
             \/ WholeBitmap(o) \/ Capacity(o) \/ Inspect(o)
      PROVE  IInv'
  BY <1>6, NewKeeps, DelKeeps, UseKeyKeeps, GetDataKeeps, ReadKeeps, Zenon
<1>7. ASSUME NEW v \in views, DropView(v)
      PROVE  IInv'
  BY <1>7, DropViewKeeps
<1> QED
  BY <1>1, <1>2, <1>3, <1>4, <1>5, <1>6, <1>7, Zenon DEF Next

LEMMA InitHolds ==
    ASSUME Init
    PROVE  IInv
<1>1. /\ Heap \in HeapType /\ bytearray = [b \in Bitmaps |-> 0]
      /\ object = [o \in Objects |-> Free] /\ views = {} /\ frames = <<>>
  BY FreeType DEF Init, Heap, HeapType
<1>2. Heap.object = object /\ Heap.bytearray = bytearray
  BY DEF Heap
<1>3. SoundHeap(Heap)
  BY <1>1, <1>2, PlaceAssumption DEF SoundHeap, Free, Made, Blank
<1>4. FrameType(frames) /\ frames \in Seq(Frame)
  BY <1>1 DEF FrameType
<1>5. \A o : Cardinality(CallsOn(frames, o)) = 0
  <2>1. \A o : CallsOn(frames, o) = {}
    BY <1>1 DEF CallsOn
  <2> QED
    BY <2>1, FS_EmptySet
<1>6. BalancedIn(object, frames)
  BY <1>1, <1>5 DEF BalancedIn, Owed, Free, Made
<1>7. views \subseteq View /\ Pinning(object, views)
  BY <1>1 DEF Pinning
<1> QED
  BY <1>2, <1>3, <1>4, <1>6, <1>7 DEF IInv, Inductive

LEMMA Invariance == Spec => []IInv
BY InitHolds, NextKeeps, PTL DEF Spec

-----------------------------------------------------------------------------
(***************************************************************************)
(* The properties.                                                         *)
(***************************************************************************)
\* The variables have their types, and a call of __init__ that waits for its data
\* (bind.c:217-246) has a layout that was checked before.
THEOREM Typed == Spec => []TypeOK
<1>1. IInv => TypeOK
  BY Here DEF FrameType, TypeOK
<1> QED
  BY <1>1, Invariance, PTL

\* A filter is as __new__ left it, or has a valid layout and a bitmap of exactly its
\* bytes, however calls nest (bind.c:217-275).
THEOREM FiltersConsistent == Spec => []Consistent
<1>1. IInv => Consistent
  BY Here DEF SoundHeap, Filled, Consistent, Live
<1> QED
  BY <1>1, Invariance, PTL

\* Every bytearray belongs to exactly one filter (bind.c:147-166, 238-275).
THEOREM BitmapsOwned == Spec => []Owned
<1>1. ASSUME IInv, NEW b \in Bitmaps
      PROVE  /\ bytearray[b] # 0 <=> \E o \in Objects : object[o].data = b
             /\ \A o, p \in Objects : object[o].data = b /\ object[p].data = b => o = p
  <2>1. SoundHeap(Heap) /\ Heap.object = object /\ Heap.bytearray = bytearray
    BY <1>1, Here
  <2>2. ASSUME NEW o \in Objects, object[o].data = b
        PROVE  bytearray[b] # 0
    BY <2>1, <2>2, HeldHasBytes, PlaceAssumption
  <2> QED
    BY <2>1, <2>2 DEF SoundHeap
<1>2. IInv => Owned
  BY <1>1 DEF Owned
<1> QED
  BY <1>2, Invariance, PTL

\* Every reference to a filter is its name's, a running call's, or one taken by
\* reading data (bind.c:278-281, 395-398).
THEOREM ReferencesBalanced == Spec => []Balanced
<1>1. IInv => Balanced
  BY Here DEF Owed, Balanced
<1> QED
  BY <1>1, Invariance, PTL

\* A view that no second __init__ made stale reads the bitmap of its filter, also
\* when nothing else is left of the filter (bind.c:391-399).
THEOREM ViewsKept == Spec => []ViewsReadable
<1>1. ASSUME IInv, NEW v \in views, ~v.stale
      PROVE  Live(v.self) /\ object[v.self].data = v.data
  <2> DEFINE o == v.self
             n == Cardinality(CallsOn(frames, o))
  <2>1. o \in Objects
    BY <1>1, Here DEF View
  <2>2. object[o].pins > 0 /\ object[o].data = v.data
    BY <1>1, Here DEF Inductive, Pinning
  <2>3. /\ object[o].refs = Owed(object[o], n) /\ n \in Nat
        /\ object[o].pins \in Nat
    BY <1>1, <2>1, Here
  <2> HIDE DEF n
  <2>4. object[o].refs > 0
    BY <2>2, <2>3 DEF Owed
  <2> QED
    BY <2>2, <2>4 DEF Live
<1>2. IInv => ViewsReadable
  BY <1>1 DEF ViewsReadable
<1> QED
  BY <1>2, Invariance, PTL

\* A page number of zero, with a buffer of a page at least, takes as many pages as an
\* unsigned int cannot count.
LEMMA NoPage ==
    ASSUME NEW n \in Nat, NEW lvl \in Nat, PageBuffer(n, lvl), PageNum(n, lvl) = 0
    PROVE  n \div PageSize(lvl) >= Unsigned
<1> DEFINE bytes == PageSize(lvl)
           pages == n \div bytes
<1>1. lvl \in 0..31 /\ n >= bytes /\ Unsigned \in Nat \ {0}
  BY PyAssumption DEF PageBuffer
<1>2. bytes \in Nat \ {0}
  BY <1>1, PageSizes
<1>3. pages % Unsigned = 0
  BY DEF PageNum
<1> HIDE DEF bytes
<1>4. pages \in Nat /\ pages >= 1
  <2>1. pages \in Nat /\ n = bytes * pages + (n % bytes) /\ n % bytes < bytes
    BY <1>2
  <2> HIDE DEF pages
  <2>2. pages = 0 => bytes * pages = 0
    BY <1>2
  <2> QED
    BY <1>1, <1>2, <2>1, <2>2
<1> HIDE DEF pages
<1>5. pages < Unsigned => pages % Unsigned = pages
  BY <1>1, <1>4
<1>6. pages >= Unsigned
  BY <1>1, <1>3, <1>4, <1>5
<1> QED
  BY <1>6 DEF pages, bytes

\* What the fault of a call with no defined outcome may be: an object of __new__ alone,
\* more pages than can be counted, or a level that no filter has.
Blamed(x) ==
    \/ \E o \in Objects : /\ x \in {<<"no bitmap", o>>, <<"no way", o>>}
                          /\ object[o].refs > 0 /\ Blank(object[o])
    \/ \E n, lvl \in Nat : /\ x = <<"no page", <<n, lvl>>>>
                           /\ n \div PageSize(lvl) >= Unsigned
    \/ \E lvl \in Nat \ 2..28 : x = <<"shift", lvl>> \/ x = <<"past the page", lvl>>

\* A call has no defined outcome only on a filter that __init__ never finished, on a
\* buffer of a multiple of 2^32 pages, or at a level beyond those of every filter
\* (bind.c:59-76, 239, 462).
THEOREM OutcomesDefined == Spec => []CallsDefined
<1>1. Init => CallsDefined
  BY DEF Init, CallsDefined
<1>2. ASSUME IInv, CallsDefined, Next
      PROVE  CallsDefined'
  <2>1. fault = <<>>
    BY <1>2 DEF Next
  <2>2. SoundHeap(Heap) /\ Heap.object = object
    BY <1>2, Here
  <2>3. ASSUME NEW o \in Objects, object[o].refs > 0,
               object[o].data = NoBitmap \/ object[o].layout[1] = 0
        PROVE  Blank(object[o])
    <3>1. Filled(object[o], bytearray) => object[o].layout[1] # 0
      BY DEF Filled, Valid, ValidLayout
    <3>2. Filled(object[o], bytearray) => object[o].data # NoBitmap
      BY PlaceAssumption DEF Filled
    <3> QED
      BY <1>2, <2>2, <2>3, <3>1, <3>2, Here DEF SoundHeap
  <2>4. ASSUME NEW o \in Objects, object[o].named
        PROVE  object[o].refs > 0
    BY <1>2, <2>4, NamedHasRefs
  <2> DEFINE Good == \/ fault' = <<>>
                     \/ \E x : Blamed(x) /\ fault' = x /\ object' = object
  <2>5. CASE Good
    <3>1. CASE fault' = <<>>
      BY <3>1 DEF CallsDefined
    <3>2. CASE fault' # <<>>
      <4>1. Blamed(fault') /\ object' = object
        BY <2>5, <3>2
      <4>2. ASSUME NEW why, NEW what, fault' = <<why, what>>,
                   why \in {"no bitmap", "no way"} =>
                      object[what].refs > 0 /\ Blank(object[what]),
                   why = "no page" => what[1] \div PageSize(what[2]) >= Unsigned,
                   why \in {"shift", "past the page"} => what \notin 2..28
            PROVE  CallsDefined'
        <5>1. fault'[1] = why /\ fault'[2] = what
          BY <4>2
        <5> QED
          BY <4>1, <4>2, <5>1, Zenon DEF CallsDefined, Live, Blank
      <4>3. ASSUME NEW o \in Objects, fault' \in {<<"no bitmap", o>>, <<"no way", o>>},
                   object[o].refs > 0, Blank(object[o])
            PROVE  CallsDefined'
        BY <4>2, <4>3
      <4>4. ASSUME NEW n \in Nat, NEW lvl \in Nat, fault' = <<"no page", <<n, lvl>>>>,
                   n \div PageSize(lvl) >= Unsigned
            PROVE  CallsDefined'
        <5> DEFINE what == <<n, lvl>>
        <5>1. what[1] = n /\ what[2] = lvl
          OBVIOUS
        <5>2. what[1] \div PageSize(what[2]) >= Unsigned
          BY <4>4, <5>1
        <5>3. fault' = <<"no page", what>>
          BY <4>4
        <5> HIDE DEF what
        <5> QED
          BY <4>2, <5>2, <5>3
      <4>5. ASSUME NEW lvl \in Nat \ 2..28,
                   fault' = <<"shift", lvl>> \/ fault' = <<"past the page", lvl>>
            PROVE  CallsDefined'
        BY <4>2, <4>5
      <4> QED
        BY <4>1, <4>3, <4>4, <4>5 DEF Blamed
    <3> QED
      BY <3>1, <3>2
  <2>6. FinishInit \/ FinishRestore \/ FinishKey => Good
    <3>1. ASSUME FinishKey
          PROVE  Good
      <4>1. CASE object[Top.self].data = NoBitmap /\ Undefined("no bitmap", Top.self)
        <5>1. Top.self \in Objects /\ object[Top.self].refs > 0
          BY <1>2, <3>1, TopType DEF FinishKey, Running
        <5>2. Blamed(<<"no bitmap", Top.self>>)
          BY <2>3, <4>1, <5>1 DEF Blamed
        <5> QED
          BY <4>1, <5>2 DEF Undefined
      <4>2. CASE ~(object[Top.self].data = NoBitmap /\ Undefined("no bitmap", Top.self))
        BY <2>1, <3>1, <4>2 DEF FinishKey, PopRaise, Pop
      <4> QED
        BY <4>1, <4>2
    <3> QED
      BY <2>1, <3>1 DEF FinishInit, FinishRestore, PopRaise, Pop
  <2>7. ASSUME NEW layout \in Layouts
        PROVE  /\ Restore(layout[1], layout[2]) => Good
               /\ \A o \in Objects : InitZeroed(o, layout) \/ InitFrom(o, layout) => Good
    <3>1. ASSUME ~ShiftDefined(layout), Undefined("shift", layout[2])
          PROVE  Good
      <4>1. layout[2] \in Nat \ 2..28
        BY <3>1, PyAssumption DEF ShiftDefined
      <4>2. Blamed(<<"shift", layout[2]>>)
        BY <4>1 DEF Blamed
      <4> QED
        BY <3>1, <4>2 DEF Undefined
    <3>2. Restore(layout[1], layout[2]) => Good
      BY <2>1 DEF Restore, Push
    <3>3. ASSUME NEW o \in Objects, InitZeroed(o, layout)
          PROVE  Good
      <4>1. \/ ~ShiftDefined(layout) /\ Undefined("shift", layout[2])
            \/ UNCHANGED fault
        BY <3>3, Zenon DEF InitZeroed, Return
      <4> QED
        BY <2>1, <3>1, <4>1
    <3>4. ASSUME NEW o \in Objects, InitFrom(o, layout)
          PROVE  Good
      <4>1. \/ ~ShiftDefined(layout) /\ Undefined("shift", layout[2])
            \/ UNCHANGED fault
        BY <3>4, Zenon DEF InitFrom, Return, Push
      <4> QED
        BY <2>1, <3>1, <4>1
    <3> QED
      BY <3>2, <3>3, <3>4
  <2>8. ASSUME NEW n \in Lengths, NEW layout \in Layouts, RawCall(n, layout[2])
        PROVE  Good
    <3> DEFINE lvl == layout[2]
    <3>1. lvl \in Nat /\ n \in Nat
      BY PyAssumption
    <3> HIDE DEF lvl
    <3>2. CASE Return("raised") \/ Return("done")
      BY <2>1, <3>2 DEF Return
    <3>3. CASE PageBuffer(n, lvl) /\ PageNum(n, lvl) = 0 /\ Undefined("no page", <<n, lvl>>)
      <4>1. Blamed(<<"no page", <<n, lvl>>>>)
        BY <3>1, <3>3, NoPage DEF Blamed
      <4> QED
        BY <3>3, <4>1 DEF Undefined
    <3>4. CASE lvl > 28 /\ Undefined("shift", lvl)
      <4>1. lvl \in Nat \ 2..28
        BY <3>1, <3>4
      <4>2. Blamed(<<"shift", lvl>>)
        BY <4>1, Zenon DEF Blamed
      <4> QED
        BY <3>4, <4>2 DEF Undefined
    <3>5. CASE lvl < 2 /\ Undefined("past the page", lvl)
      <4>1. lvl < 2
        BY <3>5
      <4>2. ASSUME lvl \in 2..28
            PROVE  FALSE
        BY <3>1, <4>1, <4>2
      <4>3. Blamed(<<"past the page", lvl>>)
        BY <3>1, <4>2, Zenon DEF Blamed
      <4> QED
        BY <3>5, <4>3 DEF Undefined
    <3> QED
      BY <2>8, <3>2, <3>3, <3>4, <3>5, Zenon DEF RawCall, lvl
  <2>9. ASSUME NEW o \in Objects,
               \/ New(o) \/ Del(o) \/ UseKey(o) \/ Inspect(o)
               \/ WholeBitmap(o) \/ Capacity(o) \/ GetData(o)
        PROVE  Good
    <3>1. CASE New(o) \/ Del(o) \/ UseKey(o) \/ Inspect(o)
      BY <2>1, <3>1 DEF New, Del, UseKey, Inspect, Push, Return
    <3>2. CASE WholeBitmap(o) \/ GetData(o)
      <4>1. CASE object[o].data = NoBitmap
        <5>1. Blamed(<<"no bitmap", o>>)
          BY <2>3, <2>4, <3>2, <4>1 DEF Blamed, WholeBitmap, GetData
        <5> QED
          BY <3>2, <4>1, <5>1 DEF WholeBitmap, GetData, Undefined
      <4>2. CASE object[o].data # NoBitmap
        BY <2>1, <3>2, <4>2 DEF WholeBitmap, GetData, Return
      <4> QED
        BY <4>1, <4>2
    <3>3. CASE Capacity(o)
      <4>1. CASE object[o].layout[1] = 0
        <5>1. Blamed(<<"no way", o>>)
          BY <2>3, <2>4, <3>3, <4>1 DEF Blamed, Capacity
        <5> QED
          BY <3>3, <4>1, <5>1 DEF Capacity, Undefined
      <4>2. CASE object[o].layout[1] # 0
        BY <2>1, <3>3, <4>2 DEF Capacity, Return
      <4> QED
        BY <4>1, <4>2
    <3> QED
      BY <2>9, <3>1, <3>2, <3>3
  <2>10. \A v \in views : DropView(v) => Good
    BY <2>1 DEF DropView
  <2> HIDE DEF Good
  <2> QED
    BY <1>2, <2>5, <2>6, <2>7, <2>8, <2>9, <2>10, Zenon DEF Next
<1>3. CallsDefined /\ UNCHANGED vars => CallsDefined'
  BY DEF CallsDefined, vars, Live
<1> QED
  BY <1>1, <1>2, <1>3, Invariance, PTL DEF Spec

\* A call that raises leaves every filter as it was, up to the reference the call
\* gives back (bind.c:217-267) or, reading data, keeps (bind.c:394-398).
THEOREM ErrorsHarmless == Spec => ErrorsChangeNothing
<1> DEFINE Kept == \A o \in Objects :
                      object'[o] \in {Free, [object[o] EXCEPT !.refs = object'[o].refs]}
<1>1. ASSUME IInv, object' = object
      PROVE  Kept
  <2>1. \A o \in Objects : object[o] \in Filter
    BY <1>1, Here
  <2>2. \A x \in Filter : x = [x EXCEPT !.refs = x.refs]
    BY DEF Filter
  <2> QED
    BY <1>1, <2>1, <2>2
<1>2. ASSUME IInv, frames # <<>>, PopRaise
      PROVE  Kept
  <2> DEFINE g == Decref(Heap, Top.self)
  <2>1. CASE Top.self = NoObject
    <3>1. object' = object
      BY <1>2, <2>1 DEF PopRaise, Pop, OnError, Becomes, Heap
    <3> QED
      BY <1>1, <1>2, <3>1
  <2>2. CASE Top.self # NoObject
    <3>1. object' = g.object
      BY <1>2, <2>2 DEF PopRaise, Pop, OnError, Becomes
    <3>2. Top.self \in Objects
      BY <1>2, <2>2, TopType DEF Frame
    <3>3. /\ Heap \in HeapType /\ Heap.object = object
          /\ \A o \in Objects : object[o] \in Filter
      BY <1>2, Here
    <3>4. /\ \A p \in Objects : p # Top.self => g.object[p] = object[p]
          /\ \/ g.object[Top.self] = Free
             \/ g.object[Top.self] = [object[Top.self] EXCEPT !.refs = @ - 1]
      BY <3>2, <3>3, DecrefHeap
    <3> HIDE DEF g
    <3>5. \A x \in Filter : /\ x = [x EXCEPT !.refs = x.refs]
                            /\ [x EXCEPT !.refs = @ - 1].refs = x.refs - 1
      BY DEF Filter
    <3> QED
      BY <3>1, <3>2, <3>3, <3>4, <3>5
  <2> QED
    BY <2>1, <2>2
<1>3. ASSUME IInv, NEW call, NEW o, NEW layout, Push(call, o, layout)
      PROVE  Kept
  <2>1. CASE o = NoObject \/ o \notin Objects
    <3>1. \A p \in Objects : object'[p] = object[p]
      BY <1>3, <2>1, Here DEF Push
    <3>2. \A x \in Filter : x = [x EXCEPT !.refs = x.refs]
      BY DEF Filter
    <3> QED
      BY <1>3, <3>1, <3>2, Here
  <2>2. CASE o # NoObject /\ o \in Objects
    <3> DEFINE y == [object[o] EXCEPT !.refs = @ + 1]
    <3>1. \A p \in Objects : object'[p] = IF p = o THEN y ELSE object[p]
      BY <1>3, <2>2, Here DEF Push
    <3>2. \A x \in Filter : /\ x = [x EXCEPT !.refs = x.refs]
                            /\ [x EXCEPT !.refs = @ + 1].refs = x.refs + 1
      BY DEF Filter
    <3> QED
      BY <1>3, <3>1, <3>2, Here
  <2> QED
    BY <2>1, <2>2
<1> DEFINE Held == \E o \in Objects : object[o].data # NoBitmap /\ object' = Pinned(o)
<1>6. ASSUME IInv, Held
      PROVE  \A o \in Objects :
                \/ object'[o] \in {Free, [object[o] EXCEPT !.refs = object'[o].refs]}
                \/ object[o].data # NoBitmap /\ object' = Pinned(o)
  <2>1. PICK p \in Objects : object[p].data # NoBitmap /\ object' = Pinned(p)
    BY <1>6
  <2>2. ASSUME NEW o \in Objects, o # p
        PROVE  object'[o] = [object[o] EXCEPT !.refs = object'[o].refs]
    <3>1. object'[o] = object[o] /\ object[o] \in Filter
      BY <1>6, <2>1, <2>2, Here DEF Pinned
    <3>2. \A x \in Filter : x = [x EXCEPT !.refs = x.refs]
      BY DEF Filter
    <3> QED
      BY <3>1, <3>2
  <2> QED
    BY <2>1, <2>2
<1> HIDE DEF Kept, Held
<1>4. ASSUME IInv, Next
      PROVE  result' = "raised" => Kept \/ Held
  <2> DEFINE Good == result' # "raised" \/ Kept \/ Held
  <2>1. \A call, o, layout : Push(call, o, layout) => Kept
    BY <1>3, <1>4
  <2>2. FinishInit \/ FinishRestore \/ FinishKey => Good
    <3>1. ASSUME FinishInit \/ FinishRestore \/ FinishKey
          PROVE  frames # <<>>
      BY <3>1, Zenon DEF FinishInit, FinishRestore, FinishKey, Running
    <3>2. PopRaise \/ result' = "done" \/ object' = object
             \/ ~(FinishInit \/ FinishRestore \/ FinishKey)
      BY Zenon DEF FinishInit, FinishRestore, FinishKey, Pop, Undefined
    <3>3. "done" # "raised"
      BY Zenon
    <3>4. object' = object => Kept
      BY <1>1, <1>4
    <3> QED
      BY <1>2, <1>4, <3>1, <3>2, <3>3, <3>4, Zenon
  <2>3. object' = object => Kept
    BY <1>1, <1>4
  <2>4. /\ \A o \in Objects : New(o) \/ Del(o) => result' # "raised"
        /\ \A o \in Objects : GetData(o) => object' = object \/ Held
    <3>1. \A o \in Objects : New(o) \/ Del(o) => result' # "raised"
      BY Zenon DEF New, Del
    <3>2. ASSUME NEW o \in Objects, GetData(o)
          PROVE  object' = object \/ Held
      BY <3>2, Zenon DEF GetData, Undefined, Held
    <3> QED
      BY <3>1, <3>2, Zenon
  <2>5. \A o \in Objects : UseKey(o) => Kept
    BY <2>1 DEF UseKey
  <2>6. \A o \in Objects : WholeBitmap(o) \/ Capacity(o) \/ Inspect(o) => object' = object
    BY Zenon DEF WholeBitmap, Capacity, Inspect, Undefined, Return
  <2>7. \A layout \in Layouts :
           /\ Restore(layout[1], layout[2]) => Kept
           /\ \A o \in Objects : InitFrom(o, layout) => Kept \/ object' = object
           /\ \A o \in Objects : InitZeroed(o, layout) => result' = "done" \/ object' = object
           /\ \A n \in Lengths : RawCall(n, layout[2]) => object' = object
    BY <2>1, Zenon DEF Restore, InitFrom, InitZeroed, RawCall, Undefined, Return
  <2>8. \A v \in views : DropView(v) => object' = object
    BY DEF DropView
  <2>9. "done" # "raised"
    BY Zenon
  <2>10. Good
    BY <1>4, <2>2, <2>3, <2>4, <2>5, <2>6, <2>7, <2>8, <2>9, Zenon DEF Next
  <2> QED
    BY <2>10, Zenon
<1>5. IInv /\ [Next]_vars =>
         [result' = "raised" =>
             \A o \in Objects :
                \/ object'[o] \in {Free, [object[o] EXCEPT !.refs = object'[o].refs]}
                \/ object[o].data # NoBitmap /\ object' = Pinned(o)]_vars
  BY <1>4, <1>6 DEF Kept
<1> QED
  BY <1>5, Invariance, PTL DEF Spec, ErrorsChangeNothing
=============================================================================
