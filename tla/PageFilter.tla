------------------------------ MODULE PageFilter ------------------------------
(***************************************************************************)
(* The native core: filters in the variables of a C++ program, and the     *)
(* snapshots it saves and restores (include/pbf.h, src/pbf.cc,             *)
(* src/pbf-internal.h).                                                    *)
(*                                                                         *)
(* A bitmap is the set of its one-bits, numbered from the start of the     *)
(* buffer, so layouts have their real sizes and a buffer restored at       *)
(* another page level is the same bits under another reading.  A hash is   *)
(* a constant: the page word and the eight halfwords it yields for a key.  *)
(* One action is one call; ProbeLoop takes a call apart into its probes.   *)
(***************************************************************************)
EXTENDS Layout, Integers, FiniteSets

CONSTANTS
    Handles,    \* the program's variables of a filter type
    Keys,       \* the keys it sets and tests
    Hash,       \* Hash[k].page and Hash[k].s[1..8]: what the hash of k yields
    Layouts,    \* the <<way, level, num>> the program passes to constructors
    Readings,   \* the <<way, level>> it passes to restore
    Claims      \* the counts it passes to restore, besides the saved one

ASSUME HashAssumption ==
    Hash \in [Keys -> [page : Nat, s : [1..8 -> Nat]]]

ASSUME ArgumentAssumption ==
    /\ Layouts \subseteq Nat \X Nat \X Nat
    /\ Readings \subseteq Nat \X Nat
    /\ Claims \subseteq Nat

VARIABLES
    obj,        \* obj[h]: the object in variable h
    saved,      \* the last snapshot: a buffer and the metadata kept with it
    reply,      \* what the last set or test returned
    keys,       \* history: the keys obj[h] vouches for
    start       \* history: bitmap and count obj[h] was made or cleared with

vars == <<obj, saved, reply, keys, start>>

Object == [way : Nat, level : Nat, num : Nat, cnt : Nat,
           space : BOOLEAN, bits : SUBSET Nat]

\* A refused construction: m_space stays null and every member zero.
Refused == [way |-> 0, level |-> 0, num |-> 0, cnt |-> 0,
            space |-> FALSE, bits |-> {}]

DataSize(o) == o.num * PageSize(o.level)

Live(h) == obj[h].space

(***************************************************************************)
(* The bits a key is spread over: halfword i masked to the page, in the    *)
(* page its hash picks.                                                    *)
(***************************************************************************)
PageOf(k, num) == Hash[k].page % num

ProbeUnmasked(k, i, level, num) ==
    PageOf(k, num) * PageBits(level) + Hash[k].s[i]

Probe(k, i, level, num) ==
    PageOf(k, num) * PageBits(level) + (Hash[k].s[i] % PageBits(level))

Probes(k, way, level, num) == {Probe(k, i, level, num) : i \in 1..way}

ProbesOf(k, o) == Probes(k, o.way, o.level, o.num)

\* Test<N>: every probe is one.
Tested(k, o) == ProbesOf(k, o) \subseteq o.bits

\* Set<N> returns !hit: some probe was zero when it was reached.
AllNew(k, o) == ProbesOf(k, o) \cap o.bits = {}
New(k, o) == \E b \in ProbesOf(k, o) : b \notin o.bits

\* The bitmap and the count that set leaves.
LastProbeLost(k, o) == o.bits \cup Probes(k, o.way - 1, o.level, o.num)
BitsAfter(k, o) == o.bits \cup ProbesOf(k, o)
CountAlways(k, o) == o.cnt + 1
CountAfter(k, o) == IF New(k, o) THEN o.cnt + 1 ELSE o.cnt

-----------------------------------------------------------------------------
(***************************************************************************)
(* Operations.                                                             *)
(***************************************************************************)
Init ==
    /\ obj = [h \in Handles |-> Refused]
    /\ saved = [way |-> 0, level |-> 0, size |-> 0, cnt |-> 0,
                bits |-> {}, keys |-> {}]
    /\ reply = FALSE
    /\ keys = [h \in Handles |-> {}]
    /\ start = [h \in Handles |-> [bits |-> {}, cnt |-> 0]]

\* Put object o, given the bits B and vouching for the keys K, in variable h.
Install(h, o, B, K) ==
    /\ obj' = [obj EXCEPT ![h] = o]
    /\ keys' = [keys EXCEPT ![h] = K]
    /\ start' = [start EXCEPT ![h] = [bits |-> B, cnt |-> o.cnt]]

\* The constructor, and New(way, page_level, page_num) with no data.
Construct(h, way, level, num) ==
    /\ Install(h, IF ValidLayout(way, level, num)
                    THEN [way |-> way, level |-> level, num |-> num, cnt |-> 0,
                          space |-> TRUE, bits |-> {}]
                    ELSE Refused, {}, {})
    /\ UNCHANGED <<saved, reply>>

Set(h, k) ==
    /\ Live(h)
    /\ reply' = New(k, obj[h])
    /\ obj' = [obj EXCEPT ![h] = [@ EXCEPT !.bits = BitsAfter(k, obj[h]),
                                           !.cnt = CountAfter(k, obj[h])]]
    /\ keys' = [keys EXCEPT ![h] = @ \cup {k}]
    /\ UNCHANGED <<saved, start>>

Test(h, k) ==
    /\ Live(h)
    /\ reply' = Tested(k, obj[h])
    /\ UNCHANGED <<obj, saved, keys, start>>

\* set and test of a null pointer with a length: no, before any member is read.
NullKey ==
    /\ reply' = FALSE
    /\ UNCHANGED <<obj, saved, keys, start>>

\* clear also runs on an object without a buffer; then only the count moves.
Clear(h) ==
    /\ Install(h, [obj[h] EXCEPT !.cnt = 0, !.bits = {}], {}, {})
    /\ UNCHANGED <<saved, reply>>

(***************************************************************************)
(* Move construction and assignment, also the one in BloomFilterImp: the   *)
(* buffer changes owner; level, page number and count are copied and stay  *)
(* in the source.                                                          *)
(***************************************************************************)
Move(h, g) ==
    /\ h # g
    /\ obj' = [obj EXCEPT ![g] = obj[h],
                          ![h] = [obj[h] EXCEPT !.space = FALSE, !.bits = {}]]
    /\ keys' = [keys EXCEPT ![g] = keys[h], ![h] = {}]
    /\ start' = [start EXCEPT ![g] = start[h],
                              ![h] = [bits |-> {}, cnt |-> obj[h].cnt]]
    /\ UNCHANGED <<saved, reply>>

\* The caller keeps data(), data_size() and the metadata of a live filter.
Save(h) ==
    /\ Live(h)
    /\ saved' = [way |-> obj[h].way, level |-> obj[h].level,
                 size |-> DataSize(obj[h]), cnt |-> obj[h].cnt,
                 bits |-> obj[h].bits, keys |-> keys[h]]
    /\ UNCHANGED <<obj, reply, keys, start>>

\* The page number of the filter the snapshot was taken of.
SavedNum == saved.size \div PageSize(saved.level)

\* ... and that filter.
SavedObject == [way |-> saved.way, level |-> saved.level, num |-> SavedNum,
                cnt |-> saved.cnt, space |-> saved.size > 0, bits |-> saved.bits]

\* init with data: the count is taken as given, data_size() bytes are copied.
Copied(way, level, cnt) ==
    LET num == saved.size \div PageSize(level)
    IN  [way |-> way, level |-> level, num |-> num, cnt |-> cnt, space |-> TRUE,
         bits |-> {b \in saved.bits : b < num * PageBits(level)}]

\* A reading of the snapshot that finds the keys where they were put.
Compatible(way, level) == way <= saved.way /\ level = saved.level

(***************************************************************************)
(* Restore trusts the way, the level and the count it is given; it copies  *)
(* the buffer.                                                             *)
(***************************************************************************)
Restore(h, way, level, cnt) ==
    /\ IF Accepts(way, level, saved.size)
         THEN Install(h, Copied(way, level, cnt), saved.bits,
                      IF Compatible(way, level) THEN saved.keys ELSE {})
         ELSE Install(h, Refused, {}, {})
    /\ UNCHANGED <<saved, reply>>

Next ==
    \/ NullKey
    \/ \E h \in Handles :
          \/ \E l \in Layouts : Construct(h, l[1], l[2], l[3])
          \/ \E r \in Readings, c \in Claims \cup {saved.cnt} :
                Restore(h, r[1], r[2], c)
          \/ \E k \in Keys : Set(h, k) \/ Test(h, k)
          \/ \E g \in Handles : Move(h, g)
          \/ Clear(h)
          \/ Save(h)

Spec == Init /\ [][Next]_vars

-----------------------------------------------------------------------------
(***************************************************************************)
(* Properties.                                                             *)
(***************************************************************************)

\* A buffer comes with a layout the constructor accepts, whose level is 6 to 13 at
\* four ways and 7 to 13 at more, and holds only bits of that layout; without a
\* buffer there are no bits.
WellFormed(o) ==
    IF o.space
      THEN /\ o.way \in 4..8
           /\ o.level \in (IF o.way = 4 THEN 6 ELSE 7)..13
           /\ o.num > 0 /\ o.num < kMaxPageNum
           /\ o.bits \subseteq 0..(o.num * PageBits(o.level) - 1)
      ELSE o.bits = {}

Snapshot == [way : Nat, level : Nat, size : Nat, cnt : Nat,
             bits : SUBSET Nat, keys : SUBSET Keys]

\* Every object is well formed, also one that was refused or moved from.
TypeOK ==
    /\ obj \in [Handles -> Object]
    /\ \A h \in Handles : WellFormed(obj[h])
    /\ saved \in Snapshot
    /\ reply \in BOOLEAN
    /\ keys \in [Handles -> SUBSET Keys]
    /\ start \in [Handles -> [bits : SUBSET Nat, cnt : Nat]]

\* No probe of any key leaves the buffer of any live filter, whatever the page
\* word and halfwords of its hash, also in a filter restored under a way and a
\* level its snapshot never had (pbf.cc:41-43, pbf-internal.h:67-71).
ProbesInside ==
    \A h \in Handles : Live(h) =>
        \A k \in Keys : ProbesOf(k, obj[h]) \subseteq 0..(DataSize(obj[h]) * 8 - 1)

\* A key that was set, in this object, in one it was moved from or in one whose
\* snapshot it was restored from with the same level and no more ways, is never
\* reported absent, however the probes of keys coincide (pbf.cc:33-62).
NoFalseNegatives ==
    \A h \in Handles : \A k \in keys[h] : obj[h].space /\ Tested(k, obj[h])

\* The bitmap is what the object was given and the probes of the keys it vouches
\* for, nothing more and nothing less: it depends neither on the order of the
\* sets, nor on repetitions, nor on the way the buffer came here.
Canonical ==
    \A h \in Handles :
        obj[h].bits = start[h].bits \cup UNION {ProbesOf(k, obj[h]) : k \in keys[h]}

\* Since the object was made, unique_cnt grew by at least one for every `way` bits
\* that turned one and by at most one for each of them: a trusted count keeps
\* its error, it does not grow or shrink (pbf.cc:57-60, pbf.h:236-238).
CountWithin(o, since) ==
    LET counted == o.cnt - since.cnt
        turned  == Cardinality(o.bits) - Cardinality(since.bits)
    IN  counted <= turned /\ turned <= o.way * counted

CountBound == \A h \in Handles : CountWithin(obj[h], start[h])

\* What a snapshot can still promise: its size is a whole number of its own
\* pages, its bits are inside, and its keys are found by its own reading.
SnapshotSound ==
    IF saved.size = 0
      THEN saved.keys = {} /\ saved.bits = {}
      ELSE /\ WellFormed(SavedObject)
           /\ saved.size = SavedNum * PageSize(saved.level)
           /\ \A k \in saved.keys : Tested(k, SavedObject)

\* The inductive invariant: the properties above need each other and the
\* soundness of the snapshot that a later Restore reads.
IInv == TypeOK /\ SnapshotSound /\ NoFalseNegatives /\ Canonical

(***************************************************************************)
(* Filters seen through their answers are abstract Bloom filters.          *)
(***************************************************************************)
Positives(o) == {k \in Keys : o.space /\ Tested(k, o)}

Bloom == INSTANCE BloomFilter WITH
             positives <- [h \in Handles |-> Positives(obj[h])],
             saved     <- [keys |-> saved.keys, positives |-> Positives(SavedObject)]

\* Every call answers and changes the filters as the abstract filter allows,
\* and a snapshot answers as the filter it was taken of.
ImplementsBloomFilter == Bloom!BloomSpec
=============================================================================
