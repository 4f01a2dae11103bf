--------------------------- MODULE PageFilterProofs ---------------------------
(***************************************************************************)
(* Proofs about PageFilter, for every set of handles, keys and arguments   *)
(* and for every hash.                                                     *)
(***************************************************************************)
EXTENDS PageFilter, FiniteSetTheorems, TLAPS

-----------------------------------------------------------------------------
(***************************************************************************)
(* Arithmetic of layouts.                                                  *)
(***************************************************************************)

\* The page sizes of the levels a layout may have are positive, and a page has
\* eight bits to the byte.
LEMMA PageSizes ==
    \A level \in 0..13 : /\ PageSize(level) \in Nat \ {0}
                         /\ PageBits(level) \in Nat \ {0}
                         /\ PageBits(level) = PageSize(level) * 8
<1>1. \A level \in 0..13 : 2^level \in Nat \ {0}
  <2> DEFINE P == Nat \ {0}
  <2>1. /\ 2^0 \in P /\ 2^1 \in P /\ 2^2 \in P /\ 2^3 \in P /\ 2^4 \in P
        /\ 2^5 \in P /\ 2^6 \in P /\ 2^7 \in P /\ 2^8 \in P /\ 2^9 \in P
        /\ 2^10 \in P /\ 2^11 \in P /\ 2^12 \in P /\ 2^13 \in P
    OBVIOUS
  <2>2. \A level \in 0..13 :
           \/ level = 0 \/ level = 1 \/ level = 2 \/ level = 3 \/ level = 4
           \/ level = 5 \/ level = 6 \/ level = 7 \/ level = 8 \/ level = 9
           \/ level = 10 \/ level = 11 \/ level = 12 \/ level = 13
    OBVIOUS
  <2> HIDE DEF P
  <2>3. \A level \in 0..13 : 2^level \in P
    BY <2>1, <2>2, Zenon
  <2> QED
    BY <2>3 DEF P
<1> DEFINE S(level) == 2^level
<1> HIDE DEF S
<1>2. \A level \in 0..13 : S(level) \in Nat \ {0}
  BY <1>1, Zenon DEF S
<1>3. \A level \in 0..13 : S(level) \in Nat \ {0} /\ S(level) * 8 \in Nat \ {0}
  BY <1>2
<1>4. \A level : PageSize(level) = S(level) /\ PageBits(level) = S(level) * 8
  BY Zenon DEF PageSize, PageBits, S
<1> QED
  BY <1>3, <1>4, Zenon

\* The levels a valid layout may have, in plain numbers.
LEMMA ValidLevels ==
    ASSUME NEW way \in Nat, NEW level \in Nat, NEW num \in Nat,
           ValidLayout(way, level, num)
    PROVE  /\ way \in 4..8 /\ level \in 6..13 /\ num \in Nat \ {0}
           /\ level \in (IF way = 4 THEN 6 ELSE 7)..13
<1>1. way = 4 \/ way = 5 \/ way = 6 \/ way = 7 \/ way = 8
  BY DEF ValidLayout
<1>2. MinLevel(way) = IF way = 4 THEN 6 ELSE 7
  BY <1>1 DEF MinLevel
<1> QED
  BY <1>2 DEF ValidLayout

\* A probe stays in the buffer of any layout in range.
LEMMA ProbeInside ==
    ASSUME NEW k \in Keys, NEW i \in 1..8, NEW level \in 0..13,
           NEW num \in Nat \ {0}
    PROVE  Probe(k, i, level, num) \in 0..(num * PageBits(level) - 1)
<1> DEFINE b == PageBits(level)
           p == Hash[k].page % num
           x == Hash[k].s[i] % b
<1>1. b \in Nat \ {0}
  BY PageSizes
<1>2. Hash[k].page \in Nat /\ Hash[k].s[i] \in Nat
  BY HashAssumption
<1>3. p \in 0..(num - 1) /\ x \in 0..(b - 1)
  BY <1>1, <1>2
<1>4. p * b + x \in 0..(num * b - 1)
  <2> HIDE DEF b, p, x
  <2>1. p * b <= (num - 1) * b
    BY <1>1, <1>3
  <2>2. (num - 1) * b = num * b - b
    BY <1>1
  <2>3. p * b \in Nat /\ num * b \in Nat
    BY <1>1, <1>3
  <2> QED
    BY <1>1, <1>3, <2>1, <2>2, <2>3
<1> QED
  BY <1>4 DEF Probe, PageOf

\* All the probes of a key stay in the buffer, and are numbers.
LEMMA ProbesInRange ==
    ASSUME NEW k \in Keys, NEW way \in 0..8, NEW level \in 0..13,
           NEW num \in Nat \ {0}
    PROVE  /\ Probes(k, way, level, num) \subseteq 0..(num * PageBits(level) - 1)
           /\ Probes(k, way, level, num) \subseteq Nat
<1>1. ASSUME NEW i \in 1..way
      PROVE  Probe(k, i, level, num) \in 0..(num * PageBits(level) - 1)
  <2>1. i \in 1..8
    OBVIOUS
  <2> QED
    BY <2>1, ProbeInside
<1>2. PageBits(level) \in Nat
  BY PageSizes
<1> QED
  BY <1>1, <1>2 DEF Probes

\* Fewer ways look at fewer probes.
LEMMA FewerWays ==
    ASSUME NEW k \in Keys, NEW way \in Nat, NEW more \in Nat, way <= more,
           NEW level \in Nat, NEW num \in Nat
    PROVE  Probes(k, way, level, num) \subseteq Probes(k, more, level, num)
BY DEF Probes

\* An accepted size is a whole number of pages, whose bits are the bitmap's.
LEMMA AcceptedSizes ==
    ASSUME NEW way \in Nat, NEW level \in Nat, NEW size \in Nat,
           Accepts(way, level, size)
    PROVE  LET num == size \div PageSize(level)
           IN  /\ num \in Nat \ {0}
               /\ ValidLayout(way, level, num)
               /\ num * PageSize(level) = size
               /\ num * PageBits(level) = size * 8
<1> DEFINE b == PageSize(level)
           num == size \div b
<1>1. b \in Nat \ {0} /\ PageBits(level) = b * 8
  BY PageSizes DEF Accepts
<1>2. size = b * num + (size % b) /\ size % b = 0 /\ num \in Nat
  <2> HIDE DEF b
  <2>1. size % b = 0
    BY DEF Accepts, b
  <2> QED
    BY <1>1, <2>1
<1>3. ValidLayout(way, level, num) /\ num > 0
  BY DEF Accepts, ValidLayout
<1>4. num * b = size /\ num * (b * 8) = size * 8
  <2> HIDE DEF b, num
  <2> QED
    BY <1>1, <1>2
<1> QED
  BY <1>1, <1>2, <1>3, <1>4

-----------------------------------------------------------------------------
(***************************************************************************)
(* The inductive invariant.                                                *)
(***************************************************************************)

\* The initial states: no variable holds a filter, no snapshot was taken.
LEMMA InitIInv == Init => IInv
<1> SUFFICES ASSUME Init PROVE IInv
  OBVIOUS
<1>1. \A h \in Handles : obj[h] = Refused /\ keys[h] = {} /\ start[h].bits = {}
  BY DEF Init
<1>2. Refused \in Object /\ WellFormed(Refused) /\ Refused.bits = {}
  BY DEF Refused, Object, WellFormed
<1>3. TypeOK
  BY <1>1, <1>2 DEF Init, TypeOK, Snapshot
<1>4. SnapshotSound
  BY DEF Init, SnapshotSound
<1>5. NoFalseNegatives /\ Canonical
  BY <1>1, <1>2 DEF NoFalseNegatives, Canonical
<1> QED
  BY <1>3, <1>4, <1>5 DEF IInv

\* Installing a well-formed object whose bitmap is the bits it was given and the
\* probes of the keys it vouches for keeps the invariant (Construct, Clear and
\* Restore are such installations).
LEMMA InstallIInv ==
    ASSUME IInv,
           NEW h \in Handles, NEW o \in Object, NEW B \in SUBSET Nat,
           NEW K \in SUBSET Keys,
           WellFormed(o),
           o.bits = B \cup UNION {ProbesOf(k, o) : k \in K},
           \A k \in K : o.space,
           Install(h, o, B, K),
           UNCHANGED <<saved, reply>>
    PROVE  IInv'
<1>1. /\ \A g \in Handles : obj'[g] = (IF g = h THEN o ELSE obj[g])
      /\ \A g \in Handles : keys'[g] = (IF g = h THEN K ELSE keys[g])
      /\ \A g \in Handles : start'[g].bits = (IF g = h THEN B ELSE start[g].bits)
  BY DEF IInv, TypeOK, Install
<1>2. TypeOK'
  <2>1. o.cnt \in Nat
    BY DEF Object
  <2>2. obj' \in [Handles -> Object] /\ keys' \in [Handles -> SUBSET Keys]
    BY DEF IInv, TypeOK, Install
  <2>3. start' \in [Handles -> [bits : SUBSET Nat, cnt : Nat]]
    BY <2>1 DEF IInv, TypeOK, Install
  <2>4. \A g \in Handles : WellFormed(obj'[g])
    BY <1>1 DEF IInv, TypeOK
  <2> QED
    BY <2>2, <2>3, <2>4 DEF IInv, TypeOK
<1>3. SnapshotSound'
  BY DEF IInv, SnapshotSound, SavedObject, SavedNum
<1>4. NoFalseNegatives'
  <2>1. \A k \in K : o.space /\ Tested(k, o)
    BY DEF Tested
  <2> QED
    BY <1>1, <2>1 DEF IInv, NoFalseNegatives
<1>5. Canonical'
  BY <1>1 DEF IInv, Canonical
<1> QED
  BY <1>2, <1>3, <1>4, <1>5 DEF IInv

\* What a constructor installs: an empty bitmap of a valid layout, or nothing.
LEMMA ConstructedObject ==
    ASSUME NEW way \in Nat, NEW level \in Nat, NEW num \in Nat
    PROVE  LET o == IF ValidLayout(way, level, num)
                      THEN [way |-> way, level |-> level, num |-> num, cnt |-> 0,
                            space |-> TRUE, bits |-> {}]
                      ELSE Refused
           IN  o \in Object /\ o.bits = {} /\ WellFormed(o)
<1>1. CASE ValidLayout(way, level, num)
  <2> DEFINE o == [way |-> way, level |-> level, num |-> num, cnt |-> 0,
                   space |-> TRUE, bits |-> {}]
  <2>1. /\ way \in 4..8 /\ num > 0 /\ num < kMaxPageNum
        /\ level \in (IF way = 4 THEN 6 ELSE 7)..13
    BY <1>1, ValidLevels DEF ValidLayout
  <2>2. o \in Object /\ o.bits = {}
    BY DEF Object
  <2>3. WellFormed(o)
    BY <2>1 DEF WellFormed
  <2> QED
    BY <1>1, <2>2, <2>3
<1>2. CASE ~ValidLayout(way, level, num)
  BY <1>2 DEF WellFormed, Refused, Object
<1> QED
  BY <1>1, <1>2

\* A constructor installs an empty bitmap of a valid layout, or refuses.
LEMMA ConstructIInv ==
    ASSUME IInv, NEW h \in Handles, NEW way \in Nat, NEW level \in Nat,
           NEW num \in Nat, Construct(h, way, level, num)
    PROVE  IInv'
<1> DEFINE o == IF ValidLayout(way, level, num)
                  THEN [way |-> way, level |-> level, num |-> num, cnt |-> 0,
                        space |-> TRUE, bits |-> {}]
                  ELSE Refused
<1>1. Install(h, o, {}, {}) /\ UNCHANGED <<saved, reply>>
  BY DEF Construct
<1>2. o \in Object /\ o.bits = {} /\ WellFormed(o)
  BY ConstructedObject
<1> HIDE DEF o
<1>3. o.bits = {} \cup UNION {ProbesOf(k, o) : k \in {}}
  BY <1>2
<1> QED
  BY <1>1, <1>2, <1>3, InstallIInv

\* Clearing keeps the layout and leaves no bit and no key.
LEMMA ClearIInv ==
    ASSUME IInv, NEW h \in Handles, Clear(h)
    PROVE  IInv'
<1> DEFINE o == [obj[h] EXCEPT !.cnt = 0, !.bits = {}]
<1>1. Install(h, o, {}, {}) /\ UNCHANGED <<saved, reply>>
  BY DEF Clear
<1>2. obj[h] \in Object /\ WellFormed(obj[h])
  BY DEF IInv, TypeOK
<1>3. o \in Object /\ WellFormed(o) /\ o.bits = {}
  BY <1>2 DEF Object, WellFormed
<1> HIDE DEF o
<1>4. o.bits = {} \cup UNION {ProbesOf(k, o) : k \in {}}
  BY <1>3
<1> QED
  BY <1>1, <1>3, <1>4, InstallIInv

\* A restore under the snapshot's own level and no more ways looks at no probe
\* that the snapshot's filter did not look at.
LEMMA CompatibleLooksAtFewer ==
    ASSUME saved \in Snapshot, NEW way \in Nat, NEW level, NEW cnt,
           Compatible(way, level), NEW k
    PROVE  ProbesOf(k, Copied(way, level, cnt)) \subseteq ProbesOf(k, SavedObject)
<1>1. ProbesOf(k, Copied(way, level, cnt)) = Probes(k, way, saved.level, SavedNum)
  BY DEF ProbesOf, Copied, SavedNum, Compatible
<1>2. ProbesOf(k, SavedObject) = Probes(k, saved.way, saved.level, SavedNum)
  BY DEF ProbesOf, SavedObject
<1>3. 1..way \subseteq 1..saved.way
  BY DEF Compatible, Snapshot
<1> QED
  BY <1>1, <1>2, <1>3 DEF Probes

\* An accepted snapshot is copied whole.
LEMMA CopiedWhole ==
    ASSUME IInv, NEW way \in Nat, NEW level \in Nat, NEW cnt \in Nat,
           Accepts(way, level, saved.size)
    PROVE  /\ Copied(way, level, cnt) \in Object
           /\ WellFormed(Copied(way, level, cnt))
           /\ Copied(way, level, cnt).bits = saved.bits
           /\ Copied(way, level, cnt).space
<1> DEFINE num == saved.size \div PageSize(level)
<1>1. saved \in Snapshot /\ SnapshotSound /\ saved.size > 0
  BY DEF IInv, TypeOK, Accepts
<1>2. saved.size \in Nat /\ saved.bits \in SUBSET Nat
  BY <1>1 DEF Snapshot
<1>3. /\ num \in Nat \ {0} /\ ValidLayout(way, level, num)
      /\ num * PageBits(level) = saved.size * 8
  BY <1>2, AcceptedSizes
<1>4. saved.bits \subseteq 0..(saved.size * 8 - 1)
  <2>1. SavedNum \in Nat /\ saved.size = SavedNum * PageSize(saved.level)
        /\ saved.level \in 6..13
        /\ saved.bits \subseteq 0..(SavedNum * PageBits(saved.level) - 1)
    <3>1. WellFormed(SavedObject) /\ saved.size = SavedNum * PageSize(saved.level)
      BY <1>1 DEF SnapshotSound
    <3>2. /\ SavedObject.space /\ SavedObject.num = SavedNum
          /\ SavedObject.level = saved.level /\ SavedObject.bits = saved.bits
      BY <1>1 DEF SavedObject
    <3>3. saved.level \in 6..13
      BY <3>1, <3>2 DEF WellFormed
    <3>4. PageSize(saved.level) \in Nat \ {0}
      BY <3>3, PageSizes
    <3>5. SavedNum \in Nat
      BY <1>2, <3>4 DEF SavedNum
    <3> QED
      BY <3>1, <3>2, <3>3, <3>5 DEF WellFormed
  <2>2. PageBits(saved.level) = PageSize(saved.level) * 8
        /\ PageSize(saved.level) \in Nat
    BY <2>1, PageSizes
  <2>3. SavedNum * PageBits(saved.level) = saved.size * 8
    BY <2>1, <2>2
  <2> QED
    BY <2>1, <2>3
<1>5. /\ Copied(way, level, cnt) = [way |-> way, level |-> level, num |-> num,
            cnt |-> cnt, space |-> TRUE,
            bits |-> {b \in saved.bits : b < num * PageBits(level)}]
  BY DEF Copied
<1>6. {b \in saved.bits : b < num * PageBits(level)} = saved.bits
  BY <1>2, <1>3, <1>4
<1> HIDE DEF num
<1>7. Copied(way, level, cnt).bits = saved.bits
  BY <1>5, <1>6
<1>8. Copied(way, level, cnt) \in Object
  BY <1>2, <1>3, <1>5, <1>6 DEF Object
<1>9. WellFormed(Copied(way, level, cnt))
  <2>1. /\ way \in 4..8 /\ num < kMaxPageNum /\ num > 0
        /\ level \in (IF way = 4 THEN 6 ELSE 7)..13
    BY <1>3, ValidLevels DEF ValidLayout
  <2> QED
    BY <1>2, <1>3, <1>4, <1>5, <1>6, <2>1 DEF WellFormed
<1> QED
  BY <1>5, <1>7, <1>8, <1>9

\* Restore installs the whole snapshot, or refuses.
LEMMA RestoreIInv ==
    ASSUME IInv, NEW h \in Handles, NEW way \in Nat, NEW level \in Nat,
           NEW cnt \in Nat, Restore(h, way, level, cnt)
    PROVE  IInv'
<1>1. CASE Accepts(way, level, saved.size)
  <2> DEFINE o == Copied(way, level, cnt)
             K == IF Compatible(way, level) THEN saved.keys ELSE {}
  <2>1. Install(h, o, saved.bits, K) /\ UNCHANGED <<saved, reply>>
    BY <1>1 DEF Restore
  <2>2. o \in Object /\ WellFormed(o) /\ o.bits = saved.bits /\ o.space
    BY <1>1, CopiedWhole
  <2>3. K \in SUBSET Keys /\ saved.bits \in SUBSET Nat
    BY DEF IInv, TypeOK, Snapshot
  <2>4. \A k \in K : ProbesOf(k, o) \subseteq saved.bits
    <3> SUFFICES ASSUME Compatible(way, level), NEW k \in saved.keys
                 PROVE  ProbesOf(k, o) \subseteq saved.bits
      OBVIOUS
    <3>1. ProbesOf(k, o) \subseteq ProbesOf(k, SavedObject)
      BY CompatibleLooksAtFewer DEF IInv, TypeOK
    <3>2. Tested(k, SavedObject) /\ SavedObject.bits = saved.bits
      BY <1>1 DEF IInv, SnapshotSound, Accepts, SavedObject
    <3> QED
      BY <3>1, <3>2 DEF Tested
  <2> HIDE DEF o, K
  <2>5. o.bits = saved.bits \cup UNION {ProbesOf(k, o) : k \in K}
    BY <2>2, <2>4
  <2> QED
    BY <2>1, <2>2, <2>3, <2>5, InstallIInv
<1>2. CASE ~Accepts(way, level, saved.size)
  <2>1. Install(h, Refused, {}, {}) /\ UNCHANGED <<saved, reply>>
    BY <1>2 DEF Restore
  <2>2. Refused \in Object /\ WellFormed(Refused) /\ Refused.bits = {}
    BY DEF Refused, Object, WellFormed
  <2>3. Refused.bits = {} \cup UNION {ProbesOf(k, Refused) : k \in {}}
    BY <2>2
  <2> QED
    BY <2>1, <2>2, <2>3, InstallIInv
<1> QED
  BY <1>1, <1>2

\* The object that set leaves: the probes of the key are added, the layout stays.
LEMMA SetObject ==
    ASSUME IInv, NEW h \in Handles, NEW k \in Keys, Set(h, k)
    PROVE  \E after \in Object :
              /\ obj' = [obj EXCEPT ![h] = after]
              /\ after.space /\ WellFormed(after)
              /\ after.bits = obj[h].bits \cup ProbesOf(k, obj[h])
              /\ \A x : ProbesOf(x, after) = ProbesOf(x, obj[h])
<1> DEFINE o == obj[h]
           P == ProbesOf(k, o)
           B == BitsAfter(k, o)
           C == CountAfter(k, o)
           after == [o EXCEPT !.bits = B, !.cnt = C]
<1>1. o \in Object /\ WellFormed(o) /\ o.space
  BY DEF Set, Live, IInv, TypeOK
<1>2. obj' = [obj EXCEPT ![h] = after]
  BY DEF Set
<1>3. P \subseteq 0..(o.num * PageBits(o.level) - 1) /\ P \subseteq Nat
  <2>1. o.way \in 0..8 /\ o.level \in 0..13 /\ o.num \in Nat \ {0}
    BY <1>1 DEF WellFormed, Object
  <2> HIDE DEF o
  <2> QED
    BY <2>1, ProbesInRange DEF ProbesOf
<1>4. /\ after \in Object /\ after.space /\ after.bits = o.bits \cup P
      /\ after.way = o.way /\ after.level = o.level /\ after.num = o.num
  <2>1. B = o.bits \cup P /\ B \in SUBSET Nat /\ C \in Nat
    BY <1>1, <1>3 DEF Object, BitsAfter, CountAfter
  <2> HIDE DEF B, C, o, P
  <2> QED
    BY <1>1, <2>1 DEF Object
<1>5. \A x : ProbesOf(x, after) = ProbesOf(x, o)
  BY <1>4 DEF ProbesOf
<1>6. WellFormed(after)
  BY <1>1, <1>3, <1>4 DEF WellFormed
<1> HIDE DEF after
<1> QED
  BY <1>2, <1>4, <1>5, <1>6

\* Set adds the probes of its key and nothing else, whatever it answers.
LEMMA SetIInv ==
    ASSUME IInv, NEW h \in Handles, NEW k \in Keys, Set(h, k)
    PROVE  IInv'
<1> DEFINE o == obj[h]
           P == ProbesOf(k, o)
<1>1. PICK after \in Object :
         /\ obj' = [obj EXCEPT ![h] = after]
         /\ after.space /\ WellFormed(after) /\ after.bits = o.bits \cup P
         /\ \A x : ProbesOf(x, after) = ProbesOf(x, o)
  BY SetObject
<1>2. /\ keys' = [keys EXCEPT ![h] = @ \cup {k}]
      /\ UNCHANGED <<saved, start>> /\ reply' \in BOOLEAN
  BY DEF Set, New
<1> HIDE DEF o, P
<1>3. /\ \A g \in Handles : obj'[g] = (IF g = h THEN after ELSE obj[g])
      /\ \A g \in Handles : keys'[g] = (IF g = h THEN keys[g] \cup {k} ELSE keys[g])
      /\ o = obj[h] /\ P = ProbesOf(k, o)
  BY <1>1, <1>2 DEF IInv, TypeOK, o, P
<1>4. TypeOK'
  <2>1. obj' \in [Handles -> Object] /\ keys' \in [Handles -> SUBSET Keys]
    BY <1>1, <1>2 DEF IInv, TypeOK
  <2>2. \A g \in Handles : WellFormed(obj'[g])
    BY <1>1, <1>3 DEF IInv, TypeOK
  <2> QED
    BY <1>2, <2>1, <2>2 DEF IInv, TypeOK
<1>5. SnapshotSound'
  BY <1>2 DEF IInv, SnapshotSound, SavedObject, SavedNum
<1>6. NoFalseNegatives'
  <2>1. \A x \in keys[h] \cup {k} : after.space /\ Tested(x, after)
    BY <1>1, <1>3 DEF IInv, NoFalseNegatives, Tested
  <2> QED
    BY <1>3, <2>1 DEF IInv, NoFalseNegatives
<1>7. Canonical'
  <2>1. o.bits = start[h].bits \cup UNION {ProbesOf(x, o) : x \in keys[h]}
    BY <1>3 DEF IInv, Canonical
  <2>2. UNION {ProbesOf(x, after) : x \in keys[h] \cup {k}}
          = (UNION {ProbesOf(x, o) : x \in keys[h]}) \cup P
    BY <1>1, <1>3
  <2>3. after.bits = start[h].bits \cup UNION {ProbesOf(x, after) : x \in keys[h] \cup {k}}
    BY <1>1, <2>1, <2>2
  <2> QED
    BY <1>2, <1>3, <2>3 DEF IInv, Canonical
<1> QED
  BY <1>4, <1>5, <1>6, <1>7 DEF IInv

\* A move leaves in the source an object without bits and without keys.
LEMMA MoveIInv ==
    ASSUME IInv, NEW h \in Handles, NEW g \in Handles, Move(h, g)
    PROVE  IInv'
<1> DEFINE left == [obj[h] EXCEPT !.space = FALSE, !.bits = {}]
<1>1. obj[h] \in Object /\ WellFormed(obj[h]) /\ start[h] \in [bits : SUBSET Nat, cnt : Nat]
  BY DEF IInv, TypeOK
<1>2. left \in Object /\ WellFormed(left) /\ left.bits = {}
  BY <1>1 DEF Object, WellFormed
<1>3. /\ obj' = [obj EXCEPT ![g] = obj[h], ![h] = left]
      /\ keys' = [keys EXCEPT ![g] = keys[h], ![h] = {}]
      /\ start' = [start EXCEPT ![g] = start[h],
                                ![h] = [bits |-> {}, cnt |-> obj[h].cnt]]
      /\ UNCHANGED <<saved, reply>>
  BY DEF Move
<1> HIDE DEF left
<1>4. \A f \in Handles :
         /\ obj'[f] = (IF f = h THEN left ELSE IF f = g THEN obj[h] ELSE obj[f])
         /\ keys'[f] = (IF f = h THEN {} ELSE IF f = g THEN keys[h] ELSE keys[f])
         /\ start'[f].bits = (IF f = h THEN {} ELSE IF f = g THEN start[h].bits
                              ELSE start[f].bits)
  BY <1>3 DEF IInv, TypeOK
<1>5. TypeOK'
  <2>1. obj' \in [Handles -> Object] /\ keys' \in [Handles -> SUBSET Keys]
    BY <1>1, <1>2, <1>3 DEF IInv, TypeOK
  <2>2. obj[h].cnt \in Nat
    BY <1>1 DEF Object
  <2>3. start' \in [Handles -> [bits : SUBSET Nat, cnt : Nat]]
    BY <1>1, <1>3, <2>2 DEF IInv, TypeOK
  <2>4. \A f \in Handles : WellFormed(obj'[f])
    BY <1>2, <1>4 DEF IInv, TypeOK
  <2> QED
    BY <1>3, <2>1, <2>3, <2>4 DEF IInv, TypeOK
<1>6. SnapshotSound'
  BY <1>3 DEF IInv, SnapshotSound, SavedObject, SavedNum
<1>7. NoFalseNegatives'
  BY <1>4 DEF IInv, NoFalseNegatives
<1>8. Canonical'
  BY <1>2, <1>4 DEF IInv, Canonical
<1> QED
  BY <1>5, <1>6, <1>7, <1>8 DEF IInv

\* The snapshot of a live filter has that filter's page number, and stands for
\* that filter.
LEMMA SavedIsObject ==
    ASSUME IInv, NEW h \in Handles, Save(h)
    PROVE  /\ SavedObject' = obj[h] /\ WellFormed(obj[h])
           /\ saved' \in Snapshot /\ saved'.keys = keys[h] /\ saved'.size # 0
           /\ saved'.size = SavedNum' * PageSize(saved'.level)
<1> DEFINE o == obj[h]
           b == PageSize(o.level)
<1>1. o \in Object /\ WellFormed(o) /\ o.space /\ keys[h] \in SUBSET Keys
  BY DEF Save, Live, IInv, TypeOK
<1>2. saved' = [way |-> o.way, level |-> o.level, size |-> o.num * b,
                cnt |-> o.cnt, bits |-> o.bits, keys |-> keys[h]]
  BY DEF Save, DataSize
<1>3. b \in Nat \ {0} /\ o.num \in Nat \ {0}
  BY <1>1, PageSizes DEF WellFormed, Object
<1>4. saved'.level = o.level
  BY <1>2
<1> HIDE DEF b
<1>5. o.num * b \in Nat /\ o.num * b > 0 /\ (o.num * b) \div b = o.num
  BY <1>3
<1>6. SavedNum' = o.num
  BY <1>2, <1>5 DEF SavedNum, b
<1>7. SavedObject' = [way |-> o.way, level |-> o.level, num |-> o.num,
                      cnt |-> o.cnt, space |-> TRUE, bits |-> o.bits]
  BY <1>1, <1>2, <1>5, <1>6 DEF SavedObject, Object
<1>8. SavedObject' = o
  BY <1>1, <1>7 DEF Object
<1>9. saved' \in Snapshot
  BY <1>1, <1>2, <1>5 DEF Snapshot, Object
<1>10. saved'.size = SavedNum' * PageSize(saved'.level)
  <2>1. saved'.size = o.num * b
    BY <1>2
  <2> QED
    BY <1>4, <1>6, <2>1 DEF b
<1> QED
  BY <1>1, <1>2, <1>5, <1>8, <1>9, <1>10

\* A snapshot of a sound filter is sound.
LEMMA SaveIInv ==
    ASSUME IInv, NEW h \in Handles, Save(h)
    PROVE  IInv'
<1>1. UNCHANGED <<obj, reply, keys, start>>
  BY DEF Save
<1>2. TypeOK'
  BY <1>1, SavedIsObject DEF IInv, TypeOK
<1>3. SnapshotSound'
  <2>1. \A k \in keys[h] : Tested(k, obj[h])
    BY DEF IInv, NoFalseNegatives
  <2> QED
    BY <2>1, SavedIsObject DEF SnapshotSound
<1>4. NoFalseNegatives' /\ Canonical'
  BY <1>1 DEF IInv, NoFalseNegatives, Canonical
<1> QED
  BY <1>2, <1>3, <1>4 DEF IInv

\* Every step keeps the invariant.
LEMMA NextIInv == IInv /\ [Next]_vars => IInv'
<1> SUFFICES ASSUME IInv, [Next]_vars PROVE IInv'
  OBVIOUS
<1> DEFINE Same == UNCHANGED <<obj, saved, keys, start>> /\ reply' \in BOOLEAN
<1>1. ASSUME Same PROVE IInv'
  BY <1>1 DEF IInv, TypeOK, SnapshotSound, SavedObject, SavedNum,
              NoFalseNegatives, Canonical
<1>2. CASE UNCHANGED vars
  BY <1>1, <1>2 DEF vars, IInv, TypeOK
<1>3. CASE NullKey
  BY <1>1, <1>3 DEF NullKey
<1>4. ASSUME NEW h \in Handles, NEW l \in Layouts, Construct(h, l[1], l[2], l[3])
      PROVE  IInv'
  <2>1. l[1] \in Nat /\ l[2] \in Nat /\ l[3] \in Nat
    BY ArgumentAssumption
  <2> QED
    BY <1>4, <2>1, ConstructIInv
<1>5. ASSUME NEW h \in Handles, NEW r \in Readings,
             NEW c \in Claims \cup {saved.cnt}, Restore(h, r[1], r[2], c)
      PROVE  IInv'
  <2>1. r[1] \in Nat /\ r[2] \in Nat /\ c \in Nat
    BY ArgumentAssumption DEF IInv, TypeOK, Snapshot
  <2> QED
    BY <1>5, <2>1, RestoreIInv
<1>6. ASSUME NEW h \in Handles, NEW k \in Keys, Set(h, k) PROVE IInv'
  BY <1>6, SetIInv
<1>7. ASSUME NEW h \in Handles, NEW k \in Keys, Test(h, k) PROVE IInv'
  BY <1>1, <1>7 DEF Test, Tested
<1>8. ASSUME NEW h \in Handles, NEW g \in Handles, Move(h, g) PROVE IInv'
  BY <1>8, MoveIInv
<1>9. ASSUME NEW h \in Handles, Clear(h) PROVE IInv'
  BY <1>9, ClearIInv
<1>10. ASSUME NEW h \in Handles, Save(h) PROVE IInv'
  BY <1>10, SaveIInv
<1> QED
  BY <1>2, <1>3, <1>4, <1>5, <1>6, <1>7, <1>8, <1>9, <1>10 DEF Next

\* The inductive invariant holds in every reachable state.
LEMMA Invariance == Spec => []IInv
BY InitIInv, NextIInv, PTL DEF Spec

-----------------------------------------------------------------------------
(***************************************************************************)
(* The properties of PageFilter.                                           *)
(***************************************************************************)

\* Objects, snapshots and histories are well formed: in particular every buffer
\* has a layout its constructor accepts and no bit outside (pbf.h:149-154,
\* pbf.cc:11-23).
THEOREM TypeCorrect == Spec => []TypeOK
BY Invariance, PTL DEF IInv

\* No probe leaves the buffer (pbf.cc:41-43 and 55-57, pbf-internal.h:53-75).
THEOREM ProbesStayInside == Spec => []ProbesInside
<1>1. IInv => ProbesInside
  <2> SUFFICES ASSUME IInv, NEW h \in Handles, Live(h), NEW k \in Keys
               PROVE  ProbesOf(k, obj[h]) \subseteq 0..(DataSize(obj[h]) * 8 - 1)
    BY DEF ProbesInside
  <2> DEFINE o == obj[h]
  <2>1. o \in Object /\ WellFormed(o) /\ o.space
    BY DEF IInv, TypeOK, Live
  <2>2. o.way \in 0..8 /\ o.level \in 0..13 /\ o.num \in Nat \ {0}
    BY <2>1 DEF WellFormed, Object
  <2> HIDE DEF o
  <2>3. ProbesOf(k, o) \subseteq 0..(o.num * PageBits(o.level) - 1)
    BY <2>2, ProbesInRange DEF ProbesOf
  <2>4. DataSize(o) * 8 = o.num * PageBits(o.level)
    <3>1. PageBits(o.level) = PageSize(o.level) * 8 /\ PageSize(o.level) \in Nat
      BY <2>2, PageSizes
    <3> QED
      BY <2>2, <3>1 DEF DataSize
  <2> QED
    BY <2>3, <2>4 DEF o
<1> QED
  BY <1>1, Invariance, PTL

\* A key that was set is never reported absent, through sets of other keys, moves
\* and restores under the same level and no more ways (pbf.cc:33-62).
THEOREM NeverFalseNegative == Spec => []NoFalseNegatives
BY Invariance, PTL DEF IInv

\* The bitmap is the union of the probes of the keys and what it was given, so
\* the order and the repetition of sets do not matter (pbf-internal.h:64-75).
THEOREM BitmapCanonical == Spec => []Canonical
BY Invariance, PTL DEF IInv

-----------------------------------------------------------------------------
(***************************************************************************)
(* unique_cnt.                                                             *)
(***************************************************************************)

\* A key has at most as many probes as the filter has ways.
LEMMA ProbeCount ==
    ASSUME NEW k, NEW way \in Nat, NEW level, NEW num
    PROVE  /\ IsFiniteSet(Probes(k, way, level, num))
           /\ Cardinality(Probes(k, way, level, num)) \in Nat
           /\ Cardinality(Probes(k, way, level, num)) <= way
<1> DEFINE P == Probes(k, way, level, num)
           f == [i \in 1..way |-> Probe(k, i, level, num)]
<1>1. f \in Surjection(1..way, P)
  BY DEF Surjection, Probes
<1>2. IsFiniteSet(1..way) /\ Cardinality(1..way) = way
  BY FS_Interval
<1>3. IsFiniteSet(P) /\ Cardinality(P) <= way
  <2> HIDE DEF P, f
  <2> QED
    BY <1>1, <1>2, FS_Surjection
<1> QED
  BY <1>3, FS_CardinalityType

\* The bitmaps of objects and the ones they started from are finite.
LEMMA FiniteBitmaps ==
    ASSUME IInv, NEW h \in Handles
    PROVE  /\ IsFiniteSet(obj[h].bits) /\ Cardinality(obj[h].bits) \in Nat
           /\ IsFiniteSet(start[h].bits) /\ Cardinality(start[h].bits) \in Nat
<1> DEFINE o == obj[h]
<1>1. o \in Object /\ WellFormed(o)
  BY DEF IInv, TypeOK
<1>2. IsFiniteSet(o.bits)
  <2>1. CASE o.space
    <3>1. PageBits(o.level) \in Nat /\ o.num \in Nat
      BY <1>1, <2>1, PageSizes DEF WellFormed, Object
    <3>2. 0 \in Int /\ o.num * PageBits(o.level) - 1 \in Int
      BY <3>1
    <3>3. IsFiniteSet(0..(o.num * PageBits(o.level) - 1))
      BY <3>2, FS_Interval
    <3> QED
      BY <1>1, <2>1, <3>3, FS_Subset DEF WellFormed
  <2>2. CASE ~o.space
    BY <1>1, <2>2, FS_EmptySet DEF WellFormed
  <2> QED
    BY <2>1, <2>2
<1>3. start[h].bits \subseteq o.bits
  BY DEF IInv, Canonical
<1> QED
  BY <1>2, <1>3, FS_Subset, FS_CardinalityType

\* So is the bitmap of a snapshot.
LEMMA SnapshotFinite ==
    ASSUME IInv
    PROVE  IsFiniteSet(saved.bits)
<1>1. CASE saved.size = 0
  BY <1>1, FS_EmptySet DEF IInv, SnapshotSound
<1>2. CASE saved.size # 0
  <2> DEFINE n == SavedObject.num * PageBits(SavedObject.level) - 1
  <2>1. WellFormed(SavedObject) /\ saved \in Snapshot /\ saved.size > 0
    BY <1>2 DEF IInv, TypeOK, SnapshotSound, Snapshot
  <2>2. SavedObject.bits = saved.bits /\ SavedObject.level = saved.level
        /\ SavedObject.num = SavedNum
    BY DEF SavedObject
  <2>3. saved.level \in 6..13 /\ saved.bits \subseteq 0..n
    <3>1. SavedObject.space
      BY <2>1 DEF SavedObject
    <3>2. SavedObject.level \in 6..13
      BY <2>1, <3>1 DEF WellFormed
    <3>3. SavedObject.bits \subseteq 0..n
      BY <2>1, <3>1 DEF WellFormed
    <3> QED
      BY <2>2, <3>2, <3>3
  <2>4. PageBits(saved.level) \in Nat /\ PageSize(saved.level) \in Nat \ {0}
    BY <2>3, PageSizes
  <2>5. SavedNum \in Nat
    BY <2>1, <2>4 DEF SavedNum, Snapshot
  <2>6. n \in Int /\ 0 \in Int
    BY <2>2, <2>4, <2>5
  <2> HIDE DEF n
  <2> QED
    BY <2>3, <2>6, FS_Interval, FS_Subset
<1> QED
  BY <1>1, <1>2

\* Installing an object on the bits it was given starts a new account.
LEMMA InstallCount ==
    ASSUME IInv, CountBound, NEW h \in Handles, NEW o \in Object, NEW B, NEW K,
           o.bits = B, IsFiniteSet(B), Install(h, o, B, K)
    PROVE  CountBound'
<1>1. /\ \A g \in Handles : obj'[g] = (IF g = h THEN o ELSE obj[g])
      /\ \A g \in Handles : start'[g] = (IF g = h THEN [bits |-> B, cnt |-> o.cnt]
                                                ELSE start[g])
  BY DEF IInv, TypeOK, Install
<1>2. CountWithin(o, [bits |-> B, cnt |-> o.cnt])
  <2>1. Cardinality(B) \in Nat /\ o.cnt \in Nat /\ o.way \in Nat
    BY FS_CardinalityType DEF Object
  <2> QED
    BY <2>1 DEF CountWithin
<1>3. \A g \in Handles : CountWithin(obj'[g], start'[g])
  BY <1>1, <1>2 DEF CountBound
<1> QED
  BY <1>3 DEF CountBound, CountWithin

\* Set counts one exactly when it turns between one and `way` bits.
LEMMA SetCount ==
    ASSUME IInv, CountBound, NEW h \in Handles, NEW k \in Keys, Set(h, k)
    PROVE  CountBound'
<1> DEFINE o == obj[h]
           P == ProbesOf(k, o)
           T == P \ o.bits
           B == BitsAfter(k, o)
           C == CountAfter(k, o)
           after == [o EXCEPT !.bits = B, !.cnt = C]
<1>1. o \in Object /\ start[h] \in [bits : SUBSET Nat, cnt : Nat]
  BY DEF IInv, TypeOK
<1>2. obj' = [obj EXCEPT ![h] = after] /\ start' = start
  BY DEF Set
<1>3. B = o.bits \cup T /\ o.bits \cap T = {}
  BY DEF BitsAfter
<1>4. C = IF T = {} THEN o.cnt ELSE o.cnt + 1
  BY DEF CountAfter, New
<1>5. IsFiniteSet(T) /\ Cardinality(T) \in 0..o.way /\ (T = {} <=> Cardinality(T) = 0)
  <2>1. IsFiniteSet(P) /\ Cardinality(P) \in Nat /\ Cardinality(P) <= o.way /\ o.way \in Nat
    BY <1>1, ProbeCount DEF ProbesOf, Object
  <2> HIDE DEF P, o
  <2>2. IsFiniteSet(T) /\ Cardinality(T) <= Cardinality(P)
    BY <2>1, FS_Subset
  <2>3. Cardinality(T) \in Nat
    BY <2>2, FS_CardinalityType
  <2> QED
    BY <2>1, <2>2, <2>3, FS_EmptySet
<1>6. IsFiniteSet(o.bits) /\ Cardinality(o.bits) \in Nat /\ Cardinality(start[h].bits) \in Nat
  BY FiniteBitmaps
<1> HIDE DEF B, C, T, P
<1>7. Cardinality(B) = Cardinality(o.bits) + Cardinality(T)
  <2> DEFINE b == o.bits
  <2>1. b \cap T = {} /\ B = b \cup T /\ IsFiniteSet(b)
    BY <1>3, <1>6
  <2>2. Cardinality(b) \in Nat /\ Cardinality(T) \in Nat
    BY <1>5, <1>6, FS_CardinalityType
  <2> HIDE DEF b
  <2>3. Cardinality(b \cup T) = Cardinality(b) + Cardinality(T) - Cardinality(b \cap T)
    BY <1>5, <2>1, FS_Union
  <2>4. Cardinality(b \cap T) = 0
    BY <2>1, FS_EmptySet
  <2>5. Cardinality(B) = Cardinality(b) + Cardinality(T)
    BY <2>1, <2>2, <2>3, <2>4
  <2> QED
    BY <2>5 DEF b
<1>8. /\ after.bits = B /\ after.cnt = C /\ after.way = o.way
  BY <1>1 DEF Object
<1>9. CountWithin(o, start[h])
  BY DEF CountBound
<1>10. CountWithin(after, start[h])
  <2> DEFINE c == o.cnt - start[h].cnt
             t == Cardinality(o.bits) - Cardinality(start[h].bits)
             n == Cardinality(T)
             w == o.way
  <2>1. c \in Int /\ t \in Int /\ w \in Nat /\ n \in 0..w
        /\ o.cnt \in Nat /\ start[h].cnt \in Nat
    BY <1>1, <1>5, <1>6 DEF Object
  <2>2. c <= t /\ t <= w * c
    BY <1>9 DEF CountWithin
  <2>3. Cardinality(B) - Cardinality(start[h].bits) = t + n
    BY <1>5, <1>6, <1>7
  <2>4. CASE n = 0
    <3>1. C - start[h].cnt = c
      BY <1>4, <1>5, <2>4
    <3> QED
      BY <1>8, <2>1, <2>2, <2>3, <2>4, <3>1 DEF CountWithin
  <2>5. CASE n # 0
    <3>1. C - start[h].cnt = c + 1
      BY <1>4, <1>5, <2>1, <2>5
    <3> HIDE DEF c, t, n, w
    <3>2. c + 1 <= t + n
      BY <2>1, <2>2, <2>5
    <3>3. w * (c + 1) = w * c + w
      BY <2>1
    <3>4. t + n <= w * (c + 1)
      BY <2>1, <2>2, <3>3
    <3> QED
      BY <1>8, <2>3, <3>1, <3>2, <3>4 DEF CountWithin, w
  <2> QED
    BY <2>4, <2>5
<1> HIDE DEF after
<1>11. \A g \in Handles : CountWithin(obj'[g], start'[g])
  BY <1>2, <1>10 DEF CountBound, IInv, TypeOK
<1> QED
  BY <1>11 DEF CountBound, CountWithin

\* unique_cnt moves with the bitmap, from whatever count a restore was given
\* (pbf.cc:57-60, pbf.h:236-238).
THEOREM CountCorrect == Spec => []CountBound
<1>1. Init => CountBound
  <2> SUFFICES ASSUME Init, NEW h \in Handles PROVE CountWithin(obj[h], start[h])
    BY DEF CountBound
  <2>1. /\ obj[h].cnt = 0 /\ start[h].cnt = 0 /\ obj[h].way = 0
        /\ obj[h].bits = {} /\ start[h].bits = {}
    BY DEF Init, Refused
  <2>2. Cardinality({}) = 0
    BY FS_EmptySet
  <2> QED
    BY <2>1, <2>2 DEF CountWithin
<1>2. IInv /\ CountBound /\ [Next]_vars => CountBound'
  <2> SUFFICES ASSUME IInv, CountBound, [Next]_vars PROVE CountBound'
    OBVIOUS
  <2>1. ASSUME UNCHANGED <<obj, start>> PROVE CountBound'
    BY <2>1 DEF CountBound, CountWithin
  <2>2. ASSUME NEW h \in Handles, NEW l \in Layouts, Construct(h, l[1], l[2], l[3])
        PROVE  CountBound'
    <3> DEFINE o == IF ValidLayout(l[1], l[2], l[3])
                      THEN [way |-> l[1], level |-> l[2], num |-> l[3], cnt |-> 0,
                            space |-> TRUE, bits |-> {}]
                      ELSE Refused
    <3>1. Install(h, o, {}, {})
      BY <2>2 DEF Construct
    <3>2. o \in Object /\ o.bits = {} /\ WellFormed(o)
      BY ConstructedObject, ArgumentAssumption
    <3> HIDE DEF o
    <3> QED
      BY <3>1, <3>2, InstallCount, FS_EmptySet
  <2>3. ASSUME NEW h \in Handles, Clear(h) PROVE CountBound'
    <3> DEFINE o == [obj[h] EXCEPT !.cnt = 0, !.bits = {}]
    <3>1. Install(h, o, {}, {})
      BY <2>3 DEF Clear
    <3>2. o \in Object /\ o.bits = {}
      BY DEF IInv, TypeOK, Object
    <3> HIDE DEF o
    <3> QED
      BY <3>1, <3>2, InstallCount, FS_EmptySet
  <2>4. ASSUME NEW h \in Handles, NEW r \in Readings,
               NEW c \in Claims \cup {saved.cnt}, Restore(h, r[1], r[2], c)
        PROVE  CountBound'
    <3>1. r[1] \in Nat /\ r[2] \in Nat /\ c \in Nat
      BY ArgumentAssumption DEF IInv, TypeOK, Snapshot
    <3>2. CASE Accepts(r[1], r[2], saved.size)
      <4> DEFINE o == Copied(r[1], r[2], c)
                 K == IF Compatible(r[1], r[2]) THEN saved.keys ELSE {}
      <4>1. Install(h, o, saved.bits, K)
        BY <2>4, <3>2 DEF Restore
      <4>2. o \in Object /\ o.bits = saved.bits
        BY <3>1, <3>2, CopiedWhole
      <4>3. IsFiniteSet(saved.bits)
        BY SnapshotFinite
      <4> HIDE DEF o, K
      <4> QED
        BY <4>1, <4>2, <4>3, InstallCount
    <3>3. CASE ~Accepts(r[1], r[2], saved.size)
      <4>1. Install(h, Refused, {}, {})
        BY <2>4, <3>3 DEF Restore
      <4>2. Refused \in Object /\ Refused.bits = {}
        BY DEF Refused, Object
      <4> QED
        BY <4>1, <4>2, InstallCount, FS_EmptySet
    <3> QED
      BY <3>2, <3>3
  <2>5. ASSUME NEW h \in Handles, NEW k \in Keys, Set(h, k) PROVE CountBound'
    BY <2>5, SetCount
  <2>6. ASSUME NEW h \in Handles, NEW g \in Handles, Move(h, g) PROVE CountBound'
    <3> DEFINE left == [obj[h] EXCEPT !.space = FALSE, !.bits = {}]
               base == [bits |-> {}, cnt |-> obj[h].cnt]
    <3>1. \A f \in Handles :
             /\ obj'[f] = (IF f = h THEN left ELSE IF f = g THEN obj[h] ELSE obj[f])
             /\ start'[f] = (IF f = h THEN base ELSE IF f = g THEN start[h] ELSE start[f])
      BY <2>6 DEF Move, IInv, TypeOK
    <3>2. CountWithin(left, base)
      <4>1. left.bits = {} /\ left.cnt \in Nat /\ left.way \in Nat /\ base.cnt = left.cnt
            /\ base.bits = {}
        BY DEF IInv, TypeOK, Object
      <4>2. Cardinality({}) = 0
        BY FS_EmptySet
      <4> HIDE DEF left, base
      <4> QED
        BY <4>1, <4>2 DEF CountWithin
    <3> HIDE DEF left, base
    <3>3. \A f \in Handles : CountWithin(obj'[f], start'[f])
      BY <3>1, <3>2 DEF CountBound
    <3> QED
      BY <3>3 DEF CountBound, CountWithin
  <2> QED
    BY <2>1, <2>2, <2>3, <2>4, <2>5, <2>6 DEF Next, vars, NullKey, Test, Save
<1> QED
  BY <1>1, <1>2, Invariance, PTL DEF Spec

-----------------------------------------------------------------------------
(***************************************************************************)
(* PageFilter implements BloomFilter.                                      *)
(***************************************************************************)

\* A filter with no bit set, or without a buffer, reports no key.
LEMMA EmptyReportsNothing ==
    ASSUME NEW o \in Object, WellFormed(o), o.bits = {}
    PROVE  Positives(o) = {}
<1> SUFFICES ASSUME NEW k \in Keys, o.space, Tested(k, o) PROVE FALSE
  BY DEF Positives
<1>1. 1 \in 1..o.way
  BY DEF WellFormed
<1>2. ProbesOf(k, o) # {}
  BY <1>1 DEF ProbesOf, Probes
<1> QED
  BY <1>2 DEF Tested

\* How the answers change when one object is replaced.
LEMMA AnswersOfOne ==
    ASSUME TypeOK, NEW h \in Handles, NEW o, obj' = [obj EXCEPT ![h] = o]
    PROVE  [g \in Handles |-> Positives(obj[g])]'
             = [[g \in Handles |-> Positives(obj[g])] EXCEPT ![h] = Positives(o)]
<1>1. [g \in Handles |-> Positives(obj[g])]' = [g \in Handles |-> Positives(obj'[g])]
  BY DEF Positives, Tested
<1>2. \A g \in Handles : obj'[g] = (IF g = h THEN o ELSE obj[g])
  BY DEF TypeOK
<1>3. [g \in Handles |-> Positives(obj'[g])]
        = [g \in Handles |-> IF g = h THEN Positives(o) ELSE Positives(obj[g])]
  BY <1>2
<1> QED
  BY <1>1, <1>3

\* A compatible restore reports every key the snapshot reports.
LEMMA CompatibleKeepsAnswers ==
    ASSUME IInv, NEW way \in Nat, NEW level \in Nat, NEW cnt \in Nat,
           Accepts(way, level, saved.size), Compatible(way, level)
    PROVE  Positives(SavedObject) \subseteq Positives(Copied(way, level, cnt))
<1> SUFFICES ASSUME NEW k \in Keys, Tested(k, SavedObject)
             PROVE  k \in Positives(Copied(way, level, cnt))
  BY DEF Positives
<1>1. ProbesOf(k, Copied(way, level, cnt)) \subseteq ProbesOf(k, SavedObject)
  BY CompatibleLooksAtFewer DEF IInv, TypeOK
<1>2. Copied(way, level, cnt).bits = SavedObject.bits /\ Copied(way, level, cnt).space
  BY CopiedWhole DEF SavedObject
<1> QED
  BY <1>1, <1>2 DEF Positives, Tested

\* The initial filters answer as initial abstract filters do.
LEMMA InitImplements == Init => Bloom!BloomInit
<1> SUFFICES ASSUME Init PROVE Bloom!BloomInit
  OBVIOUS
<1>1. \A h \in Handles : Positives(obj[h]) = {}
  BY DEF Init, Refused, Positives
<1>2. Positives(SavedObject) = {}
  <2>1. saved.size = 0
    BY DEF Init
  <2>2. SavedObject.space = (saved.size > 0)
    BY Zenon DEF SavedObject
  <2>3. ~(saved.size > 0)
    BY <2>1
  <2> QED
    BY <2>2, <2>3, Zenon DEF Positives
<1> QED
  BY <1>1, <1>2 DEF Init, Bloom!BloomInit


\* Every call is an operation of the abstract filters, or changes no answer.
LEMMA StepImplements ==
    IInv /\ [Next]_vars => [Bloom!BloomNext]_(Bloom!bloomVars)
<1> SUFFICES ASSUME IInv, [Next]_vars
             PROVE  [Bloom!BloomNext]_(Bloom!bloomVars)
  OBVIOUS
<1> DEFINE pos == [g \in Handles |-> Positives(obj[g])]
           snap == [keys |-> saved.keys, positives |-> Positives(SavedObject)]
<1>1. TypeOK /\ \A h \in Handles : obj[h] \in Object /\ WellFormed(obj[h])
  BY DEF IInv, TypeOK
<1>2. ASSUME UNCHANGED saved PROVE snap' = snap
  BY <1>2 DEF SavedObject, SavedNum, Positives, Tested
<1>3. ASSUME UNCHANGED obj PROVE pos' = pos
  BY <1>3 DEF Positives, Tested
<1>4. CASE UNCHANGED vars
  BY <1>2, <1>3, <1>4 DEF vars, Bloom!bloomVars
<1>5. CASE NullKey
  BY <1>2, <1>3, <1>5 DEF NullKey, Bloom!BloomNext, Bloom!BloomRefuseKey
<1>6. ASSUME NEW h \in Handles, NEW o \in Object, NEW K, NEW B,
             Install(h, o, B, K), UNCHANGED <<saved, reply>>
      PROVE  /\ pos' = [pos EXCEPT ![h] = Positives(o)]
             /\ keys' = [keys EXCEPT ![h] = K]
             /\ snap' = snap /\ UNCHANGED reply
  BY <1>1, <1>2, <1>6, AnswersOfOne DEF Install
<1>7. ASSUME NEW h \in Handles, NEW o \in Object, NEW B,
             WellFormed(o), o.bits = {},
             Install(h, o, B, {}), UNCHANGED <<saved, reply>>
      PROVE  Bloom!BloomNext
  <2>1. Positives(o) = {}
    BY <1>7, EmptyReportsNothing
  <2>2. Bloom!BloomEmpty(h)
    BY <1>6, <1>7, <2>1 DEF Bloom!BloomEmpty
  <2> QED
    BY <2>2 DEF Bloom!BloomNext
<1>8. ASSUME NEW h \in Handles, NEW l \in Layouts, Construct(h, l[1], l[2], l[3])
      PROVE  Bloom!BloomNext
  <2> DEFINE o == IF ValidLayout(l[1], l[2], l[3])
                    THEN [way |-> l[1], level |-> l[2], num |-> l[3], cnt |-> 0,
                          space |-> TRUE, bits |-> {}]
                    ELSE Refused
  <2>1. Install(h, o, {}, {}) /\ UNCHANGED <<saved, reply>>
    BY <1>8 DEF Construct
  <2>2. o \in Object /\ o.bits = {} /\ WellFormed(o)
    BY ConstructedObject, ArgumentAssumption
  <2> HIDE DEF o
  <2> QED
    BY <1>7, <2>1, <2>2
<1>9. ASSUME NEW h \in Handles, Clear(h)
      PROVE  Bloom!BloomNext
  <2> DEFINE o == [obj[h] EXCEPT !.cnt = 0, !.bits = {}]
  <2>1. Install(h, o, {}, {}) /\ UNCHANGED <<saved, reply>>
    BY <1>9 DEF Clear
  <2>2. o \in Object /\ WellFormed(o) /\ o.bits = {}
    BY <1>1 DEF Object, WellFormed
  <2> HIDE DEF o
  <2> QED
    BY <1>7, <2>1, <2>2
<1>10. ASSUME NEW h \in Handles, NEW r \in Readings,
              NEW c \in Claims \cup {saved.cnt}, Restore(h, r[1], r[2], c)
       PROVE  Bloom!BloomNext
  <2> DEFINE o == Copied(r[1], r[2], c)
  <2>1. r[1] \in Nat /\ r[2] \in Nat /\ c \in Nat
    BY ArgumentAssumption DEF IInv, TypeOK, Snapshot
  <2>2. CASE ~Accepts(r[1], r[2], saved.size)
    <3>1. Install(h, Refused, {}, {}) /\ UNCHANGED <<saved, reply>>
      BY <1>10, <2>2 DEF Restore
    <3>2. Refused \in Object /\ WellFormed(Refused) /\ Refused.bits = {}
      BY DEF Refused, Object, WellFormed
    <3> QED
      BY <1>7, <3>1, <3>2
  <2>3. CASE Accepts(r[1], r[2], saved.size) /\ ~Compatible(r[1], r[2])
    <3>1. Install(h, o, saved.bits, {}) /\ UNCHANGED <<saved, reply>> /\ o \in Object
      BY <1>10, <2>1, <2>3, CopiedWhole DEF Restore
    <3> HIDE DEF o
    <3>2. Positives(o) \in SUBSET Keys
      BY DEF Positives
    <3>3. Bloom!BloomGarble(h)
      BY <1>6, <3>1, <3>2 DEF Bloom!BloomGarble
    <3> QED
      BY <3>3 DEF Bloom!BloomNext
  <2>4. CASE Accepts(r[1], r[2], saved.size) /\ Compatible(r[1], r[2])
    <3>1. Install(h, o, saved.bits, saved.keys) /\ UNCHANGED <<saved, reply>>
          /\ o \in Object
      BY <1>10, <2>1, <2>4, CopiedWhole DEF Restore
    <3>2. Positives(SavedObject) \subseteq Positives(o)
      BY <2>1, <2>4, CompatibleKeepsAnswers
    <3> HIDE DEF o
    <3>3. Positives(o) \in SUBSET Keys
      BY DEF Positives
    <3>4. Bloom!BloomRestore(h)
      BY <1>6, <3>1, <3>2, <3>3, ZenonT(60) DEF Bloom!BloomRestore
    <3> QED
      BY <3>4 DEF Bloom!BloomNext
  <2> QED
    BY <2>2, <2>3, <2>4
<1>11. ASSUME NEW h \in Handles, NEW k \in Keys, Set(h, k)
       PROVE  Bloom!BloomNext
  <2>1. PICK o \in Object : /\ obj' = [obj EXCEPT ![h] = o] /\ o.space
                            /\ o.bits = obj[h].bits \cup ProbesOf(k, obj[h])
                            /\ \A x : ProbesOf(x, o) = ProbesOf(x, obj[h])
    BY <1>11, SetObject
  <2>2. pos' = [pos EXCEPT ![h] = Positives(o)] /\ snap' = snap
    BY <1>1, <1>2, <1>11, <2>1, AnswersOfOne DEF Set
  <2>3. obj[h].space /\ reply' = New(k, obj[h]) /\ keys' = [keys EXCEPT ![h] = @ \cup {k}]
    BY <1>11 DEF Set, Live
  <2>4. reply' = (k \notin Positives(obj[h]))
    BY <2>3 DEF New, Positives, Tested
  <2>5. /\ Positives(obj[h]) \cup {k} \subseteq Positives(o)
        /\ Positives(o) \in SUBSET Keys
    BY <2>1, <2>3 DEF Positives, Tested
  <2>6. k \in Positives(obj[h]) => Positives(o) = Positives(obj[h])
    BY <2>1, <2>3 DEF Positives, Tested
  <2>7. pos[h] = Positives(obj[h])
    OBVIOUS
  <2> HIDE DEF pos, snap
  <2>8. /\ reply' = (k \notin pos[h])
        /\ \E P \in SUBSET Keys : /\ pos[h] \cup {k} \subseteq P
                                  /\ k \in pos[h] => P = pos[h]
                                  /\ pos' = [pos EXCEPT ![h] = P]
    BY <2>2, <2>4, <2>5, <2>6, <2>7
  <2>9. Bloom!BloomSet(h, k)
    BY <2>2, <2>3, <2>8 DEF Bloom!BloomSet, pos, snap
  <2> QED
    BY <2>9 DEF Bloom!BloomNext
<1>12. ASSUME NEW h \in Handles, NEW k \in Keys, Test(h, k)
       PROVE  Bloom!BloomNext
  <2>1. reply' = (k \in Positives(obj[h])) /\ UNCHANGED <<obj, saved, keys>>
    <3>1. obj[h].space /\ reply' = Tested(k, obj[h])
      BY <1>12 DEF Test, Live
    <3>2. UNCHANGED <<obj, saved, keys>>
      BY <1>12 DEF Test
    <3> DEFINE T == ProbesOf(k, obj[h]) \subseteq obj[h].bits
    <3>3. (k \in Positives(obj[h])) <=> T
      BY <3>1 DEF Positives, Tested
    <3>4. reply' = T
      BY <3>1, Zenon DEF Tested
    <3>5. reply' = (k \in Positives(obj[h]))
      BY <3>3, <3>4
    <3> QED
      BY <3>2, <3>5
  <2>2. Bloom!BloomTest(h, k)
    BY <1>2, <1>3, <2>1 DEF Bloom!BloomTest
  <2> QED
    BY <2>2 DEF Bloom!BloomNext
<1>13. ASSUME NEW h \in Handles, NEW g \in Handles, Move(h, g)
       PROVE  Bloom!BloomNext
  <2> DEFINE left == [obj[h] EXCEPT !.space = FALSE, !.bits = {}]
  <2>1. /\ h # g /\ obj' = [obj EXCEPT ![g] = obj[h], ![h] = left]
        /\ keys' = [keys EXCEPT ![g] = keys[h], ![h] = {}]
        /\ UNCHANGED <<saved, reply>>
    BY <1>13 DEF Move
  <2>2. left \in Object /\ WellFormed(left) /\ left.bits = {}
    BY <1>1 DEF Object, WellFormed
  <2> HIDE DEF left
  <2>3. Positives(left) = {}
    BY <2>2, EmptyReportsNothing
  <2>4. pos' = [f \in Handles |-> Positives(obj'[f])]
    BY DEF Positives, Tested
  <2>5. \A f \in Handles :
           obj'[f] = (IF f = h THEN left ELSE IF f = g THEN obj[h] ELSE obj[f])
    BY <1>1, <2>1 DEF TypeOK
  <2>6. pos' = [pos EXCEPT ![g] = pos[h], ![h] = {}]
    BY <2>3, <2>4, <2>5
  <2>7. Bloom!BloomMove(h, g)
    BY <1>2, <2>1, <2>6 DEF Bloom!BloomMove
  <2> QED
    BY <2>7 DEF Bloom!BloomNext
<1>14. ASSUME NEW h \in Handles, Save(h)
       PROVE  Bloom!BloomNext
  <2>1. UNCHANGED <<obj, reply, keys>>
    BY <1>14 DEF Save
  <2>2. snap' = [keys |-> keys[h], positives |-> pos[h]]
    <3>1. saved'.keys = keys[h] /\ SavedObject' = obj[h]
      BY <1>14, SavedIsObject
    <3>2. Positives(SavedObject)' = Positives(SavedObject')
      BY DEF Positives, Tested
    <3> QED
      BY <3>1, <3>2
  <2>3. Bloom!BloomSave(h)
    BY <1>3, <2>1, <2>2 DEF Bloom!BloomSave
  <2> QED
    BY <2>3 DEF Bloom!BloomNext
<1> QED
  BY <1>4, <1>5, <1>8, <1>9, <1>10, <1>11, <1>12, <1>13, <1>14 DEF Next

\* Every behaviour of the filters, seen through their answers, is one of the
\* abstract filter: what set and test answer, and what moves, clears, snapshots
\* and restores do to the answers (pbf.cc, pbf.h:226-259).
THEOREM Refinement == Spec => ImplementsBloomFilter
<1>1. Spec => Bloom!BloomSpec
  BY InitImplements, StepImplements, Invariance, PTL DEF Spec, Bloom!BloomSpec
<1> QED
  BY <1>1 DEF ImplementsBloomFilter

\* The abstract filter keeps its promise, whatever implements it: a key it vouches for
\* is reported present, by every filter and by every snapshot that is restored
\* (README.md, "Bloom filter").
THEOREM BloomPromise == Bloom!BloomSpec => [](Bloom!BloomTypeOK /\ Bloom!Vouched)
<1> DEFINE pos == [h \in Handles |-> Positives(obj[h])]
           snap == [keys |-> saved.keys, positives |-> Positives(SavedObject)]
           Promise == /\ Bloom!BloomTypeOK /\ Bloom!Vouched
                      /\ saved.keys \subseteq Positives(SavedObject)
<1>1. Bloom!BloomInit => Promise
  BY DEF Bloom!BloomInit, Bloom!BloomTypeOK, Bloom!Vouched, Bloom!Answers
<1>2. Promise /\ [Bloom!BloomNext]_(Bloom!bloomVars) => Promise'
  <2> SUFFICES ASSUME Promise, [Bloom!BloomNext]_(Bloom!bloomVars) PROVE Promise'
    OBVIOUS
  <2> USE DEF Bloom!BloomTypeOK, Bloom!Vouched, Bloom!Answers
  <2>1. CASE Bloom!BloomRefuseKey
    BY <2>1 DEF Bloom!BloomRefuseKey
  <2>2. ASSUME NEW h \in Handles, Bloom!BloomEmpty(h) PROVE Promise'
    BY <2>2 DEF Bloom!BloomEmpty
  <2>3. ASSUME NEW h \in Handles, Bloom!BloomSave(h) PROVE Promise'
    BY <2>3 DEF Bloom!BloomSave
  <2>4. ASSUME NEW h \in Handles, Bloom!BloomRestore(h) PROVE Promise'
    <3>1. PICK P \in SUBSET Keys : snap.positives \subseteq P /\ pos' = [pos EXCEPT ![h] = P]
      BY <2>4, Zenon DEF Bloom!BloomRestore
    <3>2. keys' = [keys EXCEPT ![h] = snap.keys] /\ UNCHANGED <<snap, reply>>
      BY <2>4, Zenon DEF Bloom!BloomRestore
    <3>3. \A g \in Handles : keys'[g] \subseteq pos'[g]
      BY <3>1, <3>2
    <3> QED BY <3>1, <3>2, <3>3
  <2>5. ASSUME NEW h \in Handles, Bloom!BloomGarble(h) PROVE Promise'
    BY <2>5 DEF Bloom!BloomGarble
  <2>6. ASSUME NEW h \in Handles, NEW k \in Keys, Bloom!BloomSet(h, k) PROVE Promise'
    <3>1. PICK P \in SUBSET Keys : pos[h] \cup {k} \subseteq P /\ pos' = [pos EXCEPT ![h] = P]
      BY <2>6, Zenon DEF Bloom!BloomSet
    <3>2. /\ keys' = [keys EXCEPT ![h] = @ \cup {k}]
          /\ reply' = (k \notin pos[h]) /\ UNCHANGED snap
      BY <2>6, Zenon DEF Bloom!BloomSet
    <3>3. \A g \in Handles : keys'[g] \subseteq pos'[g]
      BY <3>1, <3>2
    <3> QED BY <3>1, <3>2, <3>3
  <2>7. ASSUME NEW h \in Handles, NEW k \in Keys, Bloom!BloomTest(h, k) PROVE Promise'
    BY <2>7 DEF Bloom!BloomTest
  <2>8. ASSUME NEW h \in Handles, NEW g \in Handles, Bloom!BloomMove(h, g) PROVE Promise'
    BY <2>8 DEF Bloom!BloomMove
  <2>9. CASE UNCHANGED Bloom!bloomVars
    BY <2>9 DEF Bloom!bloomVars
  <2> QED
    BY <2>1, <2>2, <2>3, <2>4, <2>5, <2>6, <2>7, <2>8, <2>9 DEF Bloom!BloomNext
<1> HIDE DEF Promise
<1>3. Bloom!BloomSpec => []Promise
  BY <1>1, <1>2, PTL DEF Bloom!BloomSpec
<1> QED
  BY <1>3, PTL DEF Promise
=============================================================================
