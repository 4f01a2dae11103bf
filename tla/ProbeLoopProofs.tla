---------------------------- MODULE ProbeLoopProofs ----------------------------
(***************************************************************************)
(* Proofs about set and test taken apart: for any number of threads, keys, *)
(* ways and calls, and whatever bits the probes of a key fall on.          *)
(***************************************************************************)
EXTENDS ProbeLoop, FiniteSetTheorems, TLAPS

Call == [key : Keys, i : 1..N, hit : BOOLEAN, byte : SUBSET Nat, count : Nat,
         page : SUBSET Nat, known : SUBSET Keys, alone : BOOLEAN]

TypeOK ==
    /\ page \in SUBSET Nat /\ IsFiniteSet(page) /\ unique_cnt \in Nat
    /\ pc \in [Threads -> {"idle", "test", "read", "write", "return", "count"}]
    /\ call \in [Threads -> Call]
    /\ \A t \in Threads : IsFiniteSet(call[t].byte)
    /\ answer \in [Threads -> BOOLEAN]
    /\ done \in SUBSET [key : Keys, alone : BOOLEAN]
    /\ \A t \in Readers : pc[t] \in {"idle", "test"}
    /\ \A t \in Writers : pc[t] # "test"

ProbesBefore(k, i) == {Position[k][j] : j \in {m \in 1..N : m < i}}

\* The probes of its key that a call is done with, and those in hit.
Before(t) == IF pc[t] \in {"return", "count"} THEN PositionsOf(call[t].key)
             ELSE ProbesBefore(call[t].key, call[t].i)
Compared(t) == IF pc[t] = "write" THEN Before(t) \cup {Pos(t)} ELSE Before(t)

\* A set that has met no other is the only one.
OneAlone ==
    \A t, u \in Writers : pc[t] # "idle" /\ call[t].alone /\ pc[u] # "idle" => u = t

\* Such a set has added exactly the probes it is done with.
Progress ==
    \A t \in Writers : pc[t] # "idle" /\ call[t].alone =>
        /\ page = call[t].page \cup Before(t)
        /\ call[t].hit <=> Compared(t) \subseteq call[t].page
        /\ pc[t] = "write" => call[t].byte = page \cap ByteOf(Pos(t))

\* A key that such a set has left is in the page, and in every byte that any writer
\* is about to write back.
KeptBits ==
    \A k \in Kept :
        /\ PositionsOf(k) \subseteq page
        /\ \A t \in Writers : pc[t] = "write" =>
              PositionsOf(k) \cap ByteOf(Pos(t)) \subseteq call[t].byte

\* What a reader knew was kept, and is kept for good.
Readings ==
    \A t \in Readers :
        /\ call[t].known \subseteq Kept
        /\ pc[t] = "idle" /\ call[t].key \in call[t].known => answer[t]

BegunBits == UNION {PositionsOf(k) : k \in Begun}

Origins ==
    /\ page \subseteq BegunBits
    /\ \A t \in Writers : pc[t] = "write" => call[t].byte \subseteq BegunBits

\* As long as no two sets have met: what a reader saw is there, and every count is
\* of a bit.
Peace ==
    ~Raced =>
      /\ \A t \in Readers :
            /\ pc[t] = "test" => Before(t) \subseteq page
            /\ pc[t] = "idle" /\ answer[t] => PositionsOf(call[t].key) \subseteq page
      /\ unique_cnt <= Cardinality(page)
      /\ \A t \in Writers :
            /\ pc[t] # "idle" => unique_cnt <= Cardinality(call[t].page)
            /\ pc[t] = "count" => call[t].count = unique_cnt /\ ~call[t].hit

IInv == TypeOK /\ OneAlone /\ Progress /\ KeptBits /\ Readings /\ Origins /\ Peace

-----------------------------------------------------------------------------
(***************************************************************************)
(* Positions and bytes.                                                    *)
(***************************************************************************)
LEMMA Bytes ==
    ASSUME NEW b \in Nat
    PROVE  b \in ByteOf(b) /\ ByteOf(b) \subseteq Nat
<1>1. b = 8 * (b \div 8) + (b % 8) /\ b % 8 \in 0..7 /\ b \div 8 \in Nat
  OBVIOUS
<1> QED
  BY <1>1 DEF ByteOf

LEMMA Positions ==
    ASSUME NEW k \in Keys, NEW i \in 1..N
    PROVE  /\ Position[k][i] \in Nat /\ Position[k][i] \in PositionsOf(k)
           /\ PositionsOf(k) \subseteq Nat
BY ProbeAssumption DEF PositionsOf

LEMMA OneMore ==
    ASSUME NEW k \in Keys, NEW i \in 1..N
    PROVE  /\ ProbesBefore(k, i + 1) = ProbesBefore(k, i) \cup {Position[k][i]}
           /\ ProbesBefore(k, i) \subseteq PositionsOf(k)
           /\ i = N => ProbesBefore(k, i + 1) = PositionsOf(k)
           /\ ProbesBefore(k, 1) = {}
<1>1. N \in Nat
  BY ProbeAssumption
<1>2. /\ {m \in 1..N : m < i + 1} = {m \in 1..N : m < i} \cup {i}
      /\ i = N => {m \in 1..N : m < i + 1} = 1..N
      /\ {m \in 1..N : m < 1} = {}
  BY <1>1
<1> QED
  BY <1>2 DEF PositionsOf, ProbesBefore

\* What the invariant says of one thread.
LEMMA Thread ==
    ASSUME IInv, NEW t \in Threads
    PROVE  /\ call[t] \in Call /\ call[t].key \in Keys /\ call[t].i \in 1..N
           /\ call[t].hit \in BOOLEAN /\ call[t].alone \in BOOLEAN
           /\ call[t].byte \in SUBSET Nat /\ IsFiniteSet(call[t].byte)
           /\ call[t].page \in SUBSET Nat /\ call[t].count \in Nat
           /\ call[t].known \in SUBSET Keys
           /\ Pos(t) \in Nat /\ Pos(t) \in PositionsOf(call[t].key)
           /\ Pos(t) \in ByteOf(Pos(t)) /\ ByteOf(Pos(t)) \subseteq Nat
           /\ Before(t) \subseteq PositionsOf(call[t].key)
           /\ PositionsOf(call[t].key) \subseteq Nat
           /\ t \in Writers => t \notin Readers
<1>1. call[t] \in Call /\ IsFiniteSet(call[t].byte)
  BY DEF IInv, TypeOK
<1>2. call[t].key \in Keys /\ call[t].i \in 1..N
  BY <1>1 DEF Call
<1>3. /\ Pos(t) \in Nat /\ Pos(t) \in PositionsOf(call[t].key)
      /\ PositionsOf(call[t].key) \subseteq Nat
  BY <1>2, Positions DEF Pos
<1>4. Pos(t) \in ByteOf(Pos(t)) /\ ByteOf(Pos(t)) \subseteq Nat
  BY <1>3, Bytes
<1>5. Before(t) \subseteq PositionsOf(call[t].key)
  <2>1. ProbesBefore(call[t].key, call[t].i) \subseteq PositionsOf(call[t].key)
    BY <1>2, OneMore
  <2> QED
    BY <2>1 DEF Before
<1> QED
  BY <1>1, <1>2, <1>3, <1>4, <1>5, ProbeAssumption DEF Call

\* A thread whose key, index and place are the same is done with the same probes.
LEMMA Alike ==
    ASSUME NEW t, call'[t].key = call[t].key, call'[t].i = call[t].i, pc'[t] = pc[t]
    PROVE  Pos(t)' = Pos(t) /\ Before(t)' = Before(t) /\ Compared(t)' = Compared(t)
BY DEF Pos, Before, Compared

\* A step of a writer that changes its own call and nothing of the bitmap: what the
\* readers, the history and the other writers are is as it was.
OwnStep(t) ==
    /\ \A u \in Threads : u # t => call'[u] = call[u] /\ pc'[u] = pc[u]
    /\ UNCHANGED <<unique_cnt, answer, done, calls>>
    /\ call'[t].key = call[t].key /\ call'[t].alone = call[t].alone
    /\ call'[t].page = call[t].page
    /\ pc[t] # "idle" /\ pc'[t] # "idle"

LEMMA OwnStepKeeps ==
    ASSUME IInv, NEW t \in Writers, OwnStep(t)
    PROVE  /\ Kept' = Kept /\ BegunBits' = BegunBits /\ (Raced' <=> Raced)
           /\ OneAlone' /\ Readings'
           /\ \A u \in Threads \ {t} :
                 Pos(u)' = Pos(u) /\ Before(u)' = Before(u) /\ Compared(u)' = Compared(u)
<1>1. Kept' = Kept
  BY DEF OwnStep, Kept
<1>2. \A u \in Threads : call'[u].key = call[u].key /\ call'[u].alone = call[u].alone
  BY DEF OwnStep
<1>3. \A u \in Threads : pc'[u] # "idle" <=> pc[u] # "idle"
  BY DEF OwnStep
<1>4. Begun' = Begun
  <2>1. {call'[u].key : u \in {w \in Writers : pc'[w] # "idle"}}
           = {call[u].key : u \in {w \in Writers : pc[w] # "idle"}}
    BY <1>2, <1>3 DEF Threads
  <2> QED
    BY <2>1 DEF Begun, OwnStep
<1>5. Raced' <=> Raced
  BY <1>2, <1>3 DEF Raced, OwnStep, Threads
<1>6. OneAlone'
  BY <1>2, <1>3 DEF OneAlone, IInv, Threads
<1>7. \A u \in Readers : call'[u] = call[u] /\ pc'[u] = pc[u] /\ answer'[u] = answer[u]
  BY ProbeAssumption DEF OwnStep, Threads
<1>8. Readings'
  BY <1>1, <1>7 DEF Readings, IInv
<1>9. ASSUME NEW u \in Threads \ {t}
      PROVE  Pos(u)' = Pos(u) /\ Before(u)' = Before(u) /\ Compared(u)' = Compared(u)
  <2>1. call'[u].key = call[u].key /\ call'[u].i = call[u].i /\ pc'[u] = pc[u]
    BY DEF OwnStep
  <2> QED
    BY <2>1, Alike
<1> QED
  BY <1>1, <1>4, <1>5, <1>6, <1>8, <1>9 DEF BegunBits

\* ... and if it takes no bit away, peace is kept as well.
LEMMA PeaceKept ==
    ASSUME IInv, NEW t \in Writers, OwnStep(t), TypeOK',
           ~Raced => page \subseteq page',
           pc'[t] = "count" => call'[t].count = unique_cnt /\ ~call'[t].hit
    PROVE  Peace'
<1>1. /\ Raced' <=> Raced
      /\ \A u \in Threads \ {t} : Before(u)' = Before(u)
  BY OwnStepKeeps
<1> SUFFICES ASSUME ~Raced
             PROVE  /\ \A u \in Readers :
                          /\ pc'[u] = "test" => Before(u)' \subseteq page'
                          /\ pc'[u] = "idle" /\ answer'[u] =>
                                PositionsOf(call'[u].key) \subseteq page'
                    /\ unique_cnt' <= Cardinality(page')
                    /\ \A u \in Writers :
                          /\ pc'[u] # "idle" => unique_cnt' <= Cardinality(call'[u].page)
                          /\ pc'[u] = "count" => call'[u].count = unique_cnt' /\ ~call'[u].hit
  BY <1>1 DEF Peace
<1>2. /\ \A u \in Readers :
            /\ pc[u] = "test" => Before(u) \subseteq page
            /\ pc[u] = "idle" /\ answer[u] => PositionsOf(call[u].key) \subseteq page
      /\ unique_cnt <= Cardinality(page) /\ unique_cnt \in Nat
      /\ \A u \in Writers :
            /\ pc[u] # "idle" => unique_cnt <= Cardinality(call[u].page)
            /\ pc[u] = "count" => call[u].count = unique_cnt /\ ~call[u].hit
  BY DEF IInv, Peace, TypeOK
<1>3. unique_cnt' = unique_cnt /\ page \subseteq page'
  BY DEF OwnStep
<1>4. ASSUME NEW u \in Readers
      PROVE  /\ call'[u] = call[u] /\ pc'[u] = pc[u] /\ Before(u)' = Before(u)
             /\ answer'[u] = answer[u]
  BY <1>1, ProbeAssumption DEF OwnStep, Threads
<1>5. unique_cnt' <= Cardinality(page')
  <2>1. Cardinality(page) <= Cardinality(page')
    BY <1>3, FS_Subset DEF TypeOK
  <2>2. Cardinality(page) \in Nat /\ Cardinality(page') \in Nat
    BY FS_CardinalityType DEF IInv, TypeOK
  <2> QED
    BY <1>2, <1>3, <2>1, <2>2
<1>6. ASSUME NEW u \in Writers, pc'[u] # "idle"
      PROVE  /\ unique_cnt' <= Cardinality(call'[u].page)
             /\ pc'[u] = "count" => call'[u].count = unique_cnt' /\ ~call'[u].hit
  <2>1. call'[u].page = call[u].page /\ pc[u] # "idle"
    BY <1>6 DEF OwnStep, Threads
  <2>2. pc'[u] = "count" => call'[u].count = unique_cnt' /\ ~call'[u].hit
    BY <1>2, <1>3 DEF OwnStep, Threads
  <2> QED
    BY <1>2, <1>3, <2>1, <2>2
<1> QED
  BY <1>2, <1>3, <1>4, <1>5, <1>6

LEMMA SetReadStep ==
    ASSUME IInv, NEW t \in Writers, SetRead(t)
    PROVE  /\ OwnStep(t) /\ TypeOK' /\ page' = page
           /\ pc[t] = "read" /\ pc'[t] = "write"
           /\ call'[t].byte = page \cap ByteOf(Pos(t))
           /\ call'[t].hit = Hit(t) /\ call'[t].i = call[t].i
<1> DEFINE x == call[t]
           b == page \cap ByteOf(Pos(t))
           h == Hit(t)
           y == [x EXCEPT !.byte = b, !.hit = h]
<1>1. /\ t \in Threads /\ x \in Call /\ t \notin Readers
      /\ call' = [call EXCEPT ![t] = y]
      /\ pc[t] = "read" /\ pc' = [pc EXCEPT ![t] = "write"]
      /\ UNCHANGED <<page, unique_cnt, answer, done, calls>>
  BY ProbeAssumption DEF SetRead, IInv, TypeOK, Threads
<1>2. h \in BOOLEAN
  BY <1>1 DEF Call, Hit
<1>3. b \in SUBSET Nat /\ IsFiniteSet(b)
  BY FS_Subset DEF IInv, TypeOK
<1> HIDE DEF b, h
<1>4. /\ y \in Call /\ y.byte = b /\ y.hit = h /\ y.key = x.key /\ y.i = x.i
      /\ y.page = x.page /\ y.alone = x.alone
  BY <1>1, <1>2, <1>3 DEF Call
<1> HIDE DEF y
<1>5. /\ call'[t] = y /\ pc'[t] = "write"
      /\ \A u \in Threads : u # t => call'[u] = call[u] /\ pc'[u] = pc[u]
  BY <1>1 DEF IInv, TypeOK
<1>6. TypeOK'
  BY <1>1, <1>3, <1>4, <1>5 DEF IInv, TypeOK
<1>7. OwnStep(t)
  BY <1>1, <1>4, <1>5 DEF OwnStep
<1> QED
  BY <1>1, <1>4, <1>5, <1>6, <1>7 DEF b, h

LEMMA SetReadKeeps ==
    ASSUME IInv, NEW t \in Writers, SetRead(t)
    PROVE  IInv'
<1>1. /\ OwnStep(t) /\ TypeOK' /\ page' = page
      /\ pc[t] = "read" /\ pc'[t] = "write" /\ call'[t].i = call[t].i
      /\ call'[t].byte = page \cap ByteOf(Pos(t)) /\ call'[t].hit = Hit(t)
  BY SetReadStep
<1>2. /\ Kept' = Kept /\ BegunBits' = BegunBits /\ (Raced' <=> Raced)
      /\ OneAlone' /\ Readings'
      /\ \A u \in Threads \ {t} :
            Pos(u)' = Pos(u) /\ Before(u)' = Before(u) /\ Compared(u)' = Compared(u)
  BY <1>1, OwnStepKeeps
<1>3. \A u \in Threads : u # t => call'[u] = call[u] /\ pc'[u] = pc[u]
  BY <1>1 DEF OwnStep
<1>4. /\ call'[t].key = call[t].key /\ call'[t].alone = call[t].alone
      /\ call'[t].page = call[t].page
  BY <1>1 DEF OwnStep
<1>5. /\ Pos(t)' = Pos(t) /\ Before(t)' = Before(t)
      /\ Compared(t) = Before(t) /\ Compared(t)' = Before(t) \cup {Pos(t)}
  BY <1>1, <1>4 DEF Pos, Before, Compared
<1>6. Progress'
  <2>1. ASSUME NEW u \in Writers, pc'[u] # "idle", call'[u].alone
        PROVE  /\ page' = call'[u].page \cup Before(u)'
               /\ call'[u].hit <=> Compared(u)' \subseteq call'[u].page
               /\ pc'[u] = "write" => call'[u].byte = page' \cap ByteOf(Pos(u)')
    <3>1. CASE u = t
      <4>1. page = call[t].page \cup Before(t) /\ (call[t].hit <=> Before(t) \subseteq call[t].page)
        BY <1>1, <1>4, <1>5, <2>1, <3>1 DEF IInv, Progress
      <4>2. call'[t].hit <=> Compared(t)' \subseteq call[t].page
        BY <1>1, <1>5, <4>1 DEF Hit
      <4> QED
        BY <1>1, <1>4, <1>5, <3>1, <4>1, <4>2
    <3>2. CASE u # t
      BY <1>1, <1>2, <1>3, <2>1, <3>2 DEF IInv, Progress, Threads
    <3> QED
      BY <3>1, <3>2
  <2> QED
    BY <2>1 DEF Progress
<1>7. KeptBits'
  <2>1. ASSUME NEW k \in Kept
        PROVE  /\ PositionsOf(k) \subseteq page'
               /\ \A u \in Writers : pc'[u] = "write" =>
                     PositionsOf(k) \cap ByteOf(Pos(u)') \subseteq call'[u].byte
    BY <1>1, <1>2, <1>3, <1>5 DEF IInv, KeptBits, Threads
  <2> QED
    BY <1>2, <2>1 DEF KeptBits
<1>8. Origins'
  BY <1>1, <1>2, <1>3 DEF IInv, Origins, Threads
<1>9. Peace'
  BY <1>1, PeaceKept
<1> QED
  BY <1>1, <1>2, <1>6, <1>7, <1>8, <1>9 DEF IInv

LEMMA SetWriteStep ==
    ASSUME IInv, NEW t \in Writers, SetWrite(t)
    PROVE  /\ OwnStep(t) /\ TypeOK' /\ pc[t] = "write" /\ pc'[t] \in {"read", "return"}
           /\ page' = (page \ ByteOf(Pos(t))) \cup call[t].byte \cup {Pos(t)}
           /\ call'[t].hit = call[t].hit
           /\ Before(t)' = Before(t) \cup {Pos(t)}
<1> DEFINE x == call[t]
           q == (page \ ByteOf(Pos(t))) \cup Written(t)
<1>1. /\ t \in Threads /\ x \in Call /\ t \notin Readers /\ pc[t] = "write"
      /\ page' = q
      /\ UNCHANGED <<unique_cnt, answer, done, calls>>
  BY ProbeAssumption DEF SetWrite, IInv, TypeOK, Threads
<1>2. /\ x.key \in Keys /\ x.i \in 1..N /\ N \in Nat /\ x.byte \in SUBSET Nat
      /\ IsFiniteSet(x.byte) /\ Pos(t) \in Nat
  BY <1>1, Thread, ProbeAssumption
<1>3. q = (page \ ByteOf(Pos(t))) \cup x.byte \cup {Pos(t)}
  BY DEF Written
<1>4. page' \in SUBSET Nat /\ IsFiniteSet(page')
  <2>1. page \in SUBSET Nat /\ IsFiniteSet(page)
    BY DEF IInv, TypeOK
  <2>2. IsFiniteSet(page \ ByteOf(Pos(t)))
    BY <2>1, FS_Subset
  <2>3. IsFiniteSet((page \ ByteOf(Pos(t))) \cup x.byte)
    BY <1>2, <2>2, FS_Union
  <2>4. IsFiniteSet(((page \ ByteOf(Pos(t))) \cup x.byte) \cup {Pos(t)})
    BY <2>3, FS_AddElement
  <2> QED
    BY <1>1, <1>2, <1>3, <2>1, <2>4
<1> HIDE DEF q
<1>5. CASE LastProbe(t)
  <2>1. pc' = [pc EXCEPT ![t] = "return"] /\ call' = call
    BY <1>5 DEF SetWrite
  <2>2. pc'[t] = "return" /\ \A u \in Threads : u # t => pc'[u] = pc[u]
    BY <1>1, <2>1 DEF IInv, TypeOK
  <2>3. TypeOK'
    BY <1>1, <1>4, <2>1, <2>2 DEF IInv, TypeOK
  <2>4. x.i = N
    BY <1>5 DEF LastProbe
  <2>5. /\ Before(t)' = PositionsOf(x.key)
        /\ Before(t) = ProbesBefore(x.key, x.i)
        /\ Pos(t) = Position[x.key][x.i]
    BY <1>1, <2>1, <2>2 DEF Before, Pos
  <2>6. Before(t)' = Before(t) \cup {Pos(t)}
    BY <1>2, <2>4, <2>5, OneMore
  <2> QED
    BY <1>1, <1>3, <2>1, <2>2, <2>3, <2>6 DEF OwnStep
<1>6. CASE ~LastProbe(t)
  <2> DEFINE y == [x EXCEPT !.i = @ + 1]
  <2>1. pc' = [pc EXCEPT ![t] = "read"] /\ call' = [call EXCEPT ![t].i = @ + 1]
    BY <1>6 DEF SetWrite
  <2>2. x.i + 1 \in 1..N
    BY <1>2, <1>6 DEF LastProbe
  <2>3. /\ y \in Call /\ y.i = x.i + 1 /\ y.key = x.key /\ y.alone = x.alone
        /\ y.page = x.page /\ y.hit = x.hit /\ y.byte = x.byte
    BY <1>1, <2>2 DEF Call
  <2>4. call' = [call EXCEPT ![t] = y]
    BY <2>1
  <2> HIDE DEF y
  <2>5. /\ call'[t] = y /\ pc'[t] = "read"
        /\ \A u \in Threads : u # t => call'[u] = call[u] /\ pc'[u] = pc[u]
    BY <1>1, <2>1, <2>4 DEF IInv, TypeOK
  <2>6. TypeOK'
    BY <1>1, <1>2, <1>4, <2>1, <2>3, <2>4, <2>5 DEF IInv, TypeOK
  <2>7. Before(t)' = ProbesBefore(x.key, x.i + 1)
    BY <2>3, <2>5 DEF Before
  <2>8. Before(t) = ProbesBefore(x.key, x.i) /\ Pos(t) = Position[x.key][x.i]
    BY <1>1 DEF Before, Pos
  <2>9. Before(t)' = Before(t) \cup {Pos(t)}
    BY <1>2, <2>7, <2>8, OneMore
  <2> QED
    BY <1>1, <1>3, <2>3, <2>5, <2>6, <2>9 DEF OwnStep
<1> QED
  BY <1>5, <1>6

LEMMA SetWriteKeeps ==
    ASSUME IInv, NEW t \in Writers, SetWrite(t)
    PROVE  IInv'
<1>1. /\ OwnStep(t) /\ TypeOK' /\ pc[t] = "write" /\ pc'[t] \in {"read", "return"}
      /\ page' = (page \ ByteOf(Pos(t))) \cup call[t].byte \cup {Pos(t)}
      /\ call'[t].hit = call[t].hit
      /\ Before(t)' = Before(t) \cup {Pos(t)}
  BY SetWriteStep
<1>2. /\ Kept' = Kept /\ BegunBits' = BegunBits /\ (Raced' <=> Raced)
      /\ OneAlone' /\ Readings'
      /\ \A u \in Threads \ {t} :
            Pos(u)' = Pos(u) /\ Before(u)' = Before(u) /\ Compared(u)' = Compared(u)
  BY <1>1, OwnStepKeeps
<1>3. \A u \in Threads : u # t => call'[u] = call[u] /\ pc'[u] = pc[u]
  BY <1>1 DEF OwnStep
<1>4. /\ call'[t].key = call[t].key /\ call'[t].alone = call[t].alone
      /\ call'[t].page = call[t].page
  BY <1>1 DEF OwnStep
<1>5. Compared(t) = Before(t)' /\ Compared(t)' = Before(t)'
  BY <1>1 DEF Compared
<1>6. call[t].alone => /\ page' = page \cup {Pos(t)}
                       /\ page = call[t].page \cup Before(t)
                       /\ call[t].hit <=> Compared(t) \subseteq call[t].page
                       /\ \A u \in Writers : pc[u] # "idle" => u = t
  BY <1>1 DEF IInv, Progress, OneAlone
<1>7. Progress'
  <2>1. ASSUME NEW u \in Writers, pc'[u] # "idle", call'[u].alone
        PROVE  /\ page' = call'[u].page \cup Before(u)'
               /\ call'[u].hit <=> Compared(u)' \subseteq call'[u].page
               /\ pc'[u] = "write" => call'[u].byte = page' \cap ByteOf(Pos(u)')
    <3>1. u = t
      BY <1>1, <1>3, <2>1 DEF IInv, OneAlone, Threads
    <3> QED
      BY <1>1, <1>4, <1>5, <1>6, <2>1, <3>1
  <2> QED
    BY <2>1 DEF Progress
<1>8. KeptBits'
  <2>1. ASSUME NEW k \in Kept
        PROVE  /\ PositionsOf(k) \subseteq page'
               /\ \A u \in Writers : pc'[u] = "write" =>
                     PositionsOf(k) \cap ByteOf(Pos(u)') \subseteq call'[u].byte
    BY <1>1, <1>2, <1>3 DEF IInv, KeptBits, Threads
  <2> QED
    BY <1>2, <2>1 DEF KeptBits
<1>9. Origins'
  <2>1. Pos(t) \in BegunBits
    BY <1>1, Thread DEF BegunBits, Begun, Threads
  <2> QED
    BY <1>1, <1>2, <1>3, <2>1 DEF IInv, Origins, Threads
<1>10. Peace'
  <2>1. ~Raced => page \subseteq page'
    BY <1>1, <1>6 DEF Raced
  <2> QED
    BY <1>1, <2>1, PeaceKept
<1> QED
  BY <1>1, <1>2, <1>7, <1>8, <1>9, <1>10 DEF IInv

LEMMA CountReadKeeps ==
    ASSUME IInv, NEW t \in Writers, CountRead(t)
    PROVE  IInv'
<1> DEFINE x == call[t]
           y == [x EXCEPT !.count = unique_cnt]
<1>1. /\ t \in Threads /\ x \in Call /\ t \notin Readers /\ ~x.hit
      /\ call' = [call EXCEPT ![t] = y]
      /\ pc[t] = "return" /\ pc' = [pc EXCEPT ![t] = "count"]
      /\ UNCHANGED <<page, unique_cnt, answer, done, calls>>
  BY ProbeAssumption DEF CountRead, IInv, TypeOK, Threads
<1>2. /\ y \in Call /\ y.count = unique_cnt /\ y.key = x.key /\ y.i = x.i
      /\ y.page = x.page /\ y.alone = x.alone /\ y.hit = x.hit /\ y.byte = x.byte
  BY <1>1 DEF Call, IInv, TypeOK
<1> HIDE DEF y
<1>3. /\ call'[t] = y /\ pc'[t] = "count"
      /\ \A u \in Threads : u # t => call'[u] = call[u] /\ pc'[u] = pc[u]
  BY <1>1 DEF IInv, TypeOK
<1>4. TypeOK' /\ OwnStep(t)
  <2>1. TypeOK'
    BY <1>1, <1>2, <1>3 DEF IInv, TypeOK
  <2>2. OwnStep(t)
    BY <1>1, <1>2, <1>3 DEF OwnStep
  <2> QED
    BY <2>1, <2>2
<1>5. /\ Kept' = Kept /\ BegunBits' = BegunBits /\ (Raced' <=> Raced)
      /\ OneAlone' /\ Readings'
      /\ \A u \in Threads \ {t} :
            Pos(u)' = Pos(u) /\ Before(u)' = Before(u) /\ Compared(u)' = Compared(u)
  BY <1>4, OwnStepKeeps
<1>6. /\ Before(t)' = Before(t) /\ Compared(t)' = Compared(t)
      /\ call'[t].hit = call[t].hit /\ call'[t].page = call[t].page
      /\ call'[t].alone = call[t].alone
  BY <1>1, <1>2, <1>3 DEF Before, Compared
<1>7. Progress'
  <2>1. ASSUME NEW u \in Writers, pc'[u] # "idle", call'[u].alone
        PROVE  /\ page' = call'[u].page \cup Before(u)'
               /\ call'[u].hit <=> Compared(u)' \subseteq call'[u].page
               /\ pc'[u] = "write" => call'[u].byte = page' \cap ByteOf(Pos(u)')
    <3>1. CASE u = t
      BY <1>1, <1>3, <1>6, <2>1, <3>1 DEF IInv, Progress
    <3>2. CASE u # t
      BY <1>1, <1>3, <1>5, <2>1, <3>2 DEF IInv, Progress, Threads
    <3> QED
      BY <3>1, <3>2
  <2> QED
    BY <2>1 DEF Progress
<1>8. \A u \in Writers : pc'[u] = "write" => pc[u] = "write" /\ call'[u] = call[u] /\ Pos(u)' = Pos(u)
  BY <1>3, <1>5 DEF Threads
<1>9. KeptBits'
  <2>1. ASSUME NEW k \in Kept
        PROVE  /\ PositionsOf(k) \subseteq page'
               /\ \A u \in Writers : pc'[u] = "write" =>
                     PositionsOf(k) \cap ByteOf(Pos(u)') \subseteq call'[u].byte
    BY <1>1, <1>8 DEF IInv, KeptBits
  <2> QED
    BY <1>5, <2>1 DEF KeptBits
<1>10. Origins'
  BY <1>1, <1>5, <1>8 DEF IInv, Origins
<1>11. Peace'
  BY <1>1, <1>2, <1>3, <1>4, PeaceKept
<1> QED
  BY <1>4, <1>5, <1>7, <1>9, <1>10, <1>11 DEF IInv

LEMMA NoCallType == NoCall \in Call /\ NoCall.known = {} /\ IsFiniteSet(NoCall.byte)
<1>1. (CHOOSE k \in Keys : TRUE) \in Keys /\ 1 \in 1..N
  BY ProbeAssumption
<1> QED
  BY <1>1, FS_EmptySet DEF NoCall, Call

\* A set returns: its key is kept, if it met no other set.
LEMMA LeaveKeeps ==
    ASSUME IInv, NEW t \in Writers, pc[t] \in {"return", "count"}, Leave(t),
           page' = page, done' = done \cup {Ended(t)},
           answer' \in [Threads -> BOOLEAN],
           \A u \in Readers : answer'[u] = answer[u],
           unique_cnt' \in Nat, ~Raced => unique_cnt' <= Cardinality(page)
    PROVE  IInv'
<1>1. /\ t \in Threads /\ t \notin Readers /\ call[t] \in Call
      /\ pc[t] # "idle" /\ pc[t] # "write"
  BY ProbeAssumption DEF IInv, TypeOK, Threads
<1>2. /\ call'[t] = NoCall /\ pc'[t] = "idle"
      /\ \A u \in Threads : u # t => call'[u] = call[u] /\ pc'[u] = pc[u]
      /\ call' \in [Threads -> Call]
  BY <1>1, NoCallType DEF Leave, IInv, TypeOK
<1>3. ASSUME NEW u \in Threads \ {t}
      PROVE  Pos(u)' = Pos(u) /\ Before(u)' = Before(u) /\ Compared(u)' = Compared(u)
  <2>1. call'[u].key = call[u].key /\ call'[u].i = call[u].i /\ pc'[u] = pc[u]
    BY <1>2
  <2> QED
    BY <2>1, Alike
<1>4. TypeOK'
  <2>1. Ended(t) \in [key : Keys, alone : BOOLEAN]
    BY <1>1 DEF Ended, Call
  <2>2. \A u \in Threads : IsFiniteSet(call'[u].byte)
    BY <1>2, NoCallType DEF IInv, TypeOK
  <2>3. pc' = [pc EXCEPT ![t] = "idle"]
    BY DEF Leave
  <2> QED
    BY <1>1, <1>2, <2>1, <2>2, <2>3 DEF IInv, TypeOK
<1>5. /\ Kept \subseteq Kept'
      /\ \A k \in Kept' : k \in Kept \/ (call[t].alone /\ k = call[t].key)
  <2>1. Ended(t).key = call[t].key /\ Ended(t).alone = call[t].alone
    BY DEF Ended
  <2> QED
    BY <2>1 DEF Kept
<1>6. BegunBits \subseteq BegunBits'
  <2>1. ASSUME NEW k \in Begun
        PROVE  k \in Begun'
    <3>1. CASE \E d \in done : k = d.key
      BY <3>1 DEF Begun
    <3>2. ASSUME NEW u \in Writers, pc[u] # "idle", k = call[u].key
          PROVE  k \in Begun'
      <4>1. CASE u = t
        <5>1. Ended(t) \in done' /\ k = Ended(t).key
          BY <3>2, <4>1 DEF Ended
        <5> QED
          BY <5>1 DEF Begun
      <4>2. CASE u # t
        BY <1>2, <3>2, <4>2 DEF Begun, Threads
      <4> QED
        BY <4>1, <4>2
    <3> QED
      BY <3>1, <3>2 DEF Begun
  <2> QED
    BY <2>1 DEF BegunBits
<1>7. Raced => Raced'
  <2>1. ASSUME NEW d \in done, ~d.alone
        PROVE  Raced'
    BY <2>1 DEF Raced
  <2>2. ASSUME NEW u \in Writers, pc[u] # "idle", ~call[u].alone
        PROVE  Raced'
    <3>1. CASE u = t
      <4>1. Ended(t) \in done' /\ ~Ended(t).alone
        BY <2>2, <3>1 DEF Ended
      <4> QED
        BY <4>1 DEF Raced
    <3>2. CASE u # t
      BY <1>2, <2>2, <3>2 DEF Raced, Threads
    <3> QED
      BY <3>1, <3>2
  <2> QED
    BY <2>1, <2>2 DEF Raced
<1>8. call[t].alone => /\ PositionsOf(call[t].key) \subseteq page
                       /\ \A u \in Writers : pc[u] # "idle" => u = t
  BY <1>1 DEF IInv, OneAlone, Progress, Before
<1>9. \A u \in Writers : pc'[u] # "idle" => u # t /\ pc[u] # "idle"
  BY <1>2 DEF Threads
<1>10. OneAlone'
  BY <1>2, <1>9 DEF IInv, OneAlone, Threads
<1>11. Progress'
  <2>1. ASSUME NEW u \in Writers, pc'[u] # "idle", call'[u].alone
        PROVE  FALSE
    BY <1>1, <1>2, <1>9, <2>1 DEF IInv, OneAlone, Threads
  <2> QED
    BY <2>1 DEF Progress
<1>12. KeptBits'
  <2>1. ASSUME NEW k \in Kept'
        PROVE  /\ PositionsOf(k) \subseteq page'
               /\ \A u \in Writers : pc'[u] = "write" =>
                     PositionsOf(k) \cap ByteOf(Pos(u)') \subseteq call'[u].byte
    <3>1. CASE k \in Kept
      BY <1>2, <1>3, <1>9, <3>1 DEF IInv, KeptBits, Threads
    <3>2. CASE call[t].alone /\ k = call[t].key
      BY <1>8, <1>9, <3>2
    <3> QED
      BY <1>5, <3>1, <3>2
  <2> QED
    BY <2>1 DEF KeptBits
<1>13. Readings'
  <2>1. \A u \in Readers : call'[u] = call[u] /\ pc'[u] = pc[u] /\ answer'[u] = answer[u]
    BY <1>1, <1>2 DEF Threads
  <2> QED
    BY <1>5, <2>1 DEF IInv, Readings
<1>14. Origins'
  BY <1>2, <1>6, <1>9 DEF IInv, Origins, Threads
<1>15. Peace'
  <2> SUFFICES ASSUME ~Raced
               PROVE  /\ \A u \in Readers :
                            /\ pc'[u] = "test" => Before(u)' \subseteq page'
                            /\ pc'[u] = "idle" /\ answer'[u] =>
                                  PositionsOf(call'[u].key) \subseteq page'
                      /\ unique_cnt' <= Cardinality(page')
                      /\ \A u \in Writers : pc'[u] = "idle"
    BY <1>7 DEF Peace
  <2>1. \A u \in Readers : /\ call'[u] = call[u] /\ pc'[u] = pc[u] /\ Before(u)' = Before(u)
                            /\ answer'[u] = answer[u]
    BY <1>1, <1>2, <1>3 DEF Threads
  <2>2. call[t].alone
    BY <1>1 DEF Raced
  <2> QED
    BY <1>8, <1>9, <2>1, <2>2 DEF IInv, Peace
<1> QED
  BY <1>4, <1>10, <1>11, <1>12, <1>13, <1>14, <1>15 DEF IInv

LEMMA SetReturnHitKeeps ==
    ASSUME IInv, NEW t \in Writers, SetReturnHit(t)
    PROVE  IInv'
<1>1. /\ pc[t] = "return" /\ Leave(t) /\ answer' = [answer EXCEPT ![t] = FALSE]
      /\ done' = done \cup {Ended(t)} /\ UNCHANGED <<page, unique_cnt, calls>>
  BY DEF SetReturnHit
<1>2. answer' \in [Threads -> BOOLEAN] /\ \A u \in Readers : answer'[u] = answer[u]
  BY <1>1, ProbeAssumption DEF IInv, TypeOK, Threads
<1>3. unique_cnt' \in Nat /\ (~Raced => unique_cnt' <= Cardinality(page))
  BY <1>1 DEF IInv, TypeOK, Peace
<1> QED
  BY <1>1, <1>2, <1>3, LeaveKeeps

\* The increment counts a bit that this very set has added.
LEMMA CountWriteKeeps ==
    ASSUME IInv, NEW t \in Writers, CountWrite(t)
    PROVE  IInv'
<1>1. /\ pc[t] = "count" /\ Leave(t) /\ answer' = [answer EXCEPT ![t] = TRUE]
      /\ done' = done \cup {Ended(t)} /\ UNCHANGED <<page, calls>>
      /\ unique_cnt' = call[t].count + 1
  BY DEF CountWrite
<1>2. answer' \in [Threads -> BOOLEAN] /\ \A u \in Readers : answer'[u] = answer[u]
  BY <1>1, ProbeAssumption DEF IInv, TypeOK, Threads
<1>3. unique_cnt' \in Nat
  BY <1>1, Thread DEF Threads
<1>4. ASSUME ~Raced
      PROVE  unique_cnt' <= Cardinality(page)
  <2> DEFINE old == call[t].page
  <2>1. call[t].alone /\ call[t].count = unique_cnt /\ ~call[t].hit
        /\ unique_cnt <= Cardinality(old)
    BY <1>1, <1>4 DEF Raced, IInv, Peace
  <2>2. page = old \cup Before(t) /\ ~(Before(t) \subseteq old)
    BY <1>1, <2>1 DEF IInv, Progress, Compared
  <2> HIDE DEF old
  <2>3. /\ Cardinality(old) <= Cardinality(page) /\ IsFiniteSet(old)
        /\ Cardinality(old) # Cardinality(page)
    BY <2>2, FS_Subset DEF IInv, TypeOK
  <2>4. Cardinality(old) \in Nat /\ Cardinality(page) \in Nat /\ unique_cnt \in Nat
    BY <2>3, FS_CardinalityType DEF IInv, TypeOK
  <2> QED
    BY <1>1, <2>1, <2>3, <2>4
<1> QED
  BY <1>1, <1>2, <1>3, <1>4, LeaveKeeps

\* The locals a call begins with.
LEMMA FreshType ==
    ASSUME IInv, NEW k \in Keys
    PROVE  /\ Fresh(k) \in Call /\ Fresh(k).key = k /\ Fresh(k).i = 1
           /\ Fresh(k).page = page /\ Fresh(k).known = Kept
           /\ IsFiniteSet(Fresh(k).byte)
           /\ \A a \in BOOLEAN :
                 LET y == [Fresh(k) EXCEPT !.alone = a]
                 IN  /\ y \in Call /\ y.key = k /\ y.i = 1 /\ y.page = page
                     /\ y.hit = TRUE /\ y.alone = a /\ IsFiniteSet(y.byte)
<1>1. 1 \in 1..N
  BY ProbeAssumption
<1>2. Kept \subseteq Keys
  BY DEF Kept, IInv, TypeOK
<1>3. /\ Fresh(k) \in Call /\ Fresh(k).key = k /\ Fresh(k).i = 1
      /\ Fresh(k).page = page /\ Fresh(k).known = Kept
      /\ Fresh(k).hit = TRUE /\ Fresh(k).byte = {}
  BY <1>1, <1>2 DEF Fresh, Call, IInv, TypeOK
<1>4. IsFiniteSet(Fresh(k).byte)
  BY <1>3, FS_EmptySet, Zenon
<1>5. ASSUME NEW a \in BOOLEAN
      PROVE  LET y == [Fresh(k) EXCEPT !.alone = a]
             IN  /\ y \in Call /\ y.key = k /\ y.i = 1 /\ y.page = page
                 /\ y.hit = TRUE /\ y.alone = a /\ y.byte = Fresh(k).byte
  BY <1>3 DEF Call
<1> QED
  BY <1>3, <1>4, <1>5

LEMMA CallSetKeeps ==
    ASSUME IInv, NEW t \in Writers, NEW k \in Keys, CallSet(t, k)
    PROVE  IInv'
<1> DEFINE busy == {w \in Writers : pc[w] # "idle"}
           a == (busy = {})
           y == [Fresh(k) EXCEPT !.alone = a]
           Met(u) == IF u \in busy THEN [call[u] EXCEPT !.alone = FALSE] ELSE call[u]
<1>1. /\ t \in Threads /\ t \notin Readers /\ pc[t] = "idle"
      /\ pc' = [pc EXCEPT ![t] = "read"]
      /\ call' = [u \in Threads |-> IF u = t THEN y ELSE Met(u)]
      /\ UNCHANGED <<page, unique_cnt, answer, done>>
  BY ProbeAssumption DEF CallSet, Threads
<1>2. /\ y \in Call /\ y.key = k /\ y.i = 1 /\ y.page = page /\ y.hit = TRUE
      /\ IsFiniteSet(y.byte) /\ y.alone = a
  <2>1. a \in BOOLEAN
    OBVIOUS
  <2> HIDE DEF a
  <2> QED
    BY <2>1, FreshType
<1>3. ASSUME NEW u \in Threads
      PROVE  /\ Met(u) \in Call /\ Met(u).key = call[u].key /\ Met(u).i = call[u].i
             /\ Met(u).hit = call[u].hit /\ Met(u).byte = call[u].byte
             /\ Met(u).page = call[u].page /\ Met(u).count = call[u].count
             /\ u \in busy => Met(u).alone = FALSE
             /\ u \in Readers => Met(u) = call[u]
  <2>1. call[u] \in Call
    BY Thread
  <2>2. u \in Readers => u \notin busy
    BY ProbeAssumption
  <2> HIDE DEF busy
  <2> QED
    BY <2>1, <2>2 DEF Call
<1>4. /\ call'[t] = y /\ pc'[t] = "read"
      /\ \A u \in Threads : u # t => call'[u] = Met(u) /\ pc'[u] = pc[u]
  BY <1>1 DEF IInv, TypeOK
<1> HIDE DEF y, Met
<1>5. ASSUME NEW u \in Threads \ {t}
      PROVE  Pos(u)' = Pos(u) /\ Before(u)' = Before(u) /\ Compared(u)' = Compared(u)
  <2>1. call'[u].key = call[u].key /\ call'[u].i = call[u].i /\ pc'[u] = pc[u]
    BY <1>3, <1>4
  <2> QED
    BY <2>1, Alike
<1>6. ASSUME NEW u \in Writers, pc'[u] # "idle"
      PROVE  u = t \/ (u # t /\ u \in busy /\ call'[u].alone = FALSE)
  BY <1>3, <1>4, <1>6 DEF Threads
<1>7. TypeOK'
  <2>1. call' \in [Threads -> Call]
    BY <1>1, <1>2, <1>3
  <2>2. \A u \in Threads : IsFiniteSet(call'[u].byte)
    <3>1. ASSUME NEW u \in Threads, u # t
          PROVE  call'[u].byte = call[u].byte
      BY <1>3, <1>4, <3>1
    <3> QED
      BY <1>2, <1>4, <3>1 DEF IInv, TypeOK
  <2> QED
    BY <1>1, <1>4, <2>1, <2>2 DEF IInv, TypeOK
<1>8. OneAlone'
  <2>1. ASSUME NEW v \in Writers, NEW u \in Writers,
               pc'[v] # "idle", call'[v].alone, pc'[u] # "idle"
        PROVE  u = v
    <3>1. v = t
      BY <1>6, <2>1
    <3>2. busy = {}
      BY <1>2, <1>4, <2>1, <3>1
    <3> QED
      BY <1>6, <2>1, <3>1, <3>2
  <2> QED
    BY <2>1 DEF OneAlone
<1>9. /\ Before(t)' = {} /\ Compared(t)' = {}
  <2>1. Before(t)' = ProbesBefore(k, 1)
    BY <1>2, <1>4 DEF Before
  <2>2. ProbesBefore(k, 1) = {}
    BY OneMore, ProbeAssumption
  <2> QED
    BY <1>4, <2>1, <2>2 DEF Compared
<1>10. Progress'
  <2>1. ASSUME NEW u \in Writers, pc'[u] # "idle", call'[u].alone
        PROVE  /\ page' = call'[u].page \cup Before(u)'
               /\ call'[u].hit <=> Compared(u)' \subseteq call'[u].page
               /\ pc'[u] = "write" => call'[u].byte = page' \cap ByteOf(Pos(u)')
    <3>1. u = t
      BY <1>6, <2>1
    <3> QED
      BY <1>1, <1>2, <1>4, <1>9, <3>1
  <2> QED
    BY <2>1 DEF Progress
<1>11. Kept' = Kept
  BY <1>1 DEF Kept
<1>12. \A u \in Writers : pc'[u] = "write" =>
          pc[u] = "write" /\ call'[u].byte = call[u].byte /\ Pos(u)' = Pos(u)
  BY <1>3, <1>4, <1>5 DEF Threads
<1>13. KeptBits'
  <2>1. ASSUME NEW j \in Kept
        PROVE  /\ PositionsOf(j) \subseteq page'
               /\ \A u \in Writers : pc'[u] = "write" =>
                     PositionsOf(j) \cap ByteOf(Pos(u)') \subseteq call'[u].byte
    BY <1>1, <1>12 DEF IInv, KeptBits
  <2> QED
    BY <1>11, <2>1 DEF KeptBits
<1>14. \A u \in Readers : /\ call'[u] = call[u] /\ pc'[u] = pc[u] /\ Before(u)' = Before(u)
                           /\ answer'[u] = answer[u]
  BY <1>1, <1>3, <1>4, <1>5 DEF Threads
<1>15. Readings'
  BY <1>11, <1>14 DEF IInv, Readings
<1>16. BegunBits \subseteq BegunBits'
  <2>1. \A u \in Writers : pc[u] # "idle" => pc'[u] # "idle" /\ call'[u].key = call[u].key
    BY <1>1, <1>3, <1>4 DEF Threads
  <2>2. Begun \subseteq Begun'
    BY <1>1, <2>1 DEF Begun
  <2> QED
    BY <2>2 DEF BegunBits
<1>17. Origins'
  BY <1>1, <1>12, <1>16 DEF IInv, Origins
<1>18. Peace'
  <2> SUFFICES ASSUME ~Raced'
               PROVE  /\ \A u \in Readers :
                            /\ pc'[u] = "test" => Before(u)' \subseteq page'
                            /\ pc'[u] = "idle" /\ answer'[u] =>
                                  PositionsOf(call'[u].key) \subseteq page'
                      /\ unique_cnt' <= Cardinality(page')
                      /\ \A u \in Writers :
                            /\ pc'[u] # "idle" => unique_cnt' <= Cardinality(call'[u].page)
                            /\ pc'[u] = "count" => call'[u].count = unique_cnt' /\ ~call'[u].hit
    BY DEF Peace
  <2>1. \A u \in Writers : pc'[u] # "idle" => u = t
    BY <1>6 DEF Raced
  <2>2. ~Raced
    <3>1. \A u \in Writers : pc[u] = "idle"
      BY <1>1, <1>4, <2>1 DEF Threads
    <3>2. \A d \in done : d.alone
      BY <1>1 DEF Raced
    <3> QED
      BY <3>1, <3>2 DEF Raced
  <2>3. unique_cnt <= Cardinality(page)
    BY <2>2 DEF IInv, Peace
  <2>4. call'[t].page = page
    BY <1>2, <1>4
  <2> QED
    BY <1>1, <1>4, <1>14, <2>1, <2>2, <2>3, <2>4 DEF IInv, Peace
<1> QED
  BY <1>7, <1>8, <1>10, <1>13, <1>15, <1>17, <1>18 DEF IInv

-----------------------------------------------------------------------------
(***************************************************************************)
(* Readers.                                                                *)
(***************************************************************************)
\* A step of a reader touches nothing of the writers'.
LEMMA ReaderKeeps ==
    ASSUME IInv, NEW t \in Readers, TypeOK',
           UNCHANGED <<page, unique_cnt, done>>,
           \A u \in Threads : u # t =>
              call'[u] = call[u] /\ pc'[u] = pc[u] /\ answer'[u] = answer[u],
           call'[t].known \subseteq Kept,
           pc'[t] = "idle" /\ call'[t].key \in call'[t].known => answer'[t],
           ~Raced /\ pc'[t] = "test" => Before(t)' \subseteq page,
           ~Raced /\ pc'[t] = "idle" /\ answer'[t] =>
              PositionsOf(call'[t].key) \subseteq page
    PROVE  IInv'
<1>1. ASSUME NEW u \in Threads \ {t}
      PROVE  Pos(u)' = Pos(u) /\ Before(u)' = Before(u) /\ Compared(u)' = Compared(u)
  <2>1. call'[u].key = call[u].key /\ call'[u].i = call[u].i /\ pc'[u] = pc[u]
    OBVIOUS
  <2> QED
    BY <2>1, Alike
<1>2. \A u \in Writers : /\ call'[u] = call[u] /\ pc'[u] = pc[u] /\ Pos(u)' = Pos(u)
                          /\ Before(u)' = Before(u) /\ Compared(u)' = Compared(u)
  BY <1>1, ProbeAssumption DEF Threads
<1>3. Kept' = Kept /\ (Raced' <=> Raced)
  BY <1>2 DEF Kept, Raced
<1>4. BegunBits' = BegunBits
  <2>1. Begun' = Begun
    BY <1>2 DEF Begun
  <2> QED
    BY <2>1 DEF BegunBits
<1>5. OneAlone' /\ Progress'
  BY <1>2 DEF IInv, OneAlone, Progress
<1>6. KeptBits'
  BY <1>2, <1>3 DEF IInv, KeptBits
<1>7. Origins'
  BY <1>2, <1>4 DEF IInv, Origins
<1>8. Readings'
  BY <1>3 DEF IInv, Readings, Threads
<1>9. Peace'
  <2> SUFFICES ASSUME ~Raced
               PROVE  /\ \A u \in Readers :
                            /\ pc'[u] = "test" => Before(u)' \subseteq page'
                            /\ pc'[u] = "idle" /\ answer'[u] =>
                                  PositionsOf(call'[u].key) \subseteq page'
                      /\ unique_cnt' <= Cardinality(page')
                      /\ \A u \in Writers :
                            /\ pc'[u] # "idle" => unique_cnt' <= Cardinality(call'[u].page)
                            /\ pc'[u] = "count" => call'[u].count = unique_cnt' /\ ~call'[u].hit
    BY <1>3 DEF Peace
  <2>1. ASSUME NEW u \in Readers
        PROVE  /\ pc'[u] = "test" => Before(u)' \subseteq page'
               /\ pc'[u] = "idle" /\ answer'[u] => PositionsOf(call'[u].key) \subseteq page'
    <3>1. CASE u = t
      BY <3>1
    <3>2. CASE u # t
      BY <1>1, <3>2 DEF IInv, Peace, Threads
    <3> QED
      BY <3>1, <3>2
  <2>2. /\ unique_cnt <= Cardinality(page)
        /\ \A u \in Writers :
              /\ pc[u] # "idle" => unique_cnt <= Cardinality(call[u].page)
              /\ pc[u] = "count" => call[u].count = unique_cnt /\ ~call[u].hit
    BY DEF IInv, Peace
  <2> QED
    BY <1>2, <2>1, <2>2
<1> QED
  BY <1>5, <1>6, <1>7, <1>8, <1>9 DEF IInv

LEMMA CallTestKeeps ==
    ASSUME IInv, NEW t \in Readers, NEW k \in Keys, CallTest(t, k)
    PROVE  IInv'
<1> DEFINE y == Fresh(k)
<1>1. /\ t \in Threads /\ t \notin Writers
      /\ pc' = [pc EXCEPT ![t] = "test"] /\ call' = [call EXCEPT ![t] = y]
      /\ UNCHANGED <<page, unique_cnt, answer, done, calls>>
  BY ProbeAssumption DEF CallTest, Threads
<1>2. y \in Call /\ y.key = k /\ y.i = 1 /\ y.known = Kept /\ IsFiniteSet(y.byte)
  BY FreshType
<1> HIDE DEF y
<1>3. /\ call'[t] = y /\ pc'[t] = "test"
      /\ \A u \in Threads : u # t => call'[u] = call[u] /\ pc'[u] = pc[u]
  BY <1>1 DEF IInv, TypeOK
<1>4. TypeOK'
  BY <1>1, <1>2, <1>3 DEF IInv, TypeOK
<1>5. Before(t)' = {}
  <2>1. Before(t)' = ProbesBefore(k, 1)
    BY <1>2, <1>3 DEF Before
  <2>2. ProbesBefore(k, 1) = {}
    BY OneMore, ProbeAssumption
  <2> QED
    BY <2>1, <2>2
<1> QED
  BY <1>1, <1>2, <1>3, <1>4, <1>5, ReaderKeeps

LEMMA TestProbeKeeps ==
    ASSUME IInv, NEW t \in Readers, TestProbe(t)
    PROVE  IInv'
<1> DEFINE x == call[t]
<1>1. /\ t \in Threads /\ t \notin Writers /\ pc[t] = "test"
      /\ UNCHANGED <<page, unique_cnt, done, calls>>
  BY ProbeAssumption DEF TestProbe, Threads
<1>2. /\ x \in Call /\ x.key \in Keys /\ x.i \in 1..N /\ N \in Nat
      /\ x.known \subseteq Kept /\ Pos(t) \in PositionsOf(x.key)
      /\ IsFiniteSet(x.byte)
  BY <1>1, Thread, ProbeAssumption DEF IInv, Readings
<1>3. x.key \in x.known => PositionsOf(x.key) \subseteq page
  BY <1>2 DEF IInv, KeptBits
<1>4. ~Raced => Before(t) \subseteq page
  BY <1>1 DEF IInv, Peace
<1>5. Before(t) = ProbesBefore(x.key, x.i) /\ Pos(t) = Position[x.key][x.i]
  BY <1>1 DEF Before, Pos
<1>6. ASSUME NEW value \in BOOLEAN, ReturnTest(t, value),
             x.key \in x.known => value,
             ~Raced /\ value => PositionsOf(x.key) \subseteq page
      PROVE  IInv'
  <2>1. /\ answer' = [answer EXCEPT ![t] = value] /\ pc' = [pc EXCEPT ![t] = "idle"]
        /\ call' = call
    BY <1>6 DEF ReturnTest
  <2>2. /\ answer'[t] = value /\ pc'[t] = "idle"
        /\ \A u \in Threads : u # t => answer'[u] = answer[u] /\ pc'[u] = pc[u]
    BY <1>1, <2>1 DEF IInv, TypeOK
  <2>3. TypeOK'
    BY <1>1, <1>6, <2>1, <2>2 DEF IInv, TypeOK
  <2> QED
    BY <1>1, <1>2, <1>6, <2>1, <2>2, <2>3, ReaderKeeps
<1>7. CASE Pos(t) \notin page /\ ReturnTest(t, FALSE)
  BY <1>2, <1>3, <1>6, <1>7
<1>8. CASE Pos(t) \in page /\ LastProbe(t) /\ ReturnTest(t, TRUE)
  <2>1. x.i = N
    BY <1>8 DEF LastProbe
  <2>2. PositionsOf(x.key) = Before(t) \cup {Pos(t)}
    BY <1>2, <1>5, <2>1, OneMore
  <2> QED
    BY <1>4, <1>6, <1>8, <2>2
<1>9. CASE /\ Pos(t) \in page /\ ~LastProbe(t)
           /\ call' = [call EXCEPT ![t].i = @ + 1]
           /\ UNCHANGED <<pc, answer>>
  <2> DEFINE y == [x EXCEPT !.i = @ + 1]
  <2>1. x.i + 1 \in 1..N
    BY <1>2, <1>9 DEF LastProbe
  <2>2. /\ y \in Call /\ y.i = x.i + 1 /\ y.key = x.key /\ y.known = x.known
        /\ y.byte = x.byte
    BY <1>2, <2>1 DEF Call
  <2>3. call' = [call EXCEPT ![t] = y]
    BY <1>9
  <2> HIDE DEF y
  <2>4. call'[t] = y /\ \A u \in Threads : u # t => call'[u] = call[u]
    BY <1>1, <2>3 DEF IInv, TypeOK
  <2>5. TypeOK'
    BY <1>1, <1>2, <1>9, <2>2, <2>3, <2>4 DEF IInv, TypeOK
  <2>6. Before(t)' = ProbesBefore(x.key, x.i + 1)
    BY <1>1, <1>9, <2>2, <2>4 DEF Before
  <2>7. Before(t)' = Before(t) \cup {Pos(t)}
    BY <1>2, <1>5, <2>6, OneMore
  <2>8. pc'[t] = "test"
    BY <1>1, <1>9
  <2>9. \A u \in Threads : u # t =>
           call'[u] = call[u] /\ pc'[u] = pc[u] /\ answer'[u] = answer[u]
    BY <1>9, <2>4
  <2>10. call'[t].known \subseteq Kept
    BY <1>2, <2>2, <2>4
  <2> QED
    BY <1>1, <1>4, <1>9, <2>5, <2>7, <2>8, <2>9, <2>10, ReaderKeeps
<1> QED
  BY <1>7, <1>8, <1>9 DEF TestProbe

-----------------------------------------------------------------------------
(***************************************************************************)
(* The specification.                                                      *)
(***************************************************************************)
LEMMA InitHolds ==
    ASSUME Init
    PROVE  IInv
<1>1. IsFiniteSet({}) /\ Cardinality({}) = 0
  BY FS_EmptySet
<1>2. /\ page = {} /\ unique_cnt = 0 /\ done = {}
      /\ \A t \in Threads : pc[t] = "idle" /\ answer[t] = FALSE /\ call[t] = NoCall
  BY DEF Init
<1>3. TypeOK
  <2>1. IsFiniteSet(page)
    BY <1>1, <1>2, Zenon
  <2>2. call \in [Threads -> Call] /\ \A t \in Threads : IsFiniteSet(call[t].byte)
    BY NoCallType DEF Init
  <2> QED
    BY <1>2, <2>1, <2>2 DEF Init, TypeOK, Threads
<1>4. OneAlone /\ Progress /\ Origins
  BY <1>2 DEF OneAlone, Progress, Origins, Threads
<1>5. KeptBits
  <2>1. Kept = {}
    BY <1>2 DEF Kept
  <2> QED
    BY <2>1 DEF KeptBits
<1>6. Readings
  BY <1>2, NoCallType DEF Readings, Threads
<1>7. Peace
  <2>1. unique_cnt <= Cardinality(page)
    <3>1. Cardinality(page) = 0
      BY <1>1, <1>2, Zenon
    <3> QED
      BY <1>2, <3>1
  <2> QED
    BY <1>2, <2>1 DEF Peace, Threads
<1> QED
  BY <1>3, <1>4, <1>5, <1>6, <1>7 DEF IInv

LEMMA StutterKeeps ==
    ASSUME IInv, UNCHANGED vars
    PROVE  IInv'
<1>1. UNCHANGED <<page, unique_cnt, pc, call, answer, done>>
  BY DEF vars
<1>2. /\ Kept' = Kept /\ Begun' = Begun /\ BegunBits' = BegunBits /\ (Raced' <=> Raced)
      /\ \A t : Pos(t)' = Pos(t) /\ Before(t)' = Before(t) /\ Compared(t)' = Compared(t)
  BY <1>1 DEF Kept, Begun, BegunBits, Raced, Pos, Before, Compared
<1>3. TypeOK' /\ OneAlone' /\ Progress' /\ KeptBits'
  BY <1>1, <1>2 DEF IInv, TypeOK, OneAlone, Progress, KeptBits
<1>4. Readings' /\ Origins' /\ Peace'
  BY <1>1, <1>2 DEF IInv, Readings, Origins, Peace
<1> QED
  BY <1>3, <1>4 DEF IInv

LEMMA NextKeeps ==
    ASSUME IInv, [Next]_vars
    PROVE  IInv'
<1>1. CASE UNCHANGED vars
  BY <1>1, StutterKeeps
<1>2. ASSUME NEW t \in Readers, TestProbe(t) \/ \E k \in Keys : CallTest(t, k)
      PROVE  IInv'
  BY <1>2, TestProbeKeeps, CallTestKeeps
<1>3. ASSUME NEW t \in Writers,
             \/ \E k \in Keys : CallSet(t, k)
             \/ SetRead(t) \/ SetWrite(t)
             \/ SetReturnHit(t) \/ CountRead(t) \/ CountWrite(t)
      PROVE  IInv'
  BY <1>3, CallSetKeeps, SetReadKeeps, SetWriteKeeps, SetReturnHitKeeps,
     CountReadKeeps, CountWriteKeeps
<1> QED
  BY <1>1, <1>2, <1>3 DEF Next

LEMMA Invariance == Spec => []IInv
BY InitHolds, NextKeeps, PTL DEF Spec

\* Once a set that ran alone has returned, a test that begins later answers yes for
\* its key, whatever any number of writers do meanwhile (pbf-internal.h:60-75).
THEOREM AlwaysPublished == Spec => []Published
<1>1. IInv => Published
  BY DEF IInv, Readings, Published
<1> QED
  BY <1>1, Invariance, PTL

\* Until writers race, a test that answers yes saw a page on which its key is all
\* ones, though it reads byte after byte (pbf-internal.h:44-58).
THEOREM AlwaysSeenTogether == Spec => []SeenTogether
<1>1. IInv => SeenTogether
  BY DEF IInv, Peace, SeenTogether
<1> QED
  BY <1>1, Invariance, PTL

\* The loop of a set that ran alone is the one step that PageFilter takes, for every
\* number of ways and every coincidence of probes (pbf-internal.h:60-75).
THEOREM LoopRefinesSet == Spec => []LoopIsOneStep
<1>1. ASSUME IInv, NEW t \in Writers, pc[t] \in {"return", "count"}, call[t].alone
      PROVE  /\ page = call[t].page \cup PositionsOf(call[t].key)
             /\ call[t].hit = (PositionsOf(call[t].key) \subseteq call[t].page)
  <2>1. Before(t) = PositionsOf(call[t].key) /\ Compared(t) = PositionsOf(call[t].key)
    BY <1>1 DEF Before, Compared
  <2>2. call[t].hit \in BOOLEAN
    BY <1>1, Thread DEF Threads
  <2>3. /\ page = call[t].page \cup PositionsOf(call[t].key)
        /\ call[t].hit <=> PositionsOf(call[t].key) \subseteq call[t].page
    BY <1>1, <2>1 DEF IInv, Progress
  <2> QED
    BY <2>2, <2>3
<1>2. IInv => LoopIsOneStep
  BY <1>1 DEF LoopIsOneStep
<1> QED
  BY <1>2, Invariance, PTL

\* Until writers race, unique_cnt never exceeds the number of one-bits (pbf.cc:57-61).
THEOREM CountsBits == Spec => []CountBelowBits
<1>1. IInv => CountBelowBits
  BY DEF IInv, Peace, CountBelowBits
<1> QED
  BY <1>1, Invariance, PTL

\* However writers race, no bit is one that no key's set began to write.
THEOREM NeverInvents == Spec => []NothingInvented
<1>1. IInv => NothingInvented
  BY DEF IInv, Origins, BegunBits, NothingInvented
<1> QED
  BY <1>1, Invariance, PTL
=============================================================================
