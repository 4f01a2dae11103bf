------------------------------ MODULE ProbeLoop ------------------------------
(***************************************************************************)
(* One call of set or test taken apart: the loops of Set<N> and Test<N>    *)
(* over the probes of a key (src/pbf-internal.h:53-75) and the count that  *)
(* follows (src/pbf.cc:57-61), by threads that share one bitmap.           *)
(*                                                                         *)
(* A probe of Set reads the byte its bit is in and writes that byte back,  *)
(* so between the two another thread may run.  Nothing in the code locks   *)
(* or orders these accesses; each is one byte wide and is taken to be      *)
(* indivisible, as on every machine the code is built for.                 *)
(***************************************************************************)
EXTENDS Naturals, FiniteSets

CONSTANTS
    Writers,    \* the threads that call set
    Readers,    \* the threads that call test
    Keys,
    N,          \* the ways of the filter
    Position,   \* Position[k][i]: the bit of the i-th probe of key k
    MaxCalls    \* bound: sets that may be started

ASSUME ProbeAssumption ==
    /\ N \in Nat \ {0}
    /\ Position \in [Keys -> [1..N -> Nat]]
    /\ Writers \cap Readers = {} /\ Keys # {}

VARIABLES
    page,       \* the one-bits of the bitmap
    unique_cnt,
    pc,         \* where each thread is
    call,       \* the key, loop index and local variables of its call
    answer,     \* what its last call returned
    done,       \* history: the keys whose set has returned, and whether it ran alone
    calls       \* bound: sets started so far

vars == <<page, unique_cnt, pc, call, answer, done, calls>>

Threads == Writers \cup Readers

\* The bits of the byte that bit b is in.
ByteOf(b) == {8 * (b \div 8) + j : j \in 0..7}

PositionsOf(k) == {Position[k][i] : i \in 1..N}

Pos(t) == Position[call[t].key][call[t].i]

\* hit: all probes so far were one.  byte: what was read of the page.
\* page, known: history, the page and the keys set when the call began.
\* alone: history, no other writer was in a call of set during this one.
Kept == {d.key : d \in {e \in done : e.alone}}
Fresh(k) == [key |-> k, i |-> 1, hit |-> TRUE, byte |-> {}, count |-> unique_cnt,
             page |-> page, known |-> Kept, alone |-> TRUE]

\* The locals of a thread that has not called yet, or has left set.
NoCall == [key |-> CHOOSE k \in Keys : TRUE, i |-> 1, hit |-> TRUE, byte |-> {},
           count |-> 0, page |-> {}, known |-> {}, alone |-> TRUE]

Init ==
    /\ page = {} /\ unique_cnt = 0
    /\ pc = [t \in Threads |-> "idle"]
    /\ answer = [t \in Threads |-> FALSE]
    /\ done = {} /\ calls = 0
    /\ call = [t \in Threads |-> NoCall]

-----------------------------------------------------------------------------
(***************************************************************************)
(* Test<N>: one byte per probe, the first zero ends it.                    *)
(***************************************************************************)
CallTest(t, k) ==
    /\ pc[t] = "idle"
    /\ pc' = [pc EXCEPT ![t] = "test"]
    /\ call' = [call EXCEPT ![t] = Fresh(k)]
    /\ UNCHANGED <<page, unique_cnt, answer, done, calls>>

ReturnTest(t, value) ==
    /\ answer' = [answer EXCEPT ![t] = value]
    /\ pc' = [pc EXCEPT ![t] = "idle"]
    /\ UNCHANGED call

LastProbeSkipped(t) == call[t].i >= N - 1
LastProbe(t) == call[t].i = N

TestProbe(t) ==
    /\ pc[t] = "test"
    /\ \/ Pos(t) \notin page /\ ReturnTest(t, FALSE)
       \/ Pos(t) \in page /\ LastProbe(t) /\ ReturnTest(t, TRUE)
       \/ /\ Pos(t) \in page /\ ~LastProbe(t)
          /\ call' = [call EXCEPT ![t].i = @ + 1]
          /\ UNCHANGED <<pc, answer>>
    /\ UNCHANGED <<page, unique_cnt, done, calls>>

(***************************************************************************)
(* Set<N>: every probe is read into hit and written; there is no early     *)
(* return.                                                                 *)
(***************************************************************************)
CallSet(t, k) ==
    /\ pc[t] = "idle" /\ calls < MaxCalls
    /\ calls' = calls + 1
    /\ pc' = [pc EXCEPT ![t] = "read"]
    /\ LET busy == {w \in Writers : pc[w] # "idle"}
       IN  call' = [u \in Threads |->
                       IF u = t THEN [Fresh(k) EXCEPT !.alone = (busy = {})]
                       ELSE IF u \in busy THEN [call[u] EXCEPT !.alone = FALSE]
                       ELSE call[u]]
    /\ UNCHANGED <<page, unique_cnt, answer, done>>

Ended(t) == [key |-> call[t].key, alone |-> call[t].alone]

\* hit &= old bit.
HitLast(t) == Pos(t) \in page
HitNegated(t) == call[t].hit /\ Pos(t) \notin page
Hit(t) == call[t].hit /\ Pos(t) \in page

SetRead(t) ==
    /\ pc[t] = "read"
    /\ call' = [call EXCEPT ![t] = [@ EXCEPT !.byte = page \cap ByteOf(Pos(t)),
                                             !.hit = Hit(t)]]
    /\ pc' = [pc EXCEPT ![t] = "write"]
    /\ UNCHANGED <<page, unique_cnt, answer, done, calls>>

\* The byte that is written: what was read, with the bit.
WrittenBitOnly(t) == {Pos(t)}
WrittenNext(t) == call[t].byte \cup {Pos(t) + 1}
Written(t) == call[t].byte \cup {Pos(t)}

SetWrite(t) ==
    /\ pc[t] = "write"
    /\ page' = (page \ ByteOf(Pos(t))) \cup Written(t)
    /\ IF LastProbe(t)
         THEN /\ pc' = [pc EXCEPT ![t] = "return"]
              /\ UNCHANGED call
         ELSE /\ pc' = [pc EXCEPT ![t] = "read"]
              /\ call' = [call EXCEPT ![t].i = @ + 1]
    /\ UNCHANGED <<unique_cnt, answer, done, calls>>

\* The local variables are gone.
Leave(t) ==
    /\ pc' = [pc EXCEPT ![t] = "idle"]
    /\ call' = [call EXCEPT ![t] = NoCall]

\* if (Set<N>(...)) { m_unique_cnt++; return true; } return false;
\* The increment too reads and writes; a hit skips it.
SetReturnHit(t) ==
    /\ pc[t] = "return" /\ call[t].hit
    /\ answer' = [answer EXCEPT ![t] = FALSE]
    /\ done' = done \cup {Ended(t)}
    /\ Leave(t)
    /\ UNCHANGED <<page, unique_cnt, calls>>

CountRead(t) ==
    /\ pc[t] = "return" /\ ~call[t].hit
    /\ call' = [call EXCEPT ![t].count = unique_cnt]
    /\ pc' = [pc EXCEPT ![t] = "count"]
    /\ UNCHANGED <<page, unique_cnt, answer, done, calls>>

CountWrite(t) ==
    /\ pc[t] = "count"
    /\ unique_cnt' = call[t].count + 1
    /\ answer' = [answer EXCEPT ![t] = TRUE]
    /\ done' = done \cup {Ended(t)}
    /\ Leave(t)
    /\ UNCHANGED <<page, calls>>

Next ==
    \/ \E t \in Readers : TestProbe(t) \/ \E k \in Keys : CallTest(t, k)
    \/ \E t \in Writers :
          \/ \E k \in Keys : CallSet(t, k)
          \/ SetRead(t) \/ SetWrite(t)
          \/ SetReturnHit(t) \/ CountRead(t) \/ CountWrite(t)

Spec == Init /\ [][Next]_vars

-----------------------------------------------------------------------------
(***************************************************************************)
(* Properties.                                                             *)
(***************************************************************************)
Bits == UNION {PositionsOf(k) : k \in Keys}

\* Two calls of set have overlapped.
Raced == \/ \E d \in done : ~d.alone
         \/ \E t \in Writers : pc[t] # "idle" /\ ~call[t].alone

\* Once a set that ran alone has returned, a test that begins later answers yes for
\* its key, whatever any number of writers are doing to the same bytes meanwhile:
\* what they read before they write has the key's bits already.
Published ==
    \A t \in Readers :
        pc[t] = "idle" /\ call[t].key \in call[t].known => answer[t]

\* Until writers race, a test that answers yes saw a page on which the key is all
\* ones: the bits it saw one by one are still there.
SeenTogether ==
    \A t \in Readers :
        pc[t] = "idle" /\ answer[t] /\ ~Raced => PositionsOf(call[t].key) \subseteq page

\* The loop of a set that ran alone is what PageFilter takes it to be in one step:
\* the page gains the probes of the key, and the answer says whether it gained any
\* bit, also when probes of the key coincide and when sets raced before it.
LoopIsOneStep ==
    \A t \in Writers :
        pc[t] \in {"return", "count"} /\ call[t].alone =>
            /\ page = call[t].page \cup PositionsOf(call[t].key)
            /\ call[t].hit = (PositionsOf(call[t].key) \subseteq call[t].page)

\* Until writers race, unique_cnt never exceeds the number of one-bits, not even
\* between the loop and the increment: every set it counts turned a bit on.
CountBelowBits == ~Raced => unique_cnt <= Cardinality(page)

\* However the writers race, no bit is one that no key's set began to write.
\* (What they lose is bits: a key whose set raced may be reported absent.)
Begun == {d.key : d \in done} \cup {call[t].key : t \in {w \in Writers : pc[w] # "idle"}}
NothingInvented == page \subseteq UNION {PositionsOf(k) : k \in Begun}
=============================================================================
