----------------------------- MODULE BloomFilter -----------------------------
(***************************************************************************)
(* What a Bloom filter promises its callers, with no bitmap in sight.      *)
(* Every handle of the program holds a filter; keys[h] are the keys it     *)
(* vouches for and positives[h] the keys it would report as present, some  *)
(* of them wrongly.  A snapshot is a pair of such sets.                    *)
(*                                                                         *)
(* This is the contract of include/pbf.h and of every port; PageFilter is  *)
(* shown to implement it.                                                  *)
(***************************************************************************)
EXTENDS Naturals

CONSTANTS
    Handles,    \* the program's variables of a filter type
    Keys        \* the keys it sets and tests

VARIABLES
    keys,       \* keys[h]: the keys filter h must never report absent
    positives,  \* positives[h]: the keys filter h reports present
    saved,      \* the last snapshot taken
    reply       \* what the last set or test returned

bloomVars == <<keys, positives, saved, reply>>

Answers == [keys : SUBSET Keys, positives : SUBSET Keys]

BloomTypeOK ==
    /\ keys \in [Handles -> SUBSET Keys]
    /\ positives \in [Handles -> SUBSET Keys]
    /\ saved \in Answers
    /\ reply \in BOOLEAN

BloomInit ==
    /\ keys = [h \in Handles |-> {}]
    /\ positives = [h \in Handles |-> {}]
    /\ saved = [keys |-> {}, positives |-> {}]
    /\ reply = FALSE

(***************************************************************************)
(* Set answers whether the key looked new, vouches for it from now on, and *)
(* may make other keys positive; it makes none negative.                   *)
(***************************************************************************)
BloomSet(h, k) ==
    /\ reply' = (k \notin positives[h])
    /\ keys' = [keys EXCEPT ![h] = @ \cup {k}]
    /\ \E P \in SUBSET Keys :
          /\ positives[h] \cup {k} \subseteq P
          /\ k \in positives[h] => P = positives[h]
          /\ positives' = [positives EXCEPT ![h] = P]
    /\ UNCHANGED saved

BloomTest(h, k) ==
    /\ reply' = (k \in positives[h])
    /\ UNCHANGED <<keys, positives, saved>>

\* A null key is refused: the answer is "no" and nothing changes.
BloomRefuseKey ==
    /\ reply' = FALSE
    /\ UNCHANGED <<keys, positives, saved>>

\* A new filter, a cleared one and one that was refused report nothing.
BloomEmpty(h) ==
    /\ keys' = [keys EXCEPT ![h] = {}]
    /\ positives' = [positives EXCEPT ![h] = {}]
    /\ UNCHANGED <<saved, reply>>

BloomMove(h, g) ==
    /\ h # g
    /\ keys' = [keys EXCEPT ![g] = keys[h], ![h] = {}]
    /\ positives' = [positives EXCEPT ![g] = positives[h], ![h] = {}]
    /\ UNCHANGED <<saved, reply>>

BloomSave(h) ==
    /\ saved' = [keys |-> keys[h], positives |-> positives[h]]
    /\ UNCHANGED <<keys, positives, reply>>

\* Restored with its own parameters or with fewer ways: nothing is lost.
BloomRestore(h) ==
    /\ keys' = [keys EXCEPT ![h] = saved.keys]
    /\ \E P \in SUBSET Keys :
          /\ saved.positives \subseteq P
          /\ positives' = [positives EXCEPT ![h] = P]
    /\ UNCHANGED <<saved, reply>>

\* Restored with other parameters: the filter vouches for no key.
BloomGarble(h) ==
    /\ keys' = [keys EXCEPT ![h] = {}]
    /\ \E P \in SUBSET Keys : positives' = [positives EXCEPT ![h] = P]
    /\ UNCHANGED <<saved, reply>>

BloomNext ==
    \/ BloomRefuseKey
    \/ \E h \in Handles :
          \/ BloomEmpty(h)
          \/ BloomSave(h)
          \/ BloomRestore(h)
          \/ BloomGarble(h)
          \/ \E k \in Keys : BloomSet(h, k) \/ BloomTest(h, k)
          \/ \E g \in Handles : BloomMove(h, g)

BloomSpec == BloomInit /\ [][BloomNext]_bloomVars

(***************************************************************************)
(* The promise of the data structure: a key that was set is not reported   *)
(* absent (README.md, "Bloom filter").                                     *)
(***************************************************************************)
Vouched == \A h \in Handles : keys[h] \subseteq positives[h]
=============================================================================
