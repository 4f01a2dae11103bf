-------------------------- MODULE TravellingFilter --------------------------
(***************************************************************************)
(* What a program may rely on that hands one filter from language to       *)
(* language: no step of it depends on the language.  A filter vouches for  *)
(* some keys and reports some as present, and so does the file it was      *)
(* saved to.  A restored filter has a copy of the file, or is the file:    *)
(* then what is done to one is done to the other.                          *)
(*                                                                         *)
(* This is the promise of README.md ("Standard-hash implementations share  *)
(* the same bitmap layout"); Exchange is shown to implement it.            *)
(***************************************************************************)
CONSTANT Keys

VARIABLES
    link,           \* how the filter uses the file's buffer
    keys,           \* the keys the filter must never report absent
    positives,      \* the keys it reports present
    fileKeys,       \* the same of the file, as it was saved
    filePositives

fileVars == <<fileKeys, filePositives>>
travelVars == <<link, keys, positives, fileKeys, filePositives>>

\* Not at all; as it was written; or under another way or level.
Links == {"apart", "one", "alias"}

TravelTypeOK ==
    /\ link \in Links
    /\ keys \in SUBSET Keys /\ positives \in SUBSET Keys
    /\ fileKeys \in SUBSET Keys /\ filePositives \in SUBSET Keys

\* The promise: no key that a filter or a file vouches for is reported absent, and a
\* filter that is the file answers as the file does.
TravelSound ==
    /\ keys \subseteq positives /\ fileKeys \subseteq filePositives
    /\ link = "one" => keys = fileKeys /\ positives = filePositives

TravelInit ==
    /\ link = "apart"
    /\ keys = {} /\ positives = {} /\ fileKeys = {} /\ filePositives = {}

\* A set may make other keys positive, but no key if its own was positive already.
Grown(P, k) == {Q \in SUBSET Keys : P \cup {k} \subseteq Q /\ (k \in P => Q = P)}

TravelSet(k) ==
    /\ UNCHANGED link
    /\ keys' = keys \cup {k}
    /\ positives' \in Grown(positives, k)
    /\ \/ link = "apart" /\ UNCHANGED fileVars
       \/ /\ link = "one"
          /\ fileKeys' = keys' /\ filePositives' = positives'
       \/ /\ link = "alias"
          /\ UNCHANGED fileKeys
          /\ filePositives' \in {Q \in SUBSET Keys : filePositives \subseteq Q}
          /\ k \in positives => UNCHANGED filePositives

TravelClear ==
    /\ UNCHANGED link
    /\ keys' = {} /\ positives' = {}
    /\ IF link = "apart" THEN UNCHANGED fileVars ELSE fileKeys' = {} /\ filePositives' = {}

TravelSave ==
    /\ link' = "apart"
    /\ fileKeys' = keys /\ filePositives' = positives
    /\ UNCHANGED <<keys, positives>>

TravelBlank ==
    /\ link' = "apart"
    /\ fileKeys' = {} /\ filePositives' = {}
    /\ UNCHANGED <<keys, positives>>

\* Restored as it was saved, in whatever language: every answer is the same.
TravelReturn ==
    /\ link' \in {"apart", "one"}
    /\ keys' = fileKeys /\ positives' = filePositives
    /\ UNCHANGED fileVars

\* With fewer ways: no key is lost.
TravelWiden ==
    /\ link' \in {"apart", "alias"}
    /\ keys' = fileKeys
    /\ positives' \in {Q \in SUBSET Keys : filePositives \subseteq Q}
    /\ UNCHANGED fileVars

\* With more ways or at another level: the filter vouches for no key.
TravelGarble ==
    /\ link' \in {"apart", "alias"}
    /\ keys' = {} /\ positives' \in SUBSET Keys
    /\ UNCHANGED fileVars

TravelNext ==
    \/ TravelReturn \/ TravelWiden \/ TravelGarble
    \/ \E k \in Keys : TravelSet(k)
    \/ TravelClear \/ TravelSave \/ TravelBlank

TravelSpec == TravelInit /\ [][TravelNext]_travelVars
=============================================================================
