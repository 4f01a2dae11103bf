---------------------------- MODULE MCPageFilter ----------------------------
(***************************************************************************)
(* Small instances of PageFilter.  The hashes are chosen so that the       *)
(* interesting cases happen on real page sizes: "x" has two probes on one  *)
(* bit, "y" has two and shares bits with "x", and halfwords above 512      *)
(* (1024) fold onto others when a page has 64 (128) bytes.                 *)
(***************************************************************************)
EXTENDS PageFilter, TLC

HashXY ==
    [x |-> [page |-> 5, s |-> <<3, 515, 9, 9, 100, 200, 300, 400>>],
     y |-> [page |-> 9, s |-> <<9, 3, 1033, 77, 1124, 65535, 512, 77>>]]

\* One variable, every reading: constructors at the edges of what they accept.
EdgeLayouts ==
    {<<4, 6, 3>>, <<8, 7, 2>>, <<4, 13, 1>>, <<4, 6, 262143>>,
     <<3, 6, 1>>, <<9, 7, 1>>, <<4, 5, 1>>, <<5, 6, 1>>, <<4, 14, 1>>,
     <<4, 6, 0>>, <<4, 6, 262144>>}
EdgeReadings ==
    {<<4, 6>>, <<8, 7>>, <<5, 7>>, <<5, 6>>, <<4, 13>>, <<4, 14>>, <<9, 7>>}

\* Two variables: buffers move, and snapshots cross over, under the ways and level
\* they were saved with, under fewer ways, at which "x" is found wherever "y" was
\* set, and at another level.  A page of 64 bytes folds 515 onto 3: "y" set there
\* is absent when the two pages are restored as one of 128.
HashPair ==
    [x |-> [page |-> 4, s |-> <<3, 9, 9, 3, 100, 200, 300, 400>>],
     y |-> [page |-> 6, s |-> <<9, 3, 9, 515, 3, 65535, 512, 77>>]]
PairLayouts == {<<5, 7, 1>>, <<5, 6, 1>>}
PairReadings == {<<4, 7>>, <<4, 6>>}
PairSymmetry == Permutations(Handles)

\* What answers depend on: no count, no last reply, not the bits a filter began
\* with, and nothing that an object without a buffer still holds.
PairView ==
    <<[h \in Handles |-> IF Live(h) THEN [obj[h] EXCEPT !.cnt = 0] ELSE Refused],
      [saved EXCEPT !.cnt = 0], keys>>
=============================================================================
