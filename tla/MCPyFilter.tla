------------------------------ MODULE MCPyFilter ------------------------------
(***************************************************************************)
(* Two filters over three bytearrays.  The layouts are two of one size, one *)
(* that is refused and levels beyond what a filter, a page and a shift can *)
(* have; an unsigned int has four values, so that a buffer of 512 bytes has *)
(* as many pages as it cannot count.  A buffer has one page of level 29.   *)
(***************************************************************************)
EXTENDS PyFilter, TLC

SmallLayouts == {<<4, 7, 1>>, <<5, 7, 1>>, <<5, 6, 1>>, <<5, 1, 1>>,
                 <<5, 29, 1>>, <<5, 63, 1>>}
SmallLengths == {0, 96, 128, 512, 640, 2 ^ 29}

Places == Permutations(Objects) \cup Permutations(Bitmaps)
=============================================================================
