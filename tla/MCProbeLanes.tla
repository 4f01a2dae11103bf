---------------------------- MODULE MCProbeLanes ----------------------------
(***************************************************************************)
(* One hash whose halves fall into eight different words and bytes, and one *)
(* with probes on the first and the last bit of a page, two on one bit, and *)
(* two in one word; at the ends of the levels of filters, and below and    *)
(* above them, where the second has upper halves that the wider mask keeps. *)
(***************************************************************************)
EXTENDS ProbeLanes

TheHashes ==
    {<<1, 130, 259, 388, 517, 646, 775, 904>>,
     <<65535, 0, 40007, 32766, 32769, 32767, 1027, 3>>}
TheLevels == {0, 1, 2, 6, 7, 13, 14, 20}
=============================================================================
