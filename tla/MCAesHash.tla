------------------------------ MODULE MCAesHash -----------------------------
(***************************************************************************)
(* Every tail after none, one and two of the blocks of sixty-four, for keys *)
(* that begin at the start of a memory page, end around its end, or cross  *)
(* into the next one.                                                      *)
(***************************************************************************)
EXTENDS AesHash

TheLengths == 0..97 \cup 143..162
TheOffsets == {0, 1, 16, 3999, 4079, 4080, 4081, 4088, 4095}
=============================================================================
