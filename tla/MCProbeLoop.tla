----------------------------- MODULE MCProbeLoop -----------------------------
(***************************************************************************)
(* Keys of three probes in two bytes.  "x" has two probes on one bit, and  *)
(* is covered once "y" is in, which shares a byte with every bit of it.    *)
(***************************************************************************)
EXTENDS ProbeLoop, TLC

ThreeProbes == [x |-> <<1, 9, 1>>, y |-> <<9, 2, 1>>]

WritersAlike == Permutations(Writers)
=============================================================================
