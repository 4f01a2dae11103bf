------------------------------ MODULE MCDivisor ------------------------------
(***************************************************************************)
(* Divisor<uint8_t> in full: every divisor with every operand.             *)
(***************************************************************************)
EXTENDS Divisor

EightBits == 256
=============================================================================
