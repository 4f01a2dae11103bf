------------------------------ MODULE Halfwords -----------------------------
(***************************************************************************)
(* Unsigned arithmetic by halfwords.  TLC's integers have 32 bits, so words *)
(* of 32 and 64 bits are tuples of numbers of sixteen.  Exclusive or is the *)
(* sum of its bits rather than the recursive one of the module Bitwise,    *)
(* so that what it preserves can be proved.                                *)
(***************************************************************************)
EXTENDS Integers

Halfword == {n \in Nat : n < 65536}

Xor16(a, b) ==
    LET bit(i) == ((a \div 2 ^ i) + (b \div 2 ^ i)) % 2
    IN  bit(0) + (2 * bit(1)) + (4 * bit(2)) + (8 * bit(3))
          + (16 * bit(4)) + (32 * bit(5)) + (64 * bit(6)) + (128 * bit(7))
          + (256 * bit(8)) + (512 * bit(9)) + (1024 * bit(10)) + (2048 * bit(11))
          + (4096 * bit(12)) + (8192 * bit(13)) + (16384 * bit(14)) + (32768 * bit(15))
=============================================================================
