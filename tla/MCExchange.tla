----------------------------- MODULE MCExchange -----------------------------
(***************************************************************************)
(* Two keys.  The page word of "x" has its top bit set and that of "y" has *)
(* not; "x" has two probes on one bit of a small page and a halfword of    *)
(* 65535, and the keys share bits.  The buffers are zeroed ones at the     *)
(* limits of what is accepted.                                             *)
(***************************************************************************)
EXTENDS Exchange

TwoWords ==
    [x |-> <<<<515, 3>>, <<9, 40969>>, <<65535, 100>>, <<32768, 7>>>>,
     y |-> <<<<1033, 9>>, <<77, 3>>, <<512, 1124>>, <<77, 1>>>>]

AllPorts == {"core", "go", "java", "csharp", "rust", "python", "typescript"}

TheLayouts == {<<8, 7, 3>>, <<7, 13, 1>>}
TheReadings == {<<5, 7>>, <<5, 6>>}
TheBlanks == {96, (kMaxPageNum - 1) * 64, kMaxPageNum * 64}
=============================================================================
