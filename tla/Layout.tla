------------------------------- MODULE Layout -------------------------------
(***************************************************************************)
(* The layouts of a bitmap: way probes per key, all in one of num pages of *)
(* 2^level bytes (include/pbf.h).  A snapshot is the bytes of the pages and *)
(* the metadata its owner keeps beside them.                               *)
(***************************************************************************)
EXTENDS Integers

kMaxPageNum == 262144

\* The constructor's lower bound on the level: 6 for four ways, 7 for more.
MinLevelOfFour(way) == 6
MinLevel(way) == 8 - (8 \div way)

ValidLayoutInclusive(way, level, num) ==
    /\ way \in 4..8
    /\ level >= MinLevel(way) /\ level <= 13
    /\ num > 0 /\ num <= kMaxPageNum

\* What the constructor of PageBloomFilter<way> accepts.
ValidLayout(way, level, num) ==
    /\ way \in 4..8
    /\ level >= MinLevel(way) /\ level <= 13
    /\ num > 0 /\ num < kMaxPageNum

PageSize(level) == 2 ^ level
PageBits(level) == PageSize(level) * 8

\* The checks of New(way, page_level, data, data_size, unique_cnt).
AcceptsUnevenSize(way, level, size) ==
    /\ size > 0 /\ level <= 13
    /\ ValidLayout(way, level, size \div PageSize(level))

Accepts(way, level, size) ==
    /\ size > 0 /\ level <= 13
    /\ size % PageSize(level) = 0
    /\ ValidLayout(way, level, size \div PageSize(level))
=============================================================================
