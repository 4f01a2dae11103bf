----------------------------- MODULE MCEstimate -----------------------------
(***************************************************************************)
(* Rates on both sides of every threshold of the two selectors and outside *)
(* the supported range; sizes on both sides of every level, of the page    *)
(* limit, and of the last values of the words.  The words are what TLC can *)
(* count to: wider than the page limit, Go's wider than the core's.        *)
(***************************************************************************)
EXTENDS Estimate

Around(n) == {n - 1, n, n + 1}

TheSizeMax == 3 * 2 ^ 29 - 1
TheUint64Max == 7 * 2 ^ 28 - 1
TheIntValues == 3 * 2 ^ 17

TheRates ==
    {0, 4, 5, 6, 50, 100, 999, 1000, 1001}
        \cup UNION {Around(t) : t \in {55, 78, 110, 157, 221, 317, 442, 645}}

TheSizes ==
    {0, 1, 2, 63, 64, 65, 127, 128, 129, 605}
        \cup UNION {Around(2 ^ i) : i \in 10..16}
        \cup Around((kMaxPageNum - 1) * PageSize(12))
        \cup Around((kMaxPageNum - 2) * PageSize(12))
        \cup {kMaxPageNum * PageSize(12)}
        \cup UNION {Around(max - 4095) \cup Around(max) : max \in {TheSizeMax, TheUint64Max}}
=============================================================================
