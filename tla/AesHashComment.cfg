SPECIFICATION AesSpec
CONSTANTS
    Lengths <- TheLengths
    Offsets <- TheOffsets
INVARIANT
    GreedyStaysInPage
CHECK_DEADLOCK FALSE
