SPECIFICATION AesSpec
CONSTANTS
    Lengths <- TheLengths
    Offsets <- TheOffsets
INVARIANTS
    PlacementIndependent
    ReadsNearKey
CHECK_DEADLOCK FALSE
