SPECIFICATION Spec
CONSTANTS
    Rates <- TheRates
    Sizes <- TheSizes
    SizeMax <- TheSizeMax
    Uint64Max <- TheUint64Max
    LongMax <- TheSizeMax
    IntValues <- TheIntValues
INVARIANTS
    
    HoldsRequest
    SameShape
CHECK_DEADLOCK FALSE
