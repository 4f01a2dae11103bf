SPECIFICATION DivisorSpec
CONSTANT Base <- EightBits
INVARIANTS
    DivisorTypeOK
    Exact
