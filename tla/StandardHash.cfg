SPECIFICATION Spec
CONSTANTS
    Keys <- TheKeys
    Ports <- AllPorts
INVARIANTS
    KnownHashes
    SameHash
    MixLosesNothing
CHECK_DEADLOCK FALSE
