SPECIFICATION LanesSpec
CONSTANTS
    Hashes <- TheHashes
    Levels <- TheLevels
INVARIANTS
    BodiesAgree
    GatherInPage
