SPECIFICATION Spec
CONSTANTS
    Handles = {f, g}
    Keys = {"x", "y"}
    Hash <- HashPair
    Layouts <- PairLayouts
    Readings <- PairReadings
    Claims = {}
SYMMETRY PairSymmetry
VIEW PairView
PROPERTY
    ImplementsBloomFilter
