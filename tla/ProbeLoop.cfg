SPECIFICATION Spec
CONSTANTS
    Writers = {v, w}
    Readers = {r}
    Keys = {"x", "y"}
    N = 3
    Position <- ThreeProbes
    MaxCalls = 3
SYMMETRY WritersAlike
INVARIANTS
    Published
    SeenTogether
    LoopIsOneStep
    CountBelowBits
    NothingInvented
