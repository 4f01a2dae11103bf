SPECIFICATION Spec
CONSTANTS
    Filters = {f, g}
    BitmapSizes = {64, 128}
    KeyLengths = {0, 70}
    HeapBase = 12
    InitialMemory = 128
    MaxMemory = 320
    WasmPage = 64
INVARIANTS
    Tiled
    Coalesced
    HoldsItsBlocks
    KeyReachesModule
    OneInstance
PROPERTY
    CreateSettles

