SPECIFICATION Spec
CONSTANTS
    Handles = {f}
    Keys = {"x", "y"}
    Hash <- HashXY
    Layouts <- EdgeLayouts
    Readings <- EdgeReadings
    Claims = {}
INVARIANTS
    TypeOK
    ProbesInside
    Canonical
    NoFalseNegatives
    CountBound
