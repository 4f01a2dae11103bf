SPECIFICATION Spec
CONSTANTS
    Objects = {o, p}
    Bitmaps = {a, b, c}
    Layouts <- SmallLayouts
    Lengths <- SmallLengths
    Unsigned = 4
    MaxPins = 1
    MaxNesting = 2
SYMMETRY Places
INVARIANTS
    Consistent
    Owned
    Balanced
    ViewsReadable
    
PROPERTY
    ErrorsChangeNothing
CHECK_DEADLOCK FALSE
