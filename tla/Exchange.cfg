SPECIFICATION Spec
CONSTANTS
    Keys = {"x", "y"}
    Words <- TwoWords
    Ports <- AllPorts
    Layouts <- TheLayouts
    Readings <- TheReadings
    Blanks <- TheBlanks
    MaxCount = 2
INVARIANTS
    SlotsInside
    AnswersAgree
    KeysTravel
    SameAcceptance
PROPERTIES
    TravelsAsOne
