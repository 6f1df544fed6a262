SPECIFICATION Spec
CONSTANTS
    Lanes = 2
    MaxWidth = 2
    MaxHeight = 2
    Sizes <- MCSizes
    MaxDim = 2
    NumMod = 8
    FirstNumber = 5
    MaxFrames = 2
    MaxSkip = 0
    MaxJunk = 0
    MaxWire = 4
INVARIANTS
    InPlace
CHECK_DEADLOCK FALSE
