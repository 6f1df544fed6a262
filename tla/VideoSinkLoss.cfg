SPECIFICATION Spec
CONSTANTS
    Lanes = 3
    Depth = 2
    CountMod = 2
    MaxWidth = 4
    MaxHeight = 1
    Porch = 1
    CePix = {TRUE}
    Enables = {TRUE}
PROPERTIES
    LossIsCounted
