SPECIFICATION FairSpec
CONSTANTS
    Lanes = 3
    Depth = 2
    CountMod = 2
    MaxWidth = 2
    MaxHeight = 2
    Porch = 1
    CePix = {TRUE}
    Enables = {TRUE, FALSE}
INVARIANTS
    CountedOnce
PROPERTIES
    StreamSpec
    CompleteWhenCounted
    StreamsAgain
    FallsSilent
