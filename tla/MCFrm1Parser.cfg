SPECIFICATION Spec
CONSTANTS
    Lanes = 2
    MaxWidth = 2
    MaxHeight = 2
    Sizes <- MCSizes
    MaxDim = 2
    NumMod = 8
    FirstNumber = 5
    MaxFrames = 3
    MaxSkip = 1
    MaxJunk = 1
    MaxWire = 4
INVARIANTS
    NoMix
    NoneLost
    Prompt
    StatsAddUp
CHECK_DEADLOCK FALSE
