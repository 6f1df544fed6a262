SPECIFICATION HostFairSpec
CONSTANTS
    Word = {zero, w1}
    Zero = zero
    NoWord = noword
    MaxPolls = 2
    Uses <- MCUses
INVARIANTS
    Lossless
    InOrder
PROPERTIES
    AnswerIsPrevious
    OneWordLeftBehind
    SpiIsBarrier
    CallsReturn
