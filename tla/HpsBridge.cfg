SPECIFICATION FairSpec
CONSTANTS
    Word = {zero, w1, w2}
    Zero = zero
    NoWord = noword
INVARIANTS
    TypeOK
    HandshakeInv
    BusyHonest
PROPERTIES
    WordQuasiStatic
    DoutHeld
    PipeSpec
    PipeFairSpec
