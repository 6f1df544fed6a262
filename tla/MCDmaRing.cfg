SPECIFICATION FairSpec
CONSTANTS
    Buffers = 3
    Npix = 5
    FrameMod = 2
    Starts <- MCStarts
    MaxBeats = 13
INVARIANTS
    VerdictHonest
    NothingLeftBehind
PROPERTIES
    ChunkRight
    BlankThenData
    OthersUndisturbed
    EverythingReturned
