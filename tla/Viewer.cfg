SPECIFICATION FairSpec
CONSTANTS
    ShotEvery = 1
    VideoEvery = 2
    ContactMax = 3
    Lengths = {1, 4}
    HdrlBytes = 20
    SizeLimit = 180
    DrainMax = 2
    DropEvery = 2
    Limits = {0, 2}
    MaxFrames = 10
    MaxRecorded = 3
    MaxSessions = 2
    MaxFaults = 1
INVARIANTS
    ReplayComplete
    AviReadsBack
    SheetCovers
    Released
PROPERTIES
    Ends
    TimesOut
CHECK_DEADLOCK FALSE
