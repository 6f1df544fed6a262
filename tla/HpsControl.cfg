SPECIFICATION FairSpec
CONSTANTS
    Masks = {{"io_en"}, {"osd_en", "io_en"}}
    Buttons = {"btn_osd"}
    MaxCrashes = 2
    MaxLoads = 1
    MaxPresses = 2
INVARIANTS
    ShadowTrue
    ResetExplained
PROPERTIES
    CoreRuns
