SPECIFICATION Spec
CONSTANTS
    Masks = {{"io_en"}, {"osd_en", "io_en"}}
    Buttons = {"btn_osd"}
    MaxCrashes = 0
    MaxLoads = 0
    MaxPresses = 1
PROPERTIES
    ButtonSeen
