SPECIFICATION Spec
CONSTANTS
    Bits = 3
    Ratio = 2
    Gap = 5
    MaxMsgs = 9
INVARIANTS
    FlagCountAgree
PROPERTIES
    CountHonest
    SeenHonest
