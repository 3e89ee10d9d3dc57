\* Every kind of keyboard, three faults of any kind, two moves of the world.
SPECIFICATION FairSpec
CONSTANTS
    Target = "macos"
    Keyboards <- MCKeyboards
    Faults = {"timeout", "error", "refuse", "kill"}
    MaxFaults = 3
    MaxMoves = 2
INVARIANTS
    TypeOK
    WriteSticks
    ForeignReal
PROPERTIES
    Corrects
    Recovers
