\* A Mac and a PC, one turn of the users and one mishap; sightings
\* expire without end.
SPECIFICATION MCSpec
CONSTANTS
    Machines = {"mac", "pc"}
    Target <- MCTarget
    Measuring = {"mac", "pc"}
    SettledChecks = 0
    Nudged = {}
    Disturbances = {"timeout", "restart"}
    MaxInputs = 1
    MaxMishaps = 1
INVARIANTS
    TypeOK
    FewIntrusions
PROPERTIES
    TypedOnWins
    FightsEnd
    Corrects
