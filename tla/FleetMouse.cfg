\* The PC's mouse was touched just now; nothing goes wrong.
SPECIFICATION MCSpec
CONSTANTS
    Machines = {"mac", "pc"}
    Target <- MCTarget
    Measuring = {"mac", "pc"}
    SettledChecks = 1
    Nudged = {"pc"}
    Disturbances = {}
    MaxInputs = 0
    MaxMishaps = 0
PROPERTIES
    NoMouseClaim
