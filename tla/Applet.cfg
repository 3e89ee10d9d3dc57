\* The agent and a command that is run now and then; four events of any kind.
SPECIFICATION FairSpec
CONSTANTS
    Processes = {"agent", "command"}
    Agent = "agent"
    Faults = {"command", "tool", "slow", "kill", "os", "delete", "uninstall"}
    MaxFaults = 4
INVARIANTS
    TypeOK
    OneSurvives
    NoneLost
PROPERTIES
    Rebuilt
