CONSTANTS
    Scenarios <- MCScenarios
    Groups = {"disk"}
    Group <- MCGroup
    NoGroup = "none"
    Global = "global"
    Permits = 2
    Faults = {"panic"}
SPECIFICATION Spec
INVARIANTS ExitHonest
