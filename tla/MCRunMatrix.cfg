CONSTANTS
    Scenarios <- MCScenarios
    Groups = {"disk"}
    Group <- MCGroup
    NoGroup = "none"
    Global = "global"
    Permits = 3
    Faults = {"write", "panic", "remove"}
SPECIFICATION FairSpec
INVARIANTS NoLostWakeup ReportHonest IInv
PROPERTIES ImplementsScenarioRuns RunEndsEventually
