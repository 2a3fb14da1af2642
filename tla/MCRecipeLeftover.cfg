CONSTANTS
    Runs = {r1}
    NoRun = NoRun
    Scenarios = {s1}
    Jobs <- JobsOfAll
    RunOf <- RunOfAll
    NameOf <- NameOfAll
    Shared = {}
    Plan <- CheckedTrip
    Lingering <- NoneLingers
    Unlucky = {}
SPECIFICATION Spec
INVARIANTS ImageRemoved
CHECK_DEADLOCK FALSE
