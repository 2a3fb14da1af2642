CONSTANTS
    Runs = {r1, r2}
    NoRun = NoRun
    Scenarios = {s1}
    Jobs <- JobsOfAll
    RunOf <- RunOfAll
    NameOf <- NameOfAll
    Shared = {r2}
    Plan <- RoundTrip
    Lingering <- OneLingers
    Unlucky = {r2}
SPECIFICATION FairSpec
INVARIANTS OwnImage LiveImageKept IInv
PROPERTIES MovedByHolder JobEnds
CHECK_DEADLOCK FALSE
