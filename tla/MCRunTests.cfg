CONSTANTS
    Runs = {r1, r2}
    NoRun = NoRun
    Sessions = {s1}
    NoSession = NoSession
    Plan <- ShipOne
    Commands = 1
    Faults = {"timeout", "crash", "unset"}
SPECIFICATION FairSpec
INVARIANTS PassTruthful IInv
PROPERTIES RunEnds WorkdirComesFree
CHECK_DEADLOCK FALSE
