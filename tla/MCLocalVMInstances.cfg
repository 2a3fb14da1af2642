\* No kills, and the documented rule for a borrowed base.
CONSTANTS
    Base = base
    Instances = {i1}
    Shares = {}
    NoShare = NoShare
    Faults = {"tool", "off"}
    Careful = TRUE
    ImageLocks = TRUE
    MaxContents = 4
SPECIFICATION Spec
INVARIANTS DiskWithItsVariables
CHECK_DEADLOCK FALSE
