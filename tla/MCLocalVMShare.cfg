\* Guests that stop by themselves.
CONSTANTS
    Base = base
    Instances = {}
    Shares = {dir}
    NoShare = NoShare
    Faults = {"off"}
    Careful = TRUE
    ImageLocks = TRUE
    MaxContents = 3
SPECIFICATION Spec
INVARIANTS ReusedWithSameShare
CHECK_DEADLOCK FALSE
