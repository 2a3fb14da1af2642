\* Everything may fail, nobody is careful.
CONSTANTS
    Base = base
    Instances = {}
    Shares = {dir}
    NoShare = NoShare
    Faults = {"kill", "tool", "off"}
    Careful = FALSE
    ImageLocks = FALSE
    MaxContents = 4
SPECIFICATION Spec
INVARIANTS InstallOnce IInv
PROPERTIES ImplementsResetPoint
CHECK_DEADLOCK FALSE
