CONSTANTS
    Dotted = {"a", "b", "c", "d"}
    Flat = {"f"}
    Markers = {"N"}
    Top = "template"
    Templates <- AnyTemplate
    Values <- AnyValue
    MaxDepth = 3
SPECIFICATION FairSpec
INVARIANTS Honest ExpandsAsDefined DefinedInv
PROPERTIES Ends
CHECK_DEADLOCK FALSE
