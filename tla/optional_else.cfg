SPECIFICATION Spec
CONSTANTS
    MaxEdges = 10
    MaxToken = 8
    MaxDepth = 100
    Inputs <- OptionalInputs
INVARIANT OptionalElse
CHECK_DEADLOCK FALSE
