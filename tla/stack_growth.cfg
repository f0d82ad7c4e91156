\* Every tree of six nodes, some too wide for the stack.
CONSTANTS
    NULL = NULL
    Element = {1, 2, 3, 4, 5, 6}
    NodeCount = 6
    StackCapacity = 3
SPECIFICATION Spec
INVARIANTS
    GrowthMakesRoom
CHECK_DEADLOCK FALSE
