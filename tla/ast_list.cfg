\* Every tree of six nodes; the stack is made for three.
CONSTANTS
    NULL = NULL
    Element = {1, 2, 3, 4, 5, 6}
    NodeCount = 6
    StackCapacity = 3
SPECIFICATION FairSpec
INVARIANTS
    TypeOK
    NothingForgotten
    WholeTree
PROPERTIES
    IsLifo
    Terminates
CHECK_DEADLOCK FALSE
