SPECIFICATION Spec
CONSTANTS
    MaxEdges = 10
    MaxToken = 10
    MaxDepth = 100
    Inputs <- AllInputs
INVARIANTS
    TokensRight
    NothingLost
    ParsesBack
    SourceOrder
    NoNodeLost
    TypedRight
    ScopesFreed
    JumpsLand
    CompiledRight
    IntrinsicRight
    AssemblyRight
PROPERTIES
    Halts
CHECK_DEADLOCK FALSE
