\* Two threads, one block of one or two bytes, a log buffer of one piece.
CONSTANTS
    Thread = {loop, worker}
    Block = {b1}
    LogBuffer = LogBuffer
    Nobody = Nobody
    NoCall = NoCall
    MaxSize = 2
    InitialLog = 1
    MaxLog = 3
SPECIFICATION FairSpec
INVARIANTS
    TypeOK
    AccountingExact
    LinesWhole
PROPERTIES
    LogReturns
CHECK_DEADLOCK FALSE
