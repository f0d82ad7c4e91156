\* Safety, liveness and refinement: two connections that may be reset and one
\* worker for them, one possible shutdown.
CONSTANTS
    c1 = c1
    c2 = c2
    Client = {c1, c2}
    Sends <- OneShutdown
    Sources = {"plain", "spilling"}
    Faults = {"reset"}
    PoolSize = 1
SPECIFICATION FairSpec
INVARIANTS
    TypeOK
    JobPinsConnection
    NeverCrashes
PROPERTIES
    RequestAnswered
    ShutdownReturns
    KeepsWholePromise
CHECK_DEADLOCK FALSE
