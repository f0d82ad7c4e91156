\* Work slower than CABOR_IDLE_TIMEOUT_MS.
CONSTANTS
    c1 = c1
    c2 = c2
    Client = {c1, c2}
    Sends <- OneShutdown
    Sources = {"plain"}
    Faults = {"slow"}
    PoolSize = 1
SPECIFICATION Spec
INVARIANTS
    JobPinsConnection
CHECK_DEADLOCK FALSE
