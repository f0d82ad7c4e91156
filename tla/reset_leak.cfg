\* Peers that reset their connection.
CONSTANTS
    c1 = c1
    c2 = c2
    Client = {c1, c2}
    Sends <- OneShutdown
    Sources = {"plain"}
    Faults = {"reset"}
    PoolSize = 1
SPECIFICATION Spec
INVARIANTS
    NoLeakAtExit
CHECK_DEADLOCK FALSE
