\* Every fault of the environment; two connections, each sending any command.
CONSTANTS
    c1 = c1
    c2 = c2
    Client = {c1, c2}
    Sends <- AnyCommand
    Sources = {"plain", "spilling", "rejected", "empty"}
    Faults = {"slow", "reset", "accept", "listen", "link", "malformed"}
    PoolSize = 2
SPECIFICATION Spec
SYMMETRY AllSymmetric
INVARIANTS
    BufferOutlivesWrite
    LeakAccounted
    DrainedAtReturn
CHECK_DEADLOCK FALSE
