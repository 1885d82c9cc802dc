SPECIFICATION Spec
CONSTANTS
    Servers = {s1, s2}
    None = None
    QueueCapacity = 4
    ClientVersion = 3
    Parallel = 2
    MaxRequests = 3
    MaxChunks = 3
    Faults = {"slow", "connection"}
SYMMETRY Symmetry
INVARIANTS
    ChunksStayInOrder
    AssembledIsComplete
CHECK_DEADLOCK FALSE
