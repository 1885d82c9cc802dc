SPECIFICATION Spec
CONSTANTS
    Clients = {c1}
    Servers = {s1, s2}
    None = None
    QueueCapacity = 2
    MaxRequests = 4
    Environment = {"slow", "connection", "expiry", "crash", "suppress", "toolarge", "invalid"}
SYMMETRY Symmetry
INVARIANTS
    OutstandingIsExact
    NothingInFlightIsUncounted
    UnexpectedIsExplained
PROPERTY RefinesAtMostOnceRpc
CHECK_DEADLOCK FALSE
