SPECIFICATION Spec
CONSTANTS
    Clients = {c1}
    Servers = {s1, s2}
    None = None
    QueueCapacity = 2
    MaxRequests = 3
    Environment = {"connection"}
INVARIANT UnexpectedResponseIsImpossible
CHECK_DEADLOCK FALSE
