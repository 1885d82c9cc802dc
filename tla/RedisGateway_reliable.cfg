SPECIFICATION FairSpec
CONSTANTS
    Clients = {c1, c2}
    Servers = {s1, s2}
    None = None
    QueueCapacity = 2
    MaxRequests = 2
    Environment = {}
PROPERTY EveryCallSucceeds
CHECK_DEADLOCK FALSE
