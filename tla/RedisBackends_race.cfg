SPECIFICATION Spec
CONSTANTS
    Clients = {c1, c2}
    Server = server
    Other = other
    None = none
    m1 = m1
    m2 = m2
    Services <- TwoServices
    Kinds = {"sentinel"}
    RingOrders <- Configured
    Retries = 0
    Downstream = {0}
    Backlog = 0
    MaxFailovers = 1
INVARIANT OnlyTransportErrors
CHECK_DEADLOCK FALSE
