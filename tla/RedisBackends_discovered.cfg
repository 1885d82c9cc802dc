SPECIFICATION FairSpec
CONSTANTS
    Clients = {c1}
    Server = server
    Other = other
    None = none
    m1 = m1
    m2 = m2
    Services <- TwoServices
    Kinds = {"sentinel"}
    RingOrders <- Discovered
    Retries = 0
    Downstream = {0}
    Backlog = 0
    MaxFailovers = 0
PROPERTY CallersAreAnswered
CHECK_DEADLOCK FALSE
