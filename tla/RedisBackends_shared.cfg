SPECIFICATION FairSpec
CONSTANTS
    Clients = {c1}
    Server = server
    Other = other
    None = none
    m1 = m1
    m2 = m2
    Services <- TwoServices
    Kinds = {"standard"}
    RingOrders <- Configured
    Retries = 0
    Downstream = {1}
    Backlog = 1
    MaxFailovers = 0
PROPERTY MembersTakeTurns
CHECK_DEADLOCK FALSE
