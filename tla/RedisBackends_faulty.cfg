SPECIFICATION FairSpec
CONSTANTS
    Clients = {c1}
    Server = server
    Other = other
    None = none
    m1 = m1
    m2 = m2
    Services <- TwoServices
    Kinds = {"standard", "sentinel"}
    RingOrders <- Configured
    Retries = 1
    Downstream = {0, 2}
    Backlog = 1
    MaxFailovers = 1
INVARIANT KeyErrorNeedsARace
PROPERTIES
    EveryMemberIsPolled
    CallsSucceedAgain
CHECK_DEADLOCK FALSE
