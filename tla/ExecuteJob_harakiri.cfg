SPECIFICATION FairSpec
CONSTANTS
    Jobs <- MCJobs
    MaxRequests = 1
    MaxLocalCalls = 1
    MaxCoroutines = 0
    LocalCoroutines = FALSE
    Faults = {"harakiri"}
PROPERTY HarakiriEndsJobs
CHECK_DEADLOCK FALSE
