SPECIFICATION FairSpec
CONSTANTS
    Coroutines = {k1, k2, k3}
    None = none
    Faults = {"raise", "exit", "early"}
INVARIANT CoroutinesComplete
PROPERTY JoinReturns
CHECK_DEADLOCK FALSE
