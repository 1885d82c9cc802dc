SPECIFICATION Spec
CONSTANTS
    Coroutines = {k1, k2}
    None = none
    Faults = {"raise"}
INVARIANT EveryCoroutineCompletes
CHECK_DEADLOCK FALSE
