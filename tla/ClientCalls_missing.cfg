SPECIFICATION Spec
CONSTANTS
    A = A
    B = B
    Services = {A, B}
    None = None
    Plans <- MCPlans
    MaxCalls = 2
    Faults = {"slow", "loss", "connection"}
INVARIANT NoResponseIsMissing
CHECK_DEADLOCK FALSE
