SPECIFICATION FairSpec
CONSTANTS
    A = A
    B = B
    Services = {A, B}
    None = None
    Plans <- MCPlans
    MaxCalls = 2
    Faults = {"slow", "loss", "connection", "invalid"}
INVARIANTS
    AnswersFollowJobs
    CleanCallsAreNotConfused
PROPERTY
    ResultReturns
CHECK_DEADLOCK FALSE
