SPECIFICATION FairSpec
CONSTANTS
    Jobs <- MCJobs
    MaxRequests = 2
    MaxLocalCalls = 2
    MaxCoroutines = 1
    LocalCoroutines = FALSE
    Faults = {"harakiri", "job", "cleanup", "send", "swallow"}
INVARIANTS
    LogsNameTheJob
    CoroutinesLogTheirOwn
    AnswersAreExplained
    UnexpectedIsExplained
PROPERTIES
    NoActionAfterHarakiri
    RequestsEnd
CHECK_DEADLOCK FALSE
