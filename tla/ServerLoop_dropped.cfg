SPECIFICATION FairSpec
CONSTANTS
    HarakiriEnabled = TRUE
    MaxTransientFailures = 2
    InterpreterStopsLoop = FALSE
    MaxActions = 2
    MaxSignals = 1
    Faults = {}
PROPERTIES
    HarakiriEndsJobs

CHECK_DEADLOCK FALSE
