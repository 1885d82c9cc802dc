SPECIFICATION FairServiceSpec
CONSTANTS
    HarakiriEnabled = FALSE
    MaxTransientFailures = 2
    InterpreterStopsLoop = FALSE
    MaxActions = 2
    MaxSignals = 2
    Faults = {}
PROPERTIES
    StopsOnceAsked
CHECK_DEADLOCK FALSE
