SPECIFICATION FairServiceSpec
CONSTANTS
    HarakiriEnabled = TRUE
    MaxTransientFailures = 2
    InterpreterStopsLoop = TRUE
    MaxActions = 2
    MaxSignals = 2
    Faults = {"transport", "fatal"}
PROPERTIES
    StopsOnceAsked
CHECK_DEADLOCK FALSE
