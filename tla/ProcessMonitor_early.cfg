SPECIFICATION FairSpec
CONSTANTS
    NumProcesses = 2
    Respawn = TRUE
    ShortLimit = 1
    ShortWindow = 1
    LongLimit = 1
    LongWindow = 1
    MaxTime = 0
    MaxSignals = 2
    Faults = {"early"}
PROPERTY StopsOnceSignaled
CHECK_DEADLOCK FALSE
