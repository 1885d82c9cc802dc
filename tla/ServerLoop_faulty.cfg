SPECIFICATION FairSpec
CONSTANTS
    HarakiriEnabled = TRUE
    MaxTransientFailures = 2
    InterpreterStopsLoop = FALSE
    MaxActions = 2
    MaxSignals = 3
    Faults = {"transport", "fatal", "swallow", "start", "end"}
INVARIANTS
    OneSignalLosesNoJob
    OneMoreRequestAtMost
    EndsCleanlyUnlessForced
    JobIsWatched
PROPERTIES
    NoJobAfterHarakiri
    HarakiriPrevails
    StopsUnlessOrphaned
CHECK_DEADLOCK FALSE
