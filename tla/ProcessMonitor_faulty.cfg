SPECIFICATION FairSpec
CONSTANTS
    NumProcesses = 2
    Respawn = TRUE
    ShortLimit = 1
    ShortWindow = 1
    LongLimit = 2
    LongWindow = 3
    MaxTime = 2
    MaxSignals = 2
    Faults = {"crash", "early"}
INVARIANT
    RespawnsAreLimited
PROPERTY
    MonitorsEndOnceSignaled
CHECK_DEADLOCK FALSE
