SPECIFICATION FairSpec
CONSTANTS
    SignalForks = {TRUE, FALSE}
    Watchers = {"inotify", "polling"}
    MaxSignals = 2
    MaxChanges = 2
    Faults = {"crash", "ends", "slow"}
INVARIANTS
    RestartsFollowChanges
    ReloadRestarts
PROPERTIES
    ToldServerEnds
    ChangesAreLoaded
CHECK_DEADLOCK FALSE
