\* Two tasks of one chat in one worker slot, with a crash and a shutdown.
SPECIFICATION FairSpec
CONSTANTS
    Tasks = {"t1", "t2"}
    ChatOf <- OneChat
    None = "none"
    MaxWorkers = 1
    TaskLimit = 2
    MaxQuestions = 1
    MaxCrashes = 1
    MaxStops = 1
INVARIANTS
    RunningHasWorker
    NoDeadQuestion
    
PROPERTIES
    LifecycleKept
    CancelledNeverBegins
    AcceptedEnds
CHECK_DEADLOCK FALSE
