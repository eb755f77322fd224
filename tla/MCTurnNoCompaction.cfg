\* compaction.enabled = false; d3 delivers the event of d1 again, at most one cancellation of a turn.
SPECIFICATION FairSpec
CONSTANTS
    Deliveries = {"d1", "d3"}
    Compactors = {}
    EventOf <- Events
    History = 1
    CompactionEnabled = FALSE
    KeepRecent = 1
    MinTurns = 2
    MaxCompactions = 1
    Budget = 8
    MaxCancels = 1
    MaxResets = 1
    MaxExpiries = 1
INVARIANTS
    NoTurnLost
    ResetIsFinal
    ExecutedOncePerRetention

    
CHECK_DEADLOCK FALSE
