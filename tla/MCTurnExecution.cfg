\* Two turns, /compact, /reset and cancellations on a session with three old turns.
SPECIFICATION Spec
CONSTANTS
    Deliveries = {"d1", "d2"}
    Compactors = {"k1"}
    EventOf <- Events
    History = 3
    CompactionEnabled = TRUE
    KeepRecent = 1
    MinTurns = 2
    MaxCompactions = 1
    Budget = 8
    MaxCancels = 2
    MaxResets = 1
    MaxExpiries = 0
INVARIANTS
    SequencesUnique
    

    
CHECK_DEADLOCK FALSE
