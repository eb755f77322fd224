\* Two turns, the first of which compacts the session.
SPECIFICATION Spec
CONSTANTS
    Deliveries = {"d1", "d2"}
    Compactors = {}
    EventOf <- Events
    History = 3
    CompactionEnabled = TRUE
    KeepRecent = 1
    MinTurns = 2
    MaxCompactions = 1
    Budget = 8
    MaxCancels = 0
    MaxResets = 0
    MaxExpiries = 0
INVARIANTS
    NoTurnLost
CHECK_DEADLOCK FALSE
