\* Two turns, two compactions, two crashes that may cut a write short.
SPECIFICATION Spec
CONSTANTS
    TurnNumbers = {1, 2}
    KeepRecent = 1
    Budget = 6
    EmptyPromptAccepted = FALSE
    Tearing = TRUE
    MaxCrashes = 2
    MaxPasses = 2
INVARIANTS
    TerminalUnique
    ScanCompletesTurns
    ReplayClosed
    LossBounded
CHECK_DEADLOCK FALSE
