\* A tool call and a listing, two changed configurations, a lost session, a cancellation.
SPECIFICATION FairSpec
CONSTANTS
    Ops = {"c1", "l1"}
    KindOf <- Kinds
    NoOp = "none"
    MaxSessions = 5
    MaxReconfigs = 2
    MaxLosses = 1
    MaxCancels = 1
INVARIANTS
    NeverUnderCall
    SessionsOwned
    SettingsFollow
    SupersededHasCloser
PROPERTIES
    OperationEnds
CHECK_DEADLOCK FALSE
