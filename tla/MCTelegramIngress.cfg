SPECIFICATION FairSpec
CONSTANTS
    N = 5
    KindOf <- Sent
    UserOf <- Sender
    Allowed = {"owner"}
    DropPending = TRUE
    ThrottleMax = 2
    Window = 1
    MaxRestarts = 1
INVARIANTS NothingSkipped OncePerLife 
 
CHECK_DEADLOCK FALSE
