\* Six intents, two crashes.
SPECIFICATION Spec
CONSTANTS
    Intents = {"note", "fix", "twin", "drop", "use", "vague"}
    IntentOf <- Wanted
    Types = {"facts", "projects"}
    Ids = {"m1", "m2", "m3"}
    Tags = {"a", "b"}
    NoId = "none"
    DedupEnabled = TRUE
    MaxCrashes = 2
INVARIANTS
    IndexExact
    IndexCovers
    AppliedOnce
PROPERTIES
    AuditedNotRepeated
CHECK_DEADLOCK FALSE
