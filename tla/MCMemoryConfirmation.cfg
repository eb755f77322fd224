\* Two proposals, three prompts, a compaction, a reset and a crash.
SPECIFICATION Spec
CONSTANTS
    Proposals = {"p1", "p2"}
    MaxPrompts = 3
    MaxCompactions = 1
    MaxResets = 1
    MaxCrashes = 1
INVARIANTS
    
    DecisionStands
CHECK_DEADLOCK FALSE
