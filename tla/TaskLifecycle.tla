---------------------------- MODULE TaskLifecycle ----------------------------
(***************************************************************************)
(* What the coordinator promises about delegated tasks, without workers,   *)
(* questions, shutdowns and crashes: a task is accepted, begins at most    *)
(* once and ends for good, with a result only if it has begun.             *)
(***************************************************************************)
EXTENDS Naturals

CONSTANT Tasks

VARIABLES
    state,      \* the TaskStatus of each task ("none": not accepted)
    executions  \* how often its backend was started

Verdicts == {"completed", "failed", "cancelled", "expired"}

TaskStatus == {"pending", "running"} \cup Verdicts

Init ==
    /\ state = [t \in Tasks |-> "none"]
    /\ executions = [t \in Tasks |-> 0]

Accept(t) ==
    /\ state[t] = "none"
    /\ state' = [state EXCEPT ![t] = "pending"]
    /\ UNCHANGED executions

Execute(t) ==
    /\ state[t] = "pending"
    /\ state' = [state EXCEPT ![t] = "running"]
    /\ executions' = [executions EXCEPT ![t] = @ + 1]

(* A shutdown or a start settles several tasks at once. *)
Settle ==
    /\ state' \in [Tasks -> TaskStatus \cup {"none"}]
    /\ \A t \in Tasks :
          \/ state'[t] = state[t]
          \/ state[t] = "running" /\ state'[t] \in Verdicts
          \/ state[t] = "pending" /\ state'[t] \in Verdicts \ {"completed"}
    /\ UNCHANGED executions

Next == Settle \/ \E t \in Tasks : Accept(t) \/ Execute(t)

Spec == Init /\ [][Next]_<<state, executions>>

=============================================================================
