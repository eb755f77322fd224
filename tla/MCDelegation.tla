---------------------------- MODULE MCDelegation ----------------------------
(* Instances of Delegation in which all tasks are delegated from one chat.   *)
EXTENDS Delegation

OneChat == [t \in Tasks |-> "chat"]

=============================================================================
