-------------------------- MODULE MCLockCoordinator --------------------------
(* Instance of LockCoordinator: every client passes an owner id of its own, *)
(* which is what the lock store needs of its callers to exclude them.       *)
EXTENDS LockCoordinator

OwnIds == [c \in Clients |-> c]

=============================================================================
