-------------------------------- MODULE Leases --------------------------------
(***************************************************************************)
(* What the callers of a lock store go by: the leases they were granted.   *)
(* LockCoordinator says how they come about.                               *)
(***************************************************************************)
EXTENDS Naturals

CONSTANTS
    Clients,    \* the coroutines that call the lock store
    Keys        \* lock keys, "session:<id>" in the code

VARIABLES
    lease,      \* what each client was told: ticks its acquisition is good for
    revoked     \* leases cut short by force_release_lock (observation only)

(* Client c is entitled to believe it holds k: it was granted the lock,    *)
(* the granted time has not run out, and no administrator intervened.      *)
Holds(c, k) == lease[c][k] > 0 /\ <<c, k>> \notin revoked

(* The lock excludes: two clients are never entitled to one key at the     *)
(* same time, whatever expires, is released late by a former holder, is    *)
(* cleaned up in the background or survives a restart.                     *)
MutualExclusion ==
    \A k \in Keys : \A c, d \in Clients :
        Holds(c, k) /\ Holds(d, k) => c = d

=============================================================================
