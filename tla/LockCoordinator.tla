--------------------------- MODULE LockCoordinator ---------------------------
(***************************************************************************)
(* The lease locks of the filesystem store: one JSON file per lock key,    *)
(* holding the owner id and the expiry time (FilesystemLockCoordinator in  *)
(* store/filesystem/lock.py), plus the housekeeping of the store runtime   *)
(* manager (store/runtime/manager.py) that deletes expired lock files and  *)
(* lets an administrator delete any of them.                               *)
(*                                                                         *)
(* No store call suspends between reading and writing the file, so each    *)
(* call is one atomic step of the event loop.  Time is kept relative: a    *)
(* lock file holds the number of ticks it is still valid for ("left", 0    *)
(* when it has expired), which is all that _is_expired looks at.           *)
(***************************************************************************)
EXTENDS Leases

CONSTANTS
    Owners,     \* owner ids
    Owner,      \* the owner id each client passes to acquire and release
    NoOwner,    \* owner field of a lock file that does not exist
    TTL         \* default_ttl_seconds, in ticks

ASSUME OwnersAssumption ==
    /\ Owner \in [Clients -> Owners]
    /\ NoOwner \notin Owners

ASSUME TTLAssumption == TTL \in Nat \ {0}

VARIABLE
    locks       \* the lock files: owner and remaining validity, per key

vars == <<locks, lease, revoked>>

LockRecord == [owner : Owners \cup {NoOwner}, left : 0..TTL]

NoLock == [owner |-> NoOwner, left |-> 0]

TypeOK ==
    /\ locks \in [Keys -> LockRecord]
    /\ lease \in [Clients -> [Keys -> 0..TTL]]
    /\ revoked \in SUBSET (Clients \X Keys)

Init ==
    /\ locks = [k \in Keys |-> NoLock]
    /\ lease = [c \in Clients |-> [k \in Keys |-> 0]]
    /\ revoked = {}

-----------------------------------------------------------------------------
Exists(k) == locks[k].owner # NoOwner

IsExpired(rec) == rec.left = 0

(* The file is (re)written for the caller, and the caller told so. *)
WriteLease(c, k) ==
    /\ locks' = [locks EXCEPT ![k] = [owner |-> Owner[c], left |-> TTL]]
    /\ lease' = [lease EXCEPT ![c][k] = TTL]
    /\ revoked' = revoked \ {<<c, k>>}

(* acquire: an owner that finds its own file refreshes it, whether or not  *)
(* it has expired; anyone else waits for the expiry.  A refused caller     *)
(* gets None and nothing changes.                                          *)
Acquire(c, k) ==
    /\ \/ ~Exists(k)
       \/ locks[k].owner = Owner[c]
       \/ IsExpired(locks[k])
    /\ WriteLease(c, k)

ReleaseWithoutOwnerCheck(c, k) ==
    /\ locks' = [locks EXCEPT ![k] = NoLock]
    /\ lease' = [lease EXCEPT ![c][k] = 0]
    /\ UNCHANGED revoked

(* release: only the owner recorded in the file deletes it; a caller whose *)
(* lease was lost leaves the file alone.                                   *)
Release(c, k) ==
    /\ locks' = IF locks[k].owner = Owner[c]
                THEN [locks EXCEPT ![k] = NoLock] ELSE locks
    /\ lease' = [lease EXCEPT ![c][k] = 0]
    /\ UNCHANGED revoked

(* refresh: extends the file of the same owner, expired or not. *)
Refresh(c, k) ==
    /\ locks[k].owner = Owner[c]
    /\ WriteLease(c, k)

CleanupOfUnexpiredLocks ==
    /\ locks' = [k \in Keys |-> IF IsExpired(locks[k]) THEN locks[k] ELSE NoLock]
    /\ UNCHANGED <<lease, revoked>>

(* The background loop deletes every lock file whose expiry has passed. *)
CleanupExpiredLocks ==
    /\ locks' = [k \in Keys |-> IF IsExpired(locks[k]) THEN NoLock ELSE locks[k]]
    /\ UNCHANGED <<lease, revoked>>

(* An administrator deletes a lock file whoever owns it. *)
ForceReleaseLock(k) ==
    /\ Exists(k)
    /\ locks' = [locks EXCEPT ![k] = NoLock]
    /\ revoked' = revoked \cup {<<c, k>> : c \in {d \in Clients : lease[d][k] > 0}}
    /\ UNCHANGED lease

Decrement(n) == IF n = 0 THEN 0 ELSE n - 1

(* One tick of the wall clock. *)
Tick ==
    /\ locks' = [k \in Keys |-> [locks[k] EXCEPT !.left = Decrement(@)]]
    /\ lease' = [c \in Clients |-> [k \in Keys |-> Decrement(lease[c][k])]]
    /\ UNCHANGED revoked

(* The process restarts: the callers are gone, the lock files stay. *)
Restart ==
    /\ lease' = [c \in Clients |-> [k \in Keys |-> 0]]
    /\ revoked' = {}
    /\ UNCHANGED locks

Next ==
    \/ \E c \in Clients, k \in Keys : Acquire(c, k)
    \/ \E c \in Clients, k \in Keys : Release(c, k)
    \/ \E c \in Clients, k \in Keys : Refresh(c, k)
    \/ \E k \in Keys : ForceReleaseLock(k)
    \/ CleanupExpiredLocks
    \/ Tick
    \/ Restart

Spec == Init /\ [][Next]_vars

(* The wall clock advances and the cleanup task started by the store's     *)
(* initialize() keeps running; nothing is assumed of the callers.          *)
FairSpec == Spec /\ WF_vars(Tick) /\ WF_vars(CleanupExpiredLocks)

-----------------------------------------------------------------------------
(* A lease that is still running is backed by the file: the file names its *)
(* owner and outlives the lease, so nobody else can be granted the key.    *)
LeaseBacked ==
    \A c \in Clients, k \in Keys :
        Holds(c, k) => /\ locks[k].owner = Owner[c]
                       /\ locks[k].left >= lease[c][k]

(* What the invariance proof is about. *)
IInv == TypeOK /\ LeaseBacked

(* A lock nobody relies on any more - its owner crashed, or let it expire  *)
(* without releasing it - does not block the key for ever: the file is     *)
(* deleted or somebody acquires it.                                        *)
AbandonedLockFreed ==
    \A k \in Keys :
        Exists(k) /\ (\A c \in Clients : ~Holds(c, k))
            ~> ~Exists(k) \/ (\E c \in Clients : Holds(c, k))

=============================================================================
