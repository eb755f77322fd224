--------------------------- MODULE TelegramIngress ---------------------------
(***************************************************************************)
(* The Telegram channel from the long-polling loop to the event handler.   *)
(*                                                                         *)
(* Telegram keeps updates until a getUpdates call asks for later ones.     *)
(* The loop keeps its offset in memory only and gives every update of a    *)
(* batch a task of its own, except the photos of an album, which are       *)
(* collected by MediaGroupBuffer until none has come for a second.  The    *)
(* loop over a batch does not suspend, so a batch is dispatched in one     *)
(* step; asyncio starts tasks in the order of their creation.  A user has  *)
(* one chat with one session and at most one album in the buffer.          *)
(*                                                                         *)
(* Shutdown cancels the tasks the loop knows of; the flush timers of the   *)
(* album buffer are not among them.                                        *)
(***************************************************************************)
EXTENDS Naturals, Sequences, FiniteSets, SequencesExt

CONSTANTS
    N,              \* bound: updates the users send, numbered from 1
    KindOf,         \* "text", "slow" (voice or button), "photo" or "stop"
    UserOf,         \* the sender of each update
    Allowed,        \* allowed_user_ids
    DropPending,    \* startup_drop_pending_updates
    ThrottleMax,    \* throttle_max_per_minute
    Window,         \* the throttle window, in ticks
    MaxRestarts     \* bound: crashes and shutdowns

Updates == 1..N

Users == {UserOf[u] : u \in Updates}

ASSUME IngressAssumption ==
    /\ N \in Nat /\ ThrottleMax \in Nat \ {0} /\ Window \in Nat
    /\ KindOf \in [Updates -> {"text", "slow", "photo", "stop"}]
    /\ DropPending \in BOOLEAN /\ MaxRestarts \in Nat

VARIABLES
    confirmed,  \* Telegram has forgotten 1..confirmed
    loop,       \* "down", "ready", "asking" (in getUpdates) or "closing"
    offset,     \* the last update dispatched by this process, 0 before
    album,      \* photos in the buffer, by sender; a timer runs if there are any
    queue,      \* tasks created and not started yet, in order of creation
    task,       \* the stage of each started task (of the first photo, for an album)
    recent,     \* the throttle's timestamps, as ages, by user
    restarts,   \* crashes and shutdowns so far
    \* observation only:
    handed,     \* how often each update became part of an event task
    dropped,    \* updates discarded at a startup
    stopped     \* /stop updates handled by this process

process == <<loop, offset, album, queue, task, recent>>
observed == <<handed, dropped, stopped>>
vars == <<confirmed, process, restarts, observed>>

(* A task is registered for /stop while its handler is "running", not yet  *)
(* while it is "preparing" and no longer when it only has its response to  *)
(* send, which changes nothing here.  "cancelled" tasks are being unwound. *)
Stages == {"none", "preparing", "running", "cancelled"}

Buffered(u) == u \in ToSet(album[UserOf[u]])

Idle == [u \in Updates |-> "none"]

Empty == [s \in Users |-> <<>>]

(* The types, the throttle's bound on its deques, and that a process that  *)
(* is down has no memory.                                                  *)
TypeOK ==
    /\ confirmed \in 0..N /\ offset \in 0..N
    /\ loop \in {"down", "ready", "asking", "closing"}
    /\ \A s \in Users : \A i \in DOMAIN album[s] :
          KindOf[album[s][i]] = "photo" /\ UserOf[album[s][i]] = s
    /\ task \in [Updates -> Stages]
    /\ ToSet(queue) \subseteq Updates /\ IsInjective(queue)
    /\ \A u \in ToSet(queue) : task[u] = "none"
    /\ \A s \in Users : Len(recent[s]) <= ThrottleMax
    /\ loop = "down" => task = Idle /\ queue = <<>> /\ album = Empty

Init ==
    /\ confirmed = 0
    /\ loop = "down" /\ offset = 0
    /\ album = Empty /\ queue = <<>> /\ task = Idle /\ recent = Empty
    /\ restarts = 0
    /\ handed = [u \in Updates |-> 0]
    /\ dropped = {} /\ stopped = {}

-----------------------------------------------------------------------------
(* The server and the polling loop. *)

(* Telegram returns any prefix of what is unconfirmed: the updates after   *)
(* it have not been sent yet, or do not fit the batch.                     *)
Unconfirmed == confirmed + 1..N

(* The process starts.  Deleting the webhook may drop what is pending; if  *)
(* that call fails the loop starts all the same.                           *)
Startup ==
    /\ loop = "down"
    /\ loop' = "ready"
    /\ offset' = 0
    /\ \/ UNCHANGED <<confirmed, dropped>>
       \/ /\ DropPending
          /\ \E last \in Unconfirmed :
                confirmed' = last /\ dropped' = dropped \cup confirmed + 1..last
    /\ UNCHANGED <<album, queue, task, recent, restarts, handed, stopped>>

(* get_updates is called: everything up to the offset is confirmed. *)
Ask ==
    /\ loop = "ready"
    /\ loop' = "asking"
    /\ confirmed' = IF offset > confirmed THEN offset ELSE confirmed
    /\ UNCHANGED <<offset, album, queue, task, recent, restarts, observed>>

(* The call fails, or returns nothing; it is repeated with the same offset. *)
AskFails ==
    /\ loop = "asking"
    /\ loop' = "ready"
    /\ UNCHANGED <<confirmed, offset, album, queue, task, recent, restarts, observed>>

OffsetAfterOneMore(batch) == IF Max(batch) < N THEN Max(batch) + 1 ELSE Max(batch)

OffsetAfter(batch) == Max(batch)

(* Photos go to the buffer and restart its timer; every other update gets  *)
(* a task.                                                                 *)
Handed(updates) == [u \in Updates |-> IF u \in updates THEN handed[u] + 1 ELSE handed[u]]

(* The loop over a batch takes updates in the order of their numbers. *)
InOrder(updates) ==
    CHOOSE s \in [1..Cardinality(updates) -> updates] :
        \A i, j \in DOMAIN s : i < j => s[i] < s[j]

Dispatch(batch) ==
    LET photos == {u \in batch : KindOf[u] = "photo"}
        others == batch \ photos
        Of(s) == InOrder({u \in photos : UserOf[u] = s})
    IN  /\ album' = [s \in Users |-> album[s] \o Of(s)]
        /\ queue' = queue \o InOrder(others)
        /\ handed' = Handed(others)

AskReturns ==
    /\ loop = "asking"
    /\ loop' = "ready"
    /\ \E last \in Unconfirmed :
          /\ Dispatch(confirmed + 1..last)
          /\ offset' = OffsetAfter(confirmed + 1..last)
    /\ UNCHANGED <<confirmed, task, recent, restarts, dropped, stopped>>

(* A second has passed without another photo: the album becomes a task.    *)
(* The timer also fires when the loop has been closed meanwhile.           *)
FlushKeepingGroup(s) ==
    /\ album[s] # <<>>
    /\ Head(album[s]) \notin ToSet(queue) /\ task[Head(album[s])] = "none"
    /\ queue' = Append(queue, Head(album[s]))
    /\ handed' = Handed(ToSet(album[s]))
    /\ UNCHANGED <<confirmed, loop, offset, album, task, recent, restarts, dropped, stopped>>

FlushSeveral(s) ==
    /\ Len(album[s]) > 1
    /\ album' = [album EXCEPT ![s] = <<>>]
    /\ queue' = Append(queue, Head(album[s]))
    /\ handed' = Handed(ToSet(album[s]))
    /\ UNCHANGED <<confirmed, loop, offset, task, recent, restarts, dropped, stopped>>

Flush(s) ==
    /\ album[s] # <<>>
    /\ album' = [album EXCEPT ![s] = <<>>]
    /\ queue' = Append(queue, Head(album[s]))
    /\ handed' = Handed(ToSet(album[s]))
    /\ UNCHANGED <<confirmed, loop, offset, task, recent, restarts, dropped, stopped>>

-----------------------------------------------------------------------------
(* The tasks.  Everything up to the first suspension is one step. *)

(* ChannelThrottleGuard.check: older timestamps go, and the event counts   *)
(* only when it is let through.                                            *)
Kept(s) == SelectSeq(recent[s], LAMBDA age : age <= Window)

Throttled(s) == Len(Kept(s)) >= ThrottleMax

(* /stop cancels the session's registered tasks; a text, an album and a    *)
(* /stop are at their handler at once, a voice message is transcribed and  *)
(* a button acknowledged first.                                            *)
CancelNewest(s) ==
    [t \in Updates |->
        IF /\ task[t] = "running" /\ UserOf[t] = s
           /\ \A v \in Updates : task[v] = "running" /\ UserOf[v] = s => v <= t
        THEN "cancelled" ELSE task[t]]

Cancel(s) ==
    [t \in Updates |->
        IF task[t] = "running" /\ UserOf[t] = s THEN "cancelled" ELSE task[t]]

Entered(u) ==
    CASE KindOf[u] = "stop" -> Cancel(UserOf[u])
      [] KindOf[u] = "slow" -> [task EXCEPT ![u] = "preparing"]
      [] OTHER -> [task EXCEPT ![u] = "running"]

(* A task starts: allowlist, throttle, then the event. *)
StartTask ==
    /\ queue # <<>>
    /\ queue' = Tail(queue)
    /\ LET u == Head(queue)
           s == UserOf[u]
       IN  \/ /\ s \notin Allowed
              /\ UNCHANGED <<task, recent, stopped>>
           \/ /\ s \in Allowed /\ Throttled(s)
              /\ recent' = [recent EXCEPT ![s] = Kept(s)]
              /\ UNCHANGED <<task, stopped>>
           \/ /\ s \in Allowed /\ ~Throttled(s)
              /\ recent' = [recent EXCEPT ![s] = Append(Kept(s), 0)]
              /\ task' = Entered(u)
              /\ stopped' = IF KindOf[u] = "stop" THEN stopped \cup {u} ELSE stopped
    /\ UNCHANGED <<confirmed, loop, offset, album, restarts, handed, dropped>>

(* The transcription or the acknowledgement is over: the event's task is   *)
(* registered and its handler called.                                      *)
Prepared(u) ==
    /\ task[u] = "preparing"
    /\ task' = [task EXCEPT ![u] = "running"]
    /\ UNCHANGED <<confirmed, loop, offset, album, queue, recent, restarts, observed>>

(* The handler returns or fails and the task is unregistered; or the       *)
(* cancelled task is unwound.                                              *)
TaskEnds(u) ==
    /\ task[u] \in {"running", "cancelled"}
    /\ task' = [task EXCEPT ![u] = "none"]
    /\ UNCHANGED <<confirmed, loop, offset, album, queue, recent, restarts, observed>>

Older(ages, cap) == [i \in DOMAIN ages |-> IF ages[i] < cap THEN ages[i] + 1 ELSE cap]

(* Time passes for the throttle. *)
Tick ==
    /\ loop # "down"
    /\ \E s \in Users : recent[s] # <<>>
    /\ recent' = [s \in Users |-> Older(recent[s], Window + 1)]
    /\ UNCHANGED <<confirmed, loop, offset, album, queue, task, restarts, handed, dropped, stopped>>

-----------------------------------------------------------------------------
(* The end of the process. *)

(* Shutdown: the loop leaves get_updates and cancels the tasks it knows.   *)
(* A task that never started is over at once.                              *)
Close ==
    /\ loop \in {"ready", "asking"} /\ restarts < MaxRestarts
    /\ loop' = "closing"
    /\ restarts' = restarts + 1
    /\ queue' = <<>>
    /\ task' = [u \in Updates |-> IF task[u] = "none" THEN "none" ELSE "cancelled"]
    /\ UNCHANGED <<confirmed, offset, album, recent, observed>>

Forget ==
    /\ loop' = "down" /\ offset' = 0
    /\ album' = Empty /\ queue' = <<>> /\ task' = Idle /\ recent' = Empty
    /\ stopped' = {}
    /\ UNCHANGED <<confirmed, handed, dropped>>

(* The loop has waited for the tasks it cancelled; what an album timer     *)
(* started since then ends with the process.                               *)
Exit ==
    /\ loop = "closing"
    /\ \A u \in Updates : task[u] # "cancelled"
    /\ Forget
    /\ UNCHANGED restarts

(* The process dies. *)
Crash ==
    /\ loop # "down" /\ restarts < MaxRestarts
    /\ restarts' = restarts + 1
    /\ Forget

(* A task runs on: from its update or album to its handler's end. *)
TaskStep == StartTask \/ \E u \in Updates : Prepared(u) \/ TaskEnds(u)

Next ==
    \/ Startup \/ Ask \/ AskFails \/ AskReturns \/ Tick
    \/ \E s \in Users : Flush(s)
    \/ TaskStep
    \/ Close \/ Exit \/ Crash

Spec == Init /\ [][Next]_vars

(* The process is started again, timers fire, cancelled tasks are unwound, *)
(* and get_updates does not fail for ever.                                 *)
FairSpec ==
    /\ Spec
    /\ WF_vars(Startup) /\ WF_vars(Ask) /\ SF_vars(AskReturns) /\ WF_vars(Exit)
    /\ \A s \in Users : WF_vars(Flush(s))
    /\ \A u \in Updates : WF_vars(task[u] = "cancelled" /\ TaskEnds(u))

-----------------------------------------------------------------------------
(* Properties. *)

Lives == restarts + IF loop \in {"ready", "asking"} THEN 1 ELSE 0

(* Telegram never forgets an update that the program has not taken up:     *)
(* when it is confirmed it has been given to a task, waits in the album    *)
(* buffer, or was dropped at startup.  Only a photo that was still in the  *)
(* buffer when the process ended can be gone.                              *)
NothingSkipped ==
    \A u \in 1..confirmed :
        \/ u \in dropped \/ handed[u] > 0 \/ Buffered(u)
        \/ KindOf[u] = "photo" /\ restarts > 0

(* The offset keeps an update from being handled twice by one process,     *)
(* and an album is flushed once: only a restart repeats an update.         *)
OncePerLife == \A u \in Updates : handed[u] <= Lives

(* When /stop has been handled, no message that its user sent before it is *)
(* still waiting for its turn or running: it has ended or is being         *)
(* cancelled.  Voice messages, buttons and albums are excepted: their      *)
(* tasks may register after the /stop.                                     *)
StopReachesEarlier ==
    \A u \in stopped : \A t \in 1..(u - 1) :
        KindOf[t] = "text" /\ UserOf[t] = UserOf[u] =>
            t \notin ToSet(queue) /\ task[t] \notin {"preparing", "running"}

(* Every update is eventually given to an event task, over failing calls,  *)
(* crashes and shutdowns, and a photo does not stay in the album buffer;   *)
(* excepted are those dropped at a startup and photos of an earlier life.  *)
EveryUpdateHandled ==
    \A u \in Updates :
        <>(u \in dropped \/ handed[u] > 0 \/ (KindOf[u] = "photo" /\ restarts > 0))

=============================================================================
