------------------------------ MODULE Delegation ------------------------------
(***************************************************************************)
(* Delegated tasks: the DelegationCoordinator, the task store it keeps     *)
(* their status in, and the questions a running task relays to its chat.   *)
(*                                                                         *)
(* The worker loop claims PENDING tasks once a second and starts a worker  *)
(* coroutine for each.  A worker waits only in the backend, in the relay   *)
(* (while the question is sent, then for the answer) and in the completion *)
(* callback, which runs a whole feedback turn; store calls do not suspend, *)
(* so everything between two such points is one step.  Status files        *)
(* survive a restart, workers, futures and button tokens do not.           *)
(***************************************************************************)
EXTENDS Naturals, FiniteSets

CONSTANTS
    Tasks,
    ChatOf,         \* the chat each task was delegated from
    None,           \* no task
    MaxWorkers,     \* _max_workers
    TaskLimit,      \* delegation_max_concurrent_tasks
    MaxQuestions,   \* bound: questions of one task
    MaxCrashes,     \* bound: process crashes
    MaxStops        \* bound: orderly shutdowns

Chats == {ChatOf[t] : t \in Tasks}

ASSUME DelegationAssumption ==
    /\ None \notin Tasks
    /\ MaxWorkers \in Nat \ {0} /\ TaskLimit \in Nat \ {0}
    /\ MaxQuestions \in Nat /\ MaxCrashes \in Nat /\ MaxStops \in Nat

VARIABLES
    status,     \* TaskRecord.status in the task store ("none": no record)
    overdue,    \* tasks past their expires_at
    loop,       \* the worker loop: "down", "polling" or "draining"
    worker,     \* where the worker coroutine of each task is
    inflight,   \* keys of _inflight
    pendingQ,   \* _pending_questions: whose future a chat's answer resolves
    answer,     \* the question whose answer each task's future was resolved with
    shown,      \* questions <<task, number>> with buttons still accepted
    asked, crashes, stops,
    \* observation only:
    runs,       \* executions of each task
    notified,   \* tasks whose completion turn has run
    dropped     \* tasks on which cancel_task was called

store == <<status, overdue>>
process == <<loop, worker, inflight, pendingQ, answer, shown>>
bounds == <<asked, crashes, stops>>
observed == <<runs, notified, dropped>>
vars == <<store, process, bounds, observed>>

Questions == Tasks \X (1..MaxQuestions)

NoAnswer == <<>>

Terminal == {"completed", "failed", "cancelled", "expired"}

InBackend == {"executing", "sending", "waiting", "cancelling"}

Live == {t \in Tasks : worker[t] \in InBackend \cup {"claimed", "notifying"}}

TypeOK ==
    /\ status \in [Tasks -> {"none", "pending", "running"} \cup Terminal]
    /\ overdue \subseteq Tasks
    /\ loop \in {"down", "polling", "draining"}
    /\ worker \in [Tasks -> InBackend \cup {"none", "claimed", "notifying", "finished"}]
    /\ inflight \subseteq Tasks
    /\ pendingQ \in [Chats -> Tasks \cup {None}]
    /\ answer \in [Tasks -> Questions \cup {NoAnswer}]
    /\ shown \subseteq Questions
    /\ loop = "polling" => Live \subseteq inflight
    /\ loop = "down" => Live = {}

Init ==
    /\ status = [t \in Tasks |-> "none"]
    /\ overdue = {}
    /\ loop = "polling"
    /\ worker = [t \in Tasks |-> "none"]
    /\ inflight = {}
    /\ pendingQ = [c \in Chats |-> None]
    /\ answer = [t \in Tasks |-> NoAnswer]
    /\ shown = {}
    /\ asked = [t \in Tasks |-> 0]
    /\ crashes = 0
    /\ stops = 0
    /\ runs = [t \in Tasks |-> 0]
    /\ notified = {}
    /\ dropped = {}

-----------------------------------------------------------------------------
(* Tools are called by turns: those of users while the channel is up, and  *)
(* feedback turns until the last worker has ended.                         *)
TurnsRun == loop = "polling" \/ \E t \in Tasks : worker[t] = "notifying"

Active == {t \in Tasks : status[t] \in {"pending", "running"}}

(* enqueue_from_tool, accepted. *)
Enqueue(t) ==
    /\ TurnsRun
    /\ status[t] = "none"
    /\ Cardinality(Active) < TaskLimit
    /\ status' = [status EXCEPT ![t] = "pending"]
    /\ UNCHANGED <<overdue, process, bounds, observed>>

(* expires_at passes while the task is unfinished. *)
BecomeOverdue(t) ==
    /\ t \in Active
    /\ overdue' = overdue \cup {t}
    /\ UNCHANGED <<status, process, bounds, observed>>

(* One round of _worker_loop: forget finished workers, claim pending tasks *)
(* for the free slots.                                                     *)
PollWithoutReaping ==
    LET slots == MaxWorkers - Cardinality(inflight)
        candidates == {t \in Tasks : status[t] = "pending"} \ inflight
    IN  /\ loop = "polling"
        /\ \E claimed \in SUBSET candidates :
              /\ Cardinality(claimed) <= slots
              /\ Cardinality(claimed) = slots \/ claimed = candidates
              /\ inflight' = inflight \cup claimed
              /\ worker' = [t \in Tasks |-> IF t \in claimed THEN "claimed" ELSE worker[t]]
        /\ UNCHANGED <<store, loop, pendingQ, answer, shown, bounds, observed>>

Poll ==
    LET kept == inflight \cap Live
        slots == MaxWorkers - Cardinality(kept)
        candidates == {t \in Tasks : status[t] = "pending"} \ kept
    IN  /\ loop = "polling"
        /\ \E claimed \in SUBSET candidates :
              /\ Cardinality(claimed) <= slots
              /\ Cardinality(claimed) = slots \/ claimed = candidates
              /\ inflight' = kept \cup claimed
              /\ worker' = [t \in Tasks |-> IF t \in claimed THEN "claimed"
                                            ELSE IF t \in inflight \ kept THEN "none"
                                            ELSE worker[t]]
        /\ UNCHANGED <<store, loop, pendingQ, answer, shown, bounds, observed>>

(* _execute_task up to the backend.  The status read at the start is not   *)
(* checked: RUNNING is written over whatever it is by now.                 *)
Begin(t) ==
    /\ worker[t] = "claimed"
    /\ worker' = [worker EXCEPT ![t] = "executing"]
    /\ status' = [status EXCEPT ![t] = "running"]
    /\ runs' = [runs EXCEPT ![t] = @ + 1]
    /\ UNCHANGED <<overdue, loop, inflight, pendingQ, answer, shown, bounds,
                   notified, dropped>>

(* A task accepted before a restart may name a backend that is gone. *)
BackendMissing(t) ==
    /\ worker[t] = "claimed"
    /\ worker' = [worker EXCEPT ![t] = "notifying"]
    /\ status' = [status EXCEPT ![t] = "failed"]
    /\ UNCHANGED <<overdue, loop, inflight, pendingQ, answer, shown, bounds, observed>>

-----------------------------------------------------------------------------
(* The buttons of a question: each option has a token of its own, which    *)
(* names the session only; a tap uses up one, or the time of all is over.  *)
Offer(q) == shown' = shown \cup {q}

UseUp(q) == shown' \in {shown, shown \ {q}}

(* The relay of a question.  The message can be on the user's screen       *)
(* before the send call returns; the future is registered after that.      *)
Ask(t) ==
    /\ worker[t] = "executing"
    /\ asked[t] < MaxQuestions
    /\ asked' = [asked EXCEPT ![t] = @ + 1]
    /\ worker' = [worker EXCEPT ![t] = "sending"]
    /\ Offer(<<t, asked[t] + 1>>)
    /\ UNCHANGED <<store, loop, inflight, pendingQ, answer, crashes, stops, observed>>

Sent(t) ==
    /\ worker[t] = "sending"
    /\ worker' = [worker EXCEPT ![t] = "waiting"]
    /\ pendingQ' = [pendingQ EXCEPT ![ChatOf[t]] = t]
    /\ answer' = [answer EXCEPT ![t] = NoAnswer]
    /\ UNCHANGED <<store, loop, inflight, shown, bounds, observed>>

SendFails(t) ==
    /\ worker[t] = "sending"
    /\ worker' = [worker EXCEPT ![t] = "executing"]
    /\ UNCHANGED <<store, loop, inflight, pendingQ, answer, shown, bounds, observed>>

(* submit_delegation_answer for a chat: a future that is there and not yet *)
(* done gets the answer.                                                   *)
Submit(chat, question) ==
    LET t == pendingQ[chat]
    IN  IF t # None /\ answer[t] = NoAnswer
        THEN answer' = [answer EXCEPT ![t] = question]
        ELSE UNCHANGED answer

(* A button of question q is tapped. *)
Tap(q) ==
    /\ loop = "polling"
    /\ q \in shown
    /\ Submit(ChatOf[q[1]], q)
    /\ UseUp(q)
    /\ UNCHANGED <<store, loop, worker, inflight, pendingQ, bounds, observed>>

(* A text message to a chat with a pending question is its answer. *)
TextAnswer(chat) ==
    /\ loop = "polling"
    /\ pendingQ[chat] # None
    /\ Submit(chat, <<pendingQ[chat], asked[pendingQ[chat]]>>)
    /\ UNCHANGED <<store, loop, worker, inflight, pendingQ, shown, bounds, observed>>

(* Leaving the relay's wait pops the chat's entry, whosever it is. *)
LeaveRelayKeepingFuture(t) == UNCHANGED pendingQ

LeaveRelay(t) ==
    pendingQ' = IF worker[t] = "waiting" THEN [pendingQ EXCEPT ![ChatOf[t]] = None]
                ELSE pendingQ

AnswerArrives(t) ==
    /\ worker[t] = "waiting"
    /\ answer[t] # NoAnswer
    /\ worker' = [worker EXCEPT ![t] = "executing"]
    /\ LeaveRelay(t)
    /\ UNCHANGED <<store, loop, inflight, answer, shown, bounds, observed>>

RelayTimesOut(t) ==
    /\ worker[t] = "waiting"
    /\ answer[t] = NoAnswer
    /\ worker' = [worker EXCEPT ![t] = "executing"]
    /\ LeaveRelay(t)
    /\ UNCHANGED <<store, loop, inflight, answer, shown, bounds, observed>>

-----------------------------------------------------------------------------
(* The backend returns, fails, raises, or its time limit ends the run (in  *)
(* the relay too); the status is written and the completion callback runs. *)
BackendEndsSilentlyOnFailure(t) ==
    /\ \/ /\ worker[t] = "executing"
          /\ status' = [status EXCEPT ![t] = "completed"]
          /\ worker' = [worker EXCEPT ![t] = "notifying"]
       \/ /\ worker[t] \in {"executing", "sending", "waiting"}
          /\ status' = [status EXCEPT ![t] = "failed"]
          /\ worker' = [worker EXCEPT ![t] = "finished"]
    /\ LeaveRelay(t)
    /\ UNCHANGED <<overdue, loop, inflight, answer, shown, bounds, observed>>

BackendEnds(t) ==
    /\ \/ /\ worker[t] = "executing"
          /\ status' = [status EXCEPT ![t] = "completed"]
       \/ /\ worker[t] \in {"executing", "sending", "waiting"}
          /\ status' = [status EXCEPT ![t] = "failed"]
    /\ worker' = [worker EXCEPT ![t] = "notifying"]
    /\ LeaveRelay(t)
    /\ UNCHANGED <<overdue, loop, inflight, answer, shown, bounds, observed>>

(* The callback ends; its exceptions are logged. *)
Notify(t) ==
    /\ worker[t] = "notifying"
    /\ worker' = [worker EXCEPT ![t] = "finished"]
    /\ notified' = notified \cup {t}
    /\ UNCHANGED <<store, loop, inflight, pendingQ, answer, shown, bounds,
                   runs, dropped>>

(* cancel_task.  A worker in the backend is cancelled and awaited; one     *)
(* that has not started never will; without a worker the record is forced. *)
CancelUnlessClaimed(t) ==
    /\ TurnsRun
    /\ t \in Active
    /\ IF t \in inflight /\ t \in Live
       THEN /\ worker' = [worker EXCEPT ![t] =
                             IF worker[t] \in InBackend THEN "cancelling" ELSE "finished"]
            /\ LeaveRelay(t)
            /\ UNCHANGED status
       ELSE /\ status' = [status EXCEPT ![t] = "cancelled"]
            /\ UNCHANGED <<worker, pendingQ>>
    /\ dropped' = dropped \cup {t}
    /\ UNCHANGED <<overdue, loop, inflight, answer, shown, bounds, runs, notified>>

Cancel(t) ==
    /\ TurnsRun
    /\ t \in Active
    /\ IF t \in inflight /\ worker[t] \in InBackend
       THEN /\ worker' = [worker EXCEPT ![t] = "cancelling"]
            /\ LeaveRelay(t)
            /\ UNCHANGED status
       ELSE /\ worker' = [worker EXCEPT ![t] =
                             IF t \in inflight /\ @ = "claimed" THEN "finished" ELSE @]
            /\ status' = [status EXCEPT ![t] = "cancelled"]
            /\ UNCHANGED pendingQ
    /\ dropped' = dropped \cup {t}
    /\ UNCHANGED <<overdue, loop, inflight, answer, shown, bounds, runs, notified>>

(* POST /tasks/{id}/cancel: CANCELLED is written to the task store, behind *)
(* the coordinator's back.                                                 *)
ApiCancel(t) ==
    /\ loop = "polling"
    /\ t \in Active
    /\ status' = [status EXCEPT ![t] = "cancelled"]
    /\ UNCHANGED <<overdue, process, bounds, observed>>

(* The backend has terminated its process; the worker records the end. *)
CancelSettles(t) ==
    /\ worker[t] = "cancelling"
    /\ worker' = [worker EXCEPT ![t] = "finished"]
    /\ status' = [status EXCEPT ![t] = "cancelled"]
    /\ UNCHANGED <<overdue, loop, inflight, pendingQ, answer, shown, bounds, observed>>

-----------------------------------------------------------------------------
(* stop(): the loop ends, forgets its workers and waits for them. *)
Stop ==
    /\ loop = "polling"
    /\ stops < MaxStops
    /\ stops' = stops + 1
    /\ loop' = "draining"
    /\ inflight' = {}
    /\ UNCHANGED <<store, worker, pendingQ, answer, shown, asked, crashes, observed>>

NothingLeft ==
    /\ loop' = "down"
    /\ worker' = [t \in Tasks |-> "none"]
    /\ inflight' = {}
    /\ pendingQ' = [c \in Chats |-> None]
    /\ answer' = [t \in Tasks |-> NoAnswer]
    /\ shown' = {}

(* The workers have ended, or after ten seconds are cancelled: a task in   *)
(* the backend is recorded as failed (as cancelled, if that was requested),*)
(* a feedback turn is cut off.  By then every claimed worker has begun.    *)
Drained ==
    /\ loop = "draining"
    /\ \A t \in Tasks : worker[t] # "claimed"
    /\ status' = [t \in Tasks |->
                     IF worker[t] = "cancelling" THEN "cancelled"
                     ELSE IF worker[t] \in InBackend THEN "failed"
                     ELSE status[t]]
    /\ NothingLeft
    /\ UNCHANGED <<overdue, bounds, observed>>

Crash ==
    /\ loop # "down"
    /\ crashes < MaxCrashes
    /\ crashes' = crashes + 1
    /\ NothingLeft
    /\ UNCHANGED <<store, asked, stops, observed>>

(* _scan_tasks: the statuses after cleanup_expired. *)
ScanTasks == [t \in Tasks |-> IF t \in Active \cap overdue THEN "expired" ELSE status[t]]

(* Startup: the store's scan, then the coordinator fails the tasks left    *)
(* running and the loop starts.                                            *)
StartupRequeueing ==
    /\ loop = "down"
    /\ loop' = "polling"
    /\ status' = [t \in Tasks |->
                     IF ScanTasks[t] = "running" THEN "pending" ELSE ScanTasks[t]]
    /\ UNCHANGED <<overdue, worker, inflight, pendingQ, answer, shown, bounds, observed>>

StartupWithoutRecovery ==
    /\ loop = "down"
    /\ loop' = "polling"
    /\ status' = ScanTasks
    /\ UNCHANGED <<overdue, worker, inflight, pendingQ, answer, shown, bounds, observed>>

Startup ==
    /\ loop = "down"
    /\ loop' = "polling"
    /\ status' = [t \in Tasks |->
                     IF ScanTasks[t] = "running" THEN "failed" ELSE ScanTasks[t]]
    /\ UNCHANGED <<overdue, worker, inflight, pendingQ, answer, shown, bounds, observed>>

Next ==
    \/ \E t \in Tasks :
          \/ Enqueue(t) \/ BecomeOverdue(t) \/ Begin(t) \/ BackendMissing(t)
          \/ Ask(t) \/ Sent(t) \/ SendFails(t)
          \/ AnswerArrives(t) \/ RelayTimesOut(t)
          \/ BackendEnds(t) \/ Notify(t)
          \/ Cancel(t) \/ ApiCancel(t) \/ CancelSettles(t)
    \/ \E q \in Questions : Tap(q)
    \/ \E c \in Chats : TextAnswer(c)
    \/ Poll \/ Stop \/ Drained \/ Crash \/ Startup

Spec == Init /\ [][Next]_vars

(* The event loop runs ready coroutines and timers: the polling round, the *)
(* first step of a worker, the two ends of a relay (300 s), the backend's  *)
(* own time limit, a cancelled backend's exit, the callback, whose model   *)
(* and channel calls have time limits, and the ten seconds of a shutdown.  *)
(* Nobody has to restart the process.                                      *)
FairSpec ==
    /\ Spec
    /\ WF_vars(Poll) /\ WF_vars(Drained)
    /\ \A t \in Tasks :
          /\ WF_vars(Begin(t) \/ BackendMissing(t))
          /\ WF_vars(BackendEnds(t)) /\ WF_vars(Notify(t))
          /\ WF_vars(Sent(t) \/ SendFails(t))
          /\ WF_vars(AnswerArrives(t) \/ RelayTimesOut(t))
          /\ WF_vars(CancelSettles(t))

-----------------------------------------------------------------------------
(* The state a task is in.  CANCELLED can be written over a live worker,   *)
(* by cancel_task while stop() drains and by the API at any time: the      *)
(* worker goes on, writes its own end and is the one that tells.           *)
TaskState ==
    [t \in Tasks |->
        IF worker[t] \in InBackend THEN "running"
        ELSE IF worker[t] = "claimed" THEN "pending"
        ELSE status[t]]

Lifecycle == INSTANCE TaskLifecycle WITH state <- TaskState, executions <- runs

(* Whatever crashes, restarts, cancellations, time limits and late results *)
(* happen, tasks live as TaskLifecycle promises: one begins once, ends for *)
(* good, is never reopened, and completes only after it has begun.         *)
LifecycleKept == Lifecycle!Spec

(* A delegated task is executed at most once, across crashes, shutdowns    *)
(* and cancellations: its side effects are never repeated.                 *)
ExecutedAtMostOnce == \A t \in Tasks : runs[t] <= 1

(* After cancel_task a task that had not begun never begins, not even      *)
(* after a restart (a shutdown under way excepted, as above).              *)
CancelledNeverBegins ==
    [][\A t \in dropped : loop # "draining" => runs'[t] = runs[t]]_vars

(* No task ghosts in RUNNING: while the process is up, a running task has  *)
(* a worker in its backend.                                                *)
RunningHasWorker ==
    loop # "down" => \A t \in Tasks : status[t] = "running" => worker[t] \in InBackend

(* A message is taken for an answer only while some task waits for one:    *)
(* no dead future keeps swallowing the chat's messages.                    *)
NoDeadQuestion ==
    \A c \in Chats : pendingQ[c] # None => worker[pendingQ[c]] = "waiting"

(* Until the process is stopped or crashes, a task that completed or       *)
(* failed has been reported in a turn of its own by the time its worker is *)
(* gone.                                                                   *)
EndNotified ==
    crashes = 0 /\ stops = 0 =>
        \A t \in Tasks :
            status[t] \in {"completed", "failed"} /\ worker[t] \in {"none", "finished"}
                => t \in notified

(* Every accepted task reaches an end unless the process goes down first,  *)
(* whatever other tasks, questions and cancellations do meanwhile; after a *)
(* restart the same holds again.                                           *)
AcceptedEnds ==
    \A t \in Tasks : status[t] = "pending" ~> status[t] \in Terminal \/ loop = "down"

=============================================================================
