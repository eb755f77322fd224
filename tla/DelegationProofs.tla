-------------------------- MODULE DelegationProofs --------------------------
(***************************************************************************)
(* For every set of tasks, assignment of tasks to chats and limit: tasks   *)
(* are executed at most once, none ghosts in RUNNING, no dead future is    *)
(* left in _pending_questions, tasks live as TaskLifecycle promises, their *)
(* ends are reported, and cancelled ones do not begin.                     *)
(***************************************************************************)
EXTENDS Delegation, TLAPS

(* The part of the type invariant the arguments below need, and the loop's *)
(* ownership of the live workers.                                          *)
Shape ==
    /\ status \in [Tasks -> {"none", "pending", "running"} \cup Terminal]
    /\ worker \in [Tasks -> InBackend \cup {"none", "claimed", "notifying", "finished"}]
    /\ loop \in {"down", "polling", "draining"}
    /\ inflight \subseteq Tasks
    /\ pendingQ \in [Chats -> Tasks \cup {None}]
    /\ runs \in [Tasks -> Nat]

LiveOwned ==
    /\ loop = "polling" => Live \subseteq inflight
    /\ loop = "down" => Live = {}

(* A task that has not begun, or is about to, has not been executed. *)
NotBegunYet ==
    \A t \in Tasks :
        /\ status[t] \in {"none", "pending"} => runs[t] = 0
        /\ worker[t] = "claimed" => runs[t] = 0

(* A registered future belongs to a task of that chat which waits for it. *)
FutureOwned ==
    \A c \in Chats : pendingQ[c] # None =>
        worker[pendingQ[c]] = "waiting" /\ ChatOf[pendingQ[c]] = c

DInv ==
    /\ Shape
    /\ LiveOwned
    /\ NotBegunYet
    /\ ExecutedAtMostOnce
    /\ RunningHasWorker
    /\ FutureOwned

(* The initial state has no task, worker or future. *)
LEMMA InitDInv == Init => DInv
  BY DelegationAssumption
  DEF Init, DInv, Shape, LiveOwned, NotBegunYet, ExecutedAtMostOnce,
      RunningHasWorker, FutureOwned, Live, InBackend, Terminal

(* The steps of one worker keep the types and the ownership of workers. *)
LEMMA ShapeStep == DInv /\ [Next]_vars => Shape' /\ LiveOwned'
  <1> SUFFICES ASSUME DInv, [Next]_vars PROVE Shape' /\ LiveOwned'
    OBVIOUS
  <1> USE DEF DInv, Shape, LiveOwned, Live, InBackend, Terminal
  <1>1. ASSUME NEW t \in Tasks,
               Enqueue(t) \/ BecomeOverdue(t) \/ ApiCancel(t) \/ Begin(t) \/ BackendMissing(t)
        PROVE  Shape' /\ LiveOwned'
    BY <1>1 DEF Enqueue, BecomeOverdue, ApiCancel, Begin, BackendMissing, process, observed
  <1>2. ASSUME NEW t \in Tasks, Ask(t) \/ Sent(t) \/ SendFails(t)
        PROVE  Shape' /\ LiveOwned'
    BY <1>2 DEF Ask, Sent, SendFails, store, observed, Chats
  <1>3. ASSUME NEW t \in Tasks, AnswerArrives(t) \/ RelayTimesOut(t)
        PROVE  Shape' /\ LiveOwned'
    BY <1>3 DEF AnswerArrives, RelayTimesOut, LeaveRelay, store, observed, Chats
  <1>4. ASSUME NEW t \in Tasks, BackendEnds(t) \/ Notify(t) \/ CancelSettles(t)
        PROVE  Shape' /\ LiveOwned'
    BY <1>4 DEF BackendEnds, Notify, CancelSettles, LeaveRelay, store, observed, Chats
  <1>5. ASSUME NEW t \in Tasks, Cancel(t)
        PROVE  Shape' /\ LiveOwned'
    BY <1>5 DEF Cancel, LeaveRelay, Chats
  <1>6. ASSUME NEW q \in Questions, Tap(q)
        PROVE  Shape' /\ LiveOwned'
    BY <1>6 DEF Tap, store, observed
  <1>7. ASSUME NEW c \in Chats, TextAnswer(c)
        PROVE  Shape' /\ LiveOwned'
    BY <1>7 DEF TextAnswer, store, observed
  <1>8. CASE Poll
    BY <1>8 DEF Poll, store, observed
  <1>9. CASE Stop \/ Drained \/ Crash \/ Startup
    BY <1>9 DEF Stop, Drained, Crash, Startup, NothingLeft, Active, ScanTasks, store, observed
  <1>10. CASE UNCHANGED vars
    BY <1>10 DEF vars, store, process, observed
  <1> QED BY <1>1, <1>2, <1>3, <1>4, <1>5, <1>6, <1>7, <1>8, <1>9, <1>10 DEF Next

(* Only Begin executes a task, only Enqueue and Poll lead to it, and no    *)
(* step takes a task back to where it can begin.                           *)
LEMMA ExecutionStep == DInv /\ [Next]_vars => NotBegunYet' /\ ExecutedAtMostOnce'
  <1> SUFFICES ASSUME DInv, [Next]_vars PROVE NotBegunYet' /\ ExecutedAtMostOnce'
    OBVIOUS
  <1> USE DEF DInv, Shape, NotBegunYet, ExecutedAtMostOnce, Terminal
  <1>1. ASSUME NEW t \in Tasks, Enqueue(t) \/ BecomeOverdue(t) \/ ApiCancel(t)
        PROVE  NotBegunYet' /\ ExecutedAtMostOnce'
    BY <1>1 DEF Enqueue, BecomeOverdue, ApiCancel, process, observed
  <1>2. ASSUME NEW t \in Tasks, Begin(t) \/ BackendMissing(t)
        PROVE  NotBegunYet' /\ ExecutedAtMostOnce'
    BY <1>2 DEF Begin, BackendMissing, process, observed
  <1>3. ASSUME NEW t \in Tasks, Ask(t) \/ Sent(t) \/ SendFails(t)
        PROVE  NotBegunYet' /\ ExecutedAtMostOnce'
    BY <1>3 DEF Ask, Sent, SendFails, store, observed, Chats
  <1>4. ASSUME NEW t \in Tasks, AnswerArrives(t) \/ RelayTimesOut(t)
        PROVE  NotBegunYet' /\ ExecutedAtMostOnce'
    BY <1>4 DEF AnswerArrives, RelayTimesOut, LeaveRelay, store, observed, Chats
  <1>5. ASSUME NEW t \in Tasks, BackendEnds(t)
        PROVE  NotBegunYet' /\ ExecutedAtMostOnce'
    BY <1>5 DEF BackendEnds, LeaveRelay, store, observed, Chats
  <1>6. ASSUME NEW t \in Tasks, Notify(t) \/ CancelSettles(t)
        PROVE  NotBegunYet' /\ ExecutedAtMostOnce'
    BY <1>6 DEF Notify, CancelSettles, store, observed, Chats
  <1>7. ASSUME NEW t \in Tasks, Cancel(t)
        PROVE  NotBegunYet' /\ ExecutedAtMostOnce'
    BY <1>7 DEF Cancel, LeaveRelay, Active, Chats
  <1>8. ASSUME NEW q \in Questions, Tap(q)
        PROVE  NotBegunYet' /\ ExecutedAtMostOnce'
    BY <1>8 DEF Tap, store, observed
  <1>9. ASSUME NEW c \in Chats, TextAnswer(c)
        PROVE  NotBegunYet' /\ ExecutedAtMostOnce'
    BY <1>9 DEF TextAnswer, store, observed
  <1>10. CASE Poll
    BY <1>10 DEF Poll, store, observed
  <1>11. CASE Stop \/ Crash
    BY <1>11 DEF Stop, Crash, NothingLeft, store, observed, Chats
  <1>12. CASE Drained \/ Startup
    BY <1>12 DEF Drained, Startup, NothingLeft, Active, ScanTasks, store, observed, Chats
  <1>13. CASE UNCHANGED vars
    BY <1>13 DEF vars, store, process, observed
  <1> QED BY <1>1, <1>2, <1>3, <1>4, <1>5, <1>6, <1>7, <1>8, <1>9, <1>10, <1>11, <1>12, <1>13 DEF Next

(* A task leaves the backend only together with its RUNNING status, and    *)
(* whoever was running when the process died is failed before the loop     *)
(* starts.                                                                 *)
LEMMA RunningStep == DInv /\ [Next]_vars => RunningHasWorker'
  <1> SUFFICES ASSUME DInv, [Next]_vars PROVE RunningHasWorker'
    OBVIOUS
  <1> USE DEF DInv, Shape, LiveOwned, RunningHasWorker, Live, InBackend, Terminal
  <1>1. ASSUME NEW t \in Tasks, Enqueue(t) \/ BecomeOverdue(t) \/ ApiCancel(t)
        PROVE  RunningHasWorker'
    BY <1>1 DEF Enqueue, BecomeOverdue, ApiCancel, process, observed
  <1>2. ASSUME NEW t \in Tasks, Begin(t) \/ BackendMissing(t)
        PROVE  RunningHasWorker'
    BY <1>2 DEF Begin, BackendMissing, process, observed
  <1>3. ASSUME NEW t \in Tasks, Ask(t) \/ Sent(t) \/ SendFails(t)
        PROVE  RunningHasWorker'
    BY <1>3 DEF Ask, Sent, SendFails, store, observed, Chats
  <1>4. ASSUME NEW t \in Tasks, AnswerArrives(t) \/ RelayTimesOut(t)
        PROVE  RunningHasWorker'
    BY <1>4 DEF AnswerArrives, RelayTimesOut, LeaveRelay, store, observed, Chats
  <1>5. ASSUME NEW t \in Tasks, BackendEnds(t)
        PROVE  RunningHasWorker'
    BY <1>5 DEF BackendEnds, LeaveRelay, store, observed, Chats
  <1>6. ASSUME NEW t \in Tasks, Notify(t) \/ CancelSettles(t)
        PROVE  RunningHasWorker'
    BY <1>6 DEF Notify, CancelSettles, store, observed, Chats
  <1>7. ASSUME NEW t \in Tasks, Cancel(t)
        PROVE  RunningHasWorker'
    BY <1>7 DEF Cancel, LeaveRelay, Active, Chats
  <1>8. ASSUME NEW q \in Questions, Tap(q)
        PROVE  RunningHasWorker'
    BY <1>8 DEF Tap, store, observed
  <1>9. ASSUME NEW c \in Chats, TextAnswer(c)
        PROVE  RunningHasWorker'
    BY <1>9 DEF TextAnswer, store, observed
  <1>10. CASE Poll
    BY <1>10 DEF Poll, store, observed
  <1>11. CASE Stop \/ Crash
    BY <1>11 DEF Stop, Crash, NothingLeft, store, observed, Chats
  <1>12. CASE Drained \/ Startup
    BY <1>12 DEF Drained, Startup, NothingLeft, Active, ScanTasks, store, observed, Chats
  <1>13. CASE UNCHANGED vars
    BY <1>13 DEF vars, store, process, observed
  <1> QED BY <1>1, <1>2, <1>3, <1>4, <1>5, <1>6, <1>7, <1>8, <1>9, <1>10, <1>11, <1>12, <1>13 DEF Next

(* A task stops waiting only by a step that pops the entry of its chat.    *)
LEMMA FutureStep == DInv /\ [Next]_vars => FutureOwned'
  <1> SUFFICES ASSUME DInv, [Next]_vars PROVE FutureOwned'
    OBVIOUS
  <1> USE DEF DInv, Shape, LiveOwned, FutureOwned, Live, InBackend
  <1>1. ASSUME NEW t \in Tasks, Enqueue(t) \/ BecomeOverdue(t) \/ ApiCancel(t)
        PROVE  FutureOwned'
    BY <1>1, DelegationAssumption DEF Enqueue, BecomeOverdue, ApiCancel, process, observed
  <1>2. ASSUME NEW t \in Tasks, Begin(t) \/ BackendMissing(t)
        PROVE  FutureOwned'
    BY <1>2, DelegationAssumption DEF Begin, BackendMissing, process, observed
  <1>3. ASSUME NEW t \in Tasks, Ask(t) \/ Sent(t) \/ SendFails(t)
        PROVE  FutureOwned'
    BY <1>3, DelegationAssumption DEF Ask, Sent, SendFails, store, observed, Chats
  <1>4. ASSUME NEW t \in Tasks, AnswerArrives(t) \/ RelayTimesOut(t)
        PROVE  FutureOwned'
    BY <1>4, DelegationAssumption DEF AnswerArrives, RelayTimesOut, LeaveRelay, store, observed, Chats
  <1>5. ASSUME NEW t \in Tasks, BackendEnds(t)
        PROVE  FutureOwned'
    BY <1>5, DelegationAssumption DEF BackendEnds, LeaveRelay, store, observed, Chats
  <1>6. ASSUME NEW t \in Tasks, Notify(t) \/ CancelSettles(t)
        PROVE  FutureOwned'
    BY <1>6, DelegationAssumption DEF Notify, CancelSettles, store, observed, Chats
  <1>7. ASSUME NEW t \in Tasks, Cancel(t)
        PROVE  FutureOwned'
    BY <1>7, DelegationAssumption DEF Cancel, LeaveRelay, Active, Chats
  <1>8. ASSUME NEW q \in Questions, Tap(q)
        PROVE  FutureOwned'
    BY <1>8, DelegationAssumption DEF Tap, store, observed
  <1>9. ASSUME NEW c \in Chats, TextAnswer(c)
        PROVE  FutureOwned'
    BY <1>9, DelegationAssumption DEF TextAnswer, store, observed
  <1>10. CASE Poll
    BY <1>10, DelegationAssumption DEF Poll, store, observed
  <1>11. CASE Stop \/ Crash
    BY <1>11, DelegationAssumption DEF Stop, Crash, NothingLeft, store, observed, Chats
  <1>12. CASE Drained \/ Startup
    BY <1>12, DelegationAssumption DEF Drained, Startup, NothingLeft, Active, ScanTasks, store, observed, Chats
  <1>13. CASE UNCHANGED vars
    BY <1>13, DelegationAssumption DEF vars, store, process, observed
  <1> QED BY <1>1, <1>2, <1>3, <1>4, <1>5, <1>6, <1>7, <1>8, <1>9, <1>10, <1>11, <1>12, <1>13 DEF Next

(* DInv is an invariant of the coordinator. *)
LEMMA Invariance == Spec => []DInv
  <1>1. DInv /\ [Next]_vars => DInv'
    BY ShapeStep, ExecutionStep, RunningStep, FutureStep DEF DInv
  <1> QED BY <1>1, InitDInv, PTL DEF Spec

(* A delegated task is executed at most once, whatever crashes, shutdowns, *)
(* restarts and cancellations happen (_execute_task, _recover_inflight_    *)
(* tasks, cancel_task).                                                    *)
THEOREM AtMostOnce == Spec => []ExecutedAtMostOnce
  <1>1. DInv => ExecutedAtMostOnce BY DEF DInv
  <1> QED BY <1>1, Invariance, PTL

(* While the coordinator is up, a task recorded as RUNNING has a worker in *)
(* its backend: restarts and failures leave no ghost behind.               *)
THEOREM NoGhost == Spec => []RunningHasWorker
  <1>1. DInv => RunningHasWorker BY DEF DInv
  <1> QED BY <1>1, Invariance, PTL

(* However many tasks of a chat ask at the same time, an entry of          *)
(* _pending_questions always has a task waiting behind it, so no message   *)
(* is swallowed as an answer nobody waits for.                             *)
THEOREM NoSwallowedMessage == Spec => []NoDeadQuestion
  <1>1. DInv => NoDeadQuestion BY DEF DInv, FutureOwned, NoDeadQuestion
  <1> QED BY <1>1, Invariance, PTL

(* The record of a task and its worker agree, or CANCELLED has been        *)
(* written over a live worker.                                             *)
RecordAgrees ==
    \A t \in Tasks :
        /\ worker[t] \in InBackend => status[t] \in {"running", "cancelled"}
        /\ worker[t] = "claimed" => status[t] \in {"pending", "cancelled"}

(* Every step that writes a status while a worker lives is that worker's,  *)
(* or a cancellation.                                                      *)
LEMMA RecordStep == DInv /\ RecordAgrees /\ [Next]_vars => RecordAgrees'
  <1> SUFFICES ASSUME DInv, RecordAgrees, [Next]_vars PROVE RecordAgrees'
    OBVIOUS
  <1> USE DEF DInv, Shape, LiveOwned, RecordAgrees, Live, InBackend, Terminal
  <1>1. ASSUME NEW t \in Tasks, Enqueue(t) \/ BecomeOverdue(t) \/ ApiCancel(t)
        PROVE  RecordAgrees'
    BY <1>1 DEF Enqueue, BecomeOverdue, ApiCancel, Active, process, bounds, observed
  <1>2. ASSUME NEW t \in Tasks, Begin(t)
        PROVE  RecordAgrees'
    BY <1>2 DEF Begin
  <1>3. ASSUME NEW t \in Tasks, BackendMissing(t)
        PROVE  RecordAgrees'
    BY <1>3 DEF BackendMissing, observed
  <1>4. ASSUME NEW t \in Tasks, Ask(t) \/ Sent(t) \/ SendFails(t)
        PROVE  RecordAgrees'
    BY <1>4 DEF Ask, Sent, SendFails, store, observed
  <1>5. ASSUME NEW t \in Tasks, AnswerArrives(t) \/ RelayTimesOut(t)
        PROVE  RecordAgrees'
    BY <1>5 DEF AnswerArrives, RelayTimesOut, store, observed
  <1>6. ASSUME NEW t \in Tasks, BackendEnds(t)
        PROVE  RecordAgrees'
    BY <1>6 DEF BackendEnds, observed
  <1>7. ASSUME NEW t \in Tasks, Notify(t) \/ CancelSettles(t)
        PROVE  RecordAgrees'
    BY <1>7 DEF Notify, CancelSettles, store, observed
  <1>8. ASSUME NEW t \in Tasks, Cancel(t)
        PROVE  RecordAgrees'
    BY <1>8 DEF Cancel, Active
  <1>9. ASSUME NEW q \in Questions, Tap(q)
        PROVE  RecordAgrees'
    BY <1>9 DEF Tap, store, observed
  <1>10. ASSUME NEW c \in Chats, TextAnswer(c)
        PROVE  RecordAgrees'
    BY <1>10 DEF TextAnswer, store, observed
  <1>11. CASE Poll
    BY <1>11 DEF Poll, store, observed
  <1>12. CASE Stop
    BY <1>12 DEF Stop, store, observed
  <1>13. CASE Drained
    BY <1>13 DEF Drained, NothingLeft, observed
  <1>14. CASE Crash
    BY <1>14 DEF Crash, NothingLeft, store, observed
  <1>15. CASE Startup
    BY <1>15 DEF Startup, Active, ScanTasks, observed
  <1>16. CASE UNCHANGED vars
    BY <1>16 DEF vars, store, process, observed
  <1> QED BY <1>1, <1>2, <1>3, <1>4, <1>5, <1>6, <1>7, <1>8, <1>9, <1>10, <1>11, <1>12, <1>13, <1>14, <1>15, <1>16
         DEF Next

(* A step of the coordinator is a step of the life cycle or none. *)
LEMMA LifecycleStep ==
    DInv /\ RecordAgrees /\ DInv' /\ [Next]_vars
        => [Lifecycle!Next]_<<TaskState, runs>>
  <1> SUFFICES ASSUME DInv, RecordAgrees, DInv', [Next]_vars
               PROVE  [Lifecycle!Next]_<<TaskState, runs>>
    OBVIOUS
  <1> USE DEF DInv, Shape, LiveOwned, RecordAgrees, Live, InBackend, Terminal,
              TaskState, Lifecycle!Next, Lifecycle!Settle, Lifecycle!Verdicts,
              Lifecycle!TaskStatus
  <1>1. ASSUME NEW t \in Tasks, Enqueue(t) \/ BecomeOverdue(t) \/ ApiCancel(t)
        PROVE  [Lifecycle!Next]_<<TaskState, runs>>
    <2>1. CASE Enqueue(t)
      <3>1. TaskState[t] = "none" /\ runs' = runs
        BY <2>1 DEF Enqueue, observed
      <3>2. TaskState' = [TaskState EXCEPT ![t] = "pending"]
        BY <2>1 DEF Enqueue, process
      <3> QED BY <3>1, <3>2 DEF Lifecycle!Accept
    <2>2. CASE BecomeOverdue(t)
      BY <2>2 DEF BecomeOverdue, process, observed
    <2>3. CASE ApiCancel(t)
      BY <2>3 DEF ApiCancel, Active, process, observed
    <2> QED BY <1>1, <2>1, <2>2, <2>3
  <1>2. ASSUME NEW t \in Tasks, Begin(t)
        PROVE  [Lifecycle!Next]_<<TaskState, runs>>
    <2>1. TaskState[t] = "pending" /\ runs' = [runs EXCEPT ![t] = @ + 1]
      BY <1>2 DEF Begin
    <2>2. TaskState' = [TaskState EXCEPT ![t] = "running"]
      BY <1>2 DEF Begin
    <2> QED BY <2>1, <2>2 DEF Lifecycle!Execute
  <1>3. ASSUME NEW t \in Tasks, BackendMissing(t)
        PROVE  [Lifecycle!Next]_<<TaskState, runs>>
    BY <1>3 DEF BackendMissing, observed
  <1>4. ASSUME NEW t \in Tasks, Ask(t) \/ Sent(t) \/ SendFails(t)
        PROVE  [Lifecycle!Next]_<<TaskState, runs>>
    BY <1>4 DEF Ask, Sent, SendFails, store, observed
  <1>5. ASSUME NEW t \in Tasks, AnswerArrives(t) \/ RelayTimesOut(t)
        PROVE  [Lifecycle!Next]_<<TaskState, runs>>
    BY <1>5 DEF AnswerArrives, RelayTimesOut, store, observed
  <1>6. ASSUME NEW t \in Tasks, BackendEnds(t)
        PROVE  [Lifecycle!Next]_<<TaskState, runs>>
    BY <1>6 DEF BackendEnds, observed
  <1>7. ASSUME NEW t \in Tasks, Notify(t) \/ CancelSettles(t)
        PROVE  [Lifecycle!Next]_<<TaskState, runs>>
    BY <1>7 DEF Notify, CancelSettles, store, observed
  <1>8. ASSUME NEW t \in Tasks, Cancel(t)
        PROVE  [Lifecycle!Next]_<<TaskState, runs>>
    BY <1>8 DEF Cancel, Active
  <1>9. ASSUME NEW q \in Questions, Tap(q)
        PROVE  [Lifecycle!Next]_<<TaskState, runs>>
    BY <1>9 DEF Tap, store, observed
  <1>10. ASSUME NEW c \in Chats, TextAnswer(c)
        PROVE  [Lifecycle!Next]_<<TaskState, runs>>
    BY <1>10 DEF TextAnswer, store, observed
  <1>11. CASE Poll
    BY <1>11 DEF Poll, store, observed
  <1>12. CASE Stop
    BY <1>12 DEF Stop, store, observed
  <1>13. CASE Drained
    BY <1>13 DEF Drained, NothingLeft, observed
  <1>14. CASE Crash
    BY <1>14 DEF Crash, NothingLeft, store, observed
  <1>15. CASE Startup
    BY <1>15 DEF Startup, Active, ScanTasks, observed
  <1>16. CASE UNCHANGED vars
    BY <1>16 DEF vars, store, process, observed
  <1> QED BY <1>1, <1>2, <1>3, <1>4, <1>5, <1>6, <1>7, <1>8, <1>9, <1>10, <1>11, <1>12, <1>13, <1>14, <1>15, <1>16
         DEF Next

(* Whatever the coordinator does, delegated tasks are accepted, begin once *)
(* and end for good as TaskLifecycle says (enqueue_from_tool, _execute_    *)
(* task, cancel_task, _recover_inflight_tasks, cleanup_expired).           *)
THEOREM ImplementsLifecycle == Spec => LifecycleKept
  <1>1. Init => RecordAgrees /\ Lifecycle!Init
    BY DEF Init, RecordAgrees, InBackend, TaskState, Lifecycle!Init
  <1>2. DInv /\ RecordAgrees /\ [Next]_vars => RecordAgrees'
    BY RecordStep
  <1>3. DInv /\ RecordAgrees /\ DInv' /\ [Next]_vars
            => [Lifecycle!Next]_<<TaskState, runs>>
    BY LifecycleStep
  <1> QED BY <1>1, <1>2, <1>3, Invariance, PTL DEF Spec, LifecycleKept, Lifecycle!Spec

(* Only a stopped or crashed process is down or drains. *)
FirstLife == crashes = 0 /\ stops = 0 => loop = "polling"

CountsType == crashes \in Nat /\ stops \in Nat /\ notified \subseteq Tasks

(* What was asked to be cancelled is past PENDING for good; a worker of it *)
(* that has not begun is left only to a loop that drains.                  *)
DroppedIsOver ==
    /\ dropped \subseteq Tasks
    /\ \A t \in dropped :
          /\ status[t] \notin {"none", "pending"}
          /\ worker[t] = "claimed" => loop = "draining"

EndInv == CountsType /\ FirstLife /\ EndNotified /\ DroppedIsOver

(* The end of a task is written by its worker, which tells of it next, by  *)
(* a shutdown or at startup; and no step leads back to PENDING.            *)
LEMMA EndStep == DInv /\ RecordAgrees /\ EndInv /\ [Next]_vars => EndInv'
  <1> SUFFICES ASSUME DInv, RecordAgrees, EndInv, [Next]_vars PROVE EndInv'
    OBVIOUS
  <1> USE DEF DInv, Shape, LiveOwned, RecordAgrees, Live, InBackend, Terminal,
              EndInv, CountsType, FirstLife, EndNotified, DroppedIsOver
  <1>1. ASSUME NEW t \in Tasks, Enqueue(t) \/ BecomeOverdue(t) \/ ApiCancel(t)
        PROVE  EndInv'
    BY <1>1 DEF Enqueue, BecomeOverdue, ApiCancel, Active, process, bounds, observed
  <1>2. ASSUME NEW t \in Tasks, Begin(t)
        PROVE  EndInv'
    BY <1>2 DEF Begin, bounds
  <1>3. ASSUME NEW t \in Tasks, BackendMissing(t)
        PROVE  EndInv'
    BY <1>3 DEF BackendMissing, bounds, observed
  <1>4. ASSUME NEW t \in Tasks, Ask(t) \/ Sent(t) \/ SendFails(t)
        PROVE  EndInv'
    BY <1>4 DEF Ask, Sent, SendFails, store, bounds, observed
  <1>5. ASSUME NEW t \in Tasks, AnswerArrives(t) \/ RelayTimesOut(t)
        PROVE  EndInv'
    BY <1>5 DEF AnswerArrives, RelayTimesOut, store, bounds, observed
  <1>6. ASSUME NEW t \in Tasks, BackendEnds(t)
        PROVE  EndInv'
    BY <1>6 DEF BackendEnds, bounds, observed
  <1>7. ASSUME NEW t \in Tasks, Notify(t) \/ CancelSettles(t)
        PROVE  EndInv'
    BY <1>7 DEF Notify, CancelSettles, store, bounds, observed
  <1>8. ASSUME NEW t \in Tasks, Cancel(t)
        PROVE  EndInv'
    BY <1>8 DEF Cancel, Active, bounds
  <1>9. ASSUME NEW q \in Questions, Tap(q)
        PROVE  EndInv'
    BY <1>9 DEF Tap, store, bounds, observed
  <1>10. ASSUME NEW c \in Chats, TextAnswer(c)
        PROVE  EndInv'
    BY <1>10 DEF TextAnswer, store, bounds, observed
  <1>11. CASE Poll
    BY <1>11 DEF Poll, store, bounds, observed
  <1>12. CASE Stop
    BY <1>12 DEF Stop, store, observed
  <1>13. CASE Drained
    BY <1>13 DEF Drained, NothingLeft, bounds, observed
  <1>14. CASE Crash
    BY <1>14 DEF Crash, NothingLeft, store, observed
  <1>15. CASE Startup
    BY <1>15 DEF Startup, Active, ScanTasks, bounds, observed
  <1>16. CASE UNCHANGED vars
    BY <1>16 DEF vars, store, process, bounds, observed
  <1> QED BY <1>1, <1>2, <1>3, <1>4, <1>5, <1>6, <1>7, <1>8, <1>9, <1>10, <1>11, <1>12, <1>13, <1>14, <1>15, <1>16
         DEF Next

LEMMA EndInvariance == Spec => [](DInv /\ RecordAgrees /\ EndInv)
  <1>1. Init => RecordAgrees /\ EndInv
    BY DEF Init, RecordAgrees, InBackend, EndInv, CountsType, FirstLife, EndNotified, DroppedIsOver
  <1> QED BY <1>1, RecordStep, EndStep, Invariance, PTL DEF Spec

(* As long as the process runs on, a task that completed or failed has had *)
(* its feedback turn by the time its worker is gone (_execute_task and the *)
(* completion callback).                                                   *)
THEOREM EndsAreReported == Spec => []EndNotified
  <1>1. EndInv => EndNotified BY DEF EndInv
  <1> QED BY <1>1, EndInvariance, PTL

(* A task that cancel_task was called on does not begin any more, after a  *)
(* restart either, unless stop() had already left its worker to drain.     *)
THEOREM CancelledStays == Spec => CancelledNeverBegins
  <1>1. DInv /\ RecordAgrees /\ EndInv /\ [Next]_vars
            => [\A t \in dropped : loop # "draining" => runs'[t] = runs[t]]_vars
    <2> SUFFICES ASSUME DInv, EndInv, Next,
                        NEW t \in dropped, loop # "draining"
                 PROVE  runs'[t] = runs[t]
      OBVIOUS
    <2>1. t \in Tasks /\ worker[t] # "claimed" /\ runs \in [Tasks -> Nat]
      BY DEF EndInv, DroppedIsOver, DInv, Shape
    <2>2. runs' = runs \/ \E u \in Tasks : Begin(u)
      BY DEF Next, observed, Enqueue, BecomeOverdue, BackendMissing, Ask, Sent,
             SendFails, AnswerArrives, RelayTimesOut, BackendEnds, Notify, Cancel,
             ApiCancel, CancelSettles, Tap, TextAnswer, Poll, Stop, Drained, Crash,
             Startup
    <2> QED BY <2>1, <2>2 DEF Begin
  <1> QED BY <1>1, EndInvariance, PTL DEF Spec, CancelledNeverBegins

=============================================================================
