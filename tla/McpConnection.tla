---------------------------- MODULE McpConnection ----------------------------
(***************************************************************************)
(* The connection to one MCP server, shared by every agent of the process. *)
(*                                                                         *)
(* Operations (tool listings and tool calls of concurrent turns) share one *)
(* session, entered at startup if possible.  They suspend only on the      *)
(* connection's lock, while a session is entered or left, and while the    *)
(* server works; everything between two such points is one step.  The lock *)
(* is held across one suspension only, entering a session, so lock names   *)
(* the operation that is connecting.  A changed configuration detaches the *)
(* session at once and leaves it to be closed when no operation is in      *)
(* flight: by the last operation to end, or by a task of its own.          *)
(***************************************************************************)
EXTENDS Naturals, FiniteSets

CONSTANTS
    Ops,            \* operations, each run once
    KindOf,         \* "call" (a tool call) or "list" (tools or instructions)
    NoOp,           \* no operation
    MaxSessions,    \* bound: sessions built
    MaxReconfigs,   \* bound: changes of the server's configuration
    MaxLosses,      \* bound: sessions that die
    MaxCancels      \* bound: operations cancelled by /stop

ASSUME McpAssumption ==
    /\ NoOp \notin Ops /\ IsFiniteSet(Ops)
    /\ KindOf \in [Ops -> {"call", "list"}]
    /\ MaxSessions \in Nat
    /\ MaxReconfigs \in Nat /\ MaxLosses \in Nat /\ MaxCancels \in Nat

VARIABLES
    entry,      \* the configuration in force, as the number of its version
    current,    \* _toolset
    stale,      \* _stale: superseded sessions, in no particular order
    inflight,   \* _inflight
    backoff,    \* the clock is before _retry_at
    lock,       \* _lock: the operation that holds it across a connect
    pc, on,     \* where each operation is, and the session it is busy with
    closer,     \* background _close_stale tasks, one for each version
    stopping,   \* stop(): "no", "closing" or "done"
    stopq,      \* sessions stop() still has to close
    session,    \* state of each session built so far
    built,      \* the version of the configuration each session was built from
    losses, cancels,
    \* observation only:
    raced,      \* sessions being entered when the configuration changed
    cut         \* a closing of superseded sessions was cancelled

shared == <<entry, current, stale, inflight, backoff, lock>>
tasks == <<pc, on, closer, stopping, stopq>>
servers == <<session, built>>
bounds == <<losses, cancels>>
observed == <<raced, cut>>
vars == <<shared, tasks, servers, bounds, observed>>

Sessions == 1..MaxSessions

NoSession == 0

Versions == 0..MaxReconfigs

NoTask == [at |-> "none", holds |-> NoSession]

(* Places between "self._inflight += 1" and the finally block. *)
Counted == {"running", "lost", "dropping", "forcing", "reentering", "rerunning"}

Places == Counted \cup {"idle", "ensuring", "entering", "draining", "ended"}

InFlight == {o \in Ops : pc[o] \in Counted}

TypeOK ==
    /\ entry \in Versions
    /\ current \in Sessions \cup {NoSession}
    /\ stale \subseteq Sessions
    /\ inflight \in Nat
    /\ backoff \in BOOLEAN
    /\ lock \in Ops \cup {NoOp}
    /\ pc \in [Ops -> Places]
    /\ on \in [Ops -> Sessions \cup {NoSession}]
    /\ closer \in [Versions -> [at : {"none", "created", "closing", "ended"},
                                holds : Sessions \cup {NoSession}]]
    /\ stopping \in {"no", "closing", "done"}
    /\ stopq \subseteq Sessions
    /\ session \in [Sessions -> {"none", "entering", "open", "dead", "closed"}]
    /\ built \in [Sessions -> Versions]

(* start() at startup has connected, has failed, or has not been reached.  *)
Init ==
    /\ entry = 0
    /\ \/ /\ current = NoSession
          /\ session = [s \in Sessions |-> "none"]
          /\ backoff \in BOOLEAN
       \/ /\ current \in Sessions /\ current = 1
          /\ session = [s \in Sessions |-> IF s = 1 THEN "open" ELSE "none"]
          /\ backoff = FALSE
    /\ stale = {}
    /\ inflight = 0
    /\ lock = NoOp
    /\ pc = [o \in Ops |-> "idle"]
    /\ on = [o \in Ops |-> NoSession]
    /\ closer = [v \in Versions |-> NoTask]
    /\ stopping = "no"
    /\ stopq = {}
    /\ built = [s \in Sessions |-> 0]
    /\ losses = 0
    /\ cancels = 0
    /\ raced = {}
    /\ cut = FALSE

-----------------------------------------------------------------------------
(* Shared endings of the steps of an operation.                            *)

(* The loop head of _close_stale, run by operation o when n are in flight. *)
CloseStale(o, n) ==
    \/ /\ n = 0
       /\ \E s \in stale :
            /\ stale' = stale \ {s}
            /\ on' = [on EXCEPT ![o] = s]
       /\ pc' = [pc EXCEPT ![o] = "draining"]
    \/ /\ n > 0 \/ stale = {}
       /\ pc' = [pc EXCEPT ![o] = "ended"]
       /\ on' = [on EXCEPT ![o] = NoSession]
       /\ UNCHANGED stale

(* The finally block of _run. *)
FinallyUncounted(o) ==
    /\ inflight' = inflight
    /\ CloseStale(o, inflight)

Finally(o) ==
    /\ inflight' = inflight - 1
    /\ CloseStale(o, inflight - 1)

(* op(toolset): the request of o goes out on session s. *)
Send(o, s, place) ==
    /\ pc' = [pc EXCEPT ![o] = place]
    /\ on' = [on EXCEPT ![o] = s]

(* What follows when _ensure has returned session s to the operation o:    *)
(* the first attempt of a request, its replay on the fresh session, or no  *)
(* replay for a tool call, whose error is raised.                          *)
Proceed(o, s) ==
    \/ /\ pc[o] \in {"ensuring", "entering"}
       /\ inflight' = inflight + 1
       /\ Send(o, s, "running")
       /\ UNCHANGED stale
    \/ /\ pc[o] \in {"forcing", "reentering"} /\ KindOf[o] = "list"
       /\ Send(o, s, "rerunning")
       /\ UNCHANGED <<stale, inflight>>
    \/ /\ pc[o] \in {"forcing", "reentering"} /\ KindOf[o] = "call"
       /\ Finally(o)

(* What follows when _ensure has returned None: ToolFailed, and the        *)
(* finally block for an operation that is already counted.                 *)
Fail(o) ==
    \/ /\ pc[o] \notin Counted
       /\ pc' = [pc EXCEPT ![o] = "ended"]
       /\ on' = [on EXCEPT ![o] = NoSession]
       /\ UNCHANGED <<stale, inflight>>
    \/ /\ pc[o] \in Counted
       /\ Finally(o)

-----------------------------------------------------------------------------
(* _run. *)
Begin(o) ==
    /\ pc[o] = "idle"
    /\ pc' = [pc EXCEPT ![o] = "ensuring"]
    /\ UNCHANGED <<shared, on, closer, stopping, stopq, servers, bounds, observed>>

(* _ensure, with a session at hand. *)
UseCurrent(o) ==
    /\ pc[o] \in {"ensuring", "forcing"}
    /\ lock = NoOp
    /\ current # NoSession
    /\ Proceed(o, current)
    /\ UNCHANGED <<entry, current, backoff, lock, closer, stopping, stopq, servers, bounds,
                   observed>>

(* _ensure, in the backoff of a failed connect. *)
Refuse(o) ==
    /\ pc[o] = "ensuring"
    /\ lock = NoOp
    /\ current = NoSession
    /\ backoff
    /\ pc' = [pc EXCEPT ![o] = "ended"]
    /\ UNCHANGED <<shared, on, closer, stopping, stopq, servers, bounds, observed>>

(* _ensure, entering a session built from the entry as it is now.  A       *)
(* reconnect is forced: it does not wait for the backoff.                  *)
Enter(o) ==
    /\ pc[o] \in {"ensuring", "forcing"}
    /\ lock = NoOp
    /\ current = NoSession
    /\ pc[o] = "ensuring" => ~backoff
    /\ \E s \in Sessions :
        /\ session[s] = "none"
        /\ \A r \in Sessions : r < s => session[r] # "none"
        /\ session' = [session EXCEPT ![s] = "entering"]
        /\ built' = [built EXCEPT ![s] = entry]
        /\ on' = [on EXCEPT ![o] = s]
    /\ lock' = o
    /\ pc' = [pc EXCEPT ![o] = IF @ = "ensuring" THEN "entering" ELSE "reentering"]
    /\ UNCHANGED <<entry, current, stale, inflight, backoff, closer, stopping, stopq, bounds,
                   observed>>

(* _ensure, connected: the session becomes the current one whatever the    *)
(* configuration has become meanwhile.                                     *)
Entered(o) ==
    /\ lock = o
    /\ session' = [session EXCEPT ![on[o]] = "open"]
    /\ current' = on[o]
    /\ backoff' = FALSE
    /\ lock' = NoOp
    /\ Proceed(o, on[o])
    /\ UNCHANGED <<entry, closer, stopping, stopq, built, bounds, observed>>

(* _ensure, connecting failed or timed out. *)
EnterFailsLocked(o) ==
    /\ lock = o
    /\ session' = [session EXCEPT ![on[o]] = "closed"]
    /\ backoff' = TRUE
    /\ Fail(o)
    /\ UNCHANGED <<entry, current, lock, closer, stopping, stopq, built, bounds, observed>>

EnterFails(o) ==
    /\ lock = o
    /\ session' = [session EXCEPT ![on[o]] = "closed"]
    /\ backoff' = TRUE
    /\ lock' = NoOp
    /\ Fail(o)
    /\ UNCHANGED <<entry, current, closer, stopping, stopq, built, bounds, observed>>

(* The clock reaches _retry_at. *)
BackoffEnds ==
    /\ backoff
    /\ backoff' = FALSE
    /\ UNCHANGED <<entry, current, stale, inflight, lock, tasks, servers, bounds, observed>>

(* The server answers o, with a result or an ordinary tool error (on a     *)
(* dead session, before it died); a replay may also fail with a connection *)
(* error, which is raised.                                                 *)
Answer(o) ==
    /\ pc[o] \in {"running", "rerunning"}
    /\ pc[o] = "running" => session[on[o]] # "closed"
    /\ Finally(o)
    /\ UNCHANGED <<entry, current, backoff, lock, closer, stopping, stopq, servers, bounds,
                   observed>>

(* The transport of a session breaks, for one request or for all. *)
SessionDies(s) ==
    /\ losses < MaxLosses
    /\ session[s] = "open"
    /\ session' = [session EXCEPT ![s] = "dead"]
    /\ losses' = losses + 1
    /\ UNCHANGED <<shared, tasks, built, cancels, observed>>

(* is_connection_error on the first attempt: _reconnect is called. *)
ConnectionLost(o) ==
    /\ pc[o] = "running"
    /\ session[on[o]] \in {"dead", "closed"}
    /\ pc' = [pc EXCEPT ![o] = "lost"]
    /\ UNCHANGED <<shared, on, closer, stopping, stopq, servers, bounds, observed>>

(* _reconnect: the first operation to notice detaches the failed session   *)
(* and leaves it, the others go on to _ensure.                             *)
DetachAny(o) ==
    /\ pc[o] = "lost"
    /\ lock = NoOp
    /\ current # NoSession
    /\ current' = NoSession
    /\ on' = [on EXCEPT ![o] = current]
    /\ pc' = [pc EXCEPT ![o] = "dropping"]
    /\ UNCHANGED <<entry, stale, inflight, backoff, lock, closer, stopping, stopq, servers,
                   bounds, observed>>

Detach(o) ==
    /\ pc[o] = "lost"
    /\ lock = NoOp
    /\ \/ /\ current = on[o]
          /\ current' = NoSession
          /\ pc' = [pc EXCEPT ![o] = "dropping"]
       \/ /\ current # on[o]
          /\ pc' = [pc EXCEPT ![o] = "forcing"]
          /\ UNCHANGED current
    /\ UNCHANGED <<entry, stale, inflight, backoff, lock, on, closer, stopping, stopq, servers,
                   bounds, observed>>

(* _close(failed) returns, closed or timed out. *)
Dropped(o) ==
    /\ pc[o] = "dropping"
    /\ session' = [session EXCEPT ![on[o]] = "closed"]
    /\ pc' = [pc EXCEPT ![o] = "forcing"]
    /\ UNCHANGED <<shared, on, closer, stopping, stopq, built, bounds, observed>>

(* _close of a superseded session returns, in the finally block of o. *)
Drained(o) ==
    /\ pc[o] = "draining"
    /\ session' = [session EXCEPT ![on[o]] = "closed"]
    /\ CloseStale(o, inflight)
    /\ UNCHANGED <<entry, current, inflight, backoff, lock, closer, stopping, stopq, built,
                   bounds, observed>>

(* /stop cancels the turn o belongs to: a connect is abandoned and the     *)
(* lock released; a session that was being left is abandoned.              *)
Cancel(o) ==
    /\ cancels < MaxCancels
    /\ pc[o] \notin {"idle", "ended"}
    /\ cancels' = cancels + 1
    /\ session' = IF lock = o \/ pc[o] \in {"dropping", "draining"}
                  THEN [session EXCEPT ![on[o]] = "closed"] ELSE session
    /\ lock' = IF lock = o THEN NoOp ELSE lock
    /\ Fail(o)
    /\ cut' = (cut \/ pc[o] = "draining")
    /\ UNCHANGED <<entry, current, backoff, closer, stopping, stopq, built, losses, raced>>

-----------------------------------------------------------------------------
(* reconfigure, called by McpToolsets._connection for a turn that builds   *)
(* its adapter when the server's settings have changed.  It runs on the    *)
(* loop without suspending, also while another operation is connecting.    *)
ReconfigureAttached ==
    /\ entry < MaxReconfigs
    /\ stopping = "no"
    /\ entry' = entry + 1
    /\ backoff' = FALSE
    /\ raced' = IF lock = NoOp THEN raced ELSE raced \cup {on[lock]}
    /\ UNCHANGED <<current, stale, inflight, lock, tasks, servers, bounds, cut>>

Reconfigure ==
    /\ entry < MaxReconfigs
    /\ stopping = "no"
    /\ entry' = entry + 1
    /\ backoff' = FALSE
    /\ stale' = IF current = NoSession THEN stale ELSE stale \cup {current}
    /\ current' = NoSession
    /\ closer' = IF stale' # {} /\ inflight = 0
                 THEN [closer EXCEPT ![entry'] = [at |-> "created", holds |-> NoSession]]
                 ELSE closer
    /\ raced' = IF lock = NoOp THEN raced ELSE raced \cup {on[lock]}
    /\ UNCHANGED <<inflight, lock, pc, on, stopping, stopq, servers, bounds, cut>>

(* A background _close_stale reaches its loop head, when it first runs and *)
(* after each session it has closed.                                       *)
CloserStep(v) ==
    /\ closer[v].at \in {"created", "closing"}
    /\ session' = IF closer[v].at = "created" THEN session
                  ELSE [session EXCEPT ![closer[v].holds] = "closed"]
    /\ \/ /\ inflight = 0
          /\ \E s \in stale :
               /\ stale' = stale \ {s}
               /\ closer' = [closer EXCEPT ![v] = [at |-> "closing", holds |-> s]]
       \/ /\ inflight > 0 \/ stale = {}
          /\ closer' = [closer EXCEPT ![v] = [at |-> "ended", holds |-> NoSession]]
          /\ UNCHANGED stale
    /\ UNCHANGED <<entry, current, inflight, backoff, lock, pc, on, stopping, stopq, built, bounds,
                   observed>>

(* stop, called by McpToolsets.close at shutdown while turns still run. *)
StopForgettingStale ==
    /\ stopping = "no"
    /\ lock = NoOp
    /\ stopping' = "closing"
    /\ stopq' = {current} \ {NoSession}
    /\ current' = NoSession
    /\ stale' = {}
    /\ UNCHANGED <<entry, inflight, backoff, lock, pc, on, closer, servers, bounds, observed>>

Stop ==
    /\ stopping = "no"
    /\ lock = NoOp
    /\ stopping' = "closing"
    /\ stopq' = stale \cup ({current} \ {NoSession})
    /\ current' = NoSession
    /\ stale' = {}
    /\ UNCHANGED <<entry, inflight, backoff, lock, pc, on, closer, servers, bounds, observed>>

(* stop closes one session after another. *)
StopCloses ==
    /\ stopping = "closing"
    /\ \/ /\ \E s \in stopq :
               /\ session' = [session EXCEPT ![s] = "closed"]
               /\ stopq' = stopq \ {s}
          /\ UNCHANGED stopping
       \/ /\ stopq = {}
          /\ stopping' = "done"
          /\ UNCHANGED <<session, stopq>>
    /\ UNCHANGED <<shared, pc, on, closer, built, bounds, observed>>

OpStep(o) ==
    \/ UseCurrent(o) \/ Refuse(o) \/ Enter(o) \/ Entered(o) \/ EnterFails(o)
    \/ Answer(o) \/ ConnectionLost(o) \/ Detach(o) \/ Dropped(o) \/ Drained(o)

Next ==
    \/ \E o \in Ops : Begin(o) \/ OpStep(o) \/ Cancel(o)
    \/ \E s \in Sessions : SessionDies(s)
    \/ \E v \in Versions : CloserStep(v)
    \/ BackoffEnds \/ Reconfigure \/ Stop \/ StopCloses

Spec == Init /\ [][Next]_vars

(* The loop runs every task that can run, the connect, the request and the *)
(* close are each under a timeout, and the loop hands the lock on in the   *)
(* order it was asked for: an operation that keeps finding the lock taken  *)
(* between two connects of others gets it in the end (SF).                 *)
Fairness ==
    /\ \A o \in Ops : SF_vars(OpStep(o))
    /\ \A v \in Versions : WF_vars(CloserStep(v))

FairSpec == Spec /\ Fairness

-----------------------------------------------------------------------------
(* Sessions that are being left: by a background task, by the last         *)
(* operation to end, or by the operation that found them dead.             *)
Leaving ==
    {closer[v].holds : v \in {w \in Versions : closer[w].at = "closing"}}
    \cup {on[o] : o \in {p \in Ops : pc[p] \in {"draining", "dropping"}}}

(* Before shutdown a working session is never left while a request is out  *)
(* on it ("never in the middle of a call"): neither a superseded one, which*)
(* waits until _inflight is 0, nor the fresh one when several operations   *)
(* notice the death of its predecessor.                                    *)
NeverUnderCall ==
    \A s \in Leaving, o \in Ops :
        ~ (session[s] = "open" /\ pc[o] \in {"running", "rerunning"} /\ on[o] = s)

(* No session is lost track of, and none is handed out twice: what is      *)
(* open is the current session, waits in _stale, is being left or is       *)
(* stop()'s to close, only one of these, and neither the current nor a     *)
(* waiting session has been closed.                                        *)
SessionsOwned ==
    /\ \A s \in Sessions :
        session[s] \in {"open", "dead"} =>
            s \in {current} \cup stale \cup stopq \cup Leaving
    /\ ({current} \cup stale \cup stopq) \cap Leaving = {}
    /\ current \notin stale \cup stopq
    /\ \A s \in {current} \cup stale \cup stopq :
        s # NoSession => session[s] \in {"open", "dead"}

(* The current session has the settings in force, unless it was being      *)
(* entered at the moment they changed.                                     *)
SettingsFollow ==
    current # NoSession => built[current] = entry \/ current \in raced

(* A superseded session always has somebody who will close it: an          *)
(* operation in flight, whose end looks at _stale, or a closing that is    *)
(* under way.  Only a cancellation that cuts a closing short leaves it to  *)
(* the next operation or to stop().                                        *)
SupersededHasCloser ==
    \/ stale = {}
    \/ \E o \in Ops : pc[o] \in Counted \cup {"draining"}
    \/ \E v \in Versions : closer[v].at \in {"created", "closing"}
    \/ cut

(* Every operation that was begun ends: no connect, reconnect or close     *)
(* leaves the lock taken or an operation waiting for another.              *)
OperationEnds ==
    \A o \in Ops : (pc[o] # "idle") ~> (pc[o] = "ended")

=============================================================================
