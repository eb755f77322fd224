------------------------- MODULE McpConnectionProofs -------------------------
(***************************************************************************)
(* For any set of operations and any number of sessions, changes of the    *)
(* configuration, losses and cancellations: a working session is not left  *)
(* under a request, none is lost track of, a superseded one has somebody   *)
(* to close it, and the settings in force are those of the session in use. *)
(***************************************************************************)
EXTENDS McpConnection, FiniteSetTheorems, TLAPS

Connecting == {"entering", "reentering"}

OutOn == {"running", "rerunning"}

(* Where an operation is busy with a session. *)
Busy == Connecting \cup OutOn \cup {"lost", "dropping", "draining"}

Working == {"open", "dead"}

(* _inflight is the number of operations between its two changes. *)
Counts == inflight = Cardinality(InFlight)

(* The lock is held across a connect and by nobody else, and a connect     *)
(* means that there is no current session.                                 *)
LockHeld ==
    /\ \A o \in Ops : pc[o] \in Connecting <=> lock = o
    /\ lock # NoOp => current = NoSession /\ session[on[lock]] = "entering"
    /\ \A s \in Sessions : session[s] = "entering" => lock # NoOp /\ on[lock] = s

(* What an operation or a background task is busy with is a session, and   *)
(* one that was found dead is not working.                                 *)
Held ==
    /\ \A o \in Ops : pc[o] \in Busy => on[o] \in Sessions
    /\ \A o \in Ops : pc[o] \in {"lost", "dropping"} => session[on[o]] \in {"dead", "closed"}
    /\ \A v \in Versions : closer[v].at = "closing" => closer[v].holds \in Sessions

(* Only stop() has sessions of its own, and it takes over all of _stale. *)
StopTakesAll ==
    /\ stopping = "no" => stopq = {}
    /\ stopping # "no" => stale = {}

(* A session that is being left belongs to nobody else. *)
Apart(s) ==
    /\ s # current /\ s \notin stale /\ s \notin stopq
    /\ session[s] \in {"open", "dead", "closed"}

LeftByTask(s) == \E v \in Versions : closer[v].at = "closing" /\ closer[v].holds = s

LeftByOp(s) == \E o \in Ops : pc[o] \in {"draining", "dropping"} /\ on[o] = s

(* SessionsOwned, one holder of a session after the other. *)
TasksApart == \A v \in Versions : closer[v].at = "closing" => Apart(closer[v].holds)

OpsApart == \A o \in Ops : pc[o] \in {"draining", "dropping"} => Apart(on[o])

AllOwned ==
    \A s \in Sessions : session[s] \in Working =>
        s = current \/ s \in stale \/ s \in stopq \/ LeftByTask(s) \/ LeftByOp(s)

Owned ==
    /\ TasksApart
    /\ OpsApart
    /\ AllOwned
    /\ current \notin stale /\ current \notin stopq
    /\ current # NoSession => session[current] \in Working
    /\ \A s \in stale \cup stopq : session[s] \in Working

(* NeverUnderCall, for each of those who leave a session. *)
NotUnderCall ==
    \A o \in Ops : pc[o] \in OutOn /\ session[on[o]] = "open" =>
        ~ LeftByTask(on[o]) /\ ~ LeftByOp(on[o])

(* A session being entered already has the settings it will be used with.  *)
BuiltFromEntry ==
    lock # NoOp => built[on[lock]] = entry \/ on[lock] \in raced

(* A background task is started for the version that was just set. *)
TasksByVersion == \A v \in Versions : v > entry => closer[v].at = "none"

MInv ==
    /\ TypeOK
    /\ TasksByVersion
    /\ Counts
    /\ LockHeld
    /\ Held
    /\ StopTakesAll
    /\ Owned
    /\ NotUnderCall
    /\ SettingsFollow /\ BuiltFromEntry
    /\ SupersededHasCloser

-----------------------------------------------------------------------------
(* How a step of an operation ends.                                        *)

Move(o, place, s) ==
    /\ pc' = [pc EXCEPT ![o] = place]
    /\ on' = [on EXCEPT ![o] = s]

(* A request goes out on session s. *)
Goes(o, s) ==
    /\ \E place \in OutOn : Move(o, place, s)
    /\ UNCHANGED stale

(* The operation is over and others are in flight, or nothing is stale. *)
Ends(o) ==
    /\ Move(o, "ended", NoSession)
    /\ InFlight' # {} \/ stale = {}
    /\ UNCHANGED stale

(* The last operation to end closes a superseded session. *)
Drains(o) ==
    /\ InFlight' = {}
    /\ \E s \in stale : Move(o, "draining", s) /\ stale' = stale \ {s}

(* An operation that was not counted is over. *)
GivesUp(o) ==
    /\ pc[o] \notin Counted
    /\ Move(o, "ended", NoSession)
    /\ UNCHANGED stale

(* Operations are finitely many, so _inflight counts them. *)
LEMMA InFlightFinite ==
    ASSUME Counts
    PROVE  /\ IsFiniteSet(InFlight) /\ inflight \in Nat
           /\ inflight = 0 <=> InFlight = {}
  <1>1. IsFiniteSet(InFlight)
    BY McpAssumption, FS_Subset DEF InFlight
  <1> QED BY <1>1, FS_CardinalityType, FS_EmptySet DEF Counts

(* The loop head of _close_stale, with the number in flight at that time.  *)
LEMMA CloseStaleStep ==
    ASSUME NEW o \in Ops, NEW n, n = Cardinality(InFlight'), CloseStale(o, n)
    PROVE  Ends(o) \/ Drains(o)
  <1>1. IsFiniteSet(InFlight')
    BY McpAssumption, FS_Subset DEF InFlight
  <1>2. n \in Nat /\ (n = 0 <=> InFlight' = {})
    BY <1>1, FS_CardinalityType, FS_EmptySet
  <1> QED BY <1>2 DEF CloseStale, Ends, Drains, Move

(* The finally block of a counted operation. *)
LEMMA FinallyStep ==
    ASSUME TypeOK, Counts, NEW o \in Ops, pc[o] \in Counted, Finally(o)
    PROVE  Counts' /\ (Ends(o) \/ Drains(o))
  <1>1. InFlight' = InFlight \ {o} /\ o \in InFlight
    BY DEF Finally, CloseStale, InFlight, TypeOK, Counted
  <1>2. Cardinality(InFlight') = inflight - 1
    BY <1>1, InFlightFinite, FS_RemoveElement DEF Counts
  <1> QED BY <1>2, CloseStaleStep DEF Finally, Counts

(* _ensure has returned a session. *)
LEMMA ProceedStep ==
    ASSUME TypeOK, Counts, NEW o \in Ops, NEW s, Proceed(o, s)
    PROVE  Counts' /\ (Goes(o, s) \/ Ends(o) \/ Drains(o))
  <1>1. CASE pc[o] \in {"ensuring", "entering"} /\ inflight' = inflight + 1
             /\ Send(o, s, "running") /\ UNCHANGED stale
    <2>1. InFlight' = InFlight \cup {o} /\ o \notin InFlight
      BY <1>1 DEF Send, InFlight, TypeOK, Counted
    <2>2. Cardinality(InFlight') = inflight + 1
      BY <2>1, InFlightFinite, FS_AddElement DEF Counts
    <2> QED BY <1>1, <2>2 DEF Counts, Goes, OutOn, Move, Send
  <1>2. CASE pc[o] \in {"forcing", "reentering"} /\ Send(o, s, "rerunning")
             /\ UNCHANGED <<stale, inflight>>
    <2>1. InFlight' = InFlight
      BY <1>2 DEF Send, InFlight, TypeOK, Counted
    <2> QED BY <1>2, <2>1 DEF Counts, Goes, OutOn, Move, Send
  <1>3. CASE pc[o] \in {"forcing", "reentering"} /\ Finally(o)
    BY <1>3, FinallyStep DEF Counted
  <1> QED BY <1>1, <1>2, <1>3 DEF Proceed

(* _ensure has returned None, or the operation is cancelled. *)
LEMMA FailStep ==
    ASSUME TypeOK, Counts, NEW o \in Ops, Fail(o)
    PROVE  Counts' /\ (GivesUp(o) \/ Ends(o) \/ Drains(o))
  <1>1. CASE pc[o] \notin Counted /\ GivesUp(o) /\ inflight' = inflight
    <2>1. InFlight' = InFlight
      BY <1>1 DEF GivesUp, Move, InFlight, TypeOK, Counted
    <2> QED BY <1>1, <2>1 DEF Counts
  <1>2. CASE pc[o] \in Counted /\ Finally(o)
    BY <1>2, FinallyStep
  <1> QED BY <1>1, <1>2 DEF Fail, GivesUp, Move

(* What each step of an operation that may end it does to the operation.   *)
(* The session it is busy with is left alone, becomes the current one, or  *)
(* is closed.                                                              *)
Untouched(o) ==
    /\ lock # o /\ pc[o] \notin {"dropping", "draining"}
    /\ UNCHANGED <<session, current, lock>>

Connected(o) ==
    /\ lock = o /\ lock' = NoOp
    /\ session' = [session EXCEPT ![on[o]] = "open"]
    /\ current' = on[o]

Closed(o) ==
    /\ lock = o \/ pc[o] \in {"dropping", "draining"}
    /\ lock' = IF lock = o THEN NoOp ELSE lock
    /\ session' = [session EXCEPT ![on[o]] = "closed"]
    /\ UNCHANGED current

OpEnding(o) ==
    /\ \/ (Untouched(o) \/ Connected(o)) /\ current' # NoSession /\ Goes(o, current')
       \/ (Untouched(o) \/ Connected(o) \/ Closed(o)) /\ (Ends(o) \/ Drains(o) \/ GivesUp(o))
    /\ Counts'
    /\ backoff' \in BOOLEAN
    /\ GivesUp(o) /\ pc[o] = "draining" => cut' \/ Ends(o)
    /\ cut => cut'
    /\ UNCHANGED <<entry, closer, stopping, stopq, built, raced>>

LEMMA OperationEnding ==
    ASSUME MInv, NEW o \in Ops,
           \/ UseCurrent(o) \/ Entered(o) \/ EnterFails(o) \/ Answer(o)
           \/ Drained(o) \/ Cancel(o)
    PROVE  OpEnding(o)
  <1> USE DEF MInv
  <1>0. /\ pc[o] \in Connecting <=> lock = o
        /\ pc[o] \in Busy => on[o] \in Sessions
        /\ pc[o] \in Places /\ backoff \in BOOLEAN /\ o # NoOp
    BY McpAssumption DEF LockHeld, Held, TypeOK
  <1>1. CASE UseCurrent(o)
    <2>1. Counts' /\ (Goes(o, current) \/ Ends(o) \/ Drains(o))
      BY <1>1, ProceedStep DEF UseCurrent
    <2>2. Untouched(o) /\ current' # NoSession
      BY <1>0, <1>1 DEF UseCurrent, Untouched, servers
    <2>3. UNCHANGED <<current, entry, closer, stopping, stopq, built, raced, cut, backoff>>
      BY <1>1 DEF UseCurrent, servers, observed
    <2>4. ~ GivesUp(o) \/ pc[o] # "draining"
      BY <1>1 DEF UseCurrent
    <2> QED BY <1>0, <2>1, <2>2, <2>3, <2>4 DEF OpEnding
  <1>2. CASE Entered(o)
    <2>1. Counts' /\ (Goes(o, on[o]) \/ Ends(o) \/ Drains(o))
      BY <1>2, ProceedStep DEF Entered
    <2>2. Connected(o) /\ current' # NoSession /\ current' = on[o]
      BY <1>0, <1>2 DEF Entered, Connected, Busy, Sessions, NoSession
    <2>3. UNCHANGED <<entry, closer, stopping, stopq, built, raced, cut>> /\ backoff' = FALSE
      BY <1>2 DEF Entered, observed
    <2>4. pc[o] # "draining"
      BY <1>0, <1>2 DEF Entered, Connecting
    <2> QED BY <2>1, <2>2, <2>3, <2>4 DEF OpEnding
  <1>3. CASE EnterFails(o)
    <2>1. Counts' /\ (GivesUp(o) \/ Ends(o) \/ Drains(o))
      BY <1>3, FailStep DEF EnterFails
    <2>2. Closed(o)
      BY <1>0, <1>3 DEF EnterFails, Closed
    <2>3. UNCHANGED <<entry, closer, stopping, stopq, built, raced, cut>> /\ backoff' = TRUE
      BY <1>3 DEF EnterFails, observed
    <2>4. pc[o] # "draining"
      BY <1>0, <1>3 DEF EnterFails, Connecting
    <2> QED BY <2>1, <2>2, <2>3, <2>4 DEF OpEnding
  <1>4. CASE Answer(o)
    <2>1. Counts' /\ (Ends(o) \/ Drains(o))
      BY <1>4, FinallyStep DEF Answer, Counted
    <2>2. Untouched(o) /\ pc[o] # "draining"
      BY <1>0, <1>4 DEF Answer, Untouched, Connecting, servers
    <2>3. UNCHANGED <<entry, closer, stopping, stopq, built, raced, cut, backoff>>
      BY <1>4 DEF Answer, servers, observed
    <2> QED BY <1>0, <2>1, <2>2, <2>3 DEF OpEnding
  <1>5. CASE Drained(o)
    <2>1. InFlight' = InFlight /\ inflight' = inflight
      BY <1>5 DEF Drained, CloseStale, InFlight, TypeOK, Counted
    <2>2. Counts' /\ (Ends(o) \/ Drains(o))
      BY <1>5, <2>1, CloseStaleStep DEF Drained, Counts
    <2>3. Closed(o) /\ pc[o] \notin Counted
      BY <1>0, <1>5 DEF Drained, Closed, Connecting, Counted
    <2>4. ~ GivesUp(o) \/ Ends(o)
      BY <2>2 DEF GivesUp, Drains, Move
    <2>5. UNCHANGED <<entry, closer, stopping, stopq, built, raced, cut, backoff>>
      BY <1>5 DEF Drained, observed
    <2> QED BY <1>0, <2>2, <2>3, <2>4, <2>5 DEF OpEnding
  <1>6. CASE Cancel(o)
    <2>1. Counts' /\ (GivesUp(o) \/ Ends(o) \/ Drains(o))
      BY <1>6, FailStep DEF Cancel
    <2>2. Untouched(o) \/ Closed(o)
      BY <1>0, <1>6 DEF Cancel, Untouched, Closed
    <2>3. UNCHANGED <<entry, closer, stopping, stopq, built, raced, backoff>>
      BY <1>6 DEF Cancel
    <2>4. cut' = (cut \/ pc[o] = "draining")
      BY <1>6 DEF Cancel
    <2> QED BY <1>0, <2>1, <2>2, <2>3, <2>4 DEF OpEnding
  <1> QED BY <1>1, <1>2, <1>3, <1>4, <1>5, <1>6

-----------------------------------------------------------------------------
(* Each part of the invariant, step by step.                               *)

(* The types of the part of the state that operations change. *)
LEMMA Types ==
    ASSUME MInv
    PROVE  /\ pc \in [Ops -> Places] /\ on \in [Ops -> Sessions \cup {NoSession}]
           /\ session \in [Sessions -> {"none", "entering", "open", "dead", "closed"}]
           /\ stale \subseteq Sessions /\ stopq \subseteq Sessions
           /\ current \in Sessions \cup {NoSession} /\ NoSession \notin Sessions
           /\ lock \in Ops \cup {NoOp} /\ NoOp \notin Ops
  BY McpAssumption DEF MInv, TypeOK, Sessions, NoSession

LEMMA TypeStep == MInv /\ [Next]_vars => TypeOK' /\ Counts'
  <1> SUFFICES ASSUME MInv, [Next]_vars PROVE TypeOK' /\ Counts'
    OBVIOUS
  <1>0. TypeOK /\ Counts
    BY DEF MInv
  <1>1. ASSUME NEW o \in Ops, OpEnding(o) PROVE TypeOK' /\ Counts'
    <2>1. inflight' \in Nat
      <3>1. IsFiniteSet(InFlight') BY McpAssumption, FS_Subset DEF InFlight
      <3> QED BY <1>1, <3>1, FS_CardinalityType DEF OpEnding, Counts
    <2>2. lock = o => on[o] \in Sessions
      BY DEF MInv, LockHeld, Held, Busy
    <2>3. current' \in Sessions \cup {NoSession} /\ lock' \in Ops \cup {NoOp}
      BY <1>1, <2>2, Types DEF OpEnding, Untouched, Connected, Closed
    <2>4. session' \in [Sessions -> {"none", "entering", "open", "dead", "closed"}]
      BY <1>1, <2>2, Types DEF OpEnding, Untouched, Connected, Closed
    <2>5. ASSUME NEW place \in Places, NEW s \in Sessions \cup {NoSession}, Move(o, place, s)
          PROVE  pc' \in [Ops -> Places] /\ on' \in [Ops -> Sessions \cup {NoSession}]
      BY <2>5, Types DEF Move
    <2>6. pc' \in [Ops -> Places] /\ on' \in [Ops -> Sessions \cup {NoSession}]
      <3>1. CASE Goes(o, current')
        BY <3>1, <2>3, <2>5 DEF Goes, OutOn, Places, Counted
      <3>2. CASE Ends(o) \/ GivesUp(o)
        BY <3>2, <2>5 DEF Ends, GivesUp, Places
      <3>3. CASE Drains(o)
        BY <3>3, <2>5, Types DEF Drains, Places
      <3> QED BY <1>1, <3>1, <3>2, <3>3 DEF OpEnding
    <2>7. stale' \subseteq Sessions
      BY <1>1, Types DEF OpEnding, Goes, Ends, GivesUp, Drains
    <2>8. UNCHANGED <<entry, closer, stopping, stopq, built>> /\ backoff' \in BOOLEAN /\ Counts'
      BY <1>1 DEF OpEnding
    <2> QED BY <1>0, <2>1, <2>3, <2>4, <2>6, <2>7, <2>8 DEF TypeOK, Versions, Sessions
  <1>2. ASSUME NEW o \in Ops, Begin(o) \/ Refuse(o) \/ ConnectionLost(o) \/ Detach(o)
        PROVE  TypeOK' /\ Counts'
    <2>1. TypeOK' /\ inflight' = inflight
      BY <1>0, <1>2 DEF TypeOK, Places, Counted, Begin, Refuse, ConnectionLost, Detach, shared, servers
    <2>2. InFlight' = InFlight
      BY <1>0, <1>2 DEF TypeOK, InFlight, Counted, Begin, Refuse, ConnectionLost, Detach
    <2> QED BY <1>0, <2>1, <2>2 DEF Counts
  <1>3. ASSUME NEW o \in Ops, Enter(o) \/ Dropped(o)
        PROVE  TypeOK' /\ Counts'
    <2>1. ASSUME Enter(o) PROVE TypeOK'
      <3>1. PICK s \in Sessions : /\ session' = [session EXCEPT ![s] = "entering"]
                                  /\ built' = [built EXCEPT ![s] = entry]
                                  /\ on' = [on EXCEPT ![o] = s]
        BY <2>1 DEF Enter
      <3>2. UNCHANGED <<entry, current, stale, inflight, backoff, closer, stopping, stopq>>
            /\ lock' = o /\ pc' \in [Ops -> Places]
        BY <1>0, <2>1 DEF TypeOK, Enter, Places, Counted
      <3> QED BY <1>0, <3>1, <3>2 DEF TypeOK
    <2>a. ASSUME Dropped(o) PROVE TypeOK'
      BY <1>0, <2>a DEF TypeOK, Places, Counted, Dropped, shared
    <2>2. InFlight' = InFlight
      BY <1>0, <1>3 DEF TypeOK, InFlight, Counted, Enter, Dropped
    <2>3. inflight' = inflight
      BY <1>3 DEF Enter, Dropped, shared
    <2> QED BY <1>0, <1>3, <2>1, <2>a, <2>2, <2>3 DEF Counts
  <1>4. CASE (\E s \in Sessions : SessionDies(s)) \/ BackoffEnds \/ Stop \/ StopCloses
    <2>1. TypeOK' /\ inflight' = inflight
      BY <1>0, <1>4 DEF TypeOK, SessionDies, BackoffEnds, Stop, StopCloses, shared, tasks, servers
    <2>2. InFlight' = InFlight
      BY <1>4 DEF InFlight, SessionDies, BackoffEnds, Stop, StopCloses, tasks
    <2> QED BY <1>0, <2>1, <2>2 DEF Counts
  <1>5. ASSUME NEW v \in Versions, CloserStep(v)
        PROVE  TypeOK' /\ Counts'
    <2>1. stale' \subseteq Sessions
      BY <1>0, <1>5 DEF TypeOK, CloserStep
    <2>2. closer' \in [Versions -> [at : {"none", "created", "closing", "ended"},
                                  holds : Sessions \cup {NoSession}]]
      BY <1>0, <1>5 DEF TypeOK, CloserStep
    <2>3. session' \in [Sessions -> {"none", "entering", "open", "dead", "closed"}]
      BY <1>0, <1>5 DEF TypeOK, CloserStep
    <2>4. UNCHANGED <<entry, current, inflight, backoff, lock, pc, on, stopping, stopq, built>>
      BY <1>5 DEF CloserStep
    <2>5. InFlight' = InFlight
      BY <2>4 DEF InFlight
    <2> QED BY <1>0, <2>1, <2>2, <2>3, <2>4, <2>5 DEF TypeOK, Counts
  <1>6. CASE Reconfigure
    <2>1. entry' \in Versions
      BY <1>0, <1>6, McpAssumption DEF TypeOK, Reconfigure, Versions
    <2>2. closer' \in [Versions -> [at : {"none", "created", "closing", "ended"},
                                  holds : Sessions \cup {NoSession}]]
      BY <1>0, <1>6, <2>1 DEF TypeOK, Reconfigure
    <2>3. stale' \subseteq Sessions /\ current' = NoSession /\ backoff' = FALSE
      BY <1>0, <1>6, Types DEF TypeOK, Reconfigure
    <2>4. UNCHANGED <<inflight, lock, pc, on, stopping, stopq, session, built>>
      BY <1>6 DEF Reconfigure, servers
    <2>5. InFlight' = InFlight
      BY <2>4 DEF InFlight
    <2> QED BY <1>0, <2>1, <2>2, <2>3, <2>4, <2>5 DEF TypeOK, Counts
  <1>7. CASE UNCHANGED vars
    BY <1>0, <1>7 DEF vars, shared, tasks, servers, TypeOK, Counts, InFlight
  <1> QED BY <1>1, <1>2, <1>3, <1>4, <1>5, <1>6, <1>7, OperationEnding DEF Next, OpStep

(* The operation that a step ends, and the others. *)
LEMMA EndingFacts ==
    ASSUME MInv, NEW o \in Ops, OpEnding(o)
    PROVE  /\ \A p \in Ops : p # o => pc'[p] = pc[p] /\ on'[p] = on[p]
           /\ \/ pc'[o] \in OutOn /\ on'[o] = current' /\ current' # NoSession /\ stale' = stale
              \/ pc'[o] = "ended" /\ on'[o] = NoSession /\ stale' = stale
              \/ pc'[o] = "draining" /\ on'[o] \in stale /\ stale' = stale \ {on'[o]}
                 /\ InFlight' = {}
           /\ Untouched(o) \/ Connected(o) \/ Closed(o)
           /\ on[o] \in Sessions \/ Untouched(o)
           /\ UNCHANGED <<entry, closer, stopping, stopq, built, raced>>
  <1> DEFINE Others == \A p \in Ops : p # o => pc'[p] = pc[p] /\ on'[p] = on[p]
  <1>1. ASSUME Goes(o, current')
        PROVE  Others /\ pc'[o] \in OutOn /\ on'[o] = current' /\ stale' = stale
    BY <1>1, Types DEF Goes, OutOn, Move
  <1>2. ASSUME Ends(o) \/ GivesUp(o)
        PROVE  Others /\ pc'[o] = "ended" /\ on'[o] = NoSession /\ stale' = stale
    BY <1>2, Types DEF Ends, GivesUp, Move
  <1>3. ASSUME Drains(o)
        PROVE  /\ Others /\ pc'[o] = "draining" /\ on'[o] \in stale
               /\ stale' = stale \ {on'[o]} /\ InFlight' = {}
    BY <1>3, Types DEF Drains, Move
  <1>4. Untouched(o) \/ Connected(o) \/ Closed(o)
    BY DEF OpEnding
  <1>5. on[o] \in Sessions \/ Untouched(o)
    BY <1>4 DEF MInv, Held, LockHeld, Busy, Connected, Closed
  <1>6. UNCHANGED <<entry, closer, stopping, stopq, built, raced>>
    BY DEF OpEnding
  <1> QED BY <1>1, <1>2, <1>3, <1>4, <1>5, <1>6 DEF OpEnding

LEMMA LockStep == MInv /\ [Next]_vars => LockHeld'
  <1> SUFFICES ASSUME MInv, [Next]_vars PROVE LockHeld'
    OBVIOUS
  <1>0. LockHeld /\ Held /\ Owned
    BY DEF MInv
  <1>a. lock # NoOp => lock \in Ops /\ on[lock] \in Sessions
    BY <1>0, Types DEF LockHeld, Held, Busy
  <1>1. ASSUME NEW o \in Ops, OpEnding(o) PROVE LockHeld'
    <2>1. lock' = IF lock = o THEN NoOp ELSE lock
      BY <1>1, EndingFacts, Types DEF Untouched, Connected, Closed
    <2>2. \A p \in Ops : pc'[p] \in Connecting <=> lock' = p
      BY <1>0, <1>1, <2>1, EndingFacts, Types DEF LockHeld, Connecting, OutOn
    <2>3. CASE Untouched(o)
      BY <1>0, <1>1, <1>a, <2>2, <2>3, EndingFacts DEF LockHeld, Untouched
    <2>4. CASE Connected(o)
      BY <1>0, <1>1, <2>2, <2>4, EndingFacts, Types DEF LockHeld, Connected
    <2>5. CASE Closed(o)
      <3>1. \A s \in Sessions : session'[s] = IF s = on[o] THEN "closed" ELSE session[s]
        BY <2>5, Types DEF Closed
      <3>2. lock = o \/ session[on[o]] # "entering"
        BY <1>0, <2>5 DEF Closed, Owned, TasksApart, OpsApart, Apart
      <3> QED BY <1>0, <1>1, <1>a, <2>1, <2>2, <2>5, <3>1, <3>2, EndingFacts DEF LockHeld, Closed
    <2> QED BY <1>1, <2>3, <2>4, <2>5, EndingFacts
  <1>2. ASSUME NEW o \in Ops, Begin(o) \/ Refuse(o) \/ ConnectionLost(o)
        PROVE  LockHeld'
    BY <1>0, <1>2, Types DEF LockHeld, Connecting, Begin, Refuse, ConnectionLost, shared, servers
  <1>3. ASSUME NEW o \in Ops, Detach(o)
        PROVE  LockHeld'
    BY <1>0, <1>3, Types DEF LockHeld, Connecting, Detach, servers
  <1>4. ASSUME NEW o \in Ops, Enter(o)
        PROVE  LockHeld'
    <2>1. PICK s \in Sessions : /\ session[s] = "none"
                                /\ session' = [session EXCEPT ![s] = "entering"]
                                /\ on' = [on EXCEPT ![o] = s]
      BY <1>4 DEF Enter
    <2>2. /\ lock = NoOp /\ lock' = o /\ current' = NoSession
          /\ pc' = [pc EXCEPT ![o] = IF @ = "ensuring" THEN "entering" ELSE "reentering"]
      BY <1>4 DEF Enter
    <2>3. \A p \in Ops : pc'[p] \in Connecting <=> lock' = p
      BY <1>0, <2>2, Types DEF LockHeld, Connecting
    <2> QED BY <1>0, <2>1, <2>2, <2>3, Types DEF LockHeld
  <1>5. ASSUME NEW o \in Ops, Dropped(o)
        PROVE  LockHeld'
    <2>1. on[o] \in Sessions /\ session[on[o]] # "entering"
      BY <1>0, <1>5 DEF Dropped, Held, Busy, Owned, TasksApart, OpsApart, Apart
    <2>2. \A p \in Ops : pc'[p] \in Connecting <=> lock' = p
      BY <1>0, <1>5, Types DEF Dropped, LockHeld, Connecting, shared
    <2> QED BY <1>0, <1>5, <1>a, <2>1, <2>2, Types DEF Dropped, LockHeld, shared
  <1>6. ASSUME NEW v \in Versions, CloserStep(v)
        PROVE  LockHeld'
    <2>1. CASE closer[v].at = "created"
      BY <1>0, <1>6, <2>1 DEF CloserStep, LockHeld
    <2>2. CASE closer[v].at = "closing"
      <3>1. closer[v].holds \in Sessions /\ session[closer[v].holds] # "entering"
        BY <1>0, <2>2 DEF Held, Owned, TasksApart, OpsApart, Apart
      <3>2. session' = [session EXCEPT ![closer[v].holds] = "closed"]
            /\ UNCHANGED <<current, lock, pc, on>>
        BY <1>6, <2>2 DEF CloserStep
      <3> QED BY <1>0, <1>a, <3>1, <3>2, Types DEF LockHeld
    <2> QED BY <1>6, <2>1, <2>2 DEF CloserStep
  <1>7. ASSUME NEW s \in Sessions, SessionDies(s)
        PROVE  LockHeld'
    BY <1>0, <1>7, <1>a, Types DEF SessionDies, LockHeld, shared, tasks
  <1>8. CASE BackoffEnds \/ Stop \/ Reconfigure
    BY <1>0, <1>8 DEF BackoffEnds, Stop, Reconfigure, LockHeld, tasks, servers
  <1>9. CASE StopCloses
    <2>1. \A s \in stopq : s \in Sessions /\ session[s] # "entering"
      BY <1>0, Types DEF Owned, Working
    <2> QED BY <1>0, <1>9, <1>a, <2>1, Types DEF StopCloses, LockHeld, shared
  <1>10. CASE UNCHANGED vars
    BY <1>0, <1>10 DEF vars, shared, tasks, servers, LockHeld
  <1> QED BY <1>1, <1>2, <1>3, <1>4, <1>5, <1>6, <1>7, <1>8, <1>9, <1>10, OperationEnding DEF Next, OpStep

LEMMA HeldStep == MInv /\ [Next]_vars => Held' /\ StopTakesAll'
  <1> SUFFICES ASSUME MInv, [Next]_vars PROVE Held' /\ StopTakesAll'
    OBVIOUS
  <1>0. LockHeld /\ Held /\ Owned /\ StopTakesAll
    BY DEF MInv
  <1>a. ASSUME NEW r, session' = [session EXCEPT ![r] = "closed"]
        PROVE  \A s \in Sessions : session[s] \in {"dead", "closed"} => session'[s] \in {"dead", "closed"}
    BY <1>a, Types
  <1>1. ASSUME NEW o \in Ops, OpEnding(o) PROVE Held' /\ StopTakesAll'
    <2>1. StopTakesAll'
      BY <1>0, <1>1, EndingFacts DEF StopTakesAll
    <2>2. \A s \in Sessions : session[s] \in {"dead", "closed"} => session'[s] \in {"dead", "closed"}
      <3>1. CASE Connected(o)
        BY <1>0, <3>1, Types DEF Connected, LockHeld
      <3> QED BY <1>1, <1>a, <3>1, EndingFacts DEF Untouched, Closed
    <2>3. current' \in Sessions \cup {NoSession}
      BY <1>1, EndingFacts, Types DEF Untouched, Connected, Closed
    <2>4. \A p \in Ops : pc'[p] \in Busy => on'[p] \in Sessions
      <3>1. pc'[o] \in Busy => on'[o] \in Sessions
        BY <1>1, <2>3, EndingFacts, Types DEF Busy, Connecting, OutOn
      <3> QED BY <1>0, <1>1, <3>1, EndingFacts DEF Held
    <2>5. \A p \in Ops : pc'[p] \in {"lost", "dropping"} =>
                p # o /\ pc[p] \in {"lost", "dropping"} /\ on'[p] = on[p] /\ on[p] \in Sessions
      BY <1>0, <1>1, EndingFacts DEF Held, OutOn, Busy
    <2> QED BY <1>0, <1>1, <2>1, <2>2, <2>4, <2>5, EndingFacts DEF Held
  <1>2. ASSUME NEW o \in Ops, Begin(o) \/ Refuse(o) \/ ConnectionLost(o) \/ Detach(o)
        PROVE  Held' /\ StopTakesAll'
    BY <1>0, <1>2, Types DEF Held, StopTakesAll, Busy, OutOn, Connecting, Begin, Refuse,
       ConnectionLost, Detach, shared, servers
  <1>3. ASSUME NEW o \in Ops, Enter(o)
        PROVE  Held' /\ StopTakesAll'
    <2>1. PICK s \in Sessions : /\ session[s] = "none"
                                /\ session' = [session EXCEPT ![s] = "entering"]
                                /\ on' = [on EXCEPT ![o] = s]
      BY <1>3 DEF Enter
    <2>2. /\ pc' = [pc EXCEPT ![o] = IF @ = "ensuring" THEN "entering" ELSE "reentering"]
          /\ UNCHANGED <<stale, closer, stopping, stopq>>
      BY <1>3 DEF Enter
    <2> QED BY <1>0, <2>1, <2>2, Types DEF Held, StopTakesAll, Busy, OutOn, Connecting
  <1>4. ASSUME NEW o \in Ops, Dropped(o)
        PROVE  Held' /\ StopTakesAll'
    BY <1>0, <1>4, Types DEF Held, StopTakesAll, Busy, OutOn, Connecting, Dropped, shared
  <1>5. ASSUME NEW v \in Versions, CloserStep(v)
        PROVE  Held' /\ StopTakesAll'
    <2>1. /\ \A s \in Sessions : session[s] \in {"dead", "closed"} => session'[s] \in {"dead", "closed"}
          /\ UNCHANGED <<pc, on, stopping, stopq>>
      BY <1>5, <1>a DEF CloserStep
    <2>2. StopTakesAll'
      BY <1>0, <1>5 DEF CloserStep, StopTakesAll
    <2>3. \A w \in Versions : closer'[w].at = "closing" => closer'[w].holds \in Sessions
      <3>1. closer \in [Versions -> [at : {"none", "created", "closing", "ended"},
                                     holds : Sessions \cup {NoSession}]]
        BY DEF MInv, TypeOK
      <3> QED BY <1>0, <1>5, <3>1, Types DEF CloserStep, Held
    <2> QED BY <1>0, <2>1, <2>2, <2>3 DEF Held, Busy, OutOn, Connecting
  <1>6. ASSUME NEW s \in Sessions, SessionDies(s)
        PROVE  Held' /\ StopTakesAll'
    BY <1>0, <1>6, Types DEF SessionDies, Held, StopTakesAll, Busy, OutOn, Connecting, shared, tasks
  <1>7. CASE BackoffEnds \/ Stop
    BY <1>0, <1>7 DEF BackoffEnds, Stop, Held, StopTakesAll, tasks, servers
  <1>8. CASE Reconfigure
    <2>1. closer' = closer \/ closer' = [closer EXCEPT ![entry'] = [at |-> "created", holds |-> NoSession]]
      BY <1>8 DEF Reconfigure
    <2>2. closer \in [Versions -> [at : {"none", "created", "closing", "ended"},
                                   holds : Sessions \cup {NoSession}]]
      BY DEF MInv, TypeOK
    <2>3. \A v \in Versions : closer'[v].at = "closing" => closer'[v] = closer[v]
      BY <2>1, <2>2
    <2> QED BY <1>0, <1>8, <2>3 DEF Reconfigure, Held, StopTakesAll, servers
  <1>9. CASE StopCloses
    BY <1>0, <1>9, Types DEF StopCloses, Held, StopTakesAll, Busy, OutOn, Connecting, shared
  <1>10. CASE UNCHANGED vars
    BY <1>0, <1>10 DEF vars, shared, tasks, servers, Held, StopTakesAll
  <1> QED BY <1>1, <1>2, <1>3, <1>4, <1>5, <1>6, <1>7, <1>8, <1>9, <1>10, OperationEnding DEF Next, OpStep

(* A session changes hands without being lost or shared. *)
LEMMA OwnedStep == MInv /\ [Next]_vars => Owned'
  <1> SUFFICES ASSUME MInv, [Next]_vars PROVE Owned'
    OBVIOUS
  <1>0. LockHeld /\ Held /\ Owned /\ StopTakesAll
    BY DEF MInv
  <1>a. closer \in [Versions -> [at : {"none", "created", "closing", "ended"},
                                 holds : Sessions \cup {NoSession}]]
    BY DEF MInv, TypeOK
  <1>1. ASSUME NEW o \in Ops, OpEnding(o) PROVE Owned'
    <2>0. /\ stale' \subseteq stale /\ stopq' = stopq /\ closer' = closer
          /\ \A s \in Sessions : LeftByTask(s)' <=> LeftByTask(s)
          /\ \A s \in stale : s \in stale' \/ LeftByOp(s)'
          /\ \A s \in Sessions : 
               LeftByOp(s) => LeftByOp(s)' \/ (s = on[o] /\ pc[o] \in {"dropping", "draining"})
      <3>1. stale' \subseteq stale /\ stopq' = stopq /\ closer' = closer
        BY <1>1, EndingFacts
      <3>2. \A s \in Sessions : LeftByTask(s)' <=> LeftByTask(s)
        BY <3>1 DEF LeftByTask
      <3>3. \A s \in stale : s \in stale' \/ (s = on'[o] /\ pc'[o] = "draining")
        BY <1>1, EndingFacts
      <3>4. \A s \in stale : s \in stale' \/ LeftByOp(s)'
        BY <3>3 DEF LeftByOp
      <3>5. \A p \in Ops : p # o => pc'[p] = pc[p] /\ on'[p] = on[p]
        BY <1>1, EndingFacts
      <3>6. \A s \in Sessions : 
               LeftByOp(s) => LeftByOp(s)' \/ (s = on[o] /\ pc[o] \in {"dropping", "draining"})
        BY <3>5 DEF LeftByOp
      <3> QED BY <3>1, <3>2, <3>4, <3>6
    <2>1. \A s \in stale : s \notin stopq
      BY <1>0 DEF StopTakesAll
    <2>a. \A p \in Ops : pc'[p] \in {"draining", "dropping"} =>
             \/ p # o /\ pc[p] \in {"draining", "dropping"} /\ on'[p] = on[p]
             \/ p = o /\ on'[o] \in stale /\ on'[o] \notin stale'
      BY <1>1, EndingFacts DEF OutOn
    <2>2. CASE Untouched(o)
      <3>4. \A s \in Sessions : Apart(s) => Apart(s)'
        BY <2>0, <2>2 DEF Untouched, Apart
      <3>5. TasksApart'
        BY <1>0, <2>0, <3>4 DEF Owned, TasksApart, Apart, Held
      <3>6. OpsApart'
        <4>1. ASSUME NEW p \in Ops, p # o, pc[p] \in {"draining", "dropping"}, on'[p] = on[p]
              PROVE  Apart(on[p])'
          <5>1. on[p] \in Sessions /\ Apart(on[p])
            BY <1>0, <4>1 DEF Held, Busy, Owned, OpsApart
          <5> QED BY <3>4, <4>1, <5>1 DEF Apart
        <4>2. ASSUME on'[o] \in stale, on'[o] \notin stale'
              PROVE  Apart(on[o])'
          BY <1>0, <2>0, <2>1, <2>2, <4>2, Types DEF Apart, Owned, Working, Untouched
        <4> QED BY <2>a, <4>1, <4>2 DEF OpsApart
      <3>7. AllOwned'
        BY <1>0, <2>0, <2>2, Types DEF Owned, AllOwned, Untouched
      <3> QED BY <1>0, <2>0, <2>2, <3>5, <3>6, <3>7, Types DEF Owned, Untouched
    <2>3. CASE Connected(o)
      <3>1. /\ on[o] \in Sessions /\ session[on[o]] = "entering" /\ current = NoSession
            /\ pc[o] \notin {"dropping", "draining"}
        BY <1>0, <1>1, <2>3, Types, EndingFacts DEF Connected, LockHeld, Untouched, Connecting
      <3>2. /\ current' = on[o]
            /\ \A s \in Sessions : session'[s] = IF s = on[o] THEN "open" ELSE session[s]
        BY <2>3, Types DEF Connected
      <3>3. on[o] \notin stale /\ on[o] \notin stopq
        BY <1>0, <3>1 DEF Owned, Working
      <3>4. \A s \in Sessions : Apart(s) => Apart(s)'
        BY <2>0, <3>1, <3>2 DEF Apart
      <3>5. TasksApart'
        BY <1>0, <2>0, <3>4 DEF Owned, TasksApart, Apart, Held
      <3>6. OpsApart'
        <4>1. ASSUME NEW p \in Ops, p # o, pc[p] \in {"draining", "dropping"}, on'[p] = on[p]
              PROVE  Apart(on[p])'
          <5>1. on[p] \in Sessions /\ Apart(on[p])
            BY <1>0, <4>1 DEF Held, Busy, Owned, OpsApart
          <5> QED BY <3>4, <4>1, <5>1 DEF Apart
        <4>2. ASSUME on'[o] \in stale, on'[o] \notin stale'
              PROVE  Apart(on[o])'
          BY <1>0, <2>0, <2>1, <3>2, <3>3, <4>2, Types DEF Apart, Owned, Working
        <4> QED BY <2>a, <4>1, <4>2 DEF OpsApart
      <3>7. AllOwned'
        BY <1>0, <2>0, <3>1, <3>2, Types DEF Owned, AllOwned, Working
      <3> QED BY <1>0, <2>0, <3>1, <3>2, <3>3, <3>5, <3>6, <3>7, Types DEF Owned, Working
    <2>4. CASE Closed(o)
      <3>1. \/ lock = o /\ session[on[o]] = "entering" /\ current = NoSession
            \/ pc[o] \in {"dropping", "draining"} /\ Apart(on[o])
        BY <1>0, <2>4, Types DEF Closed, LockHeld, Owned, OpsApart
      <3>2. /\ on[o] \in Sessions /\ current' = current
            /\ \A s \in Sessions : session'[s] = IF s = on[o] THEN "closed" ELSE session[s]
        BY <1>0, <1>1, <2>4, Types, EndingFacts DEF Closed, Untouched
      <3>3. on[o] # current /\ on[o] \notin stale /\ on[o] \notin stopq
        BY <1>0, <3>1, <3>2, Types DEF Owned, Working, Apart
      <3>4. \A s \in Sessions : Apart(s) => Apart(s)'
        BY <2>0, <3>1, <3>2 DEF Apart
      <3>5. TasksApart'
        BY <1>0, <2>0, <3>4 DEF Owned, TasksApart, Apart, Held
      <3>6. OpsApart'
        <4>1. ASSUME NEW p \in Ops, p # o, pc[p] \in {"draining", "dropping"}, on'[p] = on[p]
              PROVE  Apart(on[p])'
          <5>1. on[p] \in Sessions /\ Apart(on[p])
            BY <1>0, <4>1 DEF Held, Busy, Owned, OpsApart
          <5> QED BY <3>4, <4>1, <5>1 DEF Apart
        <4>2. ASSUME on'[o] \in stale, on'[o] \notin stale'
              PROVE  Apart(on[o])'
          BY <1>0, <2>0, <2>1, <3>2, <3>3, <4>2, Types DEF Apart, Owned, Working
        <4> QED BY <2>a, <4>1, <4>2 DEF OpsApart
      <3>7. AllOwned'
        BY <1>0, <2>0, <3>2, Types DEF Owned, AllOwned, Working
      <3> QED BY <1>0, <2>0, <3>2, <3>3, <3>5, <3>6, <3>7, Types DEF Owned, Working
    <2> QED BY <1>1, <2>2, <2>3, <2>4, EndingFacts
  <1>2. ASSUME NEW o \in Ops, Begin(o) \/ Refuse(o) \/ ConnectionLost(o)
        PROVE  Owned'
    <2>1. /\ UNCHANGED <<current, stale, stopq, session, closer, on>>
          /\ \A p \in Ops : pc'[p] \in {"draining", "dropping"} <=> pc[p] \in {"draining", "dropping"}
      BY <1>2, Types DEF Begin, Refuse, ConnectionLost, shared, servers
    <2> QED BY <1>0, <2>1 DEF Owned, TasksApart, OpsApart, AllOwned, Apart, LeftByTask, LeftByOp
  <1>3. ASSUME NEW o \in Ops, Detach(o)
        PROVE  Owned'
    <2>1. UNCHANGED <<stale, stopq, session, closer, on>>
      BY <1>3 DEF Detach, servers
    <2>2. CASE current = on[o] /\ current' = NoSession /\ pc' = [pc EXCEPT ![o] = "dropping"]
      <3>1. on[o] \in Sessions /\ pc[o] = "lost"
        BY <1>0, <1>3 DEF Detach, Held, Busy
      <3>2. \A p \in Ops : pc'[p] = IF p = o THEN "dropping" ELSE pc[p]
        BY <2>2, Types
      <3>3. TasksApart' /\ OpsApart'
        BY <1>0, <2>1, <2>2, <3>1, <3>2, Types
           DEF Owned, TasksApart, OpsApart, Apart, Held, Busy, Working
      <3>4. AllOwned'
        BY <1>0, <2>1, <2>2, <3>1, <3>2 DEF Owned, AllOwned, LeftByTask, LeftByOp
      <3> QED BY <1>0, <2>1, <2>2, <3>3, <3>4, Types DEF Owned
    <2>3. CASE pc' = [pc EXCEPT ![o] = "forcing"] /\ UNCHANGED current
      <3>1. \A p \in Ops : pc'[p] \in {"draining", "dropping"} <=> pc[p] \in {"draining", "dropping"}
        BY <1>3, <2>3, Types DEF Detach
      <3> QED BY <1>0, <2>1, <2>3, <3>1
              DEF Owned, TasksApart, OpsApart, AllOwned, Apart, LeftByTask, LeftByOp
    <2> QED BY <1>3, <2>2, <2>3 DEF Detach
  <1>4. ASSUME NEW o \in Ops, Enter(o)
        PROVE  Owned'
    <2>1. PICK s \in Sessions : /\ session[s] = "none"
                                /\ session' = [session EXCEPT ![s] = "entering"]
                                /\ on' = [on EXCEPT ![o] = s]
      BY <1>4 DEF Enter
    <2>2. /\ UNCHANGED <<current, stale, stopq, closer>>
          /\ \A p \in Ops : pc'[p] \in {"draining", "dropping"} <=>
                                p # o /\ pc[p] \in {"draining", "dropping"}
          /\ pc[o] \notin {"draining", "dropping"}
      BY <1>4, Types DEF Enter
    <2>3. /\ \A r \in Sessions : session'[r] = IF r = s THEN "entering" ELSE session[r]
          /\ \A p \in Ops : p # o => on'[p] = on[p]
      BY <2>1, Types
    <2>4. \A r \in Sessions : Apart(r) => Apart(r)'
      BY <2>1, <2>2, <2>3 DEF Apart
    <2>5. TasksApart' /\ OpsApart'
      BY <1>0, <2>2, <2>3, <2>4 DEF Owned, TasksApart, OpsApart, Apart, Held, Busy
    <2>6. AllOwned'
      BY <1>0, <2>2, <2>3 DEF Owned, AllOwned, Working, LeftByTask, LeftByOp
    <2> QED BY <1>0, <2>1, <2>2, <2>3, <2>5, <2>6, Types DEF Owned, Working
  <1>5. ASSUME NEW o \in Ops, Dropped(o)
        PROVE  Owned'
    <2>1. on[o] \in Sessions /\ Apart(on[o])
      BY <1>0, <1>5 DEF Dropped, Held, Busy, Owned, OpsApart
    <2>2. /\ UNCHANGED <<current, stale, stopq, closer, on>>
          /\ \A p \in Ops : pc'[p] = IF p = o THEN "forcing" ELSE pc[p]
          /\ \A r \in Sessions : session'[r] = IF r = on[o] THEN "closed" ELSE session[r]
      BY <1>5, Types DEF Dropped, shared
    <2>3. TasksApart' /\ OpsApart'
      BY <1>0, <2>2 DEF Owned, TasksApart, OpsApart, Apart, Held, Busy
    <2>4. AllOwned'
      BY <1>0, <2>2 DEF Owned, AllOwned, Working, LeftByTask, LeftByOp
    <2> QED BY <1>0, <2>1, <2>2, <2>3, <2>4, Types DEF Owned, Working, Apart
  <1>6. ASSUME NEW v \in Versions, CloserStep(v)
        PROVE  Owned'
    <2>1. /\ \/ stale' = stale /\ closer' = [closer EXCEPT ![v] = [at |-> "ended", holds |-> NoSession]]
             \/ \E s \in stale : /\ stale' = stale \ {s}
                                 /\ closer' = [closer EXCEPT ![v] = [at |-> "closing", holds |-> s]]
          /\ UNCHANGED <<current, stopq, pc, on>>
      BY <1>6 DEF CloserStep
    <2>2. \A w \in Versions : w # v => closer'[w] = closer[w]
      BY <2>1, <1>a
    <2>3. \/ stale' = stale /\ closer'[v].at # "closing"
          \/ closer'[v].at = "closing" /\ closer'[v].holds \in stale /\ stale' = stale \ {closer'[v].holds}
      BY <2>1, <1>a
    <2>4. /\ closer[v].at = "closing" => closer[v].holds \in Sessions /\ Apart(closer[v].holds)
          /\ \A s \in Sessions : session'[s] =
                IF closer[v].at = "closing" /\ s = closer[v].holds THEN "closed" ELSE session[s]
      BY <1>0, <1>6, Types DEF CloserStep, Held, Owned, TasksApart
    <2>5. \A s \in stale : s \notin stopq
      BY <1>0 DEF StopTakesAll
    <2>6. \A s \in Sessions : Apart(s) => Apart(s)'
      BY <2>1, <2>3, <2>4 DEF Apart
    <2>7. OpsApart'
      BY <1>0, <2>1, <2>6 DEF Owned, OpsApart, Apart, Held, Busy
    <2>8. TasksApart'
      <3>1. ASSUME NEW w \in Versions, w # v, closer'[w].at = "closing"
            PROVE  Apart(closer[w].holds)'
        <4>1. closer[w].holds \in Sessions /\ Apart(closer[w].holds) /\ closer'[w] = closer[w]
          BY <1>0, <2>2, <3>1 DEF Owned, TasksApart, Held
        <4> QED BY <2>6, <4>1 DEF Apart
      <3>2. ASSUME closer'[v].at = "closing"
            PROVE  Apart(closer[v].holds)'
        BY <1>0, <2>1, <2>3, <2>4, <2>5, <3>2, Types DEF Apart, Owned, Working
      <3> QED BY <3>1, <3>2 DEF TasksApart
    <2>9. AllOwned'
      BY <1>0, <2>1, <2>2, <2>3, <2>4 DEF Owned, AllOwned, LeftByTask, LeftByOp, Working
    <2> QED BY <1>0, <2>1, <2>3, <2>4, <2>7, <2>8, <2>9, Types DEF Owned, Working, Apart
  <1>7. ASSUME NEW s \in Sessions, SessionDies(s)
        PROVE  Owned'
    <2>1. /\ UNCHANGED <<current, stale, stopq, closer, pc, on>>
          /\ session[s] = "open"
          /\ \A r \in Sessions : session'[r] = IF r = s THEN "dead" ELSE session[r]
      BY <1>7, Types DEF SessionDies, shared, tasks
    <2>2. TasksApart' /\ OpsApart'
      BY <1>0, <2>1 DEF Owned, TasksApart, OpsApart, Apart, Held, Busy
    <2>3. AllOwned'
      BY <1>0, <2>1 DEF Owned, AllOwned, Working, LeftByTask, LeftByOp
    <2> QED BY <1>0, <2>1, <2>2, <2>3, Types DEF Owned, Working
  <1>8. CASE Reconfigure
    <2>1. /\ UNCHANGED <<stopq, session, pc, on>> /\ current' = NoSession
          /\ stale' = IF current = NoSession THEN stale ELSE stale \cup {current}
          /\ stopping = "no"
      BY <1>8 DEF Reconfigure, servers
    <2>2. closer' = closer \/ closer' = [closer EXCEPT ![entry'] = [at |-> "created", holds |-> NoSession]]
      BY <1>8 DEF Reconfigure
    <2>3. \A v \in Versions : closer'[v].at = "closing" => closer'[v] = closer[v]
      BY <2>2, <1>a
    <2>4. \A v \in Versions : closer[v].at = "closing" => closer'[v] = closer[v] \/ v = entry'
      BY <2>2, <1>a
    <2>5. TasksApart' /\ OpsApart'
      BY <1>0, <2>1, <2>3, Types DEF Owned, TasksApart, OpsApart, Apart, Held, Busy
    <2>6. entry' \in Versions => closer[entry'].at = "none"
      BY <1>8 DEF MInv, TypeOK, TasksByVersion, Versions, Reconfigure
    <2>7. AllOwned'
      BY <1>0, <2>1, <2>4, <2>6, Types DEF Owned, AllOwned, Working, LeftByTask, LeftByOp
    <2> QED BY <1>0, <2>1, <2>5, <2>7, Types DEF Owned, Working
  <1>9. CASE Stop
    <2>1. /\ UNCHANGED <<session, pc, on, closer>> /\ current' = NoSession
          /\ stopping = "no" /\ stale' = {} /\ stopq' = stale \cup ({current} \ {NoSession})
      BY <1>9 DEF Stop, servers
    <2>2. TasksApart' /\ OpsApart'
      BY <1>0, <2>1, Types DEF Owned, TasksApart, OpsApart, Apart, Held, Busy
    <2>3. AllOwned'
      BY <1>0, <2>1, Types DEF Owned, AllOwned, Working, LeftByTask, LeftByOp, StopTakesAll
    <2> QED BY <1>0, <2>1, <2>2, <2>3, Types DEF Owned, Working
  <1>10. CASE StopCloses
    <2>1. UNCHANGED <<current, stale, closer, pc, on>>
      BY <1>10 DEF StopCloses, shared
    <2>2. CASE UNCHANGED <<session, stopq>>
      BY <1>0, <2>1, <2>2 DEF Owned, TasksApart, OpsApart, AllOwned, Apart, LeftByTask, LeftByOp
    <2>3. ASSUME NEW s \in stopq, session' = [session EXCEPT ![s] = "closed"], stopq' = stopq \ {s}
          PROVE  Owned'
      <3>1. \A r \in Sessions : session'[r] = IF r = s THEN "closed" ELSE session[r]
        BY <2>3, Types
      <3>2. s \in Sessions /\ s # current /\ stale = {}
        BY <1>0, <1>10, <2>3, Types DEF Owned, StopTakesAll, StopCloses
      <3>3. TasksApart' /\ OpsApart'
        BY <1>0, <2>1, <2>3, <3>1 DEF Owned, TasksApart, OpsApart, Apart, Held, Busy
      <3>4. AllOwned'
        BY <1>0, <2>1, <2>3, <3>1, <3>2 DEF Owned, AllOwned, Working, LeftByTask, LeftByOp
      <3> QED BY <1>0, <2>1, <2>3, <3>1, <3>2, <3>3, <3>4, Types DEF Owned, Working
    <2> QED BY <1>10, <2>2, <2>3 DEF StopCloses
  <1>11. CASE BackoffEnds \/ UNCHANGED vars
    <2>1. UNCHANGED <<current, stale, stopq, session, closer, pc, on>>
      BY <1>11 DEF BackoffEnds, vars, shared, tasks, servers
    <2> QED BY <1>0, <2>1 DEF Owned, TasksApart, OpsApart, AllOwned, Apart, LeftByTask, LeftByOp
  <1> QED BY <1>1, <1>2, <1>3, <1>4, <1>5, <1>6, <1>7, <1>8, <1>9, <1>10, <1>11, OperationEnding
          DEF Next, OpStep

(* What a request is out on is nobody's to leave. *)
LEMMA UnderCallStep == MInv /\ [Next]_vars => NotUnderCall'
  <1> SUFFICES ASSUME MInv, [Next]_vars PROVE NotUnderCall'
    OBVIOUS
  <1>0. LockHeld /\ Held /\ Owned /\ NotUnderCall
    BY DEF MInv
  <1>a. closer \in [Versions -> [at : {"none", "created", "closing", "ended"},
                                 holds : Sessions \cup {NoSession}]]
    BY DEF MInv, TypeOK
  <1>1. ASSUME NEW o \in Ops, OpEnding(o) PROVE NotUnderCall'
    <2>0. \A s \in Sessions : LeftByTask(s)' <=> LeftByTask(s)
      BY <1>1, EndingFacts DEF LeftByTask
    <2>1. CASE pc'[o] = "draining"
      <3>1. InFlight' = {}
        BY <1>1, <2>1, EndingFacts DEF OutOn
      <3> QED BY <3>1 DEF NotUnderCall, InFlight, Counted, OutOn
    <2>2. CASE pc'[o] # "draining"
      <3>1. \A s \in Sessions : LeftByOp(s)' => LeftByOp(s)
        <4>1. pc'[o] \notin {"draining", "dropping"}
          BY <1>1, <2>2, EndingFacts DEF OutOn
        <4> QED BY <1>1, <4>1, EndingFacts DEF LeftByOp
      <3>2. \A s \in Sessions : session'[s] = "open" =>
               session[s] = "open" \/ session[s] = "entering"
        BY <1>0, <1>1, Types, EndingFacts DEF Untouched, Connected, Closed, LockHeld
      <3>3. \A s \in Sessions : LeftByTask(s) \/ LeftByOp(s) =>
               Apart(s) /\ s # current
        BY <1>0 DEF LeftByTask, LeftByOp, Owned, TasksApart, OpsApart, Apart
      <3>4. ASSUME NEW p \in Ops, p # o, pc'[p] \in OutOn, session'[on'[p]] = "open"
            PROVE  on'[p] \in Sessions /\ ~ LeftByTask(on'[p]) /\ ~ LeftByOp(on'[p])
        <4>1. on'[p] = on[p] /\ pc[p] \in OutOn /\ on[p] \in Sessions
          BY <1>0, <1>1, <3>4, EndingFacts DEF Held, Busy
        <4> QED BY <1>0, <3>2, <3>3, <3>4, <4>1 DEF NotUnderCall, Apart
      <3>5. ASSUME pc'[o] \in OutOn
            PROVE  on'[o] \in Sessions /\ ~ LeftByTask(on'[o]) /\ ~ LeftByOp(on'[o])
        <4>1. on'[o] = current' /\ current' \in Sessions /\ (current' = current \/ session[current'] = "entering")
          BY <1>0, <1>1, <3>5, Types, EndingFacts DEF OutOn, Untouched, Connected, Closed, LockHeld
        <4> QED BY <3>3, <4>1 DEF Apart
      <3> QED BY <2>0, <3>1, <3>4, <3>5 DEF NotUnderCall
    <2> QED BY <2>1, <2>2
  <1>2. ASSUME NEW o \in Ops, Begin(o) \/ Refuse(o) \/ ConnectionLost(o)
        PROVE  NotUnderCall'
    <2>1. /\ UNCHANGED <<session, closer, on>>
          /\ \A p \in Ops : /\ pc'[p] \in {"draining", "dropping"} <=> pc[p] \in {"draining", "dropping"}
                            /\ pc'[p] \in OutOn => pc[p] \in OutOn
      <3>1. UNCHANGED <<session, closer, on>>
        BY <1>2 DEF Begin, Refuse, ConnectionLost, shared, servers
      <3>2. \E place \in {"ensuring", "ended", "lost"} : pc' = [pc EXCEPT ![o] = place]
        BY <1>2 DEF Begin, Refuse, ConnectionLost
      <3>3. pc[o] \notin {"draining", "dropping"}
        BY <1>2 DEF Begin, Refuse, ConnectionLost
      <3> QED BY <3>1, <3>2, <3>3, Types DEF OutOn
    <2>2. \A s \in Sessions : (LeftByTask(s) \/ LeftByOp(s))' => LeftByTask(s) \/ LeftByOp(s)
      BY <2>1 DEF LeftByTask, LeftByOp
    <2> QED BY <1>0, <2>1, <2>2 DEF NotUnderCall, Held, Busy
  <1>3. ASSUME NEW o \in Ops, Detach(o)
        PROVE  NotUnderCall'
    <2>1. /\ UNCHANGED <<session, closer, on>>
          /\ \A p \in Ops : /\ pc'[p] \in {"draining", "dropping"} =>
                                pc[p] \in {"draining", "dropping"} \/ p = o
                            /\ pc'[p] \in OutOn => pc[p] \in OutOn
          /\ session[on[o]] \in {"dead", "closed"}
      BY <1>0, <1>3, Types DEF Detach, servers, OutOn, Held
    <2>2. \A s \in Sessions : (LeftByTask(s) \/ LeftByOp(s))' =>
             LeftByTask(s) \/ LeftByOp(s) \/ s = on[o]
      BY <2>1 DEF LeftByTask, LeftByOp
    <2> QED BY <1>0, <2>1, <2>2 DEF NotUnderCall, Held, Busy
  <1>4. ASSUME NEW o \in Ops, Enter(o)
        PROVE  NotUnderCall'
    <2>1. PICK s \in Sessions : /\ session[s] = "none"
                                /\ session' = [session EXCEPT ![s] = "entering"]
                                /\ on' = [on EXCEPT ![o] = s]
      BY <1>4 DEF Enter
    <2>2. /\ UNCHANGED closer
          /\ \A p \in Ops : pc'[p] \in {"draining", "dropping"} \cup OutOn =>
                                p # o /\ pc'[p] = pc[p]
      BY <1>4, Types DEF Enter, OutOn
    <2>3. /\ \A r \in Sessions : session'[r] = IF r = s THEN "entering" ELSE session[r]
          /\ \A p \in Ops : p # o => on'[p] = on[p]
      BY <2>1, Types
    <2> QED BY <1>0, <2>2, <2>3 DEF NotUnderCall, LeftByTask, LeftByOp, Held, Busy
  <1>5. ASSUME NEW o \in Ops, Dropped(o)
        PROVE  NotUnderCall'
    <2>1. /\ UNCHANGED <<closer, on>>
          /\ \A p \in Ops : pc'[p] = IF p = o THEN "forcing" ELSE pc[p]
          /\ \A r \in Sessions : session'[r] = IF r = on[o] THEN "closed" ELSE session[r]
      BY <1>5, Types DEF Dropped, shared
    <2> QED BY <1>0, <2>1 DEF NotUnderCall, LeftByTask, LeftByOp, Held, Busy, OutOn
  <1>6. ASSUME NEW v \in Versions, CloserStep(v)
        PROVE  NotUnderCall'
    <2>1. /\ UNCHANGED <<pc, on>>
          /\ \A s \in Sessions : session'[s] = "open" => session[s] = "open"
      BY <1>6, Types DEF CloserStep
    <2>2. CASE inflight = 0
      <3>1. \A o \in Ops : pc'[o] \notin OutOn
        BY <2>1, <2>2, InFlightFinite DEF MInv, InFlight, Counted, OutOn
      <3> QED BY <3>1 DEF NotUnderCall
    <2>3. CASE closer' = [closer EXCEPT ![v] = [at |-> "ended", holds |-> NoSession]]
      <3>1. \A w \in Versions : closer'[w].at = "closing" => closer'[w] = closer[w]
        BY <1>a, <2>3
      <3> QED BY <1>0, <2>1, <3>1 DEF NotUnderCall, LeftByTask, LeftByOp, Held, Busy
    <2> QED BY <1>6, <2>2, <2>3 DEF CloserStep
  <1>7. ASSUME NEW s \in Sessions, SessionDies(s)
        PROVE  NotUnderCall'
    <2>1. /\ UNCHANGED <<closer, pc, on>>
          /\ \A r \in Sessions : session'[r] = IF r = s THEN "dead" ELSE session[r]
      BY <1>7, Types DEF SessionDies, shared, tasks
    <2> QED BY <1>0, <2>1 DEF NotUnderCall, LeftByTask, LeftByOp, Held, Busy
  <1>8. CASE Reconfigure
    <2>1. UNCHANGED <<session, pc, on>>
      BY <1>8 DEF Reconfigure, servers
    <2>2. \A v \in Versions : closer'[v].at = "closing" => closer'[v] = closer[v]
      BY <1>8, <1>a DEF Reconfigure
    <2> QED BY <1>0, <2>1, <2>2 DEF NotUnderCall, LeftByTask, LeftByOp
  <1>9. CASE StopCloses
    <2>1. /\ UNCHANGED <<closer, pc, on>>
          /\ \A r \in Sessions : session'[r] = "open" => session[r] = "open"
      BY <1>9, Types DEF StopCloses, shared
    <2> QED BY <1>0, <2>1 DEF NotUnderCall, LeftByTask, LeftByOp, Held, Busy
  <1>10. CASE Stop \/ BackoffEnds \/ UNCHANGED vars
    <2>1. UNCHANGED <<session, closer, pc, on>>
      BY <1>10 DEF Stop, BackoffEnds, vars, shared, tasks, servers
    <2> QED BY <1>0, <2>1 DEF NotUnderCall, LeftByTask, LeftByOp
  <1> QED BY <1>1, <1>2, <1>3, <1>4, <1>5, <1>6, <1>7, <1>8, <1>9, <1>10, OperationEnding
          DEF Next, OpStep

(* A session in use or being entered was built from the entry in force, or *)
(* was overtaken by a change.                                              *)
LEMMA SettingsStep ==
    MInv /\ [Next]_vars => SettingsFollow' /\ BuiltFromEntry' /\ TasksByVersion'
  <1> SUFFICES ASSUME MInv, [Next]_vars
               PROVE  SettingsFollow' /\ BuiltFromEntry' /\ TasksByVersion'
    OBVIOUS
  <1>0. LockHeld /\ Held /\ Owned /\ SettingsFollow /\ BuiltFromEntry /\ TasksByVersion
    BY DEF MInv
  <1>a. closer \in [Versions -> [at : {"none", "created", "closing", "ended"},
                                 holds : Sessions \cup {NoSession}]]
        /\ entry \in Nat /\ built \in [Sessions -> Versions]
    BY McpAssumption DEF MInv, TypeOK, Versions
  <1>1. ASSUME NEW o \in Ops, OpEnding(o)
        PROVE  SettingsFollow' /\ BuiltFromEntry' /\ TasksByVersion'
    <2>1. UNCHANGED <<entry, closer, built, raced>>
      BY <1>1, EndingFacts
    <2>2. current' = current \/ (lock = o /\ current' = on[o])
      BY <1>1, EndingFacts DEF Untouched, Connected, Closed
    <2>3. lock' = NoOp \/ (lock' = lock /\ lock # o)
      BY <1>1, EndingFacts DEF Untouched, Connected, Closed
    <2>4. \A p \in Ops : p # o => on'[p] = on[p]
      BY <1>1, EndingFacts
    <2> QED BY <1>0, <2>1, <2>2, <2>3, <2>4, Types
            DEF SettingsFollow, BuiltFromEntry, TasksByVersion
  <1>2. ASSUME NEW o \in Ops,
               Begin(o) \/ Refuse(o) \/ ConnectionLost(o) \/ Detach(o) \/ Dropped(o)
        PROVE  SettingsFollow' /\ BuiltFromEntry' /\ TasksByVersion'
    <2>1. /\ UNCHANGED <<entry, lock, on, built, raced, closer>>
          /\ current' = current \/ current' = NoSession
      BY <1>2 DEF Begin, Refuse, ConnectionLost, Detach, Dropped, shared, servers, observed
    <2> QED BY <1>0, <2>1 DEF SettingsFollow, BuiltFromEntry, TasksByVersion
  <1>3. ASSUME NEW o \in Ops, Enter(o)
        PROVE  SettingsFollow' /\ BuiltFromEntry' /\ TasksByVersion'
    <2>1. PICK s \in Sessions : /\ built' = [built EXCEPT ![s] = entry]
                                /\ on' = [on EXCEPT ![o] = s]
      BY <1>3 DEF Enter
    <2>2. UNCHANGED <<entry, current, closer, raced>> /\ current = NoSession /\ lock' = o
      BY <1>3 DEF Enter, observed
    <2> QED BY <1>0, <1>a, <2>1, <2>2, Types DEF SettingsFollow, BuiltFromEntry, TasksByVersion
  <1>4. ASSUME NEW v \in Versions, CloserStep(v)
        PROVE  SettingsFollow' /\ BuiltFromEntry' /\ TasksByVersion'
    <2>1. UNCHANGED <<entry, current, lock, on, built, raced>>
      BY <1>4 DEF CloserStep, observed
    <2>2. \A w \in Versions : closer'[w].at # "none" => closer[w].at # "none"
      BY <1>4, <1>a DEF CloserStep
    <2> QED BY <1>0, <2>1, <2>2 DEF SettingsFollow, BuiltFromEntry, TasksByVersion
  <1>5. CASE Reconfigure
    <2>1. /\ entry' = entry + 1 /\ current' = NoSession /\ UNCHANGED <<lock, on, built>>
          /\ lock # NoOp => on[lock] \in raced'
      BY <1>5 DEF Reconfigure, servers
    <2>2. \A v \in Versions : v # entry' => closer'[v] = closer[v]
      BY <1>5, <1>a DEF Reconfigure
    <2>3. TasksByVersion'
      BY <1>0, <1>a, <2>1, <2>2 DEF TasksByVersion, Versions
    <2> QED BY <2>1, <2>3 DEF SettingsFollow, BuiltFromEntry
  <1>6. CASE \/ \E s \in Sessions : SessionDies(s)
             \/ Stop \/ StopCloses \/ BackoffEnds \/ UNCHANGED vars
    <2>1. /\ UNCHANGED <<entry, lock, on, built, raced, closer>>
          /\ current' = current \/ current' = NoSession
      BY <1>6 DEF SessionDies, Stop, StopCloses, BackoffEnds, vars, shared, tasks, servers, observed
    <2> QED BY <1>0, <2>1 DEF SettingsFollow, BuiltFromEntry, TasksByVersion
  <1> QED BY <1>1, <1>2, <1>3, <1>4, <1>5, <1>6, OperationEnding DEF Next, OpStep

(* Whoever stops looking after _stale leaves it to somebody else. *)
LEMMA SupersededStep == MInv /\ [Next]_vars => SupersededHasCloser'
  <1> SUFFICES ASSUME MInv, [Next]_vars PROVE SupersededHasCloser'
    OBVIOUS
  <1>0. SupersededHasCloser /\ Counts
    BY DEF MInv
  <1>a. closer \in [Versions -> [at : {"none", "created", "closing", "ended"},
                                 holds : Sessions \cup {NoSession}]]
    BY DEF MInv, TypeOK
  <1>1. ASSUME NEW o \in Ops, OpEnding(o)
        PROVE  SupersededHasCloser'
    <2>1. \A p \in Ops : p # o => pc'[p] = pc[p]
      BY <1>1, EndingFacts
    <2>2. UNCHANGED closer /\ (cut => cut')
      BY <1>1 DEF OpEnding
    <2>3. CASE Goes(o, current')
      BY <2>3, Types DEF Goes, Move, OutOn, SupersededHasCloser, Counted
    <2>4. CASE Drains(o)
      BY <2>4, Types DEF Drains, Move, SupersededHasCloser
    <2>5. CASE Ends(o)
      <3>1. InFlight' # {} \/ stale' = {}
        BY <2>5 DEF Ends
      <3> QED BY <3>1 DEF SupersededHasCloser, InFlight
    <2>6. CASE GivesUp(o) /\ ~ Ends(o)
      <3>1. stale' = stale /\ pc[o] \notin Counted /\ (pc[o] = "draining" => cut')
        BY <1>1, <2>6 DEF OpEnding, GivesUp
      <3> QED BY <1>0, <2>1, <2>2, <3>1 DEF SupersededHasCloser
    <2> QED BY <1>1, <2>3, <2>4, <2>5, <2>6 DEF OpEnding
  <1>2. ASSUME NEW o \in Ops,
               \/ Begin(o) \/ Refuse(o) \/ ConnectionLost(o) \/ Detach(o)
               \/ Dropped(o) \/ Enter(o)
        PROVE  SupersededHasCloser'
    <2>1. UNCHANGED <<stale, closer, cut>>
      BY <1>2 DEF Begin, Refuse, ConnectionLost, Detach, Dropped, Enter, shared, observed
    <2>2. \A p \in Ops : pc[p] \in Counted \cup {"draining"} => pc'[p] \in Counted \cup {"draining"}
      BY <1>2, Types DEF Begin, Refuse, ConnectionLost, Detach, Dropped, Enter, Counted
    <2> QED BY <1>0, <2>1, <2>2 DEF SupersededHasCloser
  <1>3. ASSUME NEW v \in Versions, CloserStep(v)
        PROVE  SupersededHasCloser'
    <2>1. UNCHANGED <<pc, inflight>>
      BY <1>3 DEF CloserStep
    <2>2. CASE closer' = [closer EXCEPT ![v] = [at |-> "ended", holds |-> NoSession]]
               /\ (inflight > 0 \/ stale = {}) /\ UNCHANGED stale
      <3>1. InFlight # {} \/ stale' = {}
        BY <1>0, <2>2, InFlightFinite
      <3> QED BY <2>1, <3>1 DEF SupersededHasCloser, InFlight
    <2>3. CASE \E s \in stale : closer' = [closer EXCEPT ![v] = [at |-> "closing", holds |-> s]]
      <3>1. closer'[v].at = "closing"
        BY <1>a, <2>3
      <3> QED BY <3>1 DEF SupersededHasCloser
    <2> QED BY <1>3, <2>2, <2>3 DEF CloserStep
  <1>4. CASE Reconfigure
    <2>1. UNCHANGED <<pc, inflight>> /\ entry' \in Versions
      BY <1>4, McpAssumption DEF Reconfigure, MInv, TypeOK, Versions
    <2>2. CASE stale' # {} /\ inflight = 0
      <3>1. closer'[entry'].at = "created"
        BY <1>4, <1>a, <2>1, <2>2 DEF Reconfigure
      <3> QED BY <2>1, <3>1 DEF SupersededHasCloser
    <2>3. CASE inflight # 0
      BY <1>0, <2>1, <2>3, InFlightFinite DEF SupersededHasCloser, InFlight
    <2> QED BY <2>2, <2>3 DEF SupersededHasCloser
  <1>5. CASE \/ \E s \in Sessions : SessionDies(s)
             \/ Stop \/ StopCloses \/ BackoffEnds \/ UNCHANGED vars
    <2>1. UNCHANGED <<pc, closer, cut>> /\ (stale' = stale \/ stale' = {})
      BY <1>5 DEF SessionDies, Stop, StopCloses, BackoffEnds, vars, shared, tasks, observed
    <2> QED BY <1>0, <2>1 DEF SupersededHasCloser
  <1> QED BY <1>1, <1>2, <1>3, <1>4, <1>5, OperationEnding DEF Next, OpStep

-----------------------------------------------------------------------------
(* At startup there is no session, or the one start() has entered. *)
LEMMA InitMInv == Init => MInv
  <1> SUFFICES ASSUME Init PROVE MInv
    OBVIOUS
  <1> USE McpAssumption
  <1>1. TypeOK
    <2>1. 0 \in Versions /\ "idle" \in Places
      BY DEF Versions, Places
    <2>2. closer \in [Versions -> [at : {"none", "created", "closing", "ended"},
                                   holds : Sessions \cup {NoSession}]]
      BY DEF Init, NoTask
    <2>3. session \in [Sessions -> {"none", "entering", "open", "dead", "closed"}]
      BY DEF Init
    <2> QED BY <2>1, <2>2, <2>3 DEF Init, TypeOK
  <1>2. Counts
    <2>1. InFlight = {} BY DEF Init, InFlight, Counted
    <2> QED BY <2>1, FS_EmptySet DEF Init, Counts
  <1>3. LockHeld /\ Held /\ StopTakesAll /\ TasksByVersion
    BY DEF Init, LockHeld, Held, StopTakesAll, TasksByVersion, Connecting, Busy, OutOn, NoTask
  <1>4. Owned
    BY DEF Init, Owned, TasksApart, OpsApart, AllOwned, NoTask, Working, Sessions, NoSession
  <1>5. NotUnderCall /\ SettingsFollow /\ BuiltFromEntry /\ SupersededHasCloser
    BY DEF Init, NotUnderCall, OutOn, SettingsFollow, BuiltFromEntry, SupersededHasCloser,
           Sessions, NoSession
  <1> QED BY <1>1, <1>2, <1>3, <1>4, <1>5 DEF MInv

LEMMA Invariance == Spec => []MInv
  <1>1. MInv /\ [Next]_vars => MInv'
    BY TypeStep, LockStep, HeldStep, OwnedStep, UnderCallStep, SettingsStep, SupersededStep DEF MInv
  <1> QED BY <1>1, InitMInv, PTL DEF Spec

(* "Never in the middle of a call": reconfigure, _close_stale and          *)
(* _reconnect leave no working session that a request is out on, however   *)
(* many operations, changes and losses overlap.                            *)
THEOREM ClosedBetweenCalls == Spec => []NeverUnderCall
  <1>1. MInv => NeverUnderCall
    BY DEF MInv, NotUnderCall, NeverUnderCall, Leaving, LeftByTask, LeftByOp, OutOn
  <1> QED BY <1>1, Invariance, PTL

(* Every session that was entered has exactly one who will leave it:       *)
(* _toolset, _stale, stop() or the task that is leaving it.                *)
THEOREM NoSessionLost == Spec => []SessionsOwned
  <1>1. MInv => SessionsOwned
    <2> SUFFICES ASSUME MInv PROVE SessionsOwned
      OBVIOUS
    <2>0. Held /\ Owned BY DEF MInv
    <2>1. \A s : s \in Leaving <=> LeftByTask(s) \/ LeftByOp(s)
      BY DEF Leaving, LeftByTask, LeftByOp
    <2>2. \A s : LeftByTask(s) \/ LeftByOp(s) => Apart(s)
      BY <2>0 DEF LeftByTask, LeftByOp, Owned, TasksApart, OpsApart
    <2>3. ({current} \cup stale \cup stopq) \cap Leaving = {}
      BY <2>1, <2>2 DEF Apart
    <2> QED BY <2>0, <2>1, <2>3 DEF Owned, AllOwned, Working, SessionsOwned
  <1> QED BY <1>1, Invariance, PTL

(* The session operations use was built from the settings in force, unless *)
(* reconfigure overtook its connect (_ensure, reconfigure).                *)
THEOREM SettingsInForce == Spec => []SettingsFollow
  <1>1. MInv => SettingsFollow BY DEF MInv
  <1> QED BY <1>1, Invariance, PTL

(* A superseded session is never left to nobody, except by a cancellation  *)
(* in the middle of _close_stale.                                          *)
THEOREM SupersededIsClosed == Spec => []SupersededHasCloser
  <1>1. MInv => SupersededHasCloser BY DEF MInv
  <1> QED BY <1>1, Invariance, PTL

=============================================================================
