---------------------------- MODULE TurnExecution ----------------------------
(***************************************************************************)
(* The turns of one session, running concurrently on the event loop.       *)
(*                                                                         *)
(* Every inbound event is handled by a coroutine of its own.  A "delivery" *)
(* is one such coroutine executing Orchestrator.execute_turn for an event  *)
(* (the same event may be delivered more than once); a "compactor" is one  *)
(* executing /compact.  Store calls never suspend, so a step of the model  *)
(* is everything a coroutine does between two points where it really       *)
(* waits: the attachment download, the summariser call, the "compacted"    *)
(* notification, the model call, and the shielded writes of a cancelled    *)
(* turn.  /stop and shutdown cancel a coroutine at such a point; /reset    *)
(* clears the log between any two steps.                                   *)
(*                                                                         *)
(* The session lock is a lock file whose owner id is derived from the      *)
(* session id alone, so every coroutine of the session is its owner and    *)
(* acquire (LockCoordinator) succeeds for all of them: entering creates    *)
(* or refreshes the file, and the first to leave deletes it.               *)
(***************************************************************************)
EXTENDS SessionLog

CONSTANTS
    Deliveries,         \* coroutines executing a turn
    Compactors,         \* coroutines executing /compact
    EventOf,            \* the event (and turn id) of each delivery
    History,            \* number of complete turns the session starts with
    CompactionEnabled,  \* compaction.enabled
    KeepRecent,         \* compaction.keep_recent_turns
    MinTurns,           \* compaction.min_turns_before_compact
    MaxCompactions,     \* compaction.max_compactions
    Budget,             \* _REPLAY_BUDGET
    MaxCancels,         \* bound: cancellations of one coroutine
    MaxResets,          \* bound: /reset commands
    MaxExpiries         \* bound: idempotency records outliving their retention

Procs == Deliveries \cup Compactors

OldTurns == {TurnId(100 + i) : i \in 1..History}

Turns == OldTurns \cup {EventOf[d] : d \in Deliveries}

ASSUME ProcsAssumption ==
    /\ Deliveries \cap Compactors = {}
    /\ MinTurns >= 2 /\ MaxCompactions >= 1 /\ CompactionEnabled \in BOOLEAN
    /\ History \in Nat /\ KeepRecent \in Nat /\ Budget \in Nat
    /\ \A d \in Deliveries : ~IsCompaction(EventOf[d])

VARIABLES
    log,        \* the session's JSONL records
    lockFile,   \* does the session's lock file exist
    seen,       \* events with an unexpired idempotency record
    turnCount,  \* turn_count in the session metadata file
    archive,    \* usage lines per turn in the user's archive
    passes,     \* compaction passes so far (source of fresh compaction ids)
    pc,         \* where each coroutine waits
    inner,      \* the write shielded by each cancelled turn
    snapshot,   \* log read before the summariser call
    ctxCount,   \* turn_count loaded when the turn entered its context
    cancels,    \* bound counters
    resets,
    expiries,
    \* observation only:
    started,    \* how many deliveries of each event reached the session
    recorded,   \* turns whose records were written since the last reset
    answered,   \* turns that ran to a normal end
    erased      \* complete turns that a reset cleared and nobody started again

store == <<log, lockFile, seen, turnCount, archive, passes>>
control == <<pc, inner, snapshot, ctxCount>>
bounds == <<cancels, resets, expiries>>
observed == <<started, recorded, answered, erased>>
vars == <<store, control, bounds, observed>>

DeliveryPlaces == {"idle", "content", "summarize", "notify", "model",
                   "shieldInitial", "shieldOutcomes", "shieldFailed", "done"}

TypeOK ==
    /\ \A i \in DOMAIN log : log[i].kind \in Kinds /\ log[i].seq \in Nat
    /\ lockFile \in BOOLEAN
    /\ seen \subseteq Turns
    /\ turnCount \in Nat
    /\ archive \in [Turns -> Nat]
    /\ pc \in [Procs -> DeliveryPlaces]
    /\ \A k \in Compactors : pc[k] \in {"idle", "summarize", "done"}
    /\ inner \in [Deliveries -> {"none", "initial", "outcomes", "failed"}]
    /\ ctxCount \in [Deliveries -> Nat]
    /\ started \in [Turns -> Nat]
    /\ recorded \subseteq Turns /\ answered \subseteq Turns /\ erased \subseteq Turns

(* The records of a turn: what persist_turn_initial, persist_turn_outcomes *)
(* and persist_turn_failed write.                                          *)
InitialRecords(t, usage) == <<Rec(t, "user", ""), Rec(t, "asst", usage)>>

TerminalRecord(t, status) == <<Rec(t, "terminal", status)>>

FailedRecordsWithoutAnswer(t, status) ==
    <<Rec(t, "user", "")>> \o TerminalRecord(t, status)

FailedRecords(t, status) == InitialRecords(t, "plain") \o TerminalRecord(t, status)

(* The messages the adapter has captured when a run is cancelled or its    *)
(* tool retries are exhausted: closed calls, no usage.                     *)
PartialTurn(t) == InitialRecords(t, "plain")

CompletedTurn(t, status) == InitialRecords(t, "usage") \o TerminalRecord(t, status)

(* A session that already holds complete turns. *)
InitialLog ==
    [i \in 1..3 * History |->
        LET turn == CompletedTurn(TurnId(100 + ((i + 2) \div 3)), "completed")
        IN  [turn[((i - 1) % 3) + 1] EXCEPT !.seq = i - 1]]

Init ==
    /\ log = InitialLog
    /\ lockFile = FALSE
    /\ seen = {}
    /\ turnCount = History
    /\ archive = [t \in Turns |-> 0]
    /\ passes = 0
    /\ pc = [p \in Procs |-> "idle"]
    /\ inner = [d \in Deliveries |-> "none"]
    /\ snapshot = [p \in Procs |-> <<>>]
    /\ ctxCount = [d \in Deliveries |-> 0]
    /\ cancels = [p \in Procs |-> 0]
    /\ resets = 0
    /\ expiries = 0
    /\ started = [t \in Turns |-> 0]
    /\ recorded = OldTurns
    /\ answered = {}
    /\ erased = {}

-----------------------------------------------------------------------------
Goto(p, place) == pc' = [pc EXCEPT ![p] = place]

(* The coroutine leaves its SessionContext: release deletes the lock file  *)
(* of the shared owner, whoever else is inside.                            *)
Leave(p) == Goto(p, "done") /\ lockFile' = FALSE

Write(recs) ==
    /\ log' = AppendRecords(log, recs)
    /\ recorded' = recorded \cup TurnsOf(recs)

(* archive_session_usage: one archive line per answer with usage that the  *)
(* session file holds now.                                                 *)
HasUsage(t) == \E r \in ToSet(log) : r.turn = t /\ r.kind = "asst" /\ r.info = "usage"

ArchiveSessionUsage == archive' = [t \in Turns |-> archive[t] + IF HasUsage(t) THEN 1 ELSE 0]

Quiet(p) == pc[p] \in {"idle", "done"}

(* Nobody executes the turn or has a write of it outstanding. *)
Settled(t) ==
    \A d \in Deliveries : EventOf[d] = t => Quiet(d) /\ inner[d] = "none"

(* clear_session deletes the session file. *)
ClearSessionKeepingFile ==
    /\ UNCHANGED log
    /\ recorded' = {}
    /\ erased' = erased \cup {t \in Turns : HasTerminal(log, t) /\ Settled(t)}

ClearSession ==
    /\ log' = <<>>
    /\ recorded' = {}
    /\ erased' = erased \cup {t \in Turns : HasTerminal(log, t) /\ Settled(t)}

(* The coroutine enters its SessionContext, with the turn count as loaded. *)
Enter(d) ==
    /\ lockFile' = TRUE
    /\ ctxCount' = [ctxCount EXCEPT ![d] = turnCount]

(* check_and_register, resume and lock acquisition, up to the download of  *)
(* the attachments.  A duplicate is dropped.                               *)
StartWithoutIdempotency(d) ==
    /\ pc[d] = "idle"
    /\ Goto(d, "content")
    /\ seen' = seen \cup {EventOf[d]}
    /\ Enter(d)
    /\ started' = [started EXCEPT ![EventOf[d]] = @ + 1]
    /\ erased' = erased \ {EventOf[d]}
    /\ UNCHANGED <<log, turnCount, archive, passes, inner, snapshot, bounds,
                   recorded, answered>>

Start(d) ==
    /\ pc[d] = "idle"
    /\ IF EventOf[d] \in seen
       THEN /\ Goto(d, "done")
            /\ UNCHANGED <<store, ctxCount, started, erased>>
       ELSE /\ Goto(d, "content")
            /\ seen' = seen \cup {EventOf[d]}
            /\ Enter(d)
            /\ started' = [started EXCEPT ![EventOf[d]] = @ + 1]
            /\ erased' = erased \ {EventOf[d]}
            /\ UNCHANGED <<log, turnCount, archive, passes>>
    /\ UNCHANGED <<inner, snapshot, bounds, recorded, answered>>

(* increment_turn_count and persist_state write back the count this turn   *)
(* loaded on entry, plus one.                                              *)
FinishTurn(d) ==
    /\ turnCount' = ctxCount[d] + 1
    /\ answered' = answered \cup {EventOf[d]}
    /\ Leave(d)

(* The end of _run_turn's preparation: either the model is called, or the  *)
(* replayed history uses tools that are not enabled any more and the user  *)
(* gets a warning, with nothing written.                                   *)
CallModelOrWarn(d, currentLog) ==
    \/ /\ Goto(d, "model")
       /\ UNCHANGED <<lockFile, turnCount, answered>>
    \/ /\ BuildReplay(ReadAll(currentLog), Budget) # <<>>
       /\ FinishTurn(d)

(* _compact_session up to the summariser call: the early returns. *)
MayCompact(records, enforceLimit) ==
    /\ CompactionEnabled
    /\ enforceLimit => Len(Summaries(records)) < MaxCompactions
    /\ RecordsToSummarize(records, KeepRecent) # <<>>

(* _run_turn after the download: decide on compaction.  Whether the token  *)
(* threshold is reached depends on payloads and is left open.              *)
Prepare(d) ==
    LET records == ReadAll(log)
    IN  /\ pc[d] = "content"
        /\ \/ /\ CompactionEnabled
              /\ EnoughTurns(records, MinTurns, KeepRecent)
              /\ MayCompact(records, TRUE)
              /\ Goto(d, "summarize")
              /\ snapshot' = [snapshot EXCEPT ![d] = records]
              /\ UNCHANGED <<lockFile, turnCount, answered>>
           \/ /\ CallModelOrWarn(d, log)
              /\ UNCHANGED snapshot
        /\ UNCHANGED <<log, seen, archive, passes, inner, ctxCount, bounds,
                       started, recorded, erased>>

(* The rest of _compact_session: archive the usage of the current file,    *)
(* then replace the file by what was computed from the snapshot.           *)
ReplaceFromSnapshotWithoutArchive(p) ==
    /\ log' = Compacted(snapshot[p], KeepRecent, CompactionId(passes))
    /\ passes' = passes + 1
    /\ UNCHANGED archive

ReplaceFromSnapshot(p) ==
    /\ ArchiveSessionUsage
    /\ log' = Compacted(snapshot[p], KeepRecent, CompactionId(passes))
    /\ passes' = passes + 1

(* A turn's summariser call returns or raises. *)
SummarizeReturns(d) ==
    /\ pc[d] = "summarize"
    /\ ReplaceFromSnapshot(d)
    /\ snapshot' = [snapshot EXCEPT ![d] = <<>>]
    /\ Goto(d, "notify")
    /\ UNCHANGED <<lockFile, seen, turnCount, inner, ctxCount, bounds, observed>>

SummarizeRaises(d) ==
    /\ pc[d] = "summarize"
    /\ CallModelOrWarn(d, log)
    /\ snapshot' = [snapshot EXCEPT ![d] = <<>>]
    /\ UNCHANGED <<log, seen, archive, passes, inner, ctxCount, bounds,
                   started, recorded, erased>>

(* The notification was sent (or failed, which is suppressed). *)
Notified(d) ==
    /\ pc[d] = "notify"
    /\ CallModelOrWarn(d, log)
    /\ UNCHANGED <<log, seen, archive, passes, inner, snapshot, ctxCount, bounds,
                   started, recorded, erased>>

-----------------------------------------------------------------------------
(* adapter.run_turn returns: initial records, memory intents, outcomes and *)
(* terminal in one go, then the turn count and the lock.                   *)
ModelReturns(d) ==
    /\ pc[d] = "model"
    /\ Write(CompletedTurn(EventOf[d], "completed"))
    /\ FinishTurn(d)
    /\ UNCHANGED <<seen, archive, passes, inner, snapshot, ctxCount, bounds, started,
                   erased>>

(* Tool retries exhausted (ToolCallFailedWithPartial): the partial turn is *)
(* kept as DEGRADED and answered normally.                                 *)
ModelDegrades(d) ==
    /\ pc[d] = "model"
    /\ Write(PartialTurn(EventOf[d]) \o TerminalRecord(EventOf[d], "degraded"))
    /\ FinishTurn(d)
    /\ UNCHANGED <<seen, archive, passes, inner, snapshot, ctxCount, bounds, started,
                   erased>>

(* The model API fails, or the answer cannot be persisted: a failed turn   *)
(* is written in its place, or only its terminal when the answer was       *)
(* already there, and the exception leaves the turn uncounted.             *)
TurnFails(d) ==
    /\ pc[d] = "model"
    /\ \E recs \in {FailedRecords(EventOf[d], "failed"),
                    CompletedTurn(EventOf[d], "failed")} : Write(recs)
    /\ Leave(d)
    /\ UNCHANGED <<seen, turnCount, archive, passes, inner, snapshot, ctxCount,
                   bounds, started, answered, erased>>

(* Any other exception of the adapter propagates with nothing written. *)
TurnRaises(d) ==
    /\ pc[d] = "model"
    /\ Leave(d)
    /\ UNCHANGED <<log, seen, turnCount, archive, passes, inner, snapshot, ctxCount,
                   bounds, observed>>

(* The API rejects the history as too long: after the failed turn has been *)
(* written and the context left, the handler archives the usage and clears *)
(* the session.                                                            *)
TokenLimit(d) ==
    /\ pc[d] = "model"
    /\ Leave(d)
    /\ ArchiveSessionUsage
    /\ ClearSession
    /\ UNCHANGED <<seen, turnCount, passes, inner, snapshot, ctxCount, bounds,
                   started, answered>>

(* The ways run_turn ends that are not a cancellation. *)
ModelCallEnds(d) ==
    ModelReturns(d) \/ ModelDegrades(d) \/ TurnFails(d) \/ TurnRaises(d) \/ TokenLimit(d)

-----------------------------------------------------------------------------
(* CancelledError is thrown into a coroutine where it waits.  Before the   *)
(* model call nothing is written.  In it, the captured messages are        *)
(* written by two shielded calls, or a failed turn by one.  A cancellation *)
(* of the shielded wait abandons what comes after it, while the shielded   *)
(* call itself still runs.                                                 *)
Cancel(d) ==
    /\ cancels[d] < MaxCancels
    /\ cancels' = [cancels EXCEPT ![d] = @ + 1]
    /\ \/ /\ pc[d] \in {"content", "summarize", "notify",
                        "shieldInitial", "shieldOutcomes", "shieldFailed"}
          /\ Leave(d)
          /\ UNCHANGED inner
       \/ /\ pc[d] = "model"
          /\ \/ Goto(d, "shieldInitial") /\ inner' = [inner EXCEPT ![d] = "initial"]
             \/ Goto(d, "shieldFailed") /\ inner' = [inner EXCEPT ![d] = "failed"]
          /\ UNCHANGED lockFile
    /\ snapshot' = [snapshot EXCEPT ![d] = <<>>]
    /\ UNCHANGED <<log, seen, turnCount, archive, passes, ctxCount, resets,
                   expiries, observed>>

InnerRecords(d) ==
    CASE inner[d] = "initial"  -> PartialTurn(EventOf[d])
      [] inner[d] = "outcomes" -> TerminalRecord(EventOf[d], "cancelled")
      [] inner[d] = "failed"   -> FailedRecords(EventOf[d], "cancelled")

(* The shielded call runs as a task of its own. *)
ShieldedWrite(d) ==
    /\ inner[d] # "none"
    /\ Write(InnerRecords(d))
    /\ inner' = [inner EXCEPT ![d] = "none"]
    /\ UNCHANGED <<lockFile, seen, turnCount, archive, passes, pc, snapshot, ctxCount,
                   bounds, started, answered, erased>>

(* The cancelled turn resumes after its shielded call: the terminal comes  *)
(* next, and after it the cancellation leaves the turn.                    *)
ShieldReturnsSkippingOutcomes(d) ==
    /\ inner[d] = "none"
    /\ pc[d] \in {"shieldInitial", "shieldOutcomes", "shieldFailed"}
    /\ Leave(d)
    /\ UNCHANGED <<log, seen, turnCount, archive, passes, inner, snapshot, ctxCount,
                   bounds, observed>>

ShieldReturns(d) ==
    /\ inner[d] = "none"
    /\ \/ /\ pc[d] = "shieldInitial"
          /\ Goto(d, "shieldOutcomes")
          /\ inner' = [inner EXCEPT ![d] = "outcomes"]
          /\ UNCHANGED lockFile
       \/ /\ pc[d] \in {"shieldOutcomes", "shieldFailed"}
          /\ Leave(d)
          /\ UNCHANGED inner
    /\ UNCHANGED <<log, seen, turnCount, archive, passes, snapshot, ctxCount,
                   bounds, observed>>

-----------------------------------------------------------------------------
(* /compact: resume, acquire, read the log; skipped when there is nothing  *)
(* older than the kept turns.  The compaction limit does not apply.        *)
StartCompact(k) ==
    LET records == ReadAll(log)
    IN  /\ pc[k] = "idle"
        /\ CompactionEnabled
        /\ IF MayCompact(records, FALSE)
           THEN /\ Goto(k, "summarize")
                /\ snapshot' = [snapshot EXCEPT ![k] = records]
                /\ lockFile' = TRUE
           ELSE /\ Leave(k)
                /\ UNCHANGED snapshot
        /\ UNCHANGED <<log, seen, turnCount, archive, passes, inner, ctxCount,
                       bounds, observed>>

CompactReturns(k) ==
    /\ pc[k] = "summarize"
    /\ \/ ReplaceFromSnapshot(k)
       \/ UNCHANGED <<log, archive, passes>>        \* the summariser raised
    /\ snapshot' = [snapshot EXCEPT ![k] = <<>>]
    /\ Leave(k)
    /\ UNCHANGED <<seen, turnCount, inner, ctxCount, bounds, observed>>

CancelCompact(k) ==
    /\ pc[k] = "summarize"
    /\ cancels[k] < MaxCancels
    /\ cancels' = [cancels EXCEPT ![k] = @ + 1]
    /\ snapshot' = [snapshot EXCEPT ![k] = <<>>]
    /\ Leave(k)
    /\ UNCHANGED <<log, seen, turnCount, archive, passes, inner, ctxCount, resets,
                   expiries, observed>>

(* /reset: archive the usage, delete the session file.  No lock is taken.  *)
Reset ==
    /\ resets < MaxResets
    /\ resets' = resets + 1
    /\ ArchiveSessionUsage
    /\ ClearSession
    /\ UNCHANGED <<lockFile, seen, turnCount, passes, control, cancels, expiries,
                   started, answered>>

(* An idempotency record passes its retention time (and is cleaned up). *)
IdempotencyExpires(t) ==
    /\ t \in seen
    /\ expiries < MaxExpiries
    /\ expiries' = expiries + 1
    /\ seen' = seen \ {t}
    /\ UNCHANGED <<log, lockFile, turnCount, archive, passes, control, cancels,
                   resets, observed>>

(* The lock file passes its TTL during a long turn and the background      *)
(* cleanup deletes it.                                                     *)
LockFileExpires ==
    /\ lockFile
    /\ lockFile' = FALSE
    /\ UNCHANGED <<log, seen, turnCount, archive, passes, control, bounds, observed>>

Next ==
    \/ \E d \in Deliveries :
          \/ Start(d) \/ Prepare(d)
          \/ SummarizeReturns(d) \/ SummarizeRaises(d) \/ Notified(d)
          \/ ModelCallEnds(d) \/ Cancel(d) \/ ShieldedWrite(d) \/ ShieldReturns(d)
    \/ \E k \in Compactors : StartCompact(k) \/ CompactReturns(k) \/ CancelCompact(k)
    \/ Reset
    \/ \E t \in Turns : IdempotencyExpires(t)
    \/ LockFileExpires

Spec == Init /\ [][Next]_vars

(* The event loop runs a task that is ready: the shielded write, and the   *)
(* turn waiting for it.  Nothing is assumed of users or of the model.      *)
FairSpec ==
    /\ Spec
    /\ \A d \in Deliveries : WF_vars(ShieldedWrite(d)) /\ WF_vars(ShieldReturns(d))

-----------------------------------------------------------------------------
(* Sequence numbers stay unique in the file, however appends of concurrent *)
(* turns, shielded writes and whole-file replacements from stale snapshots *)
(* interleave (append() numbers from the last sequence, a summary takes    *)
(* the number of summaries before it).                                     *)
SequencesUnique ==
    \A i, j \in DOMAIN log : log[i].seq = log[j].seq => i = j

(* Whatever was interleaved, cancelled, reset or compacted, the history    *)
(* replayed to the model is a series of summaries followed by exchanges of *)
(* one user message and one answer of the same turn.                       *)
ReplayAlternates ==
    LET replay == BuildReplay(ReadAll(log), Budget)
        Exchange(i) == /\ i \in 1..Len(replay) - 1
                       /\ replay[i].kind = "user" /\ replay[i + 1].kind = "asst"
                       /\ replay[i].turn = replay[i + 1].turn
    IN  \A i \in DOMAIN replay :
            \/ \A j \in 1..i : replay[j].kind = "summary"
            \/ Exchange(i)
            \/ Exchange(i - 1)

(* Tokens once reported as used stay reported: no reset, compaction or     *)
(* concurrent rewrite of the file makes the usage of a turn disappear from *)
(* both the session file and the archive.                                  *)
UsageNeverLost ==
    [][\A t \in Turns :
          HasUsage(t) \/ archive[t] > 0 => HasUsage(t)' \/ archive'[t] > 0]_vars

(* An event reaches the session once per idempotency retention period,     *)
(* however often and however concurrently it is delivered.                 *)
ExecutedOncePerRetention == \A t \in Turns : started[t] <= 1 + expiries

(* No recorded turn vanishes: until a reset it is in the file or part of a *)
(* summary in the file.                                                    *)
NoTurnLost ==
    \A t \in recorded :
        \/ t \in TurnsOf(log)
        \/ \E r \in ToSet(log) : t \in r.covers

(* A turn whose history was reset does not come back. *)
ResetIsFinal == \A t \in erased : t \notin TurnsOf(log)

(* A turn cancelled while the model was working is eventually recorded     *)
(* with its terminal record (which a reset may erase afterwards).          *)
CancelledTurnRecorded ==
    \A d \in Deliveries : inner[d] # "none" ~> HasTerminal(log, EventOf[d])

=============================================================================
