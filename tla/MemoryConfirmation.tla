------------------------- MODULE MemoryConfirmation -------------------------
(***************************************************************************)
(* Memory updates a turn proposes and the user confirms with a button.     *)
(*                                                                         *)
(* The proposals of one session live in its log: a proposal is pending     *)
(* when the last result recorded for its tool call says so.  The buttons   *)
(* are tokens in memory, an approving and a rejecting one for each prompt. *)
(* A tap reads the log, applies the intent to the Mem0 backend and records *)
(* the result without suspending, but also without the session's lock: a   *)
(* compaction of the session may be under way, and replaces the log by     *)
(* what it read before.  The process may die between any two effects.      *)
(***************************************************************************)
EXTENDS Naturals, Sequences, FiniteSets

CONSTANTS
    Proposals,      \* tool calls of memory_propose_update
    MaxPrompts,     \* bound: prompts shown
    MaxCompactions, \* bound: compactions of the session
    MaxResets,      \* bound: /reset
    MaxCrashes      \* bound: process crashes

ASSUME ConfirmationAssumption ==
    /\ IsFiniteSet(Proposals)
    /\ MaxPrompts \in Nat /\ MaxCompactions \in Nat /\ MaxResets \in Nat /\ MaxCrashes \in Nat

VARIABLES
    log,        \* the last recorded status of each proposal ("absent": no record)
    order,      \* proposals in the order of their calls in the log
    audit,      \* intent ids in the audit file of applied intents
    seen,       \* _seen_intent_ids
    tokens,     \* _memory_confirmation_tokens, as <<proposal, approve, prompt>>
    snap,       \* the log as read by the compaction under way, or NoSnap
    turn,       \* "none", or "replying": recorded, the reply not built yet
    prompts, compactions, resets, crashes,
    \* observation only:
    written,    \* times each proposal took effect in the backend
    told,       \* the last decision the user was told of
    unaudited,  \* proposals that took effect without an entry in the audit
    unrecorded  \* proposals whose result was not recorded, or lost again

store == <<log, order, audit>>
process == <<seen, tokens, snap, turn>>
bounds == <<prompts, compactions, resets, crashes>>
observed == <<written, told, unaudited, unrecorded>>
vars == <<store, process, bounds, observed>>

Statuses == {"absent", "pending", "applied", "skipped", "noop", "invalid", "rejected", "failed"}

NoSnap == <<>>

TypeOK ==
    /\ log \in [Proposals -> Statuses]
    /\ order \in Seq(Proposals)
    /\ audit \subseteq Proposals
    /\ seen \subseteq Proposals
    /\ tokens \subseteq Proposals \X BOOLEAN \X (1..MaxPrompts)
    /\ snap = NoSnap \/ snap \in [Proposals -> Statuses]
    /\ turn \in {"none", "replying"}
    /\ written \in [Proposals -> Nat]

Init ==
    /\ log = [p \in Proposals |-> "absent"]
    /\ order = <<>>
    /\ audit = {}
    /\ seen = {}
    /\ tokens = {}
    /\ snap = NoSnap
    /\ turn = "none"
    /\ prompts = 0 /\ compactions = 0 /\ resets = 0 /\ crashes = 0
    /\ written = [p \in Proposals |-> 0]
    /\ told = [p \in Proposals |-> "nothing"]
    /\ unaudited = {}
    /\ unrecorded = {}

Proposed == {order[i] : i \in DOMAIN order}

-----------------------------------------------------------------------------
(* memory_propose_update: the tool only records the proposal, as the       *)
(* pending_confirmation result of its call, with the outcome of the turn.  *)
(* The session's lock has one owner id for all coroutines of the session,  *)
(* so a turn may end while a compaction waits for its summary.             *)
Propose(p) ==
    /\ turn = "none"
    /\ p \notin Proposed
    /\ log' = [log EXCEPT ![p] = "pending"]
    /\ order' = Append(order, p)
    /\ turn' = "replying"
    /\ UNCHANGED <<audit, seen, tokens, snap, bounds, observed>>

(* A turn that proposes nothing. *)
PlainTurn ==
    /\ turn = "none"
    /\ turn' = "replying"
    /\ UNCHANGED <<store, seen, tokens, snap, bounds, observed>>

(* list_pending, as the handler uses it: the first pending proposal. *)
FirstPending ==
    {order[i] : i \in {j \in DOMAIN order :
                         /\ log[order[j]] = "pending"
                         /\ \A k \in 1..(j - 1) : log[order[k]] # "pending"}}

(* The two buttons of a prompt, each with a token of its own. *)
Offer(p) == tokens' = tokens \cup {<<p, approve, prompts + 1>> : approve \in BOOLEAN}

UseUp(t) == tokens' = tokens \ {t}

(* The reply to a turn offers the first pending proposal, unless it carries*)
(* a web page button or a question instead.                                *)
Prompt ==
    /\ turn = "replying"
    /\ turn' = "none"
    /\ \/ /\ prompts < MaxPrompts
          /\ \E p \in FirstPending : Offer(p)
          /\ prompts' = prompts + 1
       \/ UNCHANGED <<tokens, prompts>>
    /\ UNCHANGED <<store, seen, snap, compactions, resets, crashes, observed>>

(* The time to live of a token ends. *)
Expire(t) ==
    /\ UseUp(t)
    /\ UNCHANGED <<store, seen, snap, turn, bounds, observed>>

-----------------------------------------------------------------------------
Record(p, status) == log' = [log EXCEPT ![p] = status]

Tell(p, what) == told' = [told EXCEPT ![p] = what]

TakeEffect(p) == written' = [written EXCEPT ![p] = @ + 1]

(* apply_intent on an intent whose id has not been seen, and the result    *)
(* that resolve_pending records.  The backend's client may raise, with the *)
(* request carried out or not: the intent is then rejected_invalid and not *)
(* remembered.  Appending to the audit file may fail.                      *)
ApplyNew(p) ==
    \/ (* written, updated, deleted or touched *)
       /\ TakeEffect(p)
       /\ seen' = seen \cup {p} /\ audit' = audit \cup {p}
       /\ Record(p, "applied") /\ Tell(p, "applied")
       /\ UNCHANGED <<unaudited, unrecorded>>
    \/ (* skipped_low_confidence, remembered like a write *)
       /\ seen' = seen \cup {p} /\ audit' = audit \cup {p}
       /\ Record(p, "skipped") /\ Tell(p, "applied")
       /\ UNCHANGED <<written, unaudited, unrecorded>>
    \/ (* the client raised: nothing happened, or the answer was lost *)
       /\ \/ UNCHANGED <<written, unaudited>>
          \/ TakeEffect(p) /\ unaudited' = unaudited \cup {p}
       /\ Record(p, "invalid") /\ Tell(p, "applied")
       /\ UNCHANGED <<audit, seen, unrecorded>>
    \/ (* the arguments do not make an intent after all *)
       /\ Record(p, "failed") /\ Tell(p, "failed")
       /\ UNCHANGED <<audit, seen, written, unaudited, unrecorded>>
    \/ (* the audit could not be written *)
       /\ TakeEffect(p)
       /\ seen' = seen \cup {p} /\ unaudited' = unaudited \cup {p}
       /\ Record(p, "failed") /\ Tell(p, "failed")
       /\ UNCHANGED <<audit, unrecorded>>

ApplyIntentAlways(p) == ApplyNew(p)

ApplyIntent(p) ==
    \/ /\ p \in seen
       /\ Record(p, "noop") /\ Tell(p, "applied")
       /\ UNCHANGED <<audit, seen, written, unaudited, unrecorded>>
    \/ /\ p \notin seen
       /\ ApplyNew(p)

(* resolve_pending. *)
ResolveUnchecked(p, approve) ==
    \/ /\ ~approve
       /\ Record(p, "rejected") /\ Tell(p, "rejected")
       /\ UNCHANGED <<audit, seen, written, unaudited, unrecorded>>
    \/ /\ approve
       /\ ApplyIntent(p)

Resolve(p, approve) ==
    \/ /\ log[p] # "pending"
       /\ UNCHANGED <<log, audit, seen, observed>>
    \/ /\ log[p] = "pending" /\ ~approve
       /\ Record(p, "rejected") /\ Tell(p, "rejected")
       /\ UNCHANGED <<audit, seen, written, unaudited, unrecorded>>
    \/ /\ log[p] = "pending" /\ approve
       /\ ApplyIntent(p)

(* A tap on a button consumes its token; the other button of the prompt,   *)
(* and those of earlier prompts, stay valid.                               *)
Tap(t) ==
    /\ UseUp(t)
    /\ Resolve(t[1], t[2])
    /\ UNCHANGED <<order, snap, turn, bounds>>

Restarted ==
    /\ crashes < MaxCrashes
    /\ crashes' = crashes + 1
    /\ tokens' = {}
    /\ snap' = NoSnap
    /\ turn' = "none"
    /\ UNCHANGED <<order, prompts, compactions, resets>>

(* The process dies while an approval is applied: after the backend has    *)
(* taken it, before or after the audit.                                    *)
CrashInTap(t) ==
    /\ Restarted
    /\ t[2] /\ log[t[1]] = "pending" /\ t[1] \notin seen
    /\ TakeEffect(t[1])
    /\ \/ /\ audit' = audit \cup {t[1]}
          /\ UNCHANGED unaudited
       \/ /\ unaudited' = unaudited \cup {t[1]}
          /\ UNCHANGED audit
    /\ seen' = audit'
    /\ unrecorded' = unrecorded \cup {t[1]}
    /\ UNCHANGED <<log, told>>

(* A crash at any other moment; load_seen_intent_ids on the way up. *)
Crash ==
    /\ Restarted
    /\ seen' = audit
    /\ UNCHANGED <<log, audit, observed>>

-----------------------------------------------------------------------------
(* A compaction reads the session and has the chat summarised. *)
CompactStart ==
    /\ compactions < MaxCompactions
    /\ snap = NoSnap
    /\ compactions' = compactions + 1
    /\ snap' = log
    /\ UNCHANGED <<store, seen, tokens, turn, prompts, resets, crashes, observed>>

(* It replaces the log by the recent turns as it read them.  The proposals *)
(* of older turns go, and so does what was recorded meanwhile.             *)
CompactEnd ==
    /\ snap # NoSnap
    /\ snap' = NoSnap
    /\ \E n \in 0..Len(order) :
        log' = [p \in Proposals |->
                    IF \E i \in DOMAIN order : i > n /\ order[i] = p THEN snap[p] ELSE "absent"]
    /\ unrecorded' = unrecorded \cup {p \in Proposals : log'[p] = "pending" /\ log[p] # "pending"}
    /\ UNCHANGED <<order, audit, seen, tokens, turn, bounds, written, told, unaudited>>

(* /reset. *)
Reset ==
    /\ resets < MaxResets
    /\ resets' = resets + 1
    /\ log' = [p \in Proposals |-> "absent"]
    /\ UNCHANGED <<order, audit, process, prompts, compactions, crashes, observed>>

Next ==
    \/ \E p \in Proposals : Propose(p)
    \/ \E t \in tokens : Tap(t) \/ Expire(t) \/ CrashInTap(t)
    \/ PlainTurn \/ Prompt \/ CompactStart \/ CompactEnd \/ Reset \/ Crash

Spec == Init /\ [][Next]_vars

-----------------------------------------------------------------------------
(* An approved proposal takes effect once, however often it is offered and *)
(* approved again: its tool call id is remembered in the audit, also over  *)
(* a restart and when a compaction has made it pending again.  Only what   *)
(* took effect without reaching the audit may take effect again.           *)
WrittenOnce ==
    \A p \in Proposals : written[p] > 1 => p \in unaudited

(* The user's first decision stands: a proposal the user was told is       *)
(* rejected has not been written by the other button of its prompt or of   *)
(* an earlier one, unless its result was never recorded or was lost to a   *)
(* compaction.                                                             *)
DecisionStands ==
    \A p \in Proposals : told[p] = "rejected" /\ written[p] > 0 => p \in unrecorded
=============================================================================
