---------------------- MODULE MemoryConfirmationProofs ----------------------
(***************************************************************************)
(* For any set of proposals and any number of prompts, compactions, resets *)
(* and crashes: an approval takes effect once, and a rejection stands.     *)
(***************************************************************************)
EXTENDS MemoryConfirmation, TLAPS

(* The types the arguments need, of the stores and of the buttons. *)
Shape ==
    /\ log \in [Proposals -> Statuses]
    /\ order \in Seq(Proposals)
    /\ audit \subseteq Proposals
    /\ seen \subseteq Proposals
    /\ \A t \in tokens : t[1] \in Proposals
    /\ snap = NoSnap \/ snap \in [Proposals -> Statuses]
    /\ written \in [Proposals -> Nat]
    /\ told \in [Proposals -> {"nothing", "applied", "rejected", "failed"}]

(* The running process knows every intent of the audit file. *)
AuditLoaded == audit \subseteq seen

(* What took effect can be found in the audit, unless it never got there. *)
EffectsAudited == \A p \in Proposals : written[p] > 0 => p \in audit \cup unaudited

(* A proposal that is not in the log yet has no past. *)
UnproposedUntouched ==
    \A p \in Proposals :
        p \notin Proposed => log[p] = "absent" /\ written[p] = 0 /\ told[p] = "nothing"

(* A decided proposal is pending again only when its result was lost. *)
PendingUndecided ==
    \A p \in Proposals :
        log[p] = "pending" /\ (written[p] > 0 \/ told[p] # "nothing") => p \in unrecorded

CInv ==
    /\ Shape
    /\ AuditLoaded
    /\ EffectsAudited
    /\ WrittenOnce
    /\ UnproposedUntouched
    /\ PendingUndecided
    /\ DecisionStands

(* At the start nothing is proposed. *)
LEMMA InitCInv == Init => CInv
  BY DEF Init, CInv, Shape, AuditLoaded, EffectsAudited, WrittenOnce,
         UnproposedUntouched, PendingUndecided, DecisionStands, Proposed, Statuses

(* Only list_pending decides what a prompt offers, and it offers proposals *)
(* of the log.                                                             *)
LEMMA PromptShape == Shape /\ Prompt => \A t \in tokens' : t[1] \in Proposals
  <1> SUFFICES ASSUME Shape, Prompt PROVE \A t \in tokens' : t[1] \in Proposals
    OBVIOUS
  <1>1. FirstPending \subseteq Proposals
    BY DEF FirstPending, Shape
  <1>2. CASE \E p \in FirstPending : Offer(p)
    BY <1>1, <1>2 DEF Offer, Shape
  <1>3. CASE UNCHANGED tokens
    BY <1>3 DEF Shape
  <1> QED BY <1>2, <1>3 DEF Prompt

(* A proposal keeps its place in the order of the log. *)
LEMMA ProposeAppends ==
    ASSUME Shape, NEW p \in Proposals, Propose(p)
    PROVE  order' \in Seq(Proposals) /\ Proposed' = Proposed \cup {p}
  <1>1. order \in Seq(Proposals) /\ order' = Append(order, p)
    BY DEF Shape, Propose
  <1>2. /\ order' \in Seq(Proposals)
        /\ Len(order') = Len(order) + 1
        /\ order'[Len(order) + 1] = p
        /\ \A i \in 1..Len(order) : order'[i] = order[i]
    BY <1>1
  <1>3. DOMAIN order = 1..Len(order) /\ DOMAIN order' = 1..Len(order) + 1
    BY <1>1, <1>2
  <1>4. Len(order) \in Nat
    BY <1>1
  <1> QED
    BY <1>2, <1>3, <1>4 DEF Proposed

(* Applying an intent for the first time. *)
LEMMA ApplyNewStep ==
    ASSUME CInv, NEW p \in Proposals, p \notin seen, log[p] = "pending", ApplyNew(p),
           UNCHANGED <<order, snap>>, tokens' \subseteq tokens
    PROVE  CInv'
  <1> USE DEF CInv, Shape, Record, Tell, TakeEffect, Statuses
  <1>1. Shape'
    <2>1. log' \in [Proposals -> Statuses] /\ audit' \subseteq Proposals
      BY DEF ApplyNew
    <2>2. seen' \subseteq Proposals
      BY DEF ApplyNew
    <2>3. written' = written \/ written' = [written EXCEPT ![p] = @ + 1]
      BY DEF ApplyNew
    <2>4. written' \in [Proposals -> Nat]
      BY <2>3
    <2>5. told' \in [Proposals -> {"nothing", "applied", "rejected", "failed"}]
      BY DEF ApplyNew
    <2> QED BY <2>1, <2>2, <2>4, <2>5
  <1>2. AuditLoaded'
    BY DEF ApplyNew, AuditLoaded
  <1>3. p \notin audit
    BY DEF AuditLoaded
  <1>4. EffectsAudited' /\ WrittenOnce'
    BY <1>3 DEF ApplyNew, EffectsAudited, WrittenOnce
  <1>5. UnproposedUntouched'
    BY DEF ApplyNew, UnproposedUntouched, Proposed
  <1>6. PendingUndecided'
    BY DEF ApplyNew, PendingUndecided
  <1>7. DecisionStands'
    BY DEF ApplyNew, DecisionStands, PendingUndecided
  <1> QED
    BY <1>1, <1>2, <1>4, <1>5, <1>6, <1>7

(* A tap decides a proposal that is pending, and changes no other. *)
LEMMA TapStep ==
    ASSUME CInv, NEW t \in tokens, Tap(t)
    PROVE  CInv'
  <1> DEFINE p == t[1]
  <1>0. p \in Proposals /\ tokens' \subseteq tokens /\ UNCHANGED <<order, snap>>
    BY DEF CInv, Shape, Tap, UseUp
  <1>1. CASE log[p] # "pending" /\ UNCHANGED <<log, audit, seen, observed>>
    BY <1>0, <1>1 DEF CInv, Shape, AuditLoaded, EffectsAudited, WrittenOnce,
       UnproposedUntouched, PendingUndecided, DecisionStands, Proposed, observed
  <1>2. CASE /\ log[p] = "pending" /\ Record(p, "rejected") /\ Tell(p, "rejected")
             /\ UNCHANGED <<audit, seen, written, unaudited, unrecorded>>
    BY <1>0, <1>2 DEF CInv, Shape, AuditLoaded, EffectsAudited, WrittenOnce, Statuses,
       UnproposedUntouched, PendingUndecided, DecisionStands, Proposed, Record, Tell
  <1>3. CASE /\ log[p] = "pending" /\ Record(p, "noop") /\ Tell(p, "applied")
             /\ UNCHANGED <<audit, seen, written, unaudited, unrecorded>>
    BY <1>0, <1>3 DEF CInv, Shape, AuditLoaded, EffectsAudited, WrittenOnce, Statuses,
       UnproposedUntouched, PendingUndecided, DecisionStands, Proposed, Record, Tell
  <1>4. CASE log[p] = "pending" /\ p \notin seen /\ ApplyNew(p)
    BY <1>0, <1>4, ApplyNewStep
  <1> QED
    BY <1>1, <1>2, <1>3, <1>4 DEF Tap, Resolve, ApplyIntent

(* Every step keeps the invariant. *)
LEMMA StepCInv == CInv /\ [Next]_vars => CInv'
  <1> SUFFICES ASSUME CInv, [Next]_vars PROVE CInv'
    OBVIOUS
  <1> USE DEF CInv
  <1>1. ASSUME NEW p \in Proposals, Propose(p) PROVE CInv'
    <2>1. order' \in Seq(Proposals) /\ Proposed' = Proposed \cup {p}
      BY <1>1, ProposeAppends
    <2>2. Shape' /\ AuditLoaded' /\ EffectsAudited' /\ WrittenOnce' /\ DecisionStands'
      BY <1>1, <2>1 DEF Propose, Shape, Statuses, AuditLoaded, EffectsAudited, WrittenOnce,
         DecisionStands, observed
    <2>3. UnproposedUntouched' /\ PendingUndecided'
      BY <1>1, <2>1 DEF Propose, Shape, UnproposedUntouched, PendingUndecided, observed
    <2> QED BY <2>2, <2>3
  <1>2. ASSUME NEW t \in tokens, Tap(t) PROVE CInv'
    BY <1>2, TapStep
  <1>3. ASSUME NEW t \in tokens, Expire(t) PROVE CInv'
    BY <1>3 DEF Expire, UseUp, Shape, AuditLoaded, EffectsAudited, WrittenOnce,
       UnproposedUntouched, PendingUndecided, DecisionStands, Proposed, store, observed
  <1>4. ASSUME NEW t \in tokens, CrashInTap(t) PROVE CInv'
    <2>1. /\ t[1] \in Proposals /\ t[1] \notin audit /\ log[t[1]] = "pending"
          /\ tokens' = {} /\ snap' = NoSnap /\ UNCHANGED <<log, order, told>>
      BY <1>4 DEF CrashInTap, Restarted, Shape, AuditLoaded
    <2>2. Shape' /\ AuditLoaded'
      BY <1>4, <2>1 DEF CrashInTap, TakeEffect, Shape, AuditLoaded
    <2>3. EffectsAudited' /\ WrittenOnce'
      BY <1>4, <2>1 DEF CrashInTap, TakeEffect, Shape, EffectsAudited, WrittenOnce
    <2>4. UnproposedUntouched' /\ PendingUndecided' /\ DecisionStands'
      BY <1>4, <2>1 DEF CrashInTap, TakeEffect, Shape, UnproposedUntouched,
         PendingUndecided, DecisionStands, Proposed
    <2> QED BY <2>2, <2>3, <2>4
  <1>5. CASE PlainTurn
    BY <1>5 DEF PlainTurn, Shape, AuditLoaded, EffectsAudited, WrittenOnce,
       UnproposedUntouched, PendingUndecided, DecisionStands, Proposed, store, observed
  <1>6. CASE Prompt
    <2>1. \A t \in tokens' : t[1] \in Proposals
      BY <1>6, PromptShape
    <2> QED
      BY <1>6, <2>1 DEF Prompt, Shape, AuditLoaded, EffectsAudited, WrittenOnce,
         UnproposedUntouched, PendingUndecided, DecisionStands, Proposed, store, observed
  <1>7. CASE CompactStart
    BY <1>7 DEF CompactStart, Shape, AuditLoaded, EffectsAudited, WrittenOnce,
       UnproposedUntouched, PendingUndecided, DecisionStands, Proposed, store, observed
  <1>8. CASE CompactEnd
    \* what the snapshot makes pending again is noted in unrecorded
    <2>1. log' \in [Proposals -> Statuses] /\ snap' = NoSnap
      BY <1>8 DEF CompactEnd, Shape, Statuses
    <2>2. \A p \in Proposals : p \notin Proposed => log'[p] = "absent"
      BY <1>8 DEF CompactEnd, Proposed
    <2>3. /\ unrecorded \subseteq unrecorded'
          /\ \A p \in Proposals : log'[p] = "pending" => log[p] = "pending" \/ p \in unrecorded'
      BY <1>8 DEF CompactEnd
    <2> QED
      BY <1>8, <2>1, <2>2, <2>3 DEF CompactEnd, Shape, AuditLoaded, EffectsAudited, WrittenOnce,
         UnproposedUntouched, PendingUndecided, DecisionStands, Proposed
  <1>9. CASE Reset
    BY <1>9 DEF Reset, Shape, Statuses, AuditLoaded, EffectsAudited, WrittenOnce,
       UnproposedUntouched, PendingUndecided, DecisionStands, Proposed, process, observed
  <1>10. CASE Crash
    BY <1>10 DEF Crash, Restarted, Shape, AuditLoaded, EffectsAudited, WrittenOnce,
       UnproposedUntouched, PendingUndecided, DecisionStands, Proposed, observed
  <1>11. CASE UNCHANGED vars
    BY <1>11 DEF vars, store, process, observed, Shape, AuditLoaded, EffectsAudited,
       WrittenOnce, UnproposedUntouched, PendingUndecided, DecisionStands, Proposed
  <1> QED
    BY <1>1, <1>2, <1>3, <1>4, <1>5, <1>6, <1>7, <1>8, <1>9, <1>10, <1>11 DEF Next

LEMMA CInvariance == Spec => []CInv
  BY InitCInv, StepCInv, PTL DEF Spec

(* An approved proposal takes effect once, over any number of prompts,     *)
(* repeated approvals, compactions, resets and crashes (resolve_pending,   *)
(* apply_intent, load_seen_intent_ids); a second effect is possible only   *)
(* for one that never reached the audit.                                   *)
THEOREM ApprovedTakesEffectOnce == Spec => []WrittenOnce
  <1>1. CInv => WrittenOnce BY DEF CInv
  <1> QED BY <1>1, CInvariance, PTL

(* What the user was told is rejected has had no effect, before or after,  *)
(* unless its result was not recorded or was lost to a compaction          *)
(* (resolve_pending looks for the pending record first).                   *)
THEOREM RejectionStands == Spec => []DecisionStands
  <1>1. CInv => DecisionStands BY DEF CInv
  <1> QED BY <1>1, CInvariance, PTL

=============================================================================
