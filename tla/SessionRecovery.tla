--------------------------- MODULE SessionRecovery ---------------------------
(***************************************************************************)
(* The session file across crashes and restarts of the process.            *)
(*                                                                         *)
(* Turns write their records in batches (persist_turn_initial, then        *)
(* persist_turn_outcomes; or one batch for a failed turn), each by one     *)
(* O_APPEND write.  A crash forgets the batches not yet written and may    *)
(* leave any prefix of the bytes of the one being written.  At the next    *)
(* start StoreFacade.initialize scans the file: turns without a terminal   *)
(* record get a synthetic one, tool calls without a result a synthetic     *)
(* result.                                                                 *)
(*                                                                         *)
(* The bytes of the file are a sequence of terminated lines and what       *)
(* follows the last newline.  Appending does not look at that rest, so the *)
(* first line appended is glued to it and both become unreadable.          *)
(***************************************************************************)
EXTENDS SessionLog

CONSTANTS
    TurnNumbers,    \* the turns users start
    KeepRecent,     \* compaction.keep_recent_turns
    Budget,         \* _REPLAY_BUDGET
    EmptyPromptAccepted,    \* does the model API answer an empty prompt
    Tearing,        \* does a crash cut a write short anywhere (or only before it)
    MaxCrashes,     \* bound: crashes
    MaxPasses       \* bound: /compact commands that find something to do

UserTurns == {TurnId(n) : n \in TurnNumbers}

ASSUME RecoveryAssumption ==
    /\ TurnNumbers \subseteq Nat
    /\ KeepRecent \in Nat /\ Budget \in Nat
    /\ Tearing \in BOOLEAN /\ EmptyPromptAccepted \in BOOLEAN
    /\ MaxCrashes \in Nat /\ MaxPasses \in Nat

VARIABLES
    lines,      \* the terminated lines of the session file
    open,       \* what follows the last newline: nothing or one line
    phase,      \* "up", "down", or the step of the startup scan
    pending,    \* batches each running turn has yet to write
    begun,      \* turns that have been started
    passes,     \* compactions so far
    crashes,
    torn,       \* observation: crashes that cut a write short
    acked       \* observation: event ids of records whose append returned

vars == <<lines, open, phase, pending, begun, passes, crashes, torn, acked>>

Records == ReadAll(lines \o open)

Running == {t \in UserTurns : pending[t] # <<>>}

TypeOK ==
    /\ \A i \in DOMAIN lines : lines[i].kind \in Kinds \cup {"garbled"}
    /\ Len(open) <= 1
    /\ phase \in {"up", "down", "terminals", "results"}
    /\ begun \subseteq UserTurns
    /\ phase # "up" => Running = {}
    /\ Running \subseteq begun

Init ==
    /\ lines = <<>>
    /\ open = <<>>
    /\ phase = "up"
    /\ pending = [t \in UserTurns |-> <<>>]
    /\ begun = {}
    /\ passes = 0
    /\ crashes = 0
    /\ torn = 0
    /\ acked = {}

-----------------------------------------------------------------------------
(* Writing. *)

(* A line written after an unterminated one shares its line. *)
Glued(line) == IF open = <<>> THEN line ELSE Garbled

(* file_append_lines, completed. *)
WriteLinesUnseparated(new) ==
    IF new = <<>> THEN UNCHANGED <<lines, open>>
    ELSE /\ lines' = Append(lines, IF Len(new) = 1 THEN Glued(new[1]) ELSE Garbled)
         /\ open' = <<>>

WriteLines(new) ==
    IF new = <<>> THEN UNCHANGED <<lines, open>>
    ELSE /\ lines' = lines \o <<Glued(Head(new))>> \o Tail(new)
         /\ open' = <<>>

(* file_append_lines cut short after whole lines and a part of the next:   *)
(* nothing of it, some of it, or all but its newline.                      *)
WritePartOf(new) ==
    \E n \in 0..Len(new) - 1 :
        LET glued == <<Glued(Head(new))>> \o Tail(new)
        IN  /\ lines' = lines \o SubSeq(glued, 1, n)
            /\ open' \in {IF n = 0 THEN open ELSE <<>>, <<Garbled>>, <<glued[n + 1]>>}

(* The batches a turn writes: it answers after a tool call; it answers     *)
(* after a memory update, whose result comes with the outcomes; it is      *)
(* cancelled or degraded after either, when memory results are left out    *)
(* and there are no outcomes; or it fails.                                 *)
WithCall(t, call) == <<Rec(t, "user", ""), Rec(t, "call", call)>>

Answer(t) == <<Rec(t, "asst", "")>>

Ending(t, status) == <<Rec(t, "terminal", status)>>

Batches(t) ==
    {<<WithCall(t, "tool") \o <<Rec(t, "result", "tool")>> \o Answer(t),
       Ending(t, "completed")>>,
     <<WithCall(t, "memory") \o Answer(t),
       <<Rec(t, "result", "memory")>> \o Ending(t, "completed")>>,
     <<WithCall(t, "memory") \o Answer(t), Ending(t, "cancelled")>>,
     <<<<Rec(t, "user", "")>> \o Answer(t) \o Ending(t, "failed")>>}

StartTurn(t) ==
    /\ phase = "up"
    /\ t \notin begun
    /\ begun' = begun \cup {t}
    /\ \E batches \in Batches(t) : pending' = [pending EXCEPT ![t] = batches]
    /\ UNCHANGED <<lines, open, phase, passes, crashes, torn, acked>>

(* append(): dedup, number and write the next batch of a turn. *)
WriteBatch(t) ==
    /\ phase = "up"
    /\ pending[t] # <<>>
    /\ WriteLines(NewRecords(lines \o open, Head(pending[t])))
    /\ pending' = [pending EXCEPT ![t] = Tail(@)]
    /\ acked' = acked \cup {EventId(r) : r \in ToSet(Head(pending[t]))}
    /\ UNCHANGED <<phase, begun, passes, crashes, torn>>

(* /compact between two appends; replace_session swaps in a whole file.    *)
(* When the older records say nothing (only terminal records are left of   *)
(* them) the summariser is called with an empty prompt: unless the model   *)
(* API accepts that, the call raises and the pass is abandoned.            *)
SaysSomething(records) ==
    \E r \in ToSet(records) : r.kind \in {"user", "asst", "call", "result"}

Compact ==
    /\ phase = "up"
    /\ passes < MaxPasses
    /\ RecordsToSummarize(Records, KeepRecent) # <<>>
    /\ EmptyPromptAccepted \/ SaysSomething(RecordsToSummarize(Records, KeepRecent))
    /\ lines' = Compacted(Records, KeepRecent, CompactionId(passes))
    /\ open' = <<>>
    /\ passes' = passes + 1
    /\ acked' = {e \in acked : e \in {EventId(r) : r \in ToSet(KeptRecords(Records, KeepRecent))}}
    /\ UNCHANGED <<phase, pending, begun, crashes, torn>>

-----------------------------------------------------------------------------
(* The startup scan. *)

(* list_sessions: a session is found by its first line. *)
Listed == lines \o open # <<>> /\ Head(lines \o open).kind # "garbled"

IncompleteTurns(records) == {t \in TurnsOf(records) : ~HasTerminal(records, t)}

Numbered(records, new) ==
    [i \in DOMAIN new |-> [new[i] EXCEPT !.seq = NextSequence(records) + i - 1]]

(* _create_synthetic_terminals *)
SyntheticTerminalOfLastTurn(records) ==
    LET last == Last(records).turn
    IN  IF HasTerminal(records, last) THEN <<>>
        ELSE Numbered(records, <<Rec(last, "terminal", "interrupted")>>)

SyntheticTerminalsByLastRecord(records) ==
    LET turns == SetToSeq({t \in TurnsOf(records) :
                              Last(Where(records, LAMBDA r : r.turn = t)).kind # "terminal"})
    IN  Numbered(records, [i \in DOMAIN turns |-> Rec(turns[i], "terminal", "interrupted")])

SyntheticTerminals(records) ==
    LET turns == SetToSeq(IncompleteTurns(records))
    IN  Numbered(records, [i \in DOMAIN turns |-> Rec(turns[i], "terminal", "interrupted")])

(* _create_orphan_tool_results *)
OrphanCalls(records) ==
    LET Of(kind) == {<<r.turn, r.info>> : r \in {x \in ToSet(records) : x.kind = kind}}
    IN  Of("call") \ Of("result")

OrphanToolResults(records) ==
    LET calls == SetToSeq(OrphanCalls(records))
    IN  Numbered(records, [i \in DOMAIN calls |-> Rec(calls[i][1], "result", calls[i][2])])

(* What the current step of the scan appends (append_raw). *)
Repairs ==
    CASE ~Listed -> <<>>
      [] Listed /\ phase = "terminals" -> SyntheticTerminals(Records)
      [] OTHER -> OrphanToolResults(Records)

ScanStep(from, to) ==
    /\ phase = from
    /\ WriteLines(Repairs)
    /\ phase' = to
    /\ acked' = acked \cup {EventId(r) : r \in ToSet(Repairs)}
    /\ UNCHANGED <<pending, begun, passes, crashes, torn>>

ScanTerminals == ScanStep("terminals", "results")

ScanResults == ScanStep("results", "up")

Restart ==
    /\ phase = "down"
    /\ phase' = "terminals"
    /\ UNCHANGED <<lines, open, pending, begun, passes, crashes, torn, acked>>

(* The batch some coroutine, or the scan, may be writing now. *)
InFlight ==
    IF phase = "up"
    THEN {NewRecords(lines \o open, Head(pending[t])) : t \in Running}
    ELSE {Repairs}

Crash ==
    /\ phase # "down"
    /\ crashes < MaxCrashes
    /\ crashes' = crashes + 1
    /\ phase' = "down"
    /\ pending' = [t \in UserTurns |-> <<>>]
    /\ \/ UNCHANGED <<lines, open, torn>>
       \/ /\ Tearing
          /\ \E new \in InFlight : WritePartOf(new)
          /\ torn' = torn + 1
    /\ UNCHANGED <<begun, passes, acked>>

Next ==
    \/ \E t \in UserTurns : StartTurn(t) \/ WriteBatch(t)
    \/ Compact
    \/ Crash \/ Restart \/ ScanTerminals \/ ScanResults

Spec == Init /\ [][Next]_vars

-----------------------------------------------------------------------------
(* However turns, crashes, scans and compactions follow each other, a turn *)
(* never has two terminal records: the scan does not close a turn twice,   *)
(* nor one that closed itself.                                             *)
TerminalUnique ==
    \A t \in TurnsOf(Records) :
        Cardinality({i \in DOMAIN Records :
                        Records[i].turn = t /\ Records[i].kind = "terminal"}) <= 1

(* Unless a write was torn, the scan leaves every turn of the file         *)
(* complete, and from then on only a running turn is incomplete (and a     *)
(* compaction summary, which is a turn without an end).                    *)
ScanCompletesTurns ==
    torn = 0 =>
        /\ phase = "results" => IncompleteTurns(Records) = {}
        /\ phase = "up" =>
              \A t \in IncompleteTurns(Records) : t \in Running \/ IsCompaction(t)

(* The model never sees an open call, a result without its call, or a      *)
(* result before its call, whatever a crash, a cancellation or the scan    *)
(* left in the file.                                                       *)
ReplayClosed ==
    LET replay == BuildReplay(Records, Budget)
        Pairs(i, j) == /\ replay[i].kind = "call" /\ replay[j].kind = "result"
                       /\ replay[i].turn = replay[j].turn
                       /\ replay[i].info = replay[j].info
    IN  \A i \in DOMAIN replay :
            /\ replay[i].kind = "call" =>
                  \E j \in i + 1..Len(replay) : Pairs(i, j)
            /\ replay[i].kind = "result" => \E j \in 1..i - 1 : Pairs(j, i)

(* Crashes between writes cost no acknowledged record, and a torn write    *)
(* costs at most one: the record that comes to share its line.             *)
LossBounded ==
    Cardinality(acked \ {EventId(r) : r \in ToSet(Records)}) <= torn

=============================================================================
