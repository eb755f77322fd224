----------------------------- MODULE SessionLog -----------------------------
(***************************************************************************)
(* The JSONL log of one session as a value: how the session store reads    *)
(* and extends it (store/filesystem/session.py), how the model-facing      *)
(* history is rebuilt from it (store/filesystem/replay.py), how a          *)
(* compaction pass splits and rewrites it (core/orchestrator/service.py)   *)
(* and what the startup scan adds to it (store/facade.py).                 *)
(*                                                                         *)
(* A record keeps what these algorithms look at: its sequence number, its  *)
(* turn, its type, and one word of payload (a tool call id, a terminal     *)
(* status, whether token usage is attached).  A compaction summary also    *)
(* keeps the turns whose messages went into it.  SYSTEM_MESSAGE records    *)
(* are read by this code but written by none of it, and TURN_SUMMARY       *)
(* records are diagnostics that no algorithm below looks at.               *)
(***************************************************************************)
EXTENDS Naturals, Sequences, FiniteSets, SequencesExt

Kinds == {"user", "asst", "call", "result", "terminal", "summary"}

TurnId(n) == <<"turn", n>>

CompactionId(n) == <<"compaction", n>>

IsCompaction(turn) == turn[1] = "compaction"

(* A record before the store has given it its sequence number. *)
Rec(turn, kind, info) ==
    [seq |-> 0, turn |-> turn, kind |-> kind, info |-> info, covers |-> {}]

(* A line of the file that does not parse. *)
Garbled == Rec(TurnId(0), "garbled", "")

(* event_id: one per user message, answer, terminal and summary of a turn, *)
(* one per tool call and per tool result.  The startup scan gives its own  *)
(* terminal records an id of their own.                                    *)
EventId(r) ==
    <<r.kind, r.turn,
      IF r.kind \in {"call", "result"} \/ r.info = "interrupted" THEN r.info ELSE "">>

(* The elements of s at the given places, in their order.  Where does what *)
(* SelectSeq does, in a form that can be proved about.                     *)
At(s, places) ==
    [k \in 1..Cardinality(places) |->
        s[CHOOSE i \in places : Cardinality({j \in places : j <= i}) = k]]

Where(s, Test(_)) == At(s, {i \in DOMAIN s : Test(s[i])})

(* Stable sort of the elements at the given places by sequence number. *)
InSequence(s, places) ==
    LET UpTo(j) == {i \in places : s[i].seq < s[j].seq \/ (s[i].seq = s[j].seq /\ i <= j)}
    IN  [p \in 1..Cardinality(places) |->
            s[CHOOSE j \in places : Cardinality(UpTo(j)) = p]]

(* _read_all_records: the lines that parse, by sequence. *)
ReadAll(lines) == InSequence(lines, {i \in DOMAIN lines : lines[i].kind # "garbled"})

NextSequenceByLength(records) == Len(records)

NextSequence(records) == IF records = <<>> THEN 0 ELSE Last(records).seq + 1

(* What append() writes: records whose event id is new to the session,     *)
(* numbered on from the last sequence.                                     *)
NewRecords(lines, recs) ==
    LET existing == ReadAll(lines)
        known == {EventId(r) : r \in ToSet(existing)}
        new == At(recs, {i \in DOMAIN recs :
                            /\ EventId(recs[i]) \notin known
                            /\ \A j \in 1..i - 1 : EventId(recs[j]) # EventId(recs[i])})
    IN  [k \in DOMAIN new |-> [new[k] EXCEPT !.seq = NextSequence(existing) + k - 1]]

AppendRecordsTruncating(lines, recs) == NewRecords(lines, recs)

AppendRecords(lines, recs) == lines \o NewRecords(lines, recs)

-----------------------------------------------------------------------------
(* Replay. *)

TurnsOf(records) == {r.turn : r \in ToSet(records)}

(* The place of a turn's first record, which orders the turns of a log. *)
Begins(records, turn) ==
    CHOOSE i \in DOMAIN records :
        records[i].turn = turn /\ \A j \in 1..i - 1 : records[j].turn # turn

HasTerminal(records, turn) ==
    \E r \in ToSet(records) : r.turn = turn /\ r.kind = "terminal"

(* _collect_complete_turns: the turns with a terminal record. *)
CollectCompleteTurns(records) == {t \in TurnsOf(records) : HasTerminal(records, t)}

(* The places of a turn's model-facing records. *)
ModelRecords(records, turn) ==
    {i \in DOMAIN records : /\ records[i].turn = turn
                            /\ records[i].kind \in {"user", "asst", "call", "result"}}

FilterTurnKeepingOpenCalls(records, turn) == ModelRecords(records, turn)

(* _filter_turn_records: the places of the model-facing records of a turn, *)
(* with only those tool calls and results that come as a pair.             *)
FilterTurnRecords(records, turn) ==
    LET model == ModelRecords(records, turn)
        Ids(kind) == {records[i].info : i \in {j \in model : records[j].kind = kind}}
    IN  {i \in model : records[i].kind \in {"call", "result"} =>
                          records[i].info \in Ids("call") \cap Ids("result")}

(* The elements at the given places, turn by turn. *)
ByTurn(records, places) ==
    LET Begin(i) == Begins(records, records[i].turn)
        UpTo(j) == {i \in places : Begin(i) < Begin(j) \/ (Begin(i) = Begin(j) /\ i <= j)}
    IN  [k \in 1..Cardinality(places) |->
            records[CHOOSE j \in places : Cardinality(UpTo(j)) = k]]

(* build_replay: the summaries that fit the budget, then the newest        *)
(* complete turns that fit what is left of it.                             *)
BuildReplay(records, budget) ==
    LET summaries == Where(records, LAMBDA r : r.kind = "summary")
        shown == SubSeq(summaries, 1, IF Len(summaries) < budget
                                      THEN Len(summaries) ELSE budget)
        turns == CollectCompleteTurns(records)
        Slots(some) == UNION {FilterTurnRecords(records, t) : t \in some}
        From(t) == {u \in turns : Begins(records, u) >= Begins(records, t)}
        fitting == {t \in turns : Cardinality(Slots(From(t))) <= budget - Len(shown)}
    IN  shown \o ByTurn(records, Slots(fitting))

-----------------------------------------------------------------------------
(* Compaction. *)

(* _ordered_recent_turn_ids: the keep turns that began last, compaction    *)
(* turns aside.                                                            *)
LastTurns(sorted, keep) ==
    LET turns == {t \in TurnsOf(sorted) : ~IsCompaction(t)}
    IN  {t \in turns :
            Cardinality({u \in turns : Begins(sorted, u) > Begins(sorted, t)}) < keep}

OrderedRecentTurnIds(chat, keep) == LastTurns(InSequence(chat, DOMAIN chat), keep)

Summaries(records) == Where(records, LAMBDA r : r.kind = "summary")

ChatRecords(records) == Where(records, LAMBDA r : r.kind # "summary")

RecordsToSummarize(records, keep) ==
    LET kept == OrderedRecentTurnIds(ChatRecords(records), keep)
    IN  Where(ChatRecords(records), LAMBDA r : r.turn \notin kept)

KeptRecords(records, keep) ==
    LET kept == OrderedRecentTurnIds(ChatRecords(records), keep)
    IN  Where(ChatRecords(records), LAMBDA r : r.turn \in kept)

(* The file a compaction pass writes from the records it read: earlier     *)
(* summaries, the new one, and the kept turns with their old numbers.      *)
Compacted(records, keep, id) ==
    LET summary == [seq |-> Len(Summaries(records)), turn |-> id, kind |-> "summary",
                    info |-> "", covers |-> TurnsOf(RecordsToSummarize(records, keep))]
    IN  Summaries(records) \o <<summary>> \o KeptRecords(records, keep)

(* _should_compact_session, once the token threshold is reached: enough    *)
(* turns to summarise some and keep the rest.                              *)
EnoughTurns(records, minTurns, keep) ==
    Cardinality({t \in TurnsOf(records) : ~IsCompaction(t)}) >= minTurns + keep

=============================================================================
