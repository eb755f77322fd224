----------------------------- MODULE MemoryStore -----------------------------
(***************************************************************************)
(* The filesystem memory: one markdown file per artifact, JSON indexes     *)
(* over them, and the audit log that makes intents idempotent.             *)
(*                                                                         *)
(* The services are synchronous, so nothing interleaves with a call; but a *)
(* call writes many files one after the other and the process may die      *)
(* between any two of them.  Artifact files are replaced by a rename.      *)
(* Index files are overwritten in place, so a crash may leave one that     *)
(* does not parse (and is then read as empty), and the audit log is        *)
(* appended to, so a crash may leave an unterminated line that swallows    *)
(* the next one.                                                           *)
(*                                                                         *)
(* Of an artifact the model keeps its tags and the intents whose text is   *)
(* in its body.  Entities, and the entity and project indexes, are handled *)
(* like tags; recency is kept without its order.                           *)
(***************************************************************************)
EXTENDS Naturals, Sequences, FiniteSets

CONSTANTS
    Intents,        \* intents with distinct intent_ids
    IntentOf,       \* what each intent asks for: action, type, id, tags, confident
    Types,          \* MEMORY_CATEGORIES
    Ids,            \* memory ids; bound: ids ever generated
    Tags,
    NoId,           \* intent without a memory_id
    DedupEnabled,   \* dedup_enabled
    MaxCrashes      \* bound: crashes

Actions == {"upsert", "delete", "touch"}

IntentRecord == [action : Actions, type : Types, id : Ids \cup {NoId},
                 tags : SUBSET Tags, confident : BOOLEAN]

ASSUME MemoryAssumption ==
    /\ NoId \notin Ids
    /\ "none" \notin Intents /\ "part" \notin Intents
    /\ IntentOf \in [Intents -> IntentRecord]
    /\ \A i \in Intents : IntentOf[i].action # "upsert" => IntentOf[i].id # NoId
    /\ DedupEnabled \in BOOLEAN /\ MaxCrashes \in Nat

Keys == Types \X Ids

(* Index files in the order in which they are written; the manifest only   *)
(* by a rebuild, last.                                                     *)
IndexNames == <<"type", "tag", "recency">>

IndexFiles == {"type", "tag", "recency", "manifest"}

VARIABLES
    files,      \* the artifact of each key, or NoFile
    idx,        \* each index file: its state and its entries <<word, id>>
    audited,    \* intents with a readable line in the audit log
    openLine,   \* an unterminated last line of the log: its intent, "part", or nothing
    seen,       \* _seen_intent_ids
    phase,      \* "idle", "down", or the write under way
    job,        \* the intent being applied and the file it writes
    todo,       \* index files yet to be written by the current call
    used,       \* ids that have been in use (generated ids are fresh)
    crashes,
    \* observation only:
    applied,    \* how often the artifact file of each intent was written
    suspect,    \* artifacts whose index update a crash cut off
    shared      \* ids that two types have used

disk == <<files, idx, audited, openLine>>
process == <<seen, phase, job, todo>>
observed == <<applied, suspect, shared>>
vars == <<disk, process, used, crashes, observed>>

NoFile == [tags |-> {}, body |-> <<>>]

Exists(k) == files[k] # NoFile

NoJob == [intent |-> "none"]

Missing == [state |-> "missing", entries |-> {}]

Corrupt == [state |-> "corrupt", entries |-> {}]

Init ==
    /\ files = [k \in Keys |-> NoFile]
    /\ idx = [n \in IndexFiles |-> Missing]
    /\ audited = {}
    /\ openLine = {}
    /\ seen = {}
    /\ phase = "idle"
    /\ job = NoJob
    /\ todo = <<>>
    /\ used = {}
    /\ crashes = 0
    /\ applied = [i \in Intents |-> 0]
    /\ suspect = {}
    /\ shared = {}

-----------------------------------------------------------------------------
(* Indexes. *)

EntriesOf(name, k, artifact) ==
    CASE name = "type"    -> {<<k[1], k[2]>>}
      [] name = "tag"     -> {<<g, k[2]>> : g \in artifact.tags}
      [] name = "recency" -> {<<"any", k[2]>>}
      [] OTHER            -> {}

IndexesExist == \A i \in DOMAIN IndexNames : idx[IndexNames[i]].state # "missing"

(* remove_artifact and add_artifact load every index (an unreadable one as *)
(* empty) and write every index back.                                      *)
Removed(entries, k, artifact) ==
    [n \in IndexFiles |-> entries[n] \ EntriesOf(n, k, artifact)]

Added(entries, k, artifact) ==
    [n \in IndexFiles |-> entries[n] \cup EntriesOf(n, k, artifact)]

LoadAllIndexes == [n \in IndexFiles |-> idx[n].entries]

WriteIndexes(entries) ==
    [i \in DOMAIN IndexNames |->
        [name |-> IndexNames[i], entries |-> entries[IndexNames[i]]]]

(* build: every artifact file indexed, then the manifest. *)
Scanned(fs) ==
    [n \in IndexFiles |-> UNION {EntriesOf(n, k, fs[k]) : k \in {x \in Keys : fs[x] # NoFile}}]

Build(fs) == WriteIndexes(Scanned(fs)) \o <<[name |-> "manifest", entries |-> {}]>>

(* check_integrity: all files there and readable. *)
CheckIntegrityOfExistence == \A n \in IndexFiles : idx[n].state # "missing"

CheckIntegrity == \A n \in IndexFiles : idx[n].state = "ok"

-----------------------------------------------------------------------------
(* Applying an intent. *)

Overlap(k, tags) == Cardinality(files[k].tags \cap tags)

(* find_dedup_target: the artifacts of the type with the largest overlap   *)
(* (confidence and directory order decide between them).                   *)
DedupTargets(type, tags) ==
    LET overlapping == {k \in Keys : k[1] = type /\ Overlap(k, tags) > 0}
    IN  {k \in overlapping : \A x \in overlapping : Overlap(x, tags) <= Overlap(k, tags)}

MergeArtifact(existing, i) ==
    [tags |-> existing.tags \cup IntentOf[i].tags, body |-> Append(existing.body, i)]

(* The call will write this artifact and these indexes; deleting writes    *)
(* NoFile.                                                                 *)
Stage(i, k, artifact, indexWrites) ==
    /\ job' = [intent |-> i, key |-> k, artifact |-> artifact]
    /\ todo' = indexWrites
    /\ phase' = "file"

(* Index maintenance after an artifact was written: incremental when all   *)
(* indexes exist, the old entries first if it is an update, else a build.  *)
ReindexedKeepingOld(k, artifact) ==
    IF IndexesExist THEN WriteIndexes(Added(LoadAllIndexes, k, artifact))
    ELSE Build([files EXCEPT ![k] = artifact])

Reindexed(k, artifact) ==
    LET removed == Removed(LoadAllIndexes, k, files[k])
    IN  IF ~IndexesExist THEN Build([files EXCEPT ![k] = artifact])
        ELSE IF Exists(k) THEN WriteIndexes(removed) \o WriteIndexes(Added(removed, k, artifact))
        ELSE WriteIndexes(Added(LoadAllIndexes, k, artifact))

(* _upsert: the named artifact is replaced or created; without a name the  *)
(* text is merged into an overlapping artifact or gets a generated id.     *)
UpsertNamed(i) ==
    LET k == <<IntentOf[i].type, IntentOf[i].id>>
        new == [tags |-> IntentOf[i].tags, body |-> <<i>>]
    IN  /\ IntentOf[i].id # NoId
        /\ Stage(i, k, new, Reindexed(k, new))

UpsertUnnamed(i) ==
    LET targets == IF DedupEnabled
                   THEN DedupTargets(IntentOf[i].type, IntentOf[i].tags) ELSE {}
        new == [tags |-> IntentOf[i].tags, body |-> <<i>>]
    IN  /\ IntentOf[i].id = NoId
        /\ \/ \E k \in targets :
                 LET merged == MergeArtifact(files[k], i)
                 IN  Stage(i, k, merged, Reindexed(k, merged))
           \/ /\ targets = {}
              /\ \E id \in Ids \ used :
                    LET k == <<IntentOf[i].type, id>>
                    IN  Stage(i, k, new, Reindexed(k, new))

Upsert(i) ==
    /\ IntentOf[i].action = "upsert" /\ IntentOf[i].confident
    /\ UpsertNamed(i) \/ UpsertUnnamed(i)

(* _delete of an artifact that is there. *)
Delete(i) ==
    LET k == <<IntentOf[i].type, IntentOf[i].id>>
    IN  /\ IntentOf[i].action = "delete" /\ Exists(k)
        /\ Stage(i, k, NoFile,
                 IF IndexesExist THEN WriteIndexes(Removed(LoadAllIndexes, k, files[k]))
                 ELSE <<>>)

(* _touch rewrites the file with a new last_used_at; an absent artifact    *)
(* is rejected and nothing happens.                                        *)
Touch(i) ==
    LET k == <<IntentOf[i].type, IntentOf[i].id>>
    IN  /\ IntentOf[i].action = "touch" /\ Exists(k)
        /\ Stage(i, k, files[k], Reindexed(k, files[k]))

(* Too little confidence, or a delete of what is not there: only audited. *)
Skip(i) ==
    /\ \/ IntentOf[i].action = "upsert" /\ ~IntentOf[i].confident
       \/ IntentOf[i].action = "delete" /\ ~Exists(<<IntentOf[i].type, IntentOf[i].id>>)
    /\ job' = [intent |-> i]
    /\ todo' = <<>>
    /\ phase' = "audit"

(* apply_intent: an intent_id already seen is a no-op. *)
ApplyIntent(i) ==
    /\ phase = "idle"
    /\ i \notin seen
    /\ Upsert(i) \/ Delete(i) \/ Touch(i) \/ Skip(i)
    /\ UNCHANGED <<disk, seen, used, crashes, observed>>

NextPhase == IF todo' # <<>> THEN "index" ELSE IF job' = NoJob THEN "idle" ELSE "audit"

(* atomic_write_text, or unlink. *)
WriteFile ==
    /\ phase = "file"
    /\ files' = [files EXCEPT ![job.key] = job.artifact]
    /\ applied' = [applied EXCEPT ![job.intent] = @ + 1]
    /\ used' = used \cup {job.key[2]}
    /\ shared' = shared \cup {id \in Ids : \E t, u \in Types :
                                 t # u /\ files'[<<t, id>>] # NoFile /\ files'[<<u, id>>] # NoFile}
    /\ UNCHANGED <<job, todo>>
    /\ phase' = NextPhase
    /\ UNCHANGED <<idx, audited, openLine, seen, crashes, suspect>>

(* The next index file is overwritten.  The last one ends the update of    *)
(* the artifact, or of all of them when it is the manifest of a rebuild.   *)
WriteIndex ==
    /\ phase = "index"
    /\ idx' = [idx EXCEPT ![Head(todo).name] = [state |-> "ok", entries |-> Head(todo).entries]]
    /\ todo' = Tail(todo)
    /\ UNCHANGED job
    /\ phase' = NextPhase
    /\ suspect' = CASE Head(todo).name = "manifest" -> {}
                    [] Len(todo) = 1 -> suspect \ {job.key}
                    [] OTHER -> suspect
    /\ UNCHANGED <<files, audited, openLine, seen, used, crashes, applied, shared>>

(* append_audit.  After an unterminated line the new one is lost, and so   *)
(* is that line if it could still be read.                                 *)
AppendAuditOnly ==
    /\ phase = "audit"
    /\ audited' = IF openLine = {} THEN audited \cup {job.intent} ELSE audited \ openLine
    /\ openLine' = {}
    /\ job' = NoJob
    /\ phase' = "idle"
    /\ UNCHANGED <<files, idx, seen, todo, used, crashes, observed>>

AppendAudit ==
    /\ phase = "audit"
    /\ seen' = seen \cup {job.intent}
    /\ audited' = IF openLine = {} THEN audited \cup {job.intent} ELSE audited \ openLine
    /\ openLine' = {}
    /\ job' = NoJob
    /\ phase' = "idle"
    /\ UNCHANGED <<files, idx, todo, used, crashes, observed>>

-----------------------------------------------------------------------------
(* Retrieval, which repairs indexes it finds wanting, and restarts. *)

WithWord(name, words) == {e[2] : e \in {x \in idx[name].entries : x[1] \in words}}

(* _gather_candidates for a query with these tags as hints, or with none. *)
Candidates(tags) ==
    LET hinted == IF tags = {} THEN WithWord("type", Types) ELSE WithWord("tag", tags)
    IN  IF hinted = {} THEN WithWord("recency", {"any"}) ELSE hinted

(* run_consistency_scan: the ids in the indexes are those of the files. *)
IsConsistent ==
    {e[2] : e \in UNION {idx[n].entries : n \in IndexFiles}} = {k[2] : k \in {x \in Keys : Exists(x)}}

StartRebuild ==
    /\ phase' = "index"
    /\ todo' = Build(files)
    /\ UNCHANGED job

(* retrieve: a query that finds no candidate rebuilds indexes that are     *)
(* missing, unreadable or at odds with the files.                          *)
Retrieve(tags) ==
    /\ phase = "idle"
    /\ Candidates(tags) = {}
    /\ \/ ~IndexesExist
       \/ (\E k \in Keys : Exists(k)) /\ (~CheckIntegrity \/ ~IsConsistent)
    /\ StartRebuild
    /\ UNCHANGED <<disk, seen, used, crashes, observed>>

(* The process dies; the write under way may be half done. *)
Crash ==
    /\ phase # "down"
    /\ crashes < MaxCrashes
    /\ crashes' = crashes + 1
    /\ phase' = "down"
    /\ idx' \in {idx} \cup IF phase = "index"
                           THEN {[idx EXCEPT ![Head(todo).name] = Corrupt]} ELSE {}
    /\ \/ UNCHANGED <<audited, openLine>>
       \/ /\ phase = "audit"
          /\ openLine = {}
          /\ \/ openLine' = {"part"} /\ UNCHANGED audited
             \/ openLine' = {job.intent} /\ audited' = audited \cup {job.intent}
       \/ /\ phase = "audit"
          /\ openLine # {}
          /\ openLine' = {"part"}
          /\ audited' = audited \ openLine
    /\ suspect' = suspect \cup IF phase = "index" /\ job # NoJob THEN {job.key} ELSE {}
    /\ job' = NoJob
    /\ todo' = <<>>
    /\ UNCHANGED <<files, seen, used, applied, shared>>

(* The services start again: load_seen_intent_ids and ensure_indexes. *)
RestartForgettingAudit ==
    /\ phase = "down"
    /\ seen' = {}
    /\ IF CheckIntegrity THEN phase' = "idle" /\ UNCHANGED <<job, todo>> ELSE StartRebuild
    /\ UNCHANGED <<disk, used, crashes, observed>>

Restart ==
    /\ phase = "down"
    /\ seen' = audited
    /\ IF CheckIntegrity THEN phase' = "idle" /\ UNCHANGED <<job, todo>> ELSE StartRebuild
    /\ UNCHANGED <<disk, used, crashes, observed>>

Next ==
    \/ \E i \in Intents : ApplyIntent(i)
    \/ WriteFile \/ WriteIndex \/ AppendAudit
    \/ \E tags \in SUBSET Tags : Retrieve(tags)
    \/ Crash \/ Restart

Spec == Init /\ [][Next]_vars

-----------------------------------------------------------------------------
(* Properties. *)

Remembered(k) == {files[k].body[n] : n \in DOMAIN files[k].body}

(* The types, an unreadable index has no entries, and a call has a job     *)
(* exactly while it has something left to write for it.                    *)
TypeOK ==
    /\ \A k \in Keys : files[k].tags \subseteq Tags /\ Remembered(k) \subseteq Intents
    /\ \A n \in IndexFiles : idx[n].state # "ok" => idx[n].entries = {}
    /\ audited \subseteq Intents /\ seen \subseteq Intents
    /\ phase \in {"idle", "file", "index", "audit", "down"}
    /\ (phase \in {"file", "audit"} => job # NoJob) /\ (phase \in {"idle", "down"} => job = NoJob)
    /\ phase = "index" <=> todo # <<>> /\ phase # "file"

(* As long as nothing crashed, the incrementally maintained indexes are    *)
(* what a rebuild from the files would write (for ids that are not used in *)
(* two categories at once, where removing one artifact also removes the    *)
(* entries of the other).                                                  *)
IndexExact ==
    crashes = 0 /\ phase = "idle" /\ IndexesExist =>
        \A n \in IndexFiles : \A id \in Ids \ shared :
            {e \in idx[n].entries : e[2] = id} = {e \in Scanned(files)[n] : e[2] = id}

(* A crash hides at most the artifact being written: every other artifact  *)
(* stays in all indexes, although an index file that was cut off is read   *)
(* as empty and the next update writes back what it read.                  *)
IndexCovers ==
    phase = "idle" /\ IndexesExist =>
        \A k \in Keys \ suspect : Exists(k) /\ k[2] \notin shared =>
            \A n \in IndexFiles : EntriesOf(n, k, files[k]) \subseteq idx[n].entries

(* An intent is applied once, and once more at most for every crash,       *)
(* however often it is submitted again.                                    *)
AppliedOnce == \A i \in Intents : applied[i] <= 1 + crashes

(* An intent with a readable line in the audit log is not applied again,   *)
(* in this process or in a later one.                                      *)
AuditedNotRepeated == [][\A i \in audited : applied'[i] = applied[i]]_vars

=============================================================================
