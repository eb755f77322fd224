-------------------------- MODULE MemoryStoreProofs --------------------------
(***************************************************************************)
(* For every set of intents, categories, ids and tags and any number of    *)
(* crashes: how often an intent is applied, and what the index files hold  *)
(* of the artifact files.                                                  *)
(***************************************************************************)
EXTENDS MemoryStore, TLAPS

(* The call under way is a rebuild or applies an intent not seen before. *)
CallShape ==
    /\ applied \in [Intents -> Nat] /\ crashes \in Nat
    /\ phase \in {"idle", "file", "index", "audit", "down"}
    /\ job = NoJob \/ (job.intent \in Intents /\ job.intent \notin seen)
    /\ phase \in {"file", "audit"} => job # NoJob
    /\ phase \in {"idle", "down"} => job = NoJob

(* What can be read in the log is known to the running service. *)
AuditLoaded == phase # "down" => audited \subseteq seen

(* An intent has used up the applications the crashes allow it only if it  *)
(* is remembered, or is the one whose file has just been written.          *)
AppliedRemembered ==
    \A i \in Intents :
        \/ applied[i] <= crashes
        \/ /\ phase # "down"
           /\ applied[i] <= 1 + crashes
           /\ i \in seen \/ (i = job.intent /\ phase \in {"index", "audit"})

MInv == CallShape /\ AuditLoaded /\ AppliedRemembered

(* A staged call is one for an intent that has not been seen. *)
LEMMA ApplyStages ==
    ASSUME NEW i \in Intents, ApplyIntent(i)
    PROVE  /\ job'.intent = i /\ job' # NoJob
           /\ phase = "idle" /\ i \notin seen
           /\ phase' \in {"file", "audit"}
  <1>a. \A k, a, w : Stage(i, k, a, w) => job'.intent = i /\ phase' = "file"
    BY DEF Stage
  <1>b. Upsert(i) => job'.intent = i /\ phase' = "file"
    BY <1>a, Zenon DEF Upsert, UpsertNamed, UpsertUnnamed
  <1>c. Delete(i) \/ Touch(i) => job'.intent = i /\ phase' = "file"
    BY <1>a, Zenon DEF Delete, Touch
  <1>d. Skip(i) => job'.intent = i /\ phase' = "audit"
    BY DEF Skip
  <1>1. job'.intent = i /\ phase' \in {"file", "audit"}
    BY <1>b, <1>c, <1>d DEF ApplyIntent
  <1>2. job' # NoJob
    BY <1>1, MemoryAssumption DEF NoJob
  <1>3. QED
    BY <1>1, <1>2 DEF ApplyIntent

(* Nothing has been applied, read or begun at the start. *)
LEMMA InitMInv == Init => MInv
  BY DEF Init, MInv, CallShape, AuditLoaded, AppliedRemembered

(* Every step keeps the invariant. *)
LEMMA StepMInv == MInv /\ [Next]_vars => MInv'
  <1> SUFFICES ASSUME MInv, [Next]_vars PROVE MInv'
    OBVIOUS
  <1> USE DEF MInv, CallShape, AuditLoaded, AppliedRemembered
  <1>1. ASSUME NEW i \in Intents, ApplyIntent(i) PROVE MInv'
    <2>1. /\ job'.intent = i /\ job' # NoJob /\ phase = "idle" /\ i \notin seen
          /\ phase' \in {"file", "audit"}
      BY <1>1, ApplyStages
    <2>2. UNCHANGED <<audited, seen, crashes, applied>>
      BY <1>1 DEF ApplyIntent, disk, observed
    <2>3. \A j \in Intents : j \in seen \/ applied[j] <= crashes
      BY <2>1
    <2>4. QED
      BY <2>1, <2>2, <2>3
  <1>2. CASE WriteFile
    <2>1. /\ phase = "file" /\ UNCHANGED <<audited, seen, crashes, job>>
          /\ phase' \in {"index", "audit", "idle"} /\ (phase' = "idle" => job' = NoJob)
          /\ applied' = [applied EXCEPT ![job.intent] = @ + 1]
          /\ phase' = "audit" => job' # NoJob
      BY <1>2 DEF WriteFile, NextPhase
    <2>2. job.intent \in Intents /\ job.intent \notin seen /\ job # NoJob
      BY <2>1
    <2>3. applied[job.intent] <= crashes
      BY <2>1, <2>2
    <2>4. applied' \in [Intents -> Nat] /\ applied'[job.intent] <= 1 + crashes
      BY <2>1, <2>2, <2>3
    <2>5. QED
      BY <2>1, <2>2, <2>4
  <1>3. CASE WriteIndex
    <2>1. /\ phase = "index" /\ UNCHANGED <<audited, seen, crashes, job, applied>>
          /\ phase' \in {"index", "audit", "idle"} /\ (phase' = "idle" => job' = NoJob)
          /\ phase' = "audit" => job' # NoJob
      BY <1>3 DEF WriteIndex, NextPhase
    <2>2. job = NoJob => job.intent \notin Intents
      BY MemoryAssumption DEF NoJob
    <2>3. QED
      BY <2>1, <2>2
  <1>4. CASE AppendAudit
    <2>1. /\ phase = "audit" /\ phase' = "idle" /\ job' = NoJob
          /\ seen' = seen \cup {job.intent}
          /\ audited' \subseteq audited \cup {job.intent}
          /\ UNCHANGED <<crashes, applied>>
      BY <1>4 DEF AppendAudit, observed
    <2>2. QED
      BY <2>1
  <1>5. ASSUME NEW tags \in SUBSET Tags, Retrieve(tags) PROVE MInv'
    BY <1>5 DEF Retrieve, StartRebuild, disk, observed
  <1>6. CASE Crash
    <2>1. /\ phase' = "down" /\ job' = NoJob /\ crashes' = crashes + 1
          /\ UNCHANGED <<applied>>
      BY <1>6 DEF Crash
    <2>2. \A i \in Intents : applied[i] <= crashes + 1
      OBVIOUS
    <2>3. QED
      BY <2>1, <2>2
  <1>7. CASE Restart
    BY <1>7 DEF Restart, StartRebuild, disk, observed
  <1>8. CASE UNCHANGED vars
    BY <1>8 DEF vars, disk, process, observed
  <1>9. QED
    BY <1>1, <1>2, <1>3, <1>4, <1>5, <1>6, <1>7, <1>8 DEF Next

LEMMA MInvariance == Spec => []MInv
  BY InitMInv, StepMInv, PTL DEF Spec

(* apply_intent applies an intent at most once more than the process has   *)
(* crashed, whatever becomes of its audit lines.                           *)
THEOREM AppliedOncePerCrash == Spec => []AppliedOnce
  <1>1. MInv => AppliedOnce
    BY DEF MInv, CallShape, AppliedRemembered, AppliedOnce
  <1>2. QED
    BY <1>1, MInvariance, PTL

(* An intent with a readable audit line is never applied again: the        *)
(* service loads the log when it starts and looks before it writes.        *)
THEOREM AuditedIsFinal == Spec => AuditedNotRepeated
  <1>1. MInv /\ [Next]_vars => [\A i \in audited : applied'[i] = applied[i]]_vars
    <2> SUFFICES ASSUME MInv, Next PROVE \A i \in audited : applied'[i] = applied[i]
      OBVIOUS
    <2> USE DEF MInv, CallShape, AuditLoaded
    <2>1. CASE WriteFile
      <3>1. phase = "file" /\ applied' = [applied EXCEPT ![job.intent] = @ + 1]
        BY <2>1 DEF WriteFile
      <3>2. job.intent \notin audited
        BY <3>1
      <3>3. QED
        BY <3>1, <3>2
    <2>2. CASE ~WriteFile
      BY <2>2 DEF Next, ApplyIntent, WriteIndex, AppendAudit, Retrieve, Crash, Restart, observed
    <2>3. QED
      BY <2>1, <2>2
  <1>2. QED
    BY <1>1, MInvariance, PTL DEF Spec, AuditedNotRepeated

-----------------------------------------------------------------------------
(* The indexes.  A call plans its index writes from what it loads before   *)
(* it writes the artifact, so the invariant speaks of what the index files *)
(* will hold when the plan is carried out, wherever a crash may cut it     *)
(* off.                                                                    *)

Words == Types \cup Tags \cup {"any"}

Artifact == [tags : SUBSET Tags, body : Seq(Intents)]

IndexWrite == [name : IndexFiles, entries : SUBSET (Words \X Ids)]

(* The call under way applies an intent to an artifact, as opposed to a    *)
(* rebuild, and has not finished its index files.                          *)
Updating == phase \in {"file", "index"} /\ job # NoJob

(* The artifacts as they are once the file of the call is written. *)
Target == IF phase = "file" THEN [files EXCEPT ![job.key] = job.artifact] ELSE files

Doubled(fs) ==
    {id \in Ids : \E t, u \in Types : t # u /\ fs[<<t, id>>] # NoFile /\ fs[<<u, id>>] # NoFile}

Rebuilding == todo # <<>> /\ todo[Len(todo)].name = "manifest"

IndexShape ==
    /\ files \in [Keys -> Artifact]
    /\ idx \in [IndexFiles -> [state : {"missing", "corrupt", "ok"},
                               entries : SUBSET (Words \X Ids)]]
    /\ todo \in Seq(IndexWrite)
    /\ \A i \in 1..Len(todo) : todo[i].name = "manifest" => i = Len(todo) /\ todo[i].entries = {}
    /\ idx["manifest"].entries = {}
    /\ phase \in {"idle", "file", "index", "audit", "down"}
    /\ phase = "file" => job # NoJob
    /\ phase = "index" => todo # <<>>
    /\ phase \in {"idle", "audit", "down"} => todo = <<>>
    /\ Updating => job.key \in Keys /\ job.artifact \in Artifact
    /\ phase = "index" /\ job # NoJob => files[job.key] = job.artifact
    /\ phase = "index" /\ job = NoJob => Rebuilding
    /\ Doubled(files) \subseteq shared

(* What index file n will hold when these writes are done: the last of     *)
(* them that is to n, or what it holds now.                                *)
Outcomes(plan, n) ==
    {plan[i].entries : i \in {x \in 1..Len(plan) :
        plan[x].name = n /\ \A j \in x + 1..Len(plan) : plan[j].name # n}}
    \cup {e \in {idx[n].entries} : \A i \in 1..Len(plan) : plan[i].name # n}

Named(n) == \E i \in 1..Len(todo) : todo[i].name = n

(* While a process runs, an unreadable index file is about to be written. *)
Repaired == phase # "down" => \A n \in IndexFiles : idx[n].state = "corrupt" => Named(n)

Lone(k) == files[k] # NoFile /\ k[2] \notin shared /\ k \notin suspect

(* The readable index files, and those to be written, have the artifacts   *)
(* no crash has cut off, the one being updated aside.                      *)
Indexed ==
    \A k \in Keys : Lone(k) /\ ~(phase = "index" /\ job # NoJob /\ k = job.key) =>
        \A n \in IndexFiles :
            idx[n].state = "ok" => EntriesOf(n, k, files[k]) \subseteq idx[n].entries

PlannedFor ==
    \A k \in Keys : Lone(k) /\ ~(Updating /\ k = job.key) =>
        \A i \in 1..Len(todo) : EntriesOf(todo[i].name, k, files[k]) \subseteq todo[i].entries

(* The update of an artifact ends with the artifact in every index. *)
Completes ==
    Updating /\ job.artifact # NoFile =>
        \A n \in IndexFiles : \A es \in Outcomes(todo, n) :
            EntriesOf(n, job.key, job.artifact) \subseteq es

(* A rebuild ends with every artifact in every index. *)
RebuildsAll ==
    Rebuilding =>
        \A k \in Keys : Target[k] # NoFile =>
            \A n \in IndexFiles : \A es \in Outcomes(todo, n) : EntriesOf(n, k, Target[k]) \subseteq es

(* Before the first crash there are no indexes yet, or those there will be *)
(* are what a rebuild would write.                                         *)
OfId(entries, id) == {e \in entries : e[2] = id}

ExactFor(n, es) ==
    \A id \in Ids \ (shared \cup Doubled(Target)) : OfId(es, id) = OfId(Scanned(Target)[n], id)

Blank == todo = <<>> /\ \A n \in IndexFiles : idx[n].state = "missing"

Exact ==
    crashes = 0 =>
        \/ Blank
        \/ \A n \in IndexFiles :
              /\ n # "manifest" /\ idx[n].state = "missing" => Named(n)
              /\ \A es \in Outcomes(todo, n) : ExactFor(n, es)

IndexInv ==
    /\ IndexShape /\ Repaired /\ Indexed /\ PlannedFor /\ Completes /\ RebuildsAll /\ Exact

-----------------------------------------------------------------------------
(* Entries and plans.                                                      *)

(* An entry of an artifact ends with its id. *)
LEMMA EntryFacts ==
    ASSUME NEW n \in IndexFiles, NEW k \in Keys, NEW a \in Artifact
    PROVE  /\ EntriesOf(n, k, a) \in SUBSET (Words \X Ids)
           /\ \A e \in EntriesOf(n, k, a) : e[2] = k[2]
           /\ n = "manifest" => EntriesOf(n, k, a) = {}
  BY DEF EntriesOf, IndexFiles, Keys, Artifact, Words

LEMMA ScannedFacts ==
    ASSUME NEW fs \in [Keys -> Artifact]
    PROVE  /\ Scanned(fs) \in [IndexFiles -> SUBSET (Words \X Ids)]
           /\ Scanned(fs)["manifest"] = {}
           /\ \A n \in IndexFiles : \A e :
                 e \in Scanned(fs)[n] <=>
                    \E k \in Keys : fs[k] # NoFile /\ e \in EntriesOf(n, k, fs[k])
  <1>1. "manifest" \in IndexFiles /\ \A k \in Keys : fs[k] \in Artifact
    BY DEF IndexFiles
  <1>2. \A n \in IndexFiles : \A e :
           e \in Scanned(fs)[n] <=> \E k \in Keys : fs[k] # NoFile /\ e \in EntriesOf(n, k, fs[k])
    BY DEF Scanned
  <1>3. \A n \in IndexFiles : Scanned(fs)[n] \subseteq Words \X Ids
    BY <1>1, <1>2, EntryFacts
  <1>4. Scanned(fs)["manifest"] = {}
    BY <1>1, <1>2, EntryFacts
  <1>5. Scanned(fs) = [n \in IndexFiles |-> Scanned(fs)[n]]
    BY DEF Scanned
  <1> QED BY <1>2, <1>3, <1>4, <1>5

LEMMA PlanFacts ==
    ASSUME NEW E \in [IndexFiles -> SUBSET (Words \X Ids)]
    PROVE  /\ WriteIndexes(E) \in Seq(IndexWrite)
           /\ Len(WriteIndexes(E)) = 3
           /\ WriteIndexes(E)[1] = [name |-> "type", entries |-> E["type"]]
           /\ WriteIndexes(E)[2] = [name |-> "tag", entries |-> E["tag"]]
           /\ WriteIndexes(E)[3] = [name |-> "recency", entries |-> E["recency"]]
  <1>1. /\ DOMAIN IndexNames = 1..3 /\ IndexNames[1] = "type" /\ IndexNames[2] = "tag"
        /\ IndexNames[3] = "recency"
    BY DEF IndexNames
  <1>2. \A i \in 1..3 : IndexNames[i] \in IndexFiles
    BY <1>1 DEF IndexFiles
  <1>3. WriteIndexes(E) = [i \in 1..3 |-> [name |-> IndexNames[i], entries |-> E[IndexNames[i]]]]
    BY <1>1 DEF WriteIndexes
  <1>4. \A i \in 1..3 : [name |-> IndexNames[i], entries |-> E[IndexNames[i]]] \in IndexWrite
    BY <1>2 DEF IndexWrite
  <1>5. WriteIndexes(E) \in Seq(IndexWrite) /\ Len(WriteIndexes(E)) = 3
    BY <1>3, <1>4
  <1> QED BY <1>1, <1>3, <1>5

(* One plan after another. *)
LEMMA Joined ==
    ASSUME NEW d \in Seq(IndexWrite), NEW e \in Seq(IndexWrite)
    PROVE  /\ d \o e \in Seq(IndexWrite) /\ Len(d \o e) = Len(d) + Len(e)
           /\ \A i \in 1..Len(d) : (d \o e)[i] = d[i]
           /\ \A i \in 1..Len(e) : (d \o e)[Len(d) + i] = e[i]
  OBVIOUS

(* What a plan amounts to, read off its end. *)
LEMMA OutcomeIs ==
    ASSUME NEW p \in Seq(IndexWrite), NEW n, NEW es \in Outcomes(p, n)
    PROVE  \/ \E i \in 1..Len(p) : /\ p[i].name = n /\ p[i].entries = es
                                   /\ \A j \in i + 1..Len(p) : p[j].name # n
           \/ es = idx[n].entries /\ \A i \in 1..Len(p) : p[i].name # n
  BY DEF Outcomes

(* The three kinds of plans: one round of writes, two, a rebuild. *)
LEMMA OnceOutcomes ==
    ASSUME NEW E \in [IndexFiles -> SUBSET (Words \X Ids)], NEW n \in IndexFiles,
           NEW es \in Outcomes(WriteIndexes(E), n)
    PROVE  es = IF n = "manifest" THEN idx[n].entries ELSE E[n]
  <1>p. PICK p : p = WriteIndexes(E) OBVIOUS
  <1>1. /\ p \in Seq(IndexWrite) /\ Len(p) = 3
        /\ p[1] = [name |-> "type", entries |-> E["type"]]
        /\ p[2] = [name |-> "tag", entries |-> E["tag"]]
        /\ p[3] = [name |-> "recency", entries |-> E["recency"]]
    BY <1>p, PlanFacts
  <1>2. \/ \E i \in 1..Len(p) : /\ p[i].name = n /\ p[i].entries = es
                                /\ \A j \in i + 1..Len(p) : p[j].name # n
        \/ es = idx[n].entries /\ \A i \in 1..Len(p) : p[i].name # n
    <2>1. p \in Seq(IndexWrite) /\ es \in Outcomes(p, n)
      BY <1>p, <1>1
    <2> QED BY <2>1, OutcomeIs
  <1> QED BY <1>1, <1>2 DEF IndexFiles

LEMMA TwiceFacts ==
    ASSUME NEW D \in [IndexFiles -> SUBSET (Words \X Ids)],
           NEW E \in [IndexFiles -> SUBSET (Words \X Ids)]
    PROVE  LET p == WriteIndexes(D) \o WriteIndexes(E)
           IN  /\ p \in Seq(IndexWrite) /\ Len(p) = 6
               /\ p[1] = [name |-> "type", entries |-> D["type"]]
               /\ p[2] = [name |-> "tag", entries |-> D["tag"]]
               /\ p[3] = [name |-> "recency", entries |-> D["recency"]]
               /\ p[4] = [name |-> "type", entries |-> E["type"]]
               /\ p[5] = [name |-> "tag", entries |-> E["tag"]]
               /\ p[6] = [name |-> "recency", entries |-> E["recency"]]
               /\ \A n \in IndexFiles : \A es \in Outcomes(p, n) :
                     es = IF n = "manifest" THEN idx[n].entries ELSE E[n]
  <1>d. PICK d : d = WriteIndexes(D) OBVIOUS
  <1>e. PICK e : e = WriteIndexes(E) OBVIOUS
  <1>p. PICK p : p = d \o e OBVIOUS
  <1>1. /\ d \in Seq(IndexWrite) /\ Len(d) = 3 /\ e \in Seq(IndexWrite) /\ Len(e) = 3
        /\ d[1] = [name |-> "type", entries |-> D["type"]]
        /\ d[2] = [name |-> "tag", entries |-> D["tag"]]
        /\ d[3] = [name |-> "recency", entries |-> D["recency"]]
        /\ e[1] = [name |-> "type", entries |-> E["type"]]
        /\ e[2] = [name |-> "tag", entries |-> E["tag"]]
        /\ e[3] = [name |-> "recency", entries |-> E["recency"]]
    BY <1>d, <1>e, PlanFacts
  <1>2. /\ p \in Seq(IndexWrite) /\ Len(p) = Len(d) + Len(e)
        /\ \A i \in 1..Len(d) : p[i] = d[i]
        /\ \A i \in 1..Len(e) : p[Len(d) + i] = e[i]
    <2>1. d \in Seq(IndexWrite) /\ e \in Seq(IndexWrite)
      BY <1>1
    <2> QED BY <1>p, <2>1, Joined
  <1>3. /\ p[1] = d[1] /\ p[2] = d[2] /\ p[3] = d[3] /\ p[4] = e[1] /\ p[5] = e[2] /\ p[6] = e[3]
        /\ Len(p) = 6
    <2>1. p[3 + 1] = e[1] /\ p[3 + 2] = e[2] /\ p[3 + 3] = e[3]
      BY <1>1, <1>2
    <2> QED BY <1>1, <1>2, <2>1
  <1>4. ASSUME NEW n \in IndexFiles, NEW es \in Outcomes(p, n)
        PROVE  es = IF n = "manifest" THEN idx[n].entries ELSE E[n]
    <2>1. \/ \E i \in 1..Len(p) : /\ p[i].name = n /\ p[i].entries = es
                                  /\ \A j \in i + 1..Len(p) : p[j].name # n
          \/ es = idx[n].entries /\ \A i \in 1..Len(p) : p[i].name # n
      BY <1>2, <1>4, OutcomeIs
    <2> QED BY <1>1, <1>2, <1>3, <2>1 DEF IndexFiles
  <1> QED BY <1>d, <1>e, <1>p, <1>1, <1>2, <1>3, <1>4

LEMMA BuildFacts ==
    ASSUME NEW fs \in [Keys -> Artifact]
    PROVE  /\ Build(fs) \in Seq(IndexWrite) /\ Len(Build(fs)) = 4
           /\ Build(fs)[1] = [name |-> "type", entries |-> Scanned(fs)["type"]]
           /\ Build(fs)[2] = [name |-> "tag", entries |-> Scanned(fs)["tag"]]
           /\ Build(fs)[3] = [name |-> "recency", entries |-> Scanned(fs)["recency"]]
           /\ Build(fs)[4] = [name |-> "manifest", entries |-> {}]
           /\ \A n \in IndexFiles : \A es \in Outcomes(Build(fs), n) : es = Scanned(fs)[n]
  <1>d. PICK d : d = WriteIndexes(Scanned(fs)) OBVIOUS
  <1>m. PICK m : m = [name |-> "manifest", entries |-> {}] OBVIOUS
  <1>1. /\ d \in Seq(IndexWrite) /\ Len(d) = 3
        /\ d[1] = [name |-> "type", entries |-> Scanned(fs)["type"]]
        /\ d[2] = [name |-> "tag", entries |-> Scanned(fs)["tag"]]
        /\ d[3] = [name |-> "recency", entries |-> Scanned(fs)["recency"]]
    BY <1>d, PlanFacts, ScannedFacts
  <1>2. m \in IndexWrite
    BY <1>m DEF IndexWrite, IndexFiles
  <1>e. PICK e : e = <<m>> OBVIOUS
  <1>p. PICK p : p = d \o e OBVIOUS
  <1>3. Build(fs) = p /\ Scanned(fs)["manifest"] = {}
    BY <1>d, <1>m, <1>e, <1>p, ScannedFacts DEF Build
  <1>4. /\ p \in Seq(IndexWrite) /\ Len(p) = Len(d) + Len(e) /\ Len(e) = 1 /\ e[1] = m
        /\ \A i \in 1..Len(d) : p[i] = d[i]
        /\ \A i \in 1..Len(e) : p[Len(d) + i] = e[i]
    <2>1. e \in Seq(IndexWrite) /\ Len(e) = 1 /\ e[1] = m
      BY <1>2, <1>e
    <2>2. d \in Seq(IndexWrite)
      BY <1>1
    <2>3. /\ p \in Seq(IndexWrite) /\ Len(p) = Len(d) + Len(e)
          /\ \A i \in 1..Len(d) : p[i] = d[i]
          /\ \A i \in 1..Len(e) : p[Len(d) + i] = e[i]
      <3>1. e \in Seq(IndexWrite) BY <2>1
      <3> QED BY <1>p, <2>2, <3>1, Joined
    <2> QED BY <2>1, <2>3
  <1>5. p[1] = d[1] /\ p[2] = d[2] /\ p[3] = d[3] /\ p[4] = m /\ Len(p) = 4
    <2>1. p[3 + 1] = e[1]
      BY <1>1, <1>4
    <2> QED BY <1>1, <1>4, <2>1
  <1>6. ASSUME NEW n \in IndexFiles, NEW es \in Outcomes(p, n)
        PROVE  es = Scanned(fs)[n]
    <2>1. \/ \E i \in 1..Len(p) : /\ p[i].name = n /\ p[i].entries = es
                                  /\ \A j \in i + 1..Len(p) : p[j].name # n
          \/ es = idx[n].entries /\ \A i \in 1..Len(p) : p[i].name # n
      BY <1>4, <1>6, OutcomeIs
    <2>2. p[4].name = "manifest" /\ p[4].entries = {}
      BY <1>5, <1>m
    <2>3. /\ p[1].name = "type" /\ p[2].name = "tag" /\ p[3].name = "recency"
          /\ p[1].entries = Scanned(fs)["type"] /\ p[2].entries = Scanned(fs)["tag"]
          /\ p[3].entries = Scanned(fs)["recency"] /\ Len(p) = 4
      BY <1>1, <1>5
    <2> QED BY <1>3, <2>1, <2>2, <2>3 DEF IndexFiles
  <1> QED BY <1>m, <1>1, <1>3, <1>4, <1>5, <1>6

-----------------------------------------------------------------------------
(* The plan of a call.                                                     *)

(* What the plan of a call that writes artifact a at key k, after which    *)
(* the files are fs, has to do.                                            *)
PlanFor(k, a, fs, w) ==
    /\ w \in Seq(IndexWrite)
    /\ \A i \in 1..Len(w) : w[i].name = "manifest" => i = Len(w) /\ w[i].entries = {}
    /\ \A x \in Keys : Lone(x) /\ x # k =>
          \A i \in 1..Len(w) : EntriesOf(w[i].name, x, files[x]) \subseteq w[i].entries
    /\ a # NoFile => \A n \in IndexFiles : \A es \in Outcomes(w, n) : EntriesOf(n, k, a) \subseteq es
    /\ w # <<>> /\ w[Len(w)].name = "manifest" =>
          \A x \in Keys : fs[x] # NoFile =>
             \A n \in IndexFiles : \A es \in Outcomes(w, n) : EntriesOf(n, x, fs[x]) \subseteq es
    /\ crashes = 0 =>
          \/ w = <<>> /\ \A n \in IndexFiles : idx[n].state = "missing"
          \/ \A n \in IndexFiles :
                /\ n # "manifest" /\ idx[n].state = "missing" => \E i \in 1..Len(w) : w[i].name = n
                /\ \A es \in Outcomes(w, n) : \A id \in Ids \ (shared \cup Doubled(fs)) :
                      OfId(es, id) = OfId(Scanned(fs)[n], id)

(* Between two calls. *)
LEMMA IdleFacts ==
    ASSUME IndexInv, phase = "idle"
    PROVE  /\ todo = <<>>
           /\ \A n \in IndexFiles : idx[n].state # "corrupt"
           /\ \A n \in IndexFiles : idx[n].entries \in Outcomes(todo, n)
           /\ IndexesExist => \A n \in IndexFiles \ {"manifest"} : idx[n].state = "ok"
           /\ crashes = 0 /\ IndexesExist =>
                 \A n \in IndexFiles : \A id \in Ids \ shared :
                    OfId(idx[n].entries, id) = OfId(Scanned(files)[n], id)
           /\ crashes = 0 /\ ~IndexesExist => \A n \in IndexFiles : idx[n].state = "missing"
  <1> USE DEF IndexInv
  <1>1. todo = <<>> /\ Len(todo) = 0
    BY DEF IndexShape
  <1>2. \A n \in IndexFiles : idx[n].state # "corrupt" /\ ~Named(n)
    BY <1>1 DEF Repaired, Named
  <1>3. \A n \in IndexFiles : idx[n].entries \in Outcomes(todo, n)
    BY <1>1 DEF Outcomes
  <1>4. IndexesExist <=> \A n \in IndexFiles \ {"manifest"} : idx[n].state # "missing"
    BY DEF IndexesExist, IndexNames, IndexFiles
  <1>5. IndexesExist => \A n \in IndexFiles \ {"manifest"} : idx[n].state = "ok"
    BY <1>2, <1>4 DEF IndexShape
  <1>6. Target = files /\ Doubled(files) \subseteq shared
    BY DEF Target, IndexShape
  <1>7. ASSUME crashes = 0, IndexesExist, NEW n \in IndexFiles, NEW id \in Ids \ shared
        PROVE  OfId(idx[n].entries, id) = OfId(Scanned(files)[n], id)
    <2>1. ~Blank
      BY <1>4, <1>7 DEF Blank, IndexFiles
    <2>2. ExactFor(n, idx[n].entries)
      BY <1>3, <1>7, <2>1 DEF Exact
    <2> QED BY <1>6, <1>7, <2>2 DEF ExactFor
  <1>8. ASSUME crashes = 0, ~IndexesExist
        PROVE  \A n \in IndexFiles : idx[n].state = "missing"
    BY <1>2, <1>4, <1>8 DEF Exact, Blank
  <1> QED BY <1>1, <1>2, <1>3, <1>5, <1>7, <1>8

(* An id used in one category belongs to one artifact. *)
LEMMA OneOwner ==
    ASSUME NEW fs \in [Keys -> Artifact], NEW k \in Keys, fs[k] # NoFile,
           k[2] \notin Doubled(fs), NEW x \in Keys, x[2] = k[2], fs[x] # NoFile
    PROVE  x = k
  BY DEF Doubled, Keys

(* gs is fs with artifact a at key k. *)
With(gs, fs, k, a) ==
    gs \in [Keys -> Artifact] /\ gs[k] = a /\ \A x \in Keys : x # k => gs[x] = fs[x]

(* An incremental update leaves exact indexes exact. *)
LEMMA UpdateExact ==
    ASSUME NEW fs \in [Keys -> Artifact], NEW k \in Keys, NEW a \in Artifact,
           NEW n \in IndexFiles, NEW id \in Ids, NEW old, NEW new,
           NEW gs, With(gs, fs, k, a),
           id \notin Doubled(fs), id \notin Doubled(gs),
           OfId(old, id) = OfId(Scanned(fs)[n], id),
           new = (old \ IF fs[k] # NoFile THEN EntriesOf(n, k, fs[k]) ELSE {})
                 \cup IF a # NoFile THEN EntriesOf(n, k, a) ELSE {}
    PROVE  OfId(new, id) = OfId(Scanned(gs)[n], id)
  <1>1. /\ gs \in [Keys -> Artifact] /\ gs[k] = a
        /\ \A x \in Keys : x # k => gs[x] = fs[x]
        /\ fs[k] \in Artifact
    BY DEF With
  <1>2. /\ \A e \in EntriesOf(n, k, a) : e[2] = k[2]
        /\ \A x \in Keys : /\ \A e \in EntriesOf(n, x, fs[x]) : e[2] = x[2]
                           /\ \A e \in EntriesOf(n, x, gs[x]) : e[2] = x[2]
    BY <1>1, EntryFacts
  <1>3. \A e : e \in Scanned(fs)[n] <=>
                 \E x \in Keys : fs[x] # NoFile /\ e \in EntriesOf(n, x, fs[x])
    BY ScannedFacts
  <1>4. \A e : e \in Scanned(gs)[n] <=>
                 \E x \in Keys : gs[x] # NoFile /\ e \in EntriesOf(n, x, gs[x])
    BY <1>1, ScannedFacts
  <1>5. CASE id # k[2]
    <2>1. OfId(new, id) = OfId(old, id)
      BY <1>2, <1>5 DEF OfId
    <2>2. OfId(Scanned(gs)[n], id) = OfId(Scanned(fs)[n], id)
      <3>1. ASSUME NEW e, e[2] = id
            PROVE  e \in Scanned(gs)[n] <=> e \in Scanned(fs)[n]
        BY <1>1, <1>2, <1>3, <1>4, <1>5, <3>1
      <3> QED BY <3>1 DEF OfId
    <2> QED BY <2>1, <2>2
  <1>6. CASE id = k[2]
    <2>1. ASSUME NEW x \in Keys, x # k, x[2] = id, fs[x] # NoFile
          PROVE  fs[k] = NoFile /\ a = NoFile
      <3>1. gs[x] # NoFile
        BY <1>1, <2>1
      <3>2. fs[k] = NoFile
        BY <1>6, <2>1, OneOwner
      <3>3. k[2] \notin Doubled(gs) /\ x[2] = k[2]
        BY <1>6, <2>1
      <3>4. gs[k] = NoFile
        BY <1>1, <2>1, <3>1, <3>3, OneOwner
      <3> QED BY <1>1, <3>2, <3>4
    <2>2. CASE fs[k] = NoFile /\ a = NoFile
      <3>1. \A x \in Keys : gs[x] # NoFile <=> fs[x] # NoFile
        BY <1>1, <2>2
      <3>2. \A e : e \in Scanned(gs)[n] <=> e \in Scanned(fs)[n]
        BY <1>1, <1>3, <1>4, <2>2, <3>1
      <3>3. new = old
        BY <2>2
      <3> QED BY <3>2, <3>3 DEF OfId
    <2>3. CASE ~(fs[k] = NoFile /\ a = NoFile)
      <3>1. \A e : e \in OfId(Scanned(fs)[n], id) <=> fs[k] # NoFile /\ e \in EntriesOf(n, k, fs[k])
        BY <1>2, <1>3, <1>6, <2>1, <2>3 DEF OfId
      <3>2. \A e : e \in OfId(Scanned(gs)[n], id) <=> a # NoFile /\ e \in EntriesOf(n, k, a)
        <4>1. ASSUME NEW x \in Keys, gs[x] # NoFile, x[2] = id
              PROVE  x = k
          BY <1>1, <2>1, <2>3, <4>1
        <4>2. \A e : e \in Scanned(gs)[n] /\ e[2] = id <=> a # NoFile /\ e \in EntriesOf(n, k, a)
          BY <1>1, <1>2, <1>4, <1>6, <4>1
        <4> QED BY <4>2 DEF OfId
      <3>3. \A e : e \in OfId(new, id) <=> a # NoFile /\ e \in EntriesOf(n, k, a)
        <4>1. \A e : e \in OfId(old, id) <=> fs[k] # NoFile /\ e \in EntriesOf(n, k, fs[k])
          BY <3>1
        <4>2. \A e : e \in new <=> \/ e \in old /\ ~(fs[k] # NoFile /\ e \in EntriesOf(n, k, fs[k]))
                                   \/ a # NoFile /\ e \in EntriesOf(n, k, a)
          OBVIOUS
        <4> QED BY <1>2, <1>6, <4>1, <4>2 DEF OfId
      <3>4. OfId(new, id) = OfId(Scanned(gs)[n], id)
        BY <3>2, <3>3 DEF OfId
      <3> QED BY <3>4
    <2> QED BY <2>2, <2>3
  <1> QED BY <1>5, <1>6

(* A rebuild serves every purpose. *)
LEMMA BuildPlan ==
    ASSUME IndexInv, NEW k \in Keys, NEW a \in Artifact, NEW gs, With(gs, files, k, a)
    PROVE  PlanFor(k, a, gs, Build(gs))
  <1>1. /\ gs \in [Keys -> Artifact] /\ gs[k] = a
        /\ \A x \in Keys : x # k => gs[x] = files[x]
    BY DEF With
  <1>w. PICK w : w = Build(gs) OBVIOUS
  <1>2. /\ w \in Seq(IndexWrite) /\ Len(w) = 4
        /\ w[1] = [name |-> "type", entries |-> Scanned(gs)["type"]]
        /\ w[2] = [name |-> "tag", entries |-> Scanned(gs)["tag"]]
        /\ w[3] = [name |-> "recency", entries |-> Scanned(gs)["recency"]]
        /\ w[4] = [name |-> "manifest", entries |-> {}]
        /\ \A n \in IndexFiles : \A es \in Outcomes(w, n) : es = Scanned(gs)[n]
    BY <1>1, <1>w, BuildFacts
  <1>3. /\ \A i \in 1..4 : w[i].name \in IndexFiles /\ w[i].entries = Scanned(gs)[w[i].name]
        /\ \A i \in 1..4 : w[i].name = "manifest" => i = 4
        /\ \A n \in IndexFiles : \E i \in 1..4 : w[i].name = n
    <2>1. Scanned(gs)["manifest"] = {}
      BY <1>1, ScannedFacts
    <2>2. /\ w[1].name = "type" /\ w[2].name = "tag" /\ w[3].name = "recency" /\ w[4].name = "manifest"
          /\ w[1].entries = Scanned(gs)["type"] /\ w[2].entries = Scanned(gs)["tag"]
          /\ w[3].entries = Scanned(gs)["recency"] /\ w[4].entries = {}
      BY <1>2
    <2>3. \A i \in 1..4 : i = 1 \/ i = 2 \/ i = 3 \/ i = 4
      OBVIOUS
    <2>4. \A i \in 1..4 : w[i].name \in IndexFiles /\ w[i].entries = Scanned(gs)[w[i].name]
      BY <2>1, <2>2, <2>3 DEF IndexFiles
    <2>5. \A i \in 1..4 : w[i].name = "manifest" => i = 4
      BY <2>2, <2>3
    <2>6. \A n \in IndexFiles : \E i \in 1..4 : w[i].name = n
      BY <2>2 DEF IndexFiles
    <2> QED BY <2>4, <2>5, <2>6
  <1>4. \A x \in Keys : gs[x] # NoFile => \A n \in IndexFiles : EntriesOf(n, x, gs[x]) \subseteq Scanned(gs)[n]
    BY <1>1, ScannedFacts
  <1>5. \A i \in 1..Len(w) : w[i].name = "manifest" => i = Len(w) /\ w[i].entries = {}
    BY <1>2, <1>3
  <1>6. \A x \in Keys : Lone(x) /\ x # k =>
           \A i \in 1..Len(w) : EntriesOf(w[i].name, x, files[x]) \subseteq w[i].entries
    <2>1. Len(w) = 4 /\ \A x \in Keys : Lone(x) /\ x # k => gs[x] # NoFile /\ gs[x] = files[x]
      BY <1>1, <1>2 DEF Lone
    <2> QED BY <1>3, <1>4, <2>1
  <1>7. \A x \in Keys : gs[x] # NoFile =>
           \A n \in IndexFiles : \A es \in Outcomes(w, n) : EntriesOf(n, x, gs[x]) \subseteq es
    BY <1>2, <1>4
  <1>8. \A n \in IndexFiles :
           /\ \E i \in 1..Len(w) : w[i].name = n
           /\ \A es \in Outcomes(w, n) : \A id \in Ids \ (shared \cup Doubled(gs)) :
                 OfId(es, id) = OfId(Scanned(gs)[n], id)
    BY <1>2, <1>3
  <1>9. a # NoFile => \A n \in IndexFiles : \A es \in Outcomes(w, n) : EntriesOf(n, k, a) \subseteq es
    BY <1>1, <1>7
  <1>10. w \in Seq(IndexWrite)
    BY <1>2
  <1>11. PlanFor(k, a, gs, w)
    BY <1>5, <1>6, <1>7, <1>8, <1>9, <1>10, Zenon DEF PlanFor
  <1> QED BY <1>w, <1>11

(* The indexes as loaded, with the entries of one artifact removed and     *)
(* those of its new form added.                                            *)
LEMMA LoadedFacts ==
    ASSUME IndexInv, phase = "idle", IndexesExist, NEW k \in Keys, NEW a \in Artifact,
           NEW gs, With(gs, files, k, a)
    PROVE  LET removed == Removed(LoadAllIndexes, k, files[k])
               changed == IF Exists(k) THEN removed ELSE LoadAllIndexes
               final == IF a # NoFile THEN Added(changed, k, a) ELSE changed
           IN  /\ removed \in [IndexFiles -> SUBSET (Words \X Ids)]
               /\ changed \in [IndexFiles -> SUBSET (Words \X Ids)]
               /\ final \in [IndexFiles -> SUBSET (Words \X Ids)]
               /\ \A x \in Keys : Lone(x) /\ x # k =>
                     \A n \in IndexFiles \ {"manifest"} :
                        /\ EntriesOf(n, x, files[x]) \subseteq changed[n]
                        /\ EntriesOf(n, x, files[x]) \subseteq final[n]
               /\ a # NoFile => \A n \in IndexFiles : EntriesOf(n, k, a) \subseteq final[n]
               /\ crashes = 0 =>
                     \A n \in IndexFiles :
                        \A id \in Ids \ (shared \cup Doubled(gs)) :
                           OfId(final[n], id) = OfId(Scanned(gs)[n], id)
  <1> DEFINE removed == Removed(LoadAllIndexes, k, files[k])
             changed == IF Exists(k) THEN removed ELSE LoadAllIndexes
             final == IF a # NoFile THEN Added(changed, k, a) ELSE changed
  <1>0. /\ files \in [Keys -> Artifact] /\ files[k] \in Artifact /\ Doubled(files) \subseteq shared
        /\ idx \in [IndexFiles -> [state : {"missing", "corrupt", "ok"},
                                   entries : SUBSET (Words \X Ids)]]
    BY DEF IndexInv, IndexShape
  <1>1. LoadAllIndexes \in [IndexFiles -> SUBSET (Words \X Ids)]
    BY <1>0 DEF LoadAllIndexes
  <1>2. removed \in [IndexFiles -> SUBSET (Words \X Ids)]
    BY <1>1 DEF Removed
  <1>3. changed \in [IndexFiles -> SUBSET (Words \X Ids)]
    BY <1>1, <1>2
  <1>4. \A n \in IndexFiles :
           /\ changed[n] = idx[n].entries \ IF files[k] # NoFile THEN EntriesOf(n, k, files[k]) ELSE {}
           /\ final[n] = changed[n] \cup IF a # NoFile THEN EntriesOf(n, k, a) ELSE {}
    BY DEF Removed, Added, LoadAllIndexes, Exists
  <1>5. final \in [IndexFiles -> SUBSET (Words \X Ids)]
    <2>1. CASE a # NoFile
      <3>1. \A n \in IndexFiles : EntriesOf(n, k, a) \in SUBSET (Words \X Ids)
        BY EntryFacts
      <3>2. Added(changed, k, a) \in [IndexFiles -> SUBSET (Words \X Ids)]
        BY <1>3, <3>1 DEF Added
      <3> QED BY <2>1, <3>2
    <2> QED BY <1>3, <2>1
  <1> HIDE DEF removed, changed, final
  <1>6. ASSUME NEW x \in Keys, Lone(x), x # k, NEW n \in IndexFiles \ {"manifest"}
        PROVE  EntriesOf(n, x, files[x]) \subseteq changed[n] /\ EntriesOf(n, x, files[x]) \subseteq final[n]
    <2>1. EntriesOf(n, x, files[x]) \subseteq idx[n].entries
      <3>1. idx[n].state = "ok"
        BY IdleFacts
      <3> QED BY <1>6, <3>1 DEF IndexInv, Indexed
    <2>2. files[k] # NoFile => x[2] # k[2]
      <3>1. files[x] # NoFile /\ x[2] \notin shared
        BY <1>6 DEF Lone
      <3> QED BY <1>0, <1>6, <3>1, OneOwner
    <2>3. /\ \A e \in EntriesOf(n, k, files[k]) : e[2] = k[2]
          /\ \A e \in EntriesOf(n, x, files[x]) : e[2] = x[2]
      BY <1>0, EntryFacts
    <2> QED BY <1>4, <2>1, <2>2, <2>3
  <1>7. a # NoFile => \A n \in IndexFiles : EntriesOf(n, k, a) \subseteq final[n]
    BY <1>4
  <1>8. ASSUME crashes = 0, NEW n \in IndexFiles,
               NEW id \in Ids \ (shared \cup Doubled(gs))
        PROVE  OfId(final[n], id) = OfId(Scanned(gs)[n], id)
    <2>1. OfId(idx[n].entries, id) = OfId(Scanned(files)[n], id)
      BY <1>8, IdleFacts
    <2>2. final[n] = (idx[n].entries \ IF files[k] # NoFile THEN EntriesOf(n, k, files[k]) ELSE {})
                     \cup IF a # NoFile THEN EntriesOf(n, k, a) ELSE {}
      BY <1>4
    <2>3. id \notin Doubled(files)
      BY <1>0
    <2>4. id \notin Doubled(gs) /\ id \in Ids
      OBVIOUS
    <2>5. PICK old : old = idx[n].entries OBVIOUS
    <2>6. PICK new : new = final[n] OBVIOUS
    <2>7. OfId(new, id) = OfId(Scanned(gs)[n], id)
      <3>1. OfId(old, id) = OfId(Scanned(files)[n], id)
        BY <2>1, <2>5
      <3>2. new = (old \ IF files[k] # NoFile THEN EntriesOf(n, k, files[k]) ELSE {})
                  \cup IF a # NoFile THEN EntriesOf(n, k, a) ELSE {}
        BY <2>2, <2>5, <2>6
      <3>3. files \in [Keys -> Artifact]
        BY <1>0
      <3> QED BY <2>3, <2>4, <3>1, <3>2, <3>3, UpdateExact
    <2> QED BY <2>6, <2>7
  <1> QED BY <1>2, <1>3, <1>5, <1>6, <1>7, <1>8 DEF removed, changed, final

(* Rounds of writes that keep the other artifacts and end in the right     *)
(* entries are what an update needs.                                       *)
LEMMA IncrementalPlan ==
    ASSUME IndexInv, phase = "idle", IndexesExist,
           NEW k \in Keys, NEW a \in Artifact, NEW gs, With(gs, files, k, a),
           NEW changed, NEW final, NEW w \in Seq(IndexWrite), w # <<>>, w[Len(w)].name # "manifest",
           \A x \in Keys : Lone(x) /\ x # k =>
              \A n \in IndexFiles \ {"manifest"} :
                 /\ EntriesOf(n, x, files[x]) \subseteq changed[n]
                 /\ EntriesOf(n, x, files[x]) \subseteq final[n],
           a # NoFile => \A n \in IndexFiles : EntriesOf(n, k, a) \subseteq final[n],
           crashes = 0 =>
              \A n \in IndexFiles : \A id \in Ids \ (shared \cup Doubled(gs)) :
                 OfId(final[n], id) = OfId(Scanned(gs)[n], id),
           \A i \in 1..Len(w) :
              /\ w[i].name \in IndexFiles \ {"manifest"}
              /\ w[i].entries = changed[w[i].name] \/ w[i].entries = final[w[i].name],
           \A n \in IndexFiles : \A es \in Outcomes(w, n) :
              es = IF n = "manifest" THEN idx[n].entries ELSE final[n]
    PROVE  PlanFor(k, a, gs, w)
  <1>1. \A i \in 1..Len(w) : w[i].name = "manifest" => i = Len(w) /\ w[i].entries = {}
    OBVIOUS
  <1>2. \A x \in Keys : Lone(x) /\ x # k =>
           \A i \in 1..Len(w) : EntriesOf(w[i].name, x, files[x]) \subseteq w[i].entries
    OBVIOUS
  <1>3. a # NoFile => \A n \in IndexFiles : \A es \in Outcomes(w, n) : EntriesOf(n, k, a) \subseteq es
    BY EntryFacts
  <1>4. ASSUME crashes = 0, NEW n \in IndexFiles
        PROVE  /\ n # "manifest" /\ idx[n].state = "missing" => \E i \in 1..Len(w) : w[i].name = n
               /\ \A es \in Outcomes(w, n) : \A id \in Ids \ (shared \cup Doubled(gs)) :
                     OfId(es, id) = OfId(Scanned(gs)[n], id)
    <2>1. n # "manifest" => idx[n].state # "missing"
      BY IdleFacts
    <2>2. CASE n = "manifest"
      <3>1. gs \in [Keys -> Artifact] /\ idx["manifest"].entries = {}
        BY DEF With, IndexInv, IndexShape
      <3>2. Scanned(gs)[n] = {}
        BY <2>2, <3>1, ScannedFacts
      <3>3. \A es \in Outcomes(w, n) : es = {}
        BY <2>2, <3>1
      <3> QED BY <2>2, <3>2, <3>3
    <2>3. CASE n # "manifest"
      <3>1. \A es \in Outcomes(w, n) : es = final[n]
        BY <2>3
      <3> QED BY <1>4, <2>1, <3>1
    <2> QED BY <2>2, <2>3
  <1> QED BY <1>1, <1>2, <1>3, <1>4 DEF PlanFor

(* The rounds of writes of an update: entries without the old artifact, if *)
(* there was one, then the final ones.                                     *)
RoundsOf(w, D, E) ==
    /\ w \in Seq(IndexWrite) /\ w # <<>> /\ w[Len(w)].name # "manifest"
    /\ \A i \in 1..Len(w) :
          /\ w[i].name \in IndexFiles \ {"manifest"}
          /\ w[i].entries = D[w[i].name] \/ w[i].entries = E[w[i].name]
    /\ \A n \in IndexFiles : \A es \in Outcomes(w, n) :
          es = IF n = "manifest" THEN idx[n].entries ELSE E[n]

LEMMA Rounds ==
    ASSUME NEW D \in [IndexFiles -> SUBSET (Words \X Ids)],
           NEW E \in [IndexFiles -> SUBSET (Words \X Ids)],
           NEW w, w = WriteIndexes(D) \o WriteIndexes(E) \/ w = WriteIndexes(E)
    PROVE  RoundsOf(w, D, E)
  <1> USE DEF RoundsOf
  <1>1. CASE w = WriteIndexes(D) \o WriteIndexes(E)
    <2>1. /\ w \in Seq(IndexWrite) /\ Len(w) = 6
          /\ w[1] = [name |-> "type", entries |-> D["type"]]
          /\ w[2] = [name |-> "tag", entries |-> D["tag"]]
          /\ w[3] = [name |-> "recency", entries |-> D["recency"]]
          /\ w[4] = [name |-> "type", entries |-> E["type"]]
          /\ w[5] = [name |-> "tag", entries |-> E["tag"]]
          /\ w[6] = [name |-> "recency", entries |-> E["recency"]]
      BY <1>1, TwiceFacts
    <2>2. \A n \in IndexFiles : \A es \in Outcomes(w, n) :
             es = IF n = "manifest" THEN idx[n].entries ELSE E[n]
      BY <1>1, TwiceFacts
    <2>3. /\ w[1].name = "type" /\ w[2].name = "tag" /\ w[3].name = "recency"
          /\ w[4].name = "type" /\ w[5].name = "tag" /\ w[6].name = "recency"
          /\ w[1].entries = D["type"] /\ w[2].entries = D["tag"] /\ w[3].entries = D["recency"]
          /\ w[4].entries = E["type"] /\ w[5].entries = E["tag"] /\ w[6].entries = E["recency"]
      BY <2>1
    <2>4. w \in Seq(IndexWrite) /\ Len(w) = 6
      BY <2>1
    <2>5. w # <<>> /\ w[Len(w)].name # "manifest"
      BY <2>3, <2>4
    <2>6. \A i \in 1..6 : i = 1 \/ i = 2 \/ i = 3 \/ i = 4 \/ i = 5 \/ i = 6
      OBVIOUS
    <2>7. \A i \in 1..6 :
             /\ w[i].name \in IndexFiles \ {"manifest"}
             /\ w[i].entries = D[w[i].name] \/ w[i].entries = E[w[i].name]
      BY <2>3, <2>6 DEF IndexFiles
    <2> QED BY <2>2, <2>4, <2>5, <2>7
  <1>2. CASE w = WriteIndexes(E)
    <2>1. /\ w \in Seq(IndexWrite) /\ Len(w) = 3
          /\ w[1] = [name |-> "type", entries |-> E["type"]]
          /\ w[2] = [name |-> "tag", entries |-> E["tag"]]
          /\ w[3] = [name |-> "recency", entries |-> E["recency"]]
      BY <1>2, PlanFacts
    <2>2. \A n \in IndexFiles : \A es \in Outcomes(w, n) :
             es = IF n = "manifest" THEN idx[n].entries ELSE E[n]
      BY <1>2, OnceOutcomes
    <2>3. /\ w[1].name = "type" /\ w[2].name = "tag" /\ w[3].name = "recency"
          /\ w[1].entries = E["type"] /\ w[2].entries = E["tag"] /\ w[3].entries = E["recency"]
      BY <2>1
    <2>4. w \in Seq(IndexWrite) /\ Len(w) = 3
      BY <2>1
    <2>5. w # <<>> /\ w[Len(w)].name # "manifest"
      BY <2>3, <2>4
    <2>6. \A i \in 1..3 : i = 1 \/ i = 2 \/ i = 3
      OBVIOUS
    <2>7. \A i \in 1..3 :
             /\ w[i].name \in IndexFiles \ {"manifest"}
             /\ w[i].entries = D[w[i].name] \/ w[i].entries = E[w[i].name]
      BY <2>3, <2>6 DEF IndexFiles
    <2> QED BY <2>2, <2>4, <2>5, <2>7
  <1> QED BY <1>1, <1>2

(* Reindexed plans what an update of an artifact needs. *)
LEMMA UpdatePlan ==
    ASSUME IndexInv, phase = "idle", IndexesExist, NEW k \in Keys, NEW a \in Artifact, a # NoFile,
           NEW gs, With(gs, files, k, a)
    PROVE  PlanFor(k, a, gs, Reindexed(k, a))
  <1>c. PICK changed : changed = IF Exists(k) THEN Removed(LoadAllIndexes, k, files[k])
                                 ELSE LoadAllIndexes
    OBVIOUS
  <1>f. PICK final : final = Added(changed, k, a) OBVIOUS
  <1>1. /\ changed \in [IndexFiles -> SUBSET (Words \X Ids)]
        /\ final \in [IndexFiles -> SUBSET (Words \X Ids)]
    BY <1>c, <1>f, LoadedFacts
  <1>2. \A x \in Keys : Lone(x) /\ x # k =>
           \A n \in IndexFiles \ {"manifest"} :
              /\ EntriesOf(n, x, files[x]) \subseteq changed[n]
              /\ EntriesOf(n, x, files[x]) \subseteq final[n]
    BY <1>c, <1>f, LoadedFacts
  <1>3. \A n \in IndexFiles : EntriesOf(n, k, a) \subseteq final[n]
    BY <1>c, <1>f, LoadedFacts
  <1>4. crashes = 0 =>
           \A n \in IndexFiles : \A id \in Ids \ (shared \cup Doubled(gs)) :
              OfId(final[n], id) = OfId(Scanned(gs)[n], id)
    BY <1>c, <1>f, LoadedFacts
  <1>w. PICK w : w = Reindexed(k, a) OBVIOUS
  <1>5. w = WriteIndexes(changed) \o WriteIndexes(final) \/ w = WriteIndexes(final)
    BY <1>c, <1>f, <1>w DEF Reindexed
  <1>6. /\ w \in Seq(IndexWrite) /\ w # <<>> /\ w[Len(w)].name # "manifest"
        /\ \A i \in 1..Len(w) :
              /\ w[i].name \in IndexFiles \ {"manifest"}
              /\ w[i].entries = changed[w[i].name] \/ w[i].entries = final[w[i].name]
        /\ \A n \in IndexFiles : \A es \in Outcomes(w, n) :
              es = IF n = "manifest" THEN idx[n].entries ELSE final[n]
    <2>1. RoundsOf(w, changed, final)
      BY <1>1, <1>5, Rounds, Zenon
    <2> QED BY <2>1, Zenon DEF RoundsOf
  <1>7. PlanFor(k, a, gs, w)
    BY <1>2, <1>3, <1>4, <1>6, IncrementalPlan
  <1> QED BY <1>w, <1>7

LEMMA ReindexedPlan ==
    ASSUME IndexInv, phase = "idle", NEW k \in Keys, NEW a \in Artifact, a # NoFile,
           NEW gs, With(gs, files, k, a), gs = [files EXCEPT ![k] = a]
    PROVE  PlanFor(k, a, gs, Reindexed(k, a))
  <1>1. CASE ~IndexesExist
    <2>1. Reindexed(k, a) = Build(gs)
      BY <1>1 DEF Reindexed
    <2> QED BY <2>1, BuildPlan
  <1>2. CASE IndexesExist
    BY <1>2, UpdatePlan, Zenon
  <1> QED BY <1>1, <1>2

(* A delete leaves the rest in the indexes; without indexes it leaves them *)
(* to a later rebuild.                                                     *)
LEMMA DeletePlan ==
    ASSUME IndexInv, phase = "idle", NEW k \in Keys, Exists(k),
           NEW gs, With(gs, files, k, NoFile),
           NEW w, w = IF IndexesExist THEN WriteIndexes(Removed(LoadAllIndexes, k, files[k]))
                      ELSE <<>>
    PROVE  PlanFor(k, NoFile, gs, w)
  <1>0. NoFile \in Artifact
    BY DEF NoFile, Artifact
  <1>1. CASE ~IndexesExist
    <2>1. w = <<>> /\ Len(w) = 0 /\ w \in Seq(IndexWrite)
      BY <1>1
    <2>2. crashes = 0 => \A n \in IndexFiles : idx[n].state = "missing"
      BY <1>1, IdleFacts
    <2> QED BY <2>1, <2>2 DEF PlanFor
  <1>2. CASE IndexesExist
    <2> DEFINE removed == Removed(LoadAllIndexes, k, files[k])
    <2>1. /\ removed \in [IndexFiles -> SUBSET (Words \X Ids)]
          /\ \A x \in Keys : Lone(x) /\ x # k =>
                \A n \in IndexFiles \ {"manifest"} : EntriesOf(n, x, files[x]) \subseteq removed[n]
          /\ crashes = 0 =>
                \A n \in IndexFiles : \A id \in Ids \ (shared \cup Doubled(gs)) :
                   OfId(removed[n], id) = OfId(Scanned(gs)[n], id)
      BY <1>0, <1>2, LoadedFacts
    <2>2. w = WriteIndexes(removed)
      BY <1>2
    <2> HIDE DEF removed
    <2>3. /\ w \in Seq(IndexWrite) /\ Len(w) = 3
          /\ w[1] = [name |-> "type", entries |-> removed["type"]]
          /\ w[2] = [name |-> "tag", entries |-> removed["tag"]]
          /\ w[3] = [name |-> "recency", entries |-> removed["recency"]]
      BY <2>1, <2>2, PlanFacts
    <2>4. \A i \in 1..3 : i = 1 \/ i = 2 \/ i = 3
      OBVIOUS
    <2>5. \A i \in 1..3 : w[i].name \in IndexFiles \ {"manifest"} /\ w[i].entries = removed[w[i].name]
      BY <2>3, <2>4 DEF IndexFiles
    <2>6. \A n \in IndexFiles : \A es \in Outcomes(w, n) :
             es = IF n = "manifest" THEN idx[n].entries ELSE removed[n]
      BY <2>1, <2>2, OnceOutcomes
    <2>7. /\ \A i \in 1..Len(w) :
                /\ w[i].name \in IndexFiles \ {"manifest"}
                /\ w[i].entries = removed[w[i].name] \/ w[i].entries = removed[w[i].name]
          /\ w # <<>> /\ w[Len(w)].name # "manifest"
      BY <2>3, <2>5
    <2> QED BY <1>0, <1>2, <2>1, <2>3, <2>6, <2>7, IncrementalPlan
  <1> QED BY <1>1, <1>2

-----------------------------------------------------------------------------
(* The steps.                                                              *)

(* A call begins with a plan that does what it has to do. *)
LEMMA StageStep ==
    ASSUME IndexInv, phase = "idle", NEW i \in Intents, NEW k \in Keys, NEW a \in Artifact,
           NEW w, NEW gs, gs = [files EXCEPT ![k] = a], PlanFor(k, a, gs, w),
           Stage(i, k, a, w), UNCHANGED <<files, idx, suspect, shared, crashes>>
    PROVE  IndexInv'
  <1>1. /\ job'.intent = i /\ job'.key = k /\ job'.artifact = a
        /\ todo' = w /\ phase' = "file"
    BY DEF Stage
  <1>2. job' # NoJob
    BY <1>1, MemoryAssumption DEF NoJob
  <1>3. /\ files' = files /\ idx' = idx /\ suspect' = suspect /\ shared' = shared
        /\ crashes' = crashes
    OBVIOUS
  <1>4. Target' = gs
    BY <1>1, <1>3 DEF Target
  <1>5. \A n : Outcomes(todo, n)' = Outcomes(w, n)
    BY <1>1, <1>3 DEF Outcomes
  <1>6. \A x : Lone(x)' <=> Lone(x)
    BY <1>3 DEF Lone
  <1>7. IndexShape'
    <2>1. w \in Seq(IndexWrite) /\ \A j \in 1..Len(w) : w[j].name = "manifest" => j = Len(w) /\ w[j].entries = {}
      BY DEF PlanFor
    <2>2. Doubled(files)' = Doubled(files)
      BY <1>3 DEF Doubled
    <2>3. /\ files \in [Keys -> Artifact]
          /\ idx \in [IndexFiles -> [state : {"missing", "corrupt", "ok"},
                                     entries : SUBSET (Words \X Ids)]]
          /\ idx["manifest"].entries = {} /\ Doubled(files) \subseteq shared
      BY DEF IndexInv, IndexShape
    <2> QED BY <1>1, <1>2, <1>3, <2>1, <2>2, <2>3, Zenon DEF IndexShape, Updating
  <1>8. Repaired'
    BY <1>3, IdleFacts DEF Repaired
  <1>9. Indexed'
    BY <1>1, <1>3, <1>6 DEF IndexInv, Indexed
  <1>10. PlannedFor'
    BY <1>1, <1>2, <1>3, <1>6, Zenon DEF PlannedFor, Updating, PlanFor
  <1>11. Completes'
    <2>1. a # NoFile => \A n \in IndexFiles : \A es \in Outcomes(w, n) : EntriesOf(n, k, a) \subseteq es
      BY DEF PlanFor
    <2> QED BY <1>1, <1>5, <2>1 DEF Completes
  <1>12. RebuildsAll'
    <2>1. w # <<>> /\ w[Len(w)].name = "manifest" =>
             \A x \in Keys : gs[x] # NoFile =>
                \A n \in IndexFiles : \A es \in Outcomes(w, n) : EntriesOf(n, x, gs[x]) \subseteq es
      BY DEF PlanFor
    <2> QED BY <1>1, <1>4, <1>5, <2>1 DEF RebuildsAll, Rebuilding
  <1>13. Exact'
    <2>1. crashes = 0 =>
             \/ w = <<>> /\ \A n \in IndexFiles : idx[n].state = "missing"
             \/ \A n \in IndexFiles :
                   /\ n # "manifest" /\ idx[n].state = "missing" => \E j \in 1..Len(w) : w[j].name = n
                   /\ \A es \in Outcomes(w, n) : \A id \in Ids \ (shared \cup Doubled(gs)) :
                         OfId(es, id) = OfId(Scanned(gs)[n], id)
      BY DEF PlanFor
    <2>2. \A n : Named(n)' <=> \E j \in 1..Len(w) : w[j].name = n
      BY <1>1 DEF Named
    <2>3. \A n, es : ExactFor(n, es)' <=> \A id \in Ids \ (shared \cup Doubled(gs)) :
                                            OfId(es, id) = OfId(Scanned(gs)[n], id)
      BY <1>3, <1>4 DEF ExactFor, Doubled, Scanned
    <2>4. Blank' <=> w = <<>> /\ \A n \in IndexFiles : idx[n].state = "missing"
      BY <1>1, <1>3 DEF Blank
    <2>5. ASSUME crashes = 0, ~Blank', NEW n \in IndexFiles
          PROVE  /\ n # "manifest" /\ idx'[n].state = "missing" => Named(n)'
                 /\ \A es \in Outcomes(todo, n)' : ExactFor(n, es)'
      <3>1. n # "manifest" /\ idx[n].state = "missing" => \E j \in 1..Len(w) : w[j].name = n
        BY <2>1, <2>4, <2>5
      <3>2. \A es \in Outcomes(w, n) : \A id \in Ids \ (shared \cup Doubled(gs)) :
               OfId(es, id) = OfId(Scanned(gs)[n], id)
        BY <2>1, <2>4, <2>5
      <3>3. \A es \in Outcomes(w, n) : ExactFor(n, es)'
        BY <2>3, <3>2, Zenon
      <3> QED BY <1>3, <1>5, <2>2, <3>1, <3>3, Zenon
    <2> QED BY <1>3, <2>5, Zenon DEF Exact
  <1> QED BY <1>7, <1>8, <1>9, <1>10, <1>11, <1>12, <1>13 DEF IndexInv

LEMMA WithFacts ==
    ASSUME IndexInv, NEW k \in Keys, NEW a \in Artifact, NEW gs, gs = [files EXCEPT ![k] = a]
    PROVE  With(gs, files, k, a)
  BY DEF IndexInv, IndexShape, With

LEMMA ReindexStep ==
    ASSUME IndexInv, phase = "idle", NEW i \in Intents, NEW k \in Keys, NEW a \in Artifact,
           a # NoFile, Stage(i, k, a, Reindexed(k, a)),
           UNCHANGED <<files, idx, suspect, shared, crashes>>
    PROVE  IndexInv'
  <1>g. PICK gs : gs = [files EXCEPT ![k] = a] OBVIOUS
  <1>w. PICK w : w = Reindexed(k, a) OBVIOUS
  <1>1. With(gs, files, k, a)
    BY <1>g, WithFacts
  <1>2. PlanFor(k, a, gs, w)
    BY <1>g, <1>w, <1>1, ReindexedPlan
  <1>3. Stage(i, k, a, w)
    BY <1>w
  <1> QED BY <1>g, <1>2, <1>3, StageStep

LEMMA DeleteStep ==
    ASSUME IndexInv, phase = "idle", NEW i \in Intents, NEW k \in Keys, Exists(k),
           Stage(i, k, NoFile, IF IndexesExist THEN WriteIndexes(Removed(LoadAllIndexes, k, files[k]))
                               ELSE <<>>),
           UNCHANGED <<files, idx, suspect, shared, crashes>>
    PROVE  IndexInv'
  <1>g. PICK gs : gs = [files EXCEPT ![k] = NoFile] OBVIOUS
  <1>w. PICK w : w = IF IndexesExist THEN WriteIndexes(Removed(LoadAllIndexes, k, files[k]))
                     ELSE <<>>
    OBVIOUS
  <1>0. NoFile \in Artifact
    BY DEF NoFile, Artifact
  <1>1. With(gs, files, k, NoFile)
    BY <1>g, <1>0, WithFacts
  <1>2. PlanFor(k, NoFile, gs, w)
    BY <1>w, <1>1, DeletePlan
  <1>3. Stage(i, k, NoFile, w)
    BY <1>w
  <1> QED BY <1>g, <1>0, <1>2, <1>3, StageStep

(* Steps that write no file and plan nothing. *)
LEMMA QuietStep ==
    ASSUME IndexInv, phase \in {"idle", "audit", "down"}, phase' \in {"idle", "audit", "down"},
           phase = "down" => \A n \in IndexFiles : idx[n].state # "corrupt",
           todo' = todo, UNCHANGED <<files, idx, suspect, shared, crashes>>
    PROVE  IndexInv'
  <1>1. todo = <<>> /\ todo' = <<>> /\ Len(todo') = 0
    BY DEF IndexInv, IndexShape
  <1>2. /\ files' = files /\ idx' = idx /\ suspect' = suspect /\ shared' = shared
        /\ crashes' = crashes
    OBVIOUS
  <1>3. Target' = files /\ Target = files
    BY <1>2 DEF Target
  <1>4. \A n : Outcomes(todo, n)' = Outcomes(todo, n)
    BY <1>1, <1>2 DEF Outcomes
  <1>5. \A x : Lone(x)' <=> Lone(x)
    BY <1>2 DEF Lone
  <1>6. ~Updating' /\ ~Rebuilding'
    BY <1>1 DEF Updating, Rebuilding
  <1>7. IndexShape'
    <2>1. Doubled(files)' = Doubled(files)
      BY <1>2 DEF Doubled
    <2> QED BY <1>1, <1>2, <1>6, <2>1 DEF IndexInv, IndexShape
  <1>8. Repaired'
    BY <1>1, <1>2 DEF IndexInv, Repaired, Named
  <1>9. Indexed'
    BY <1>2, <1>5 DEF IndexInv, Indexed
  <1>10. PlannedFor'
    BY <1>1 DEF PlannedFor
  <1>11. Completes' /\ RebuildsAll'
    BY <1>6 DEF Completes, RebuildsAll
  <1>12. Exact'
    <2>1. \A n : Named(n)' <=> Named(n)
      BY <1>1 DEF Named
    <2>2. \A n, es : ExactFor(n, es)' <=> ExactFor(n, es)
      BY <1>2, <1>3 DEF ExactFor, Doubled, Scanned
    <2>3. Blank' <=> Blank
      BY <1>1, <1>2 DEF Blank
    <2> QED BY <1>2, <1>4, <2>1, <2>2, <2>3 DEF Exact, IndexInv
  <1> QED BY <1>7, <1>8, <1>9, <1>10, <1>11, <1>12 DEF IndexInv

(* An intent is applied. *)
LEMMA ApplyStep ==
    ASSUME IndexInv, NEW i \in Intents, ApplyIntent(i)
    PROVE  IndexInv'
  <1>1. /\ phase = "idle" /\ files' = files /\ idx' = idx /\ suspect' = suspect
        /\ shared' = shared /\ crashes' = crashes
    BY DEF ApplyIntent, disk, observed
  <1>2. /\ IntentOf[i].type \in Types /\ IntentOf[i].tags \in SUBSET Tags
        /\ IntentOf[i].id \in Ids \cup {NoId} /\ IntentOf[i].action \in Actions
        /\ IntentOf[i].action # "upsert" => IntentOf[i].id # NoId
    BY MemoryAssumption DEF IntentRecord
  <1>n. PICK new : new = [tags |-> IntentOf[i].tags, body |-> <<i>>] OBVIOUS
  <1>3. new \in Artifact /\ new # NoFile
    BY <1>2, <1>n DEF Artifact, NoFile
  <1>4. ASSUME UpsertNamed(i) PROVE IndexInv'
    <2>k. PICK k : k = <<IntentOf[i].type, IntentOf[i].id>> OBVIOUS
    <2>1. k \in Keys /\ Stage(i, k, new, Reindexed(k, new))
      BY <1>2, <1>n, <1>4, <2>k DEF UpsertNamed, Keys
    <2> QED BY <1>1, <1>3, <2>1, ReindexStep
  <1>5. ASSUME UpsertUnnamed(i) PROVE IndexInv'
    <2>1. ASSUME NEW k \in Keys, Stage(i, k, MergeArtifact(files[k], i), Reindexed(k, MergeArtifact(files[k], i)))
          PROVE  IndexInv'
      <3>m. PICK merged : merged = MergeArtifact(files[k], i) OBVIOUS
      <3>1. files[k] \in Artifact
        BY DEF IndexInv, IndexShape
      <3>2. files[k].tags \in SUBSET Tags /\ files[k].body \in Seq(Intents)
        BY <3>1 DEF Artifact
      <3>3. Append(files[k].body, i) \in Seq(Intents) /\ Append(files[k].body, i) # <<>>
        BY <3>2
      <3>4. merged \in Artifact /\ merged # NoFile
        BY <1>2, <3>m, <3>2, <3>3 DEF MergeArtifact, Artifact, NoFile
      <3> QED BY <1>1, <2>1, <3>m, <3>4, ReindexStep
    <2>2. ASSUME NEW id \in Ids, Stage(i, <<IntentOf[i].type, id>>, new, Reindexed(<<IntentOf[i].type, id>>, new))
          PROVE  IndexInv'
      <3>k. PICK k : k = <<IntentOf[i].type, id>> OBVIOUS
      <3>1. k \in Keys /\ Stage(i, k, new, Reindexed(k, new))
        BY <1>2, <2>2, <3>k DEF Keys
      <3> QED BY <1>1, <1>3, <3>1, ReindexStep
    <2>3. DedupTargets(IntentOf[i].type, IntentOf[i].tags) \subseteq Keys
      BY DEF DedupTargets
    <2> QED BY <1>n, <1>5, <2>1, <2>2, <2>3, Zenon DEF UpsertUnnamed
  <1>6. ASSUME Delete(i) PROVE IndexInv'
    <2>k. PICK k : k = <<IntentOf[i].type, IntentOf[i].id>> OBVIOUS
    <2>1. k \in Keys /\ Exists(k)
          /\ Stage(i, k, NoFile, IF IndexesExist THEN WriteIndexes(Removed(LoadAllIndexes, k, files[k]))
                                 ELSE <<>>)
      BY <1>2, <1>6, <2>k DEF Delete, Keys
    <2> QED BY <1>1, <2>1, DeleteStep
  <1>7. ASSUME Touch(i) PROVE IndexInv'
    <2>k. PICK k : k = <<IntentOf[i].type, IntentOf[i].id>> OBVIOUS
    <2>1. k \in Keys /\ Exists(k) /\ Stage(i, k, files[k], Reindexed(k, files[k]))
      BY <1>2, <1>7, <2>k DEF Touch, Keys
    <2>2. files[k] \in Artifact /\ files[k] # NoFile
      BY <2>1 DEF Exists, IndexInv, IndexShape
    <2> QED BY <1>1, <2>1, <2>2, ReindexStep
  <1>8. ASSUME Skip(i) PROVE IndexInv'
    <2>1. todo' = todo /\ phase' = "audit"
      BY <1>1, <1>8 DEF Skip, IndexInv, IndexShape
    <2> QED BY <1>1, <2>1, QuietStep
  <1> QED BY <1>4, <1>5, <1>6, <1>7, <1>8 DEF ApplyIntent, Upsert

(* The artifact file is written. *)
LEMMA FileStep ==
    ASSUME IndexInv, WriteFile
    PROVE  IndexInv'
  <1>0. /\ phase = "file" /\ todo' = todo /\ job' = job /\ idx' = idx /\ suspect' = suspect
        /\ crashes' = crashes /\ files' = [files EXCEPT ![job.key] = job.artifact]
        /\ phase' = IF todo # <<>> THEN "index" ELSE IF job = NoJob THEN "idle" ELSE "audit"
    BY DEF WriteFile, NextPhase
  <1>1. job # NoJob /\ job.key \in Keys /\ job.artifact \in Artifact
    BY <1>0 DEF IndexInv, IndexShape, Updating
  <1>2. /\ phase' = "index" <=> todo # <<>>
        /\ phase' = "audit" <=> todo = <<>>
        /\ Updating /\ (Updating' <=> todo # <<>>)
    BY <1>0, <1>1 DEF Updating
  <1>3. With(files', files, job.key, job.artifact)
    BY <1>0, <1>1 DEF With, IndexInv, IndexShape
  <1>4. Target = files' /\ Target' = files'
    BY <1>0, <1>2 DEF Target
  <1>5. shared' = shared \cup Doubled(files') /\ Doubled(files)' = Doubled(files')
    BY DEF WriteFile, Doubled
  <1>6. \A n : Outcomes(todo, n)' = Outcomes(todo, n)
    BY <1>0 DEF Outcomes
  <1>7. \A x \in Keys : Lone(x)' /\ x # job.key => Lone(x) /\ files'[x] = files[x]
    BY <1>0, <1>3, <1>5 DEF Lone, With
  <1>8. IndexShape'
    <2>1. /\ files' \in [Keys -> Artifact] /\ files'[job.key] = job.artifact
      BY <1>3 DEF With
    <2>2. /\ idx \in [IndexFiles -> [state : {"missing", "corrupt", "ok"},
                                     entries : SUBSET (Words \X Ids)]]
          /\ todo \in Seq(IndexWrite)
          /\ \A i \in 1..Len(todo) : todo[i].name = "manifest" => i = Len(todo) /\ todo[i].entries = {}
          /\ idx["manifest"].entries = {}
      BY DEF IndexInv, IndexShape
    <2>3. Doubled(files)' \subseteq shared'
      BY <1>5
    <2>4. phase' \in {"index", "audit"} /\ phase' # "file"
      BY <1>0, <1>1
    <2> QED BY <1>0, <1>1, <1>2, <2>1, <2>2, <2>3, <2>4 DEF IndexShape
  <1>9. Repaired'
    BY <1>0 DEF IndexInv, Repaired, Named
  <1>10. Indexed'
    <2> SUFFICES ASSUME NEW k \in Keys, Lone(k)', ~(phase' = "index" /\ k = job.key),
                        NEW n \in IndexFiles, idx[n].state = "ok"
                 PROVE  EntriesOf(n, k, files'[k]) \subseteq idx[n].entries
      BY <1>0, <1>1 DEF Indexed
    <2>1. CASE k # job.key
      BY <1>0, <1>7, <2>1 DEF IndexInv, Indexed
    <2>2. CASE k = job.key
      <3>1. todo = <<>> /\ files'[k] = job.artifact
        BY <1>2, <1>3, <2>2 DEF With
      <3>2. idx[n].entries \in Outcomes(todo, n)
        BY <3>1 DEF Outcomes
      <3>3. job.artifact # NoFile
        BY <3>1 DEF Lone
      <3> QED BY <1>2, <2>2, <3>1, <3>2, <3>3 DEF IndexInv, Completes
    <2> QED BY <2>1, <2>2
  <1>11. PlannedFor'
    <2> SUFFICES ASSUME NEW k \in Keys, Lone(k)', ~(Updating' /\ k = job.key),
                        NEW i \in 1..Len(todo)
                 PROVE  EntriesOf(todo[i].name, k, files'[k]) \subseteq todo[i].entries
      BY <1>0 DEF PlannedFor
    <2>1. todo # <<>>
      OBVIOUS
    <2>2. k # job.key
      BY <1>2, <2>1
    <2> QED BY <1>7, <2>2 DEF IndexInv, PlannedFor
  <1>12. Completes'
    BY <1>0, <1>2, <1>6 DEF IndexInv, Completes
  <1>13. RebuildsAll'
    BY <1>0, <1>4, <1>6 DEF IndexInv, RebuildsAll, Rebuilding
  <1>14. Exact'
    <2>1. \A n : Named(n)' <=> Named(n)
      BY <1>0 DEF Named
    <2>2. shared' \cup Doubled(Target)' = shared \cup Doubled(Target)
      BY <1>4, <1>5 DEF Doubled
    <2>3. \A n, es : ExactFor(n, es)' <=> ExactFor(n, es)
      <3>1. Scanned(Target)' = Scanned(Target)
        BY <1>4 DEF Scanned
      <3> QED BY <2>2, <3>1 DEF ExactFor
    <2>4. Blank' <=> Blank
      BY <1>0 DEF Blank
    <2> QED BY <1>0, <1>6, <2>1, <2>3, <2>4 DEF Exact, IndexInv
  <1> QED BY <1>8, <1>9, <1>10, <1>11, <1>12, <1>13, <1>14 DEF IndexInv

LEMMA TailFacts ==
    ASSUME NEW p \in Seq(IndexWrite), p # <<>>
    PROVE  /\ Tail(p) \in Seq(IndexWrite) /\ Len(p) \in Nat /\ Len(p) > 0
           /\ Len(Tail(p)) = Len(p) - 1 /\ Head(p) = p[1] /\ p[1] \in IndexWrite
           /\ \A i \in 1..Len(p) - 1 : Tail(p)[i] = p[i + 1]
           /\ Tail(p) = <<>> <=> Len(p) = 1
  <1>1. /\ Tail(p) \in Seq(IndexWrite) /\ Len(p) \in Nat /\ Len(p) > 0
        /\ Len(Tail(p)) = Len(p) - 1 /\ Head(p) = p[1] /\ p[1] \in IndexWrite
        /\ \A i \in 1..Len(p) - 1 : Tail(p)[i] = p[i + 1]
    OBVIOUS
  <1>2. \A t \in Seq(IndexWrite) : t = <<>> <=> Len(t) = 0
    OBVIOUS
  <1> QED BY <1>1, <1>2

(* Writing the next index file leaves what the plan amounts to. *)
LEMMA SameOutcomes ==
    ASSUME IndexInv, WriteIndex, NEW n \in IndexFiles, NEW es \in Outcomes(todo, n)'
    PROVE  es \in Outcomes(todo, n)
  <1>0. /\ todo \in Seq(IndexWrite) /\ todo # <<>>
    BY DEF IndexInv, IndexShape, WriteIndex
  <1>1. /\ todo' \in Seq(IndexWrite) /\ Len(todo) \in Nat /\ Len(todo) > 0
        /\ Len(todo') = Len(todo) - 1 /\ Head(todo) = todo[1]
        /\ \A i \in 1..Len(todo) - 1 : todo'[i] = todo[i + 1]
    BY <1>0, TailFacts DEF WriteIndex
  <1>2. idx'[n].entries = IF todo[1].name = n THEN todo[1].entries ELSE idx[n].entries
    <2>1. idx' = [idx EXCEPT ![todo[1].name] = [state |-> "ok", entries |-> todo[1].entries]]
      BY <1>1 DEF WriteIndex
    <2>2. n \in DOMAIN idx
      BY DEF IndexInv, IndexShape
    <2> QED BY <2>1, <2>2
  <1>3. \/ \E i \in 1..Len(todo') : /\ todo'[i].name = n /\ todo'[i].entries = es
                                    /\ \A j \in i + 1..Len(todo') : todo'[j].name # n
        \/ es = idx'[n].entries /\ \A i \in 1..Len(todo') : todo'[i].name # n
    BY DEF Outcomes
  <1>4. ASSUME NEW i \in 1..Len(todo'), todo'[i].name = n, todo'[i].entries = es,
               \A j \in i + 1..Len(todo') : todo'[j].name # n
        PROVE  es \in Outcomes(todo, n)
    <2>1. i + 1 \in 1..Len(todo) /\ todo[i + 1].name = n /\ todo[i + 1].entries = es
      BY <1>1, <1>4
    <2>2. ASSUME NEW j \in i + 2..Len(todo) PROVE todo[j].name # n
      <3>1. j - 1 \in i + 1..Len(todo') /\ j - 1 \in 1..Len(todo) - 1 /\ (j - 1) + 1 = j
        BY <1>1
      <3>2. todo'[j - 1] = todo[j]
        BY <1>1, <3>1
      <3> QED BY <1>4, <3>1, <3>2
    <2>3. \A j \in (i + 1) + 1..Len(todo) : todo[j].name # n
      BY <1>1, <2>2
    <2> QED BY <2>1, <2>3 DEF Outcomes
  <1>5. ASSUME es = idx'[n].entries, \A i \in 1..Len(todo') : todo'[i].name # n
        PROVE  es \in Outcomes(todo, n)
    <2>1. ASSUME NEW j \in 2..Len(todo) PROVE todo[j].name # n
      <3>1. j - 1 \in 1..Len(todo') /\ j - 1 \in 1..Len(todo) - 1 /\ (j - 1) + 1 = j
        BY <1>1
      <3>2. todo'[j - 1] = todo[j]
        BY <1>1, <3>1
      <3> QED BY <1>5, <3>1, <3>2
    <2>2. CASE todo[1].name = n
      <3>1. 1 \in 1..Len(todo) /\ es = todo[1].entries /\ \A j \in 1 + 1..Len(todo) : todo[j].name # n
        BY <1>1, <1>2, <1>5, <2>1, <2>2
      <3> QED BY <2>2, <3>1 DEF Outcomes
    <2>3. CASE todo[1].name # n
      <3>1. es = idx[n].entries
        BY <1>2, <1>5, <2>3
      <3>2. \A j \in 1..Len(todo) : j = 1 \/ j \in 2..Len(todo)
        BY <1>1
      <3> QED BY <2>1, <2>3, <3>1, <3>2 DEF Outcomes
    <2> QED BY <2>2, <2>3
  <1> QED BY <1>3, <1>4, <1>5

(* The next index file is written. *)
LEMMA IndexStep ==
    ASSUME IndexInv, WriteIndex
    PROVE  IndexInv'
  <1>0. /\ phase = "index" /\ todo' = Tail(todo) /\ job' = job /\ files' = files
        /\ shared' = shared /\ crashes' = crashes
        /\ phase' = IF todo' # <<>> THEN "index" ELSE IF job = NoJob THEN "idle" ELSE "audit"
    BY DEF WriteIndex, NextPhase
  <1>1. todo \in Seq(IndexWrite) /\ todo # <<>>
    BY <1>0 DEF IndexInv, IndexShape
  <1>2. /\ todo' \in Seq(IndexWrite) /\ Len(todo) \in Nat /\ Len(todo) > 0
        /\ Len(todo') = Len(todo) - 1 /\ Head(todo) = todo[1] /\ todo[1] \in IndexWrite
        /\ \A i \in 1..Len(todo) - 1 : todo'[i] = todo[i + 1]
        /\ todo' = <<>> <=> Len(todo) = 1
    BY <1>0, <1>1, TailFacts
  <1>h. PICK h : h = todo[1] OBVIOUS
  <1>3. h.name \in IndexFiles /\ h.entries \in SUBSET (Words \X Ids)
    BY <1>2, <1>h DEF IndexWrite
  <1>4. /\ idx' = [idx EXCEPT ![h.name] = [state |-> "ok", entries |-> h.entries]]
        /\ suspect' = CASE h.name = "manifest" -> {}
                        [] Len(todo) = 1 -> suspect \ {job.key}
                        [] OTHER -> suspect
    BY <1>2, <1>h DEF WriteIndex
  <1>5. idx \in [IndexFiles -> [state : {"missing", "corrupt", "ok"}, entries : SUBSET (Words \X Ids)]]
    BY DEF IndexInv, IndexShape
  <1>6. /\ idx'[h.name].state = "ok" /\ idx'[h.name].entries = h.entries
        /\ \A n \in IndexFiles : n # h.name => idx'[n] = idx[n]
    BY <1>3, <1>4, <1>5
  <1>7. idx' \in [IndexFiles -> [state : {"missing", "corrupt", "ok"}, entries : SUBSET (Words \X Ids)]]
    BY <1>3, <1>4, <1>5
  <1>8. /\ \A i \in 1..Len(todo) : todo[i].name = "manifest" => i = Len(todo) /\ todo[i].entries = {}
        /\ idx["manifest"].entries = {} /\ files \in [Keys -> Artifact]
        /\ job # NoJob => job.key \in Keys /\ job.artifact \in Artifact /\ files[job.key] = job.artifact
        /\ job = NoJob => Rebuilding
        /\ Doubled(files) \subseteq shared
    BY <1>0 DEF IndexInv, IndexShape, Updating
  <1>9. \A n : Named(n) /\ n # h.name => Named(n)'
    <2> SUFFICES ASSUME NEW n, n # h.name, NEW j \in 1..Len(todo), todo[j].name = n
                 PROVE  Named(n)'
      BY DEF Named
    <2>1. j # 1
      BY <1>h
    <2>2. j - 1 \in 1..Len(todo') /\ j - 1 \in 1..Len(todo) - 1 /\ (j - 1) + 1 = j
      BY <1>2, <2>1
    <2>3. todo'[j - 1] = todo[j]
      BY <1>2, <2>2
    <2> QED BY <2>2, <2>3 DEF Named
  <1>10. todo' # <<>> => /\ Len(todo) > 1 /\ Len(todo') > 0 /\ phase' = "index"
                         /\ todo'[Len(todo')] = todo[Len(todo)]
    BY <1>0, <1>2
  <1>11. todo' = <<>> => Len(todo) = 1 /\ phase' \in {"idle", "audit"}
    BY <1>0, <1>2
  <1>12. Rebuilding' => Rebuilding
    BY <1>1, <1>10 DEF Rebuilding
  <1>13. Target = files /\ Target' = files
    BY <1>0, <1>10, <1>11 DEF Target
  <1>14. h.name = "manifest" => Len(todo) = 1 /\ Rebuilding
    BY <1>1, <1>2, <1>8, <1>h DEF Rebuilding
  <1>15. Len(todo) = 1 /\ h.name # "manifest" => job # NoJob
    BY <1>8, <1>h DEF Rebuilding
  <1>16. IndexShape'
    <2>1. ASSUME NEW i \in 1..Len(todo'), todo'[i].name = "manifest"
          PROVE  i = Len(todo') /\ todo'[i].entries = {}
      <3>1. i + 1 \in 1..Len(todo) /\ todo'[i] = todo[i + 1]
        BY <1>2
      <3>2. i + 1 = Len(todo) /\ todo[i + 1].entries = {}
        BY <1>8, <2>1, <3>1
      <3> QED BY <1>2, <3>1, <3>2
    <2>2. idx'["manifest"].entries = {}
      <3>1. CASE h.name = "manifest"
        BY <1>2, <1>6, <1>8, <1>h, <3>1
      <3>2. CASE h.name # "manifest"
        BY <1>6, <1>8, <3>2 DEF IndexFiles
      <3> QED BY <3>1, <3>2
    <2>3. phase' = "index" <=> todo' # <<>>
      BY <1>10, <1>11
    <2>4. phase' = "index" /\ job = NoJob => Rebuilding'
      BY <1>8, <1>10, <2>3 DEF Rebuilding
    <2>5. Doubled(files)' = Doubled(files)
      BY <1>0 DEF Doubled
    <2>6. phase' \in {"idle", "index", "audit"}
      BY <1>10, <1>11
    <2> QED BY <1>0, <1>2, <1>7, <1>8, <2>1, <2>2, <2>3, <2>4, <2>5, <2>6 DEF IndexShape, Updating
  <1>17. Repaired'
    BY <1>0, <1>6, <1>9 DEF IndexInv, Repaired
  <1>18. \A k \in Keys : Lone(k)' /\ k \notin suspect => Lone(k)
    BY <1>0 DEF Lone
  <1>19. ASSUME NEW k \in Keys, Lone(k), ~(job # NoJob /\ k = job.key), NEW n \in IndexFiles, idx'[n].state = "ok"
         PROVE  EntriesOf(n, k, files[k]) \subseteq idx'[n].entries
    <2>1. CASE n = h.name
      <3>1. EntriesOf(todo[1].name, k, files[k]) \subseteq todo[1].entries
        BY <1>2, <1>19 DEF IndexInv, PlannedFor, Updating
      <3> QED BY <1>6, <1>h, <2>1, <3>1
    <2>2. CASE n # h.name
      BY <1>6, <1>19, <2>2 DEF IndexInv, Indexed
    <2> QED BY <2>1, <2>2
  <1>20. \A n \in IndexFiles : todo' = <<>> => idx'[n].entries \in Outcomes(todo, n)
    <2> SUFFICES ASSUME NEW n \in IndexFiles, todo' = <<>>
                 PROVE  idx'[n].entries \in Outcomes(todo, n)
      OBVIOUS
    <2>1. idx'[n].entries \in Outcomes(todo, n)'
      BY DEF Outcomes
    <2> QED BY <2>1, SameOutcomes
  <1>21. Indexed'
    <2> SUFFICES ASSUME NEW k \in Keys, Lone(k)', ~(phase' = "index" /\ job # NoJob /\ k = job.key),
                        NEW n \in IndexFiles, idx'[n].state = "ok"
                 PROVE  EntriesOf(n, k, files[k]) \subseteq idx'[n].entries
      BY <1>0 DEF Indexed
    <2>0. files[k] # NoFile
      BY <1>0 DEF Lone
    <2>1. CASE h.name = "manifest"
      <3>1. todo' = <<>> /\ Rebuilding
        BY <1>2, <1>14, <2>1
      <3> QED BY <1>13, <1>20, <2>0, <3>1 DEF IndexInv, RebuildsAll
    <2>2. CASE h.name # "manifest" /\ Len(todo) = 1
      <3>1. todo' = <<>> /\ job # NoJob /\ Updating
        BY <1>0, <1>2, <1>15, <2>2 DEF Updating
      <3>2. CASE k = job.key
        <4>1. job.artifact = files[k] /\ job.artifact # NoFile
          BY <1>8, <2>0, <3>1, <3>2
        <4> QED BY <1>20, <3>1, <3>2, <4>1 DEF IndexInv, Completes
      <3>3. CASE k # job.key
        <4>1. suspect' = suspect \ {job.key}
          BY <1>4, <2>2
        <4>2. Lone(k)
          BY <1>0, <3>3, <4>1 DEF Lone
        <4> QED BY <1>19, <3>3, <4>2
      <3> QED BY <3>2, <3>3
    <2>3. CASE h.name # "manifest" /\ Len(todo) # 1
      <3>1. suspect' = suspect /\ todo' # <<>>
        BY <1>2, <1>4, <2>3
      <3>2. Lone(k)
        BY <1>0, <3>1 DEF Lone
      <3> QED BY <1>10, <1>19, <3>1, <3>2
    <2> QED BY <2>1, <2>2, <2>3
  <1>22. PlannedFor'
    <2> SUFFICES ASSUME NEW k \in Keys, Lone(k)', ~(Updating' /\ k = job.key), NEW i \in 1..Len(todo')
                 PROVE  EntriesOf(todo'[i].name, k, files[k]) \subseteq todo'[i].entries
      BY <1>0 DEF PlannedFor
    <2>1. Len(todo) > 1 /\ todo' # <<>>
      BY <1>2
    <2>2. suspect' = suspect
      BY <1>2, <1>4, <1>14, <2>1
    <2>3. Lone(k) /\ ~(Updating /\ k = job.key)
      BY <1>0, <1>10, <2>1, <2>2 DEF Lone, Updating
    <2>4. i + 1 \in 1..Len(todo) /\ todo'[i] = todo[i + 1]
      BY <1>2
    <2> QED BY <2>3, <2>4 DEF IndexInv, PlannedFor
  <1>23. Completes'
    <2>1. Updating' => Updating
      BY <1>0 DEF Updating
    <2> QED BY <1>0, <2>1, SameOutcomes DEF IndexInv, Completes
  <1>24. RebuildsAll'
    BY <1>12, <1>13, SameOutcomes DEF IndexInv, RebuildsAll
  <1>25. Exact'
    <2>1. \A n, es : ExactFor(n, es)' <=> ExactFor(n, es)
      <3>1. Scanned(Target)' = Scanned(Target) /\ Doubled(Target)' = Doubled(Target)
        BY <1>13 DEF Scanned, Doubled
      <3> QED BY <1>0, <3>1 DEF ExactFor
    <2>2. ~Blank
      BY <1>1 DEF Blank
    <2>3. ASSUME crashes = 0, NEW n \in IndexFiles
          PROVE  /\ n # "manifest" /\ idx'[n].state = "missing" => Named(n)'
                 /\ \A es \in Outcomes(todo, n)' : ExactFor(n, es)'
      <3>1. n # "manifest" /\ idx[n].state = "missing" => Named(n)
        BY <2>2, <2>3 DEF IndexInv, Exact
      <3>2. n # "manifest" /\ idx'[n].state = "missing" => Named(n)'
        BY <1>6, <1>9, <3>1
      <3>3. \A es \in Outcomes(todo, n) : ExactFor(n, es)
        BY <2>2, <2>3 DEF IndexInv, Exact
      <3>4. \A es \in Outcomes(todo, n)' : ExactFor(n, es)'
        BY <2>1, <3>3, SameOutcomes
      <3> QED BY <3>2, <3>4
    <2> QED BY <1>0, <2>3 DEF Exact
  <1> QED BY <1>16, <1>17, <1>21, <1>22, <1>23, <1>24, <1>25 DEF IndexInv

(* A rebuild starts. *)
LEMMA BuildStep ==
    ASSUME IndexInv, phase \in {"idle", "down"}, job = NoJob, StartRebuild,
           UNCHANGED <<files, idx, suspect, shared, crashes>>
    PROVE  IndexInv'
  <1>0. /\ phase' = "index" /\ job' = NoJob /\ todo' = Build(files)
        /\ files' = files /\ idx' = idx /\ suspect' = suspect /\ shared' = shared /\ crashes' = crashes
    BY DEF StartRebuild
  <1>1. files \in [Keys -> Artifact]
    BY DEF IndexInv, IndexShape
  <1>w. PICK w : w = Build(files) OBVIOUS
  <1>2. /\ w \in Seq(IndexWrite) /\ Len(w) = 4
        /\ w[1] = [name |-> "type", entries |-> Scanned(files)["type"]]
        /\ w[2] = [name |-> "tag", entries |-> Scanned(files)["tag"]]
        /\ w[3] = [name |-> "recency", entries |-> Scanned(files)["recency"]]
        /\ w[4] = [name |-> "manifest", entries |-> {}]
        /\ \A n \in IndexFiles : \A es \in Outcomes(w, n) : es = Scanned(files)[n]
    BY <1>1, <1>w, BuildFacts
  <1>3. /\ w[1].name = "type" /\ w[2].name = "tag" /\ w[3].name = "recency" /\ w[4].name = "manifest"
        /\ w[1].entries = Scanned(files)["type"] /\ w[2].entries = Scanned(files)["tag"]
        /\ w[3].entries = Scanned(files)["recency"] /\ w[4].entries = {}
    BY <1>2
  <1>4. w \in Seq(IndexWrite) /\ Len(w) = 4 /\ w # <<>>
    BY <1>2
  <1>5. \A i \in 1..4 : i = 1 \/ i = 2 \/ i = 3 \/ i = 4
    OBVIOUS
  <1>6. Scanned(files)["manifest"] = {}
    BY <1>1, ScannedFacts
  <1>7. /\ \A i \in 1..4 : w[i].name \in IndexFiles /\ w[i].entries = Scanned(files)[w[i].name]
        /\ \A i \in 1..4 : w[i].name = "manifest" => i = 4 /\ w[i].entries = {}
    BY <1>3, <1>5, <1>6 DEF IndexFiles
  <1>8. \A n \in IndexFiles : Named(n)'
    BY <1>0, <1>w, <1>3, <1>4 DEF Named, IndexFiles
  <1>9. \A k \in Keys : files[k] # NoFile =>
           \A n \in IndexFiles : EntriesOf(n, k, files[k]) \subseteq Scanned(files)[n]
    BY <1>1, ScannedFacts
  <1>10. \A n \in IndexFiles : \A es \in Outcomes(todo, n)' : es = Scanned(files)[n]
    <2>1. \A n : Outcomes(todo, n)' = Outcomes(w, n)
      BY <1>0, <1>w DEF Outcomes
    <2> QED BY <1>2, <2>1
  <1>11. \A x : Lone(x)' <=> Lone(x)
    BY <1>0 DEF Lone
  <1>12. Target' = files
    BY <1>0 DEF Target
  <1>13. IndexShape'
    <2>1. Doubled(files)' = Doubled(files)
      BY <1>0 DEF Doubled
    <2>2. todo' = w /\ todo' # <<>> /\ Rebuilding'
      BY <1>0, <1>w, <1>3, <1>4 DEF Rebuilding
    <2>3. /\ idx \in [IndexFiles -> [state : {"missing", "corrupt", "ok"},
                                     entries : SUBSET (Words \X Ids)]]
          /\ idx["manifest"].entries = {} /\ Doubled(files) \subseteq shared
      BY DEF IndexInv, IndexShape
    <2>4. \A i \in 1..Len(todo') : todo'[i].name = "manifest" => i = Len(todo') /\ todo'[i].entries = {}
      BY <1>4, <1>7, <2>2
    <2>5. todo' \in Seq(IndexWrite)
      BY <1>4, <2>2
    <2> QED BY <1>0, <1>1, <2>1, <2>2, <2>3, <2>4, <2>5 DEF IndexShape, Updating
  <1>14. Repaired'
    BY <1>8 DEF Repaired
  <1>15. Indexed'
    BY <1>0, <1>11 DEF IndexInv, Indexed
  <1>16. PlannedFor'
    <2> SUFFICES ASSUME NEW k \in Keys, Lone(k), NEW i \in 1..4
                 PROVE  EntriesOf(w[i].name, k, files[k]) \subseteq w[i].entries
      BY <1>0, <1>w, <1>4, <1>11 DEF PlannedFor
    <2> QED BY <1>7, <1>9 DEF Lone
  <1>17. Completes'
    BY <1>0 DEF Completes, Updating
  <1>18. RebuildsAll'
    BY <1>9, <1>10, <1>12 DEF RebuildsAll
  <1>19. Exact'
    <2>1. Scanned(Target)' = Scanned(files)
      BY <1>12 DEF Scanned
    <2>2. \A n \in IndexFiles : \A es \in Outcomes(todo, n)' : ExactFor(n, es)'
      BY <1>10, <2>1 DEF ExactFor
    <2> QED BY <1>8, <2>2 DEF Exact
  <1> QED BY <1>13, <1>14, <1>15, <1>16, <1>17, <1>18, <1>19 DEF IndexInv

(* The process dies: the index file it was writing may be unreadable, and  *)
(* the artifact whose index update it cut off is suspect.                  *)
LEMMA CrashStep ==
    ASSUME IndexInv, crashes \in Nat, Crash
    PROVE  IndexInv'
  <1>0. /\ phase' = "down" /\ job' = NoJob /\ todo' = <<>> /\ Len(todo') = 0
        /\ files' = files /\ shared' = shared /\ crashes' = crashes + 1
        /\ suspect' = suspect \cup IF phase = "index" /\ job # NoJob THEN {job.key} ELSE {}
        /\ \/ idx' = idx
           \/ phase = "index" /\ idx' = [idx EXCEPT ![Head(todo).name] = Corrupt]
    BY DEF Crash
  <1>1. idx \in [IndexFiles -> [state : {"missing", "corrupt", "ok"}, entries : SUBSET (Words \X Ids)]]
    BY DEF IndexInv, IndexShape
  <1>2. phase = "index" => Head(todo).name \in IndexFiles
    <2>1. todo \in Seq(IndexWrite) /\ (phase = "index" => todo # <<>>)
      BY DEF IndexInv, IndexShape
    <2>2. phase = "index" => Head(todo) \in IndexWrite
      BY <2>1, TailFacts
    <2> QED BY <2>2 DEF IndexWrite
  <1>3. \A n \in IndexFiles :
           idx'[n] = idx[n] \/ (idx'[n].state = "corrupt" /\ idx'[n].entries = {})
    BY <1>0, <1>1, <1>2 DEF Corrupt
  <1>4. idx' \in [IndexFiles -> [state : {"missing", "corrupt", "ok"}, entries : SUBSET (Words \X Ids)]]
    BY <1>0, <1>1, <1>2 DEF Corrupt
  <1>5. ~Updating' /\ ~Rebuilding'
    BY <1>0 DEF Updating, Rebuilding
  <1>6. IndexShape'
    <2>1. Doubled(files)' = Doubled(files)
      BY <1>0 DEF Doubled
    <2>2. idx'["manifest"].entries = {}
      BY <1>3 DEF IndexInv, IndexShape, IndexFiles
    <2>3. files \in [Keys -> Artifact] /\ Doubled(files) \subseteq shared
      BY DEF IndexInv, IndexShape
    <2>4. todo' \in Seq(IndexWrite)
      BY <1>0
    <2> QED BY <1>0, <1>4, <1>5, <2>1, <2>2, <2>3, <2>4 DEF IndexShape
  <1>7. Repaired' /\ PlannedFor' /\ Completes' /\ RebuildsAll'
    BY <1>0, <1>5 DEF Repaired, PlannedFor, Completes, RebuildsAll
  <1>8. Indexed'
    <2> SUFFICES ASSUME NEW k \in Keys, Lone(k)', NEW n \in IndexFiles, idx'[n].state = "ok"
                 PROVE  EntriesOf(n, k, files[k]) \subseteq idx'[n].entries
      BY <1>0 DEF Indexed
    <2>1. Lone(k) /\ ~(phase = "index" /\ job # NoJob /\ k = job.key)
      BY <1>0 DEF Lone
    <2>2. idx'[n] = idx[n]
      BY <1>3
    <2> QED BY <2>1, <2>2 DEF IndexInv, Indexed
  <1>9. Exact'
    BY <1>0 DEF Exact
  <1> QED BY <1>6, <1>7, <1>8, <1>9 DEF IndexInv

LEMMA InitIndexInv == Init => IndexInv
  <1> SUFFICES ASSUME Init PROVE IndexInv
    OBVIOUS
  <1>1. /\ todo = <<>> /\ Len(todo) = 0 /\ phase = "idle" /\ job = NoJob
        /\ files = [k \in Keys |-> NoFile] /\ idx = [n \in IndexFiles |-> Missing]
    BY DEF Init
  <1>2. NoFile \in Artifact
    BY DEF NoFile, Artifact
  <1>3. /\ \A n \in IndexFiles : idx[n].state = "missing" /\ idx[n].entries = {}
        /\ \A k \in Keys : files[k] = NoFile
    BY <1>1 DEF Missing
  <1>4. ~Updating /\ ~Rebuilding
    BY <1>1 DEF Updating, Rebuilding
  <1>5. IndexShape
    <2>1. Doubled(files) = {}
      BY <1>3 DEF Doubled, Keys
    <2>2. todo \in Seq(IndexWrite)
      BY <1>1
    <2>3. files \in [Keys -> Artifact]
      BY <1>1, <1>2
    <2>4. idx \in [IndexFiles -> [state : {"missing", "corrupt", "ok"}, entries : SUBSET (Words \X Ids)]]
      BY <1>1 DEF Missing
    <2> QED BY <1>1, <1>3, <1>4, <2>1, <2>2, <2>3, <2>4 DEF IndexShape, IndexFiles
  <1>6. Repaired /\ Indexed /\ PlannedFor /\ Completes /\ RebuildsAll
    BY <1>1, <1>3, <1>4 DEF Repaired, Indexed, PlannedFor, Completes, RebuildsAll
  <1>7. Exact
    BY <1>1, <1>3 DEF Exact, Blank
  <1> QED BY <1>5, <1>6, <1>7 DEF IndexInv

LEMMA StepIndexInv == MInv /\ IndexInv /\ [Next]_vars => IndexInv'
  <1> SUFFICES ASSUME MInv, IndexInv, [Next]_vars PROVE IndexInv'
    OBVIOUS
  <1>0. crashes \in Nat /\ (phase \in {"idle", "down"} => job = NoJob)
    BY DEF MInv, CallShape
  <1>1. ASSUME NEW i \in Intents, ApplyIntent(i) PROVE IndexInv'
    BY <1>1, ApplyStep
  <1>2. CASE WriteFile
    BY <1>2, FileStep
  <1>3. CASE WriteIndex
    BY <1>3, IndexStep
  <1>4. CASE AppendAudit
    <2>1. phase = "audit" /\ phase' = "idle" /\ todo' = todo
          /\ UNCHANGED <<files, idx, suspect, shared, crashes>>
      BY <1>4 DEF AppendAudit, observed
    <2> QED BY <2>1, QuietStep
  <1>5. ASSUME NEW tags \in SUBSET Tags, Retrieve(tags) PROVE IndexInv'
    <2>1. phase = "idle" /\ StartRebuild /\ UNCHANGED <<files, idx, suspect, shared, crashes>>
      BY <1>5 DEF Retrieve, disk, observed
    <2> QED BY <1>0, <2>1, BuildStep
  <1>6. CASE Crash
    BY <1>0, <1>6, CrashStep
  <1>7. CASE Restart
    <2>1. phase = "down" /\ UNCHANGED <<files, idx, suspect, shared, crashes>>
      BY <1>7 DEF Restart, disk, observed
    <2>2. CASE CheckIntegrity
      <3>1. phase' = "idle" /\ todo' = todo /\ \A n \in IndexFiles : idx[n].state # "corrupt"
        BY <1>7, <2>2 DEF Restart, CheckIntegrity
      <3> QED BY <2>1, <3>1, QuietStep
    <2>3. CASE ~CheckIntegrity
      <3>1. StartRebuild
        BY <1>7, <2>3 DEF Restart
      <3> QED BY <1>0, <2>1, <3>1, BuildStep
    <2> QED BY <2>2, <2>3
  <1>8. CASE UNCHANGED vars
    <2>1. /\ files' = files /\ idx' = idx /\ phase' = phase /\ job' = job /\ todo' = todo
          /\ crashes' = crashes /\ suspect' = suspect /\ shared' = shared
      BY <1>8 DEF vars, disk, process, observed
    <2>2. /\ Target' = Target /\ Updating' = Updating /\ Rebuilding' = Rebuilding /\ Blank' = Blank
          /\ \A n : Named(n)' = Named(n)
          /\ \A k : Lone(k)' = Lone(k)
          /\ \A n : Outcomes(todo, n)' = Outcomes(todo, n)
      BY <2>1 DEF Target, Updating, Rebuilding, Blank, Named, Lone, Outcomes
    <2>3. Doubled(files)' = Doubled(files) /\ Doubled(Target)' = Doubled(Target)
          /\ Scanned(Target)' = Scanned(Target)
      BY <2>1, <2>2 DEF Doubled, Scanned
    <2>4. IndexShape'
      BY <2>1, <2>2, <2>3 DEF IndexInv, IndexShape
    <2>5. Repaired' /\ Indexed' /\ PlannedFor' /\ Completes' /\ RebuildsAll'
      BY <2>1, <2>2 DEF IndexInv, Repaired, Indexed, PlannedFor, Completes, RebuildsAll
    <2>6. \A n, es : ExactFor(n, es)' <=> ExactFor(n, es)
      BY <2>1, <2>3 DEF ExactFor
    <2>7. Exact'
      BY <2>1, <2>2, <2>6 DEF IndexInv, Exact
    <2> QED BY <2>4, <2>5, <2>7 DEF IndexInv
  <1> QED BY <1>1, <1>2, <1>3, <1>4, <1>5, <1>6, <1>7, <1>8 DEF Next

LEMMA IndexInvariance == Spec => [](MInv /\ IndexInv)
  <1>1. Spec => []IndexInv
    BY InitIndexInv, StepIndexInv, MInvariance, PTL DEF Spec
  <1> QED BY <1>1, MInvariance, PTL

(* Until the first crash, add_artifact and remove_artifact keep in the     *)
(* index files exactly what IndexBuilder.build would write from the        *)
(* artifact files, for every id that one category uses: the tags of an     *)
(* earlier version of an artifact, and deleted artifacts, are gone from    *)
(* them and nothing else is.                                               *)
THEOREM IndexesAreExact == Spec => []IndexExact
  <1>1. IndexInv => IndexExact
    <2> SUFFICES ASSUME IndexInv, crashes = 0, phase = "idle", IndexesExist,
                        NEW n \in IndexFiles, NEW id \in Ids \ shared
                 PROVE  {e \in idx[n].entries : e[2] = id} = {e \in Scanned(files)[n] : e[2] = id}
      BY DEF IndexExact
    <2> QED BY IdleFacts DEF OfId
  <1> QED BY <1>1, IndexInvariance, PTL

(* Wherever a process dies while it writes artifact and index files, and   *)
(* although an index it cut off is read as empty and the next update       *)
(* writes back what it read, between two calls every other artifact is in  *)
(* every index that retrieval looks in.                                    *)
THEOREM CrashHidesOnlyItsArtifact == Spec => []IndexCovers
  <1>1. IndexInv => IndexCovers
    <2> SUFFICES ASSUME IndexInv, phase = "idle", IndexesExist, NEW k \in Keys \ suspect,
                        Exists(k), k[2] \notin shared, NEW n \in IndexFiles
                 PROVE  EntriesOf(n, k, files[k]) \subseteq idx[n].entries
      BY DEF IndexCovers
    <2>1. CASE n = "manifest"
      <3>1. files[k] \in Artifact
        BY DEF IndexInv, IndexShape
      <3> QED BY <2>1, <3>1, EntryFacts
    <2>2. CASE n # "manifest"
      <3>1. idx[n].state = "ok"
        BY <2>2, IdleFacts
      <3> QED BY <3>1 DEF IndexInv, Indexed, Lone, Exists
    <2> QED BY <2>1, <2>2
  <1> QED BY <1>1, IndexInvariance, PTL

=============================================================================
