----------------------------- MODULE Vocabulary -----------------------------
(***************************************************************************)
(* The vocabulary of one user of the language learning extension: the      *)
(* entries kept in the user's file and their spaced repetition state.      *)
(*                                                                         *)
(* Reading, changing and replacing the file never suspends, so each tool   *)
(* call and each list of exercise results is one step.  Entries are known  *)
(* by their place in the file, which never changes: nothing the user can   *)
(* reach deletes an entry.  Results come from web pages opened at any time *)
(* and from the model, so they may name an entry twice, name none that     *)
(* exists, come again, or come after the word was suspended.               *)
(***************************************************************************)
EXTENDS Naturals, Sequences, FiniteSets, SequencesExt

CONSTANTS
    Words,          \* the texts of words, up to case
    MaxWordsPerCall, \* _MAX_WORDS_PER_CALL
    MaxEntries,     \* bound: entries of the file
    MaxResults,     \* bound: results in one list
    MaxReviews,     \* bound: results in all
    MaxDay          \* bound: days that pass

ASSUME VocabularyAssumption ==
    /\ MaxWordsPerCall \in Nat \ {0} /\ MaxEntries \in Nat /\ MaxResults \in Nat
    /\ MaxReviews \in Nat /\ MaxDay \in Nat

VARIABLES
    entries,    \* the entries of the file, in the order of the file
    day,        \* the clock, in days
    \* observation only:
    reviewed    \* results that named an entry, by direction: all and successful ones

vars == <<entries, day, reviewed>>

Directions == {"forward", "reverse"}

Ratings == 0..3

Statuses == {"new", "learning", "known", "suspended"}

(* No card yet; in the first or the second learning step; in review; in    *)
(* the one relearning step.                                                *)
Cards == {"none", "step0", "step1", "review", "relearning"}

Entry ==
    [word : Words, status : Statuses, card : [Directions -> Cards],
     due : [Directions -> Nat], total : [Directions -> Nat], correct : [Directions -> Nat]]

TypeOK ==
    /\ entries \in Seq(Entry)
    /\ day \in Nat
    /\ DOMAIN reviewed = DOMAIN entries

(* A new VocabularyEntry: due at once in both directions. *)
NewEntry(w) ==
    [word |-> w, status |-> "new", card |-> [d \in Directions |-> "none"],
     due |-> [d \in Directions |-> day], total |-> [d \in Directions |-> 0],
     correct |-> [d \in Directions |-> 0]]

NoReviews == [d \in Directions |-> [all |-> 0, right |-> 0]]

Init ==
    /\ entries = <<>>
    /\ day = 0
    /\ reviewed = <<>>

-----------------------------------------------------------------------------
(* The scheduler of the fsrs library with its default steps (1 and 10      *)
(* minutes to learn, 10 minutes to relearn).                               *)
ReviewCard(card, rating) ==
    CASE card \in {"none", "step0"} /\ rating \in {0, 1} -> "step0"
      [] card \in {"none", "step0"} /\ rating = 2 -> "step1"
      [] card = "step1" /\ rating = 0 -> "step0"
      [] card = "step1" /\ rating = 1 -> "step1"
      [] card = "review" /\ rating = 0 -> "relearning"
      [] card = "relearning" /\ rating \in {0, 1} -> "relearning"
      [] OTHER -> "review"

(* A step is over within the day, a review is days away. *)
NextDue(card, rating) == IF card = "review" THEN day + rating ELSE day

(* apply_status_transition. *)
StatusOneDirection(status, rating, fwd, rev) ==
    CASE status = "suspended" -> "suspended"
      [] status = "new" -> "learning"
      [] status = "learning" -> IF "review" \in {fwd, rev} THEN "known" ELSE "learning"
      [] status = "known" -> IF rating <= 1 THEN "learning" ELSE "known"

StatusReviving(status, rating, fwd, rev) ==
    CASE status \in {"suspended", "new"} -> "learning"
      [] status = "learning" -> IF {fwd, rev} = {"review"} THEN "known" ELSE "learning"
      [] status = "known" -> IF rating <= 1 THEN "learning" ELSE "known"

ApplyStatusTransition(status, rating, fwd, rev) ==
    CASE status = "suspended" -> "suspended"
      [] status = "new" -> "learning"
      [] status = "learning" -> IF {fwd, rev} = {"review"} THEN "known" ELSE "learning"
      [] status = "known" -> IF rating <= 1 THEN "learning" ELSE "known"

(* update_entry. *)
UpdateEntry(e, rating, d) ==
    LET new == ReviewCard(e.card[d], rating)
        cards == [e.card EXCEPT ![d] = new]
    IN [e EXCEPT !.card = cards,
                 !.due[d] = NextDue(new, rating),
                 !.total[d] = @ + 1,
                 !.correct[d] = IF rating >= 1 THEN @ + 1 ELSE @,
                 !.status = ApplyStatusTransition(@, rating, cards["forward"], cards["reverse"])]

Results == [id : 1..(MaxEntries + 1), rating : Ratings, direction : Directions]

(* process_exercise_results: the results are applied one after the other;  *)
(* one that names no entry is skipped.                                     *)
ApplyResultsOfSnapshot(results) ==
    [i \in DOMAIN entries |->
        FoldLeft(LAMBDA e, r : IF r.id = i THEN UpdateEntry(entries[i], r.rating, r.direction)
                               ELSE e, entries[i], results)]

ApplyResults(results) ==
    [i \in DOMAIN entries |->
        FoldLeft(LAMBDA e, r : IF r.id = i THEN UpdateEntry(e, r.rating, r.direction) ELSE e,
                 entries[i], results)]

Count(results) ==
    [i \in DOMAIN entries |-> [d \in Directions |->
        LET its == SelectSeq(results, LAMBDA x : x.id = i /\ x.direction = d)
        IN [all |-> reviewed[i][d].all + Len(its),
            right |-> reviewed[i][d].right + Len(SelectSeq(its, LAMBDA x : x.rating # 0))]]]

AllReviews ==
    FoldLeft(LAMBDA n, e : n + e.total["forward"] + e.total["reverse"], 0, entries)

Submit(results) ==
    /\ entries' = ApplyResults(results)
    /\ reviewed' = Count(results)
    /\ UNCHANGED day

-----------------------------------------------------------------------------
(* The tool, given a list by the model: it refuses an empty one. *)
ProcessExerciseResults ==
    \E n \in 1..MaxResults :
        /\ AllReviews + n <= MaxReviews
        /\ \E results \in [1..n -> Results] : Submit(results)

(* The same list sent by a page of cards or pairs; an empty one changes    *)
(* nothing.                                                                *)
ExerciseResults ==
    \/ ProcessExerciseResults
    \/ Submit(<<>>)

(* The pages of blanks: the model composes them, and the tool that starts  *)
(* one does not look whether the file has the words.                       *)
BlanksPages ==
    [ids : UNION {[1..n -> 1..(MaxEntries + 1)] : n \in 1..MaxResults}, direction : Directions]

(* The results of a page of blanks: right is Good, wrong is Again. *)
FillBlanksResults ==
    \E page \in BlanksPages :
        /\ AllReviews + Len(page.ids) <= MaxReviews
        /\ \E right \in [DOMAIN page.ids -> BOOLEAN] :
            Submit([i \in DOMAIN page.ids |->
                       [id |-> page.ids[i], rating |-> IF right[i] THEN 2 ELSE 0,
                        direction |-> page.direction]])

(* find_by_word. *)
FindByWord(es, w) == \E i \in DOMAIN es : es[i].word = w

(* add_vocabulary: words the file has are skipped, and so is a repetition  *)
(* within the call; what is over the limit is left for another call.       *)
AddWords(words) ==
    FoldLeft(LAMBDA es, w : IF FindByWord(es, w) THEN es ELSE Append(es, NewEntry(w)),
             entries, words)

AddVocabulary ==
    \E n \in 1..(MaxWordsPerCall + 1) : \E words \in [1..n -> Words] :
        LET added == AddWords(SubSeq(words, 1, IF n < MaxWordsPerCall THEN n
                                               ELSE MaxWordsPerCall))
        IN /\ Len(added) <= MaxEntries
           /\ entries' = added
           /\ reviewed' = [i \in DOMAIN added |-> IF i \in DOMAIN reviewed THEN reviewed[i]
                                                  ELSE NoReviews]
           /\ UNCHANGED day

(* set_word_status, for one of the updates it is given. *)
SetWordStatus(i, status) ==
    /\ status \in {"learning", "suspended"}
    /\ entries' = [entries EXCEPT ![i].status = status]
    /\ UNCHANGED <<day, reviewed>>

NextDay ==
    /\ day < MaxDay
    /\ day' = day + 1
    /\ UNCHANGED <<entries, reviewed>>

Next ==
    \/ AddVocabulary
    \/ ExerciseResults
    \/ FillBlanksResults
    \/ \E i \in DOMAIN entries, status \in Statuses : SetWordStatus(i, status)
    \/ NextDay

Spec == Init /\ [][Next]_vars

-----------------------------------------------------------------------------
IsDue(i, d) == entries[i].due[d] <= day

Before(i, j, d) ==
    entries[i].due[d] < entries[j].due[d] \/ (entries[i].due[d] = entries[j].due[d] /\ i < j)

(* get_due_words: new words by age, then words being learned and then      *)
(* known words, both only when due and by the day they fell due.           *)
DueWordsByAge(d, limit) ==
    LET Of(status) == {i \in DOMAIN entries : entries[i].status = status}
        combined ==
            SetToSortSeq(Of("new"), <)
            \o SetToSortSeq({i \in Of("learning") \cup Of("known") : IsDue(i, d)}, <)
    IN SubSeq(combined, 1, IF limit < Len(combined) THEN limit ELSE Len(combined))

GetDueWords(d, limit) ==
    LET Of(status) == {i \in DOMAIN entries : entries[i].status = status}
        Due(status) ==
            SetToSortSeq({i \in Of(status) : IsDue(i, d)}, LAMBDA i, j : Before(i, j, d))
        combined == SetToSortSeq(Of("new"), <) \o Due("learning") \o Due("known")
    IN SubSeq(combined, 1, IF limit < Len(combined) THEN limit ELSE Len(combined))

(* The number of words an exercise asks for: at least atLeast (one for     *)
(* cards, two for matching), at most atMost.                               *)
BoundedLimit(asked, atLeast, atMost) ==
    LET capped == IF asked < atMost THEN asked ELSE atMost
    IN IF capped < atLeast THEN atLeast ELSE capped

(* The words of an exercise the tools start. *)
Exercise(d, asked, atLeast) == GetDueWords(d, BoundedLimit(asked, atLeast, MaxEntries))

(* is_new, is_learning and is_learned. *)
Stage(card) ==
    CASE card = "none" -> "new"
      [] card = "review" -> "learned"
      [] OTHER -> "learning"

(* get_progress, without its averages: suspended words are left out, the   *)
(* stages are those of one direction, what is due is told for both.        *)
GetProgress(d) ==
    LET active == {i \in DOMAIN entries : entries[i].status # "suspended"}
        At(stage) == Cardinality({i \in active : Stage(entries[i].card[d]) = stage})
    IN [learned |-> At("learned"), learning |-> At("learning"), new |-> At("new"),
        due |-> [e \in Directions |-> Cardinality({i \in active : IsDue(i, e)})]]

-----------------------------------------------------------------------------
(* A word is known only while both of its cards are in review, as models.py*)
(* says of KNOWN; after lapses, late results for a suspended word and its  *)
(* resumption too.                                                         *)
KnownMeansGraduated ==
    \A i \in DOMAIN entries, d \in Directions :
        entries[i].status = "known" => entries[i].card[d] = "review"

(* Every result that names an entry is counted exactly once, repetitions   *)
(* in a list included; a word with a result has a card in that direction   *)
(* and is no longer new.                                                   *)
ReviewsCounted ==
    \A i \in DOMAIN entries, d \in Directions :
        LET e == entries[i]
            n == reviewed[i][d]
        IN /\ e.total[d] = n.all
           /\ e.correct[d] = n.right
           /\ (e.card[d] = "none") <=> (e.total[d] = 0)
           /\ e.status = "new" => e.total[d] = 0

(* A suspended word stays suspended, whatever results come in for it, until*)
(* set_word_status resumes it, and then its cards are as they were.        *)
SuspendedStays ==
    [][\A i \in DOMAIN entries :
        entries[i].status = "suspended" /\ entries'[i].status # "suspended" =>
            reviewed' = reviewed /\ entries'[i].card = entries[i].card]_vars

(* An exercise offers no suspended word and none twice, and leaves out a   *)
(* word that is new or due only when it is full of words that come first:  *)
(* new before learning before known, and among equals the one that fell    *)
(* due earlier.  The progress report announces as due exactly what an      *)
(* exercise without a limit would offer.                                   *)
Precedes(i, j, d) ==
    LET Rank == [new |-> 1, learning |-> 2, known |-> 3, suspended |-> 4]
        ri == Rank[entries[i].status]
        rj == Rank[entries[j].status]
    IN ri < rj \/ (ri = rj /\ (ri = 1 \/ entries[i].due[d] <= entries[j].due[d]))

DueOffered ==
    \A d \in Directions, asked \in 0..(MaxEntries + 1) :
        LET offered == Exercise(d, asked, 1)
            full == Len(offered) = BoundedLimit(asked, 1, MaxEntries)
        IN /\ IsInjective(offered)
           /\ \A i \in DOMAIN entries :
                IF i \in ToSet(offered) THEN entries[i].status # "suspended"
                ELSE \/ entries[i].status = "suspended"
                     \/ entries[i].status # "new" /\ ~IsDue(i, d)
                     \/ full /\ \A k \in DOMAIN offered : Precedes(offered[k], i, d)
           /\ GetProgress("forward").due[d] = Len(GetDueWords(d, MaxEntries))

=============================================================================
