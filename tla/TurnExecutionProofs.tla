------------------------- MODULE TurnExecutionProofs -------------------------
(***************************************************************************)
(* Proofs about TurnExecution: the numbering of the session file under     *)
(* concurrent appends and compactions, the usage archive, the history that *)
(* is replayed to the model, and, for a session without compaction, that   *)
(* no turn is lost or comes back.                                          *)
(***************************************************************************)
EXTENDS TurnExecution, FiniteSetTheorems, FunctionTheorems, SequenceTheorems, TLAPS

-----------------------------------------------------------------------------
(* Places of a sequence, by rank. *)

UpTo(S, i) == {j \in S : j <= i}

(* In a finite set of numbers every rank is taken, and ranks grow. *)
LEMMA RankFacts ==
    ASSUME NEW S, IsFiniteSet(S), S \subseteq Nat
    PROVE  /\ Cardinality(S) \in Nat
           /\ \A i \in S : Cardinality(UpTo(S, i)) \in 1..Cardinality(S)
           /\ \A i, j \in S : i < j => Cardinality(UpTo(S, i)) < Cardinality(UpTo(S, j))
           /\ \A k \in 1..Cardinality(S) : \E i \in S : Cardinality(UpTo(S, i)) = k
  <1> DEFINE n == Cardinality(S)
             rank == [i \in S |-> Cardinality(UpTo(S, i))]
  <1>1. n \in Nat
    BY FS_CardinalityType
  <1>2. \A i \in S : IsFiniteSet(UpTo(S, i)) /\ Cardinality(UpTo(S, i)) \in 1..n
    <2> TAKE i \in S
    <2>1. UpTo(S, i) \in SUBSET S
      BY DEF UpTo
    <2>2. IsFiniteSet(UpTo(S, i)) /\ Cardinality(UpTo(S, i)) <= n
      BY <2>1, FS_Subset
    <2>3. UpTo(S, i) # {}
      <3>1. i \in UpTo(S, i) BY DEF UpTo
      <3> QED BY <3>1
    <2> QED BY <1>1, <2>2, <2>3, FS_CardinalityType, FS_EmptySet
  <1>3. \A i, j \in S : i < j => Cardinality(UpTo(S, i)) < Cardinality(UpTo(S, j))
    <2> SUFFICES ASSUME NEW i \in S, NEW j \in S, i < j
                 PROVE  Cardinality(UpTo(S, i)) < Cardinality(UpTo(S, j))
      OBVIOUS
    <2>0. i \in Nat /\ j \in Nat /\ \A v \in S : v \in Nat
      OBVIOUS
    <2>1. \A v \in UpTo(S, i) : v \in UpTo(S, j)
      <3> SUFFICES ASSUME NEW v \in S, v <= i PROVE v <= j
        BY DEF UpTo
      <3> QED BY <2>0
    <2>2. j \in UpTo(S, j) /\ j \notin UpTo(S, i)
      BY <2>0 DEF UpTo
    <2>3. UpTo(S, i) \in SUBSET UpTo(S, j)
      BY <2>1
    <2>4. Cardinality(UpTo(S, i)) <= Cardinality(UpTo(S, j))
          /\ Cardinality(UpTo(S, i)) # Cardinality(UpTo(S, j))
      BY <1>2, <2>2, <2>3, FS_Subset
    <2> QED BY <1>2, <2>4
  <1>4. rank \in [S -> 1..n]
    BY <1>2
  <1>5. \A i, j \in S : rank[i] = rank[j] => i = j
    BY <1>2, <1>3
  <1>6. \A i \in S : rank[i] = Cardinality(UpTo(S, i))
    OBVIOUS
  <1> HIDE DEF rank
  <1>7. rank \in Surjection(S, 1..n)
    <2>1. rank \in Injection(S, 1..n)
      BY <1>4, <1>5, Fun_IsInj
    <2>2. IsFiniteSet(1..n) /\ Cardinality(1..n) = n
      BY <1>1, FS_Interval
    <2> QED BY <2>1, <2>2, FS_Injection
  <1>8. \A k \in 1..n : \E i \in S : rank[i] = k
    BY <1>7 DEF Surjection
  <1> QED BY <1>1, <1>2, <1>3, <1>6, <1>8

(* At(s, S) lists the elements of s at the places S, each once and in the  *)
(* order of the places.                                                    *)
Lists(f, S, s) ==
    /\ f \in [1..Cardinality(S) -> S] /\ Cardinality(S) \in Nat
    /\ At(s, S) = [k \in 1..Cardinality(S) |-> s[f[k]]]
    /\ \A k, m \in 1..Cardinality(S) : k < m => f[k] < f[m]
    /\ \A i \in S : \E k \in 1..Cardinality(S) : f[k] = i

LEMMA AtFacts ==
    ASSUME NEW s, NEW S, IsFiniteSet(S), S \subseteq Nat
    PROVE  \E f : Lists(f, S, s)
  <1> DEFINE n == Cardinality(S)
             Rank(i) == Cardinality(UpTo(S, i))
             f == [k \in 1..n |-> CHOOSE i \in S : Rank(i) = k]
  <1>1. /\ n \in Nat
        /\ \A i \in S : Rank(i) \in 1..n
        /\ \A i, j \in S : i < j => Rank(i) < Rank(j)
        /\ \A k \in 1..n : \E i \in S : Rank(i) = k
    BY RankFacts
  <1> HIDE DEF Rank
  <1>2. \A k \in 1..n : f[k] \in S /\ Rank(f[k]) = k
    BY <1>1
  <1>3. f \in [1..n -> S]
    BY <1>2
  <1>4. At(s, S) = [k \in 1..n |-> s[f[k]]]
    BY DEF At, Rank, UpTo
  <1> HIDE DEF n, f
  <1>5. \A i, j \in S : i \in Nat /\ j \in Nat
    OBVIOUS
  <1>6. \A k, m \in 1..n : k < m => f[k] < f[m]
    <2> SUFFICES ASSUME NEW k \in 1..n, NEW m \in 1..n, k < m PROVE f[k] < f[m]
      OBVIOUS
    <2>1. f[k] \in S /\ f[m] \in S /\ Rank(f[k]) = k /\ Rank(f[m]) = m
      BY <1>2
    <2>i. k \in Int /\ m \in Int
      BY <1>1
    <2>j. f[m] < f[k] => Rank(f[m]) < Rank(f[k])
      BY <1>1, <2>1
    <2>2. f[k] # f[m] /\ ~(f[m] < f[k])
      BY <2>1, <2>i, <2>j
    <2>3. f[k] \in Nat /\ f[m] \in Nat
      BY <1>5, <2>1
    <2> QED BY <2>2, <2>3
  <1>7. \A i \in S : \E k \in 1..n : f[k] = i
    <2> TAKE i \in S
    <2>1. Rank(i) \in 1..n
      BY <1>1
    <2>2. f[Rank(i)] \in S /\ Rank(f[Rank(i)]) = Rank(i)
      BY <1>2, <2>1
    <2>3. f[Rank(i)] = i
      <3>1. f[Rank(i)] \in Nat /\ i \in Nat
        BY <1>5, <2>2
      <3>i. Rank(i) \in Int
        BY <1>1, <2>1
      <3>j. /\ f[Rank(i)] < i => Rank(f[Rank(i)]) < Rank(i)
            /\ i < f[Rank(i)] => Rank(i) < Rank(f[Rank(i)])
        BY <1>1, <2>2
      <3>2. ~(f[Rank(i)] < i) /\ ~(i < f[Rank(i)])
        BY <2>2, <3>i, <3>j
      <3> QED BY <3>1, <3>2
    <2> QED BY <2>1, <2>3
  <1> QED BY <1>1, <1>3, <1>4, <1>6, <1>7 DEF n, Lists

-----------------------------------------------------------------------------
(* The session file.                                                       *)

TurnIds == Turns \cup {CompactionId(n) : n \in Nat}

Infos == {"", "plain", "usage", "completed", "degraded", "failed", "cancelled"}

Stored == [seq : Nat, turn : TurnIds, kind : Kinds, info : Infos, covers : SUBSET TurnIds]

(* A file is in the order of its numbers, ... *)
Ordered(l) == \A i, j \in 1..Len(l) : i < j => l[i].seq < l[j].seq

(* ... its summaries come first and are numbered from 0 without a gap, ... *)
SummariesFirst(l) ==
    \A i \in 1..Len(l) : l[i].kind = "summary" =>
        l[i].seq = i - 1 /\ \A j \in 1..i : l[j].kind = "summary"

(* ... everything else belongs to the turns of users, ... *)
ChatIsOfTurns(l) ==
    \A i \in 1..Len(l) : l[i].kind # "summary" => ~IsCompaction(l[i].turn)

(* ... and a user message is followed by the answer of its turn, an answer *)
(* preceded by the message.                                                *)
InPair(l, i) ==
    /\ l[i].kind \notin {"call", "result"}
    /\ l[i].kind = "user" => /\ i + 1 \in 1..Len(l) /\ l[i + 1].kind = "asst"
                             /\ l[i + 1].turn = l[i].turn
    /\ l[i].kind = "asst" => /\ i - 1 \in 1..Len(l) /\ l[i - 1].kind = "user"
                             /\ l[i - 1].turn = l[i].turn

Paired(l) == \A i \in 1..Len(l) : InPair(l, i)

FileOK(l) ==
    l \in Seq(Stored) /\ Ordered(l) /\ SummariesFirst(l) /\ ChatIsOfTurns(l) /\ Paired(l)

(* Sorting an ordered sequence changes nothing. *)
LEMMA SortedAlready ==
    ASSUME NEW l \in Seq(Stored), Ordered(l)
    PROVE  InSequence(l, DOMAIN l) = l
  <1> DEFINE n == Len(l)
             Before(j) == {i \in 1..n : l[i].seq < l[j].seq \/ (l[i].seq = l[j].seq /\ i <= j)}
  <1>1. n \in Nat /\ DOMAIN l = 1..n /\ l = [i \in 1..n |-> l[i]]
        /\ \A i \in 1..n : l[i] \in Stored
    OBVIOUS
  <1>2. \A i \in 1..n : l[i].seq \in Nat
    BY <1>1 DEF Stored
  <1> HIDE DEF n
  <1>3. \A j \in 1..n : Before(j) = 1..j
    <2> TAKE j \in 1..n
    <2>1. ASSUME NEW i \in 1..n PROVE i \in Before(j) <=> i <= j
      <3>1. i \in Int /\ j \in Int /\ l[i].seq \in Nat /\ l[j].seq \in Nat
        BY <1>1, <1>2
      <3>2. (i < j => l[i].seq < l[j].seq) /\ (j < i => l[j].seq < l[i].seq)
        BY DEF Ordered, n
      <3> QED BY <3>1, <3>2
    <2> HIDE DEF Before
    <2>2. Before(j) \subseteq 1..n
      BY DEF Before
    <2>3. 1..j \subseteq 1..n /\ \A i \in 1..n : i \in 1..j <=> i <= j
      BY <1>1
    <2> QED BY <2>1, <2>2, <2>3
  <1>4. \A j \in 1..n : Cardinality(Before(j)) = j
    <2> TAKE j \in 1..n
    <2>1. j \in Nat /\ j >= 1
      BY <1>1
    <2>2. Cardinality(1..j) = j
      BY <2>1, FS_Interval
    <2> QED BY <1>3, <2>2
  <1>5. Cardinality(1..n) = n
    BY <1>1, FS_Interval
  <1>6. InSequence(l, DOMAIN l) =
           [p \in 1..n |-> l[CHOOSE j \in 1..n : Cardinality(Before(j)) = p]]
    BY <1>1, <1>5 DEF InSequence
  <1> HIDE DEF Before
  <1>7. \A p \in 1..n : (CHOOSE j \in 1..n : Cardinality(Before(j)) = p) = p
    BY <1>4
  <1> QED BY <1>1, <1>6, <1>7

(* What the store reads is the file as it is. *)
LEMMA ReadAllIsFile ==
    ASSUME NEW l, FileOK(l)
    PROVE  ReadAll(l) = l
  <1>1. l \in Seq(Stored) /\ Ordered(l)
    BY DEF FileOK
  <1>2. DOMAIN l = 1..Len(l) /\ \A i \in 1..Len(l) : l[i] \in Stored
    BY <1>1
  <1>3. {i \in DOMAIN l : l[i].kind # "garbled"} = DOMAIN l
    BY <1>2 DEF Stored, Kinds
  <1> QED BY <1>1, <1>3, SortedAlready DEF ReadAll

(* The same for a sequence of elements of A. *)
Picks(f, S, s, A) ==
    /\ f \in [1..Cardinality(S) -> S] /\ Cardinality(S) \in Nat
    /\ At(s, S) \in Seq(A) /\ Len(At(s, S)) = Cardinality(S)
    /\ \A k \in 1..Cardinality(S) : At(s, S)[k] = s[f[k]]
    /\ \A k, m \in 1..Cardinality(S) : k < m => f[k] < f[m]
    /\ \A i \in S : \E k \in 1..Cardinality(S) : f[k] = i

LEMMA AtOfSeq ==
    ASSUME NEW A, NEW s \in Seq(A), NEW S, S \subseteq DOMAIN s
    PROVE  \E f : Picks(f, S, s, A)
  <1>1. DOMAIN s = 1..Len(s) /\ Len(s) \in Nat /\ \A i \in 1..Len(s) : s[i] \in A
    OBVIOUS
  <1>2. IsFiniteSet(S) /\ S \subseteq Nat
    <2>1. IsFiniteSet(1..Len(s))
      BY <1>1, FS_Interval
    <2>2. S \in SUBSET (1..Len(s))
      BY <1>1
    <2>3. 1..Len(s) \subseteq Nat
      BY <1>1
    <2> QED BY <2>1, <2>2, <2>3, FS_Subset
  <1>f. PICK f : Lists(f, S, s)
    BY <1>2, AtFacts
  <1>3. /\ f \in [1..Cardinality(S) -> S] /\ Cardinality(S) \in Nat
        /\ At(s, S) = [k \in 1..Cardinality(S) |-> s[f[k]]]
        /\ \A k, m \in 1..Cardinality(S) : k < m => f[k] < f[m]
        /\ \A i \in S : \E k \in 1..Cardinality(S) : f[k] = i
    BY <1>f DEF Lists
  <1> DEFINE n == Cardinality(S)
  <1> HIDE DEF n
  <1>4. \A k \in 1..n : s[f[k]] \in A
    BY <1>1, <1>3 DEF n
  <1>5. At(s, S) \in [1..n -> A]
    BY <1>3, <1>4 DEF n
  <1>6. At(s, S) \in Seq(A) /\ Len(At(s, S)) = n
    BY <1>3, <1>5 DEF n
  <1>7. \A k \in 1..n : At(s, S)[k] = s[f[k]]
    BY <1>3 DEF n
  <1> QED BY <1>3, <1>6, <1>7 DEF n, Picks

(* Pairs stay pairs when sequences of them are put together, ... *)
LEMMA PairedConcat ==
    ASSUME NEW a \in Seq(Stored), NEW b \in Seq(Stored), Paired(a), Paired(b)
    PROVE  Paired(a \o b)
  <1> DEFINE n == Len(a)
             m == Len(b)
             c == a \o b
  <1>1. n \in Nat /\ m \in Nat
    OBVIOUS
  <1>2. Len(c) = n + m /\ \A i \in 1..n + m : c[i] = IF i <= n THEN a[i] ELSE b[i - n]
    BY ConcatProperties
  <1> HIDE DEF n, m, c
  <1>3. \A i \in 1..n : i \in 1..n + m /\ c[i] = a[i]
    BY <1>1, <1>2
  <1>4. \A k \in 1..m : k + n \in 1..n + m /\ c[k + n] = b[k]
    BY <1>1, <1>2
  <1>5. \A i \in 1..n + m : i \in 1..n \/ (i - n \in 1..m /\ i = (i - n) + n)
    BY <1>1
  <1>6. ASSUME NEW i \in 1..n PROVE InPair(c, i)
    <2>1. InPair(a, i)
      BY <1>6 DEF Paired, n
    <2> QED BY <1>2, <1>3, <1>6, <2>1 DEF InPair, n
  <1>7. ASSUME NEW k \in 1..m PROVE InPair(c, k + n)
    <2>1. InPair(b, k)
      BY <1>7 DEF Paired, m
    <2>2. (k + n) + 1 = (k + 1) + n /\ (k + n) - 1 = (k - 1) + n
      BY <1>1, <1>7
    <2>3. c[k + n] = b[k]
      BY <1>4, <1>7
    <2>4. b[k].kind = "user" => /\ (k + n) + 1 \in 1..Len(c) /\ c[(k + n) + 1].kind = "asst"
                               /\ c[(k + n) + 1].turn = b[k].turn
      BY <1>2, <1>4, <2>1, <2>2 DEF InPair, m
    <2>5. b[k].kind = "asst" => /\ (k + n) - 1 \in 1..Len(c) /\ c[(k + n) - 1].kind = "user"
                               /\ c[(k + n) - 1].turn = b[k].turn
      BY <1>2, <1>4, <2>1, <2>2 DEF InPair, m
    <2>6. b[k].kind \notin {"call", "result"}
      BY <2>1 DEF InPair
    <2> HIDE DEF c
    <2> QED BY <2>3, <2>4, <2>5, <2>6 DEF InPair
  <1>8. \A i \in 1..n + m : InPair(c, i)
    BY <1>5, <1>6, <1>7
  <1> QED BY <1>2, <1>8 DEF Paired, c

(* ... when places are picked that hold both of a pair or none, ... *)
LEMMA PairedAt ==
    ASSUME NEW s \in Seq(Stored), Paired(s), NEW S, S \subseteq DOMAIN s,
           \A i \in S : /\ s[i].kind = "user" => i + 1 \in S
                        /\ s[i].kind = "asst" => i - 1 \in S
    PROVE  Paired(At(s, S))
  <1> DEFINE z == Cardinality(S)
             c == At(s, S)
  <1>0. DOMAIN s = 1..Len(s) /\ Len(s) \in Nat
    OBVIOUS
  <1>f. PICK f : Picks(f, S, s, Stored)
    BY AtOfSeq
  <1>1. /\ f \in [1..z -> S] /\ z \in Nat /\ Len(c) = z
        /\ \A k \in 1..z : c[k] = s[f[k]] /\ f[k] \in S
        /\ \A k, m \in 1..z : k < m => f[k] < f[m]
        /\ \A i \in S : \E k \in 1..z : f[k] = i
    BY <1>f DEF Picks
  <1>2. \A i \in S : i \in Nat /\ i \in 1..Len(s)
    BY <1>0
  <1> HIDE DEF z, c
  <1>3. ASSUME NEW k \in 1..z, NEW i \in S, i = f[k] + 1 PROVE k + 1 \in 1..z /\ f[k + 1] = i
    <2>1. PICK m \in 1..z : f[m] = i
      BY <1>1
    <2>2. k \in Nat /\ m \in Nat /\ f[k] \in Nat /\ f[m] \in Nat
      BY <1>1, <1>2
    <2>3. k < m
      <3>1. m < k => f[m] < f[k]
        BY <1>1
      <3> QED BY <1>3, <2>1, <2>2, <3>1
    <2>4. k + 1 \in 1..z
      BY <1>1, <2>2, <2>3
    <2>5. f[k] < f[k + 1] /\ f[k + 1] \in Nat
      BY <1>1, <1>2, <2>2, <2>4
    <2>6. k + 1 < m => f[k + 1] < f[m]
      BY <1>1, <2>4
    <2>7. k + 1 = m
      BY <1>3, <2>1, <2>2, <2>3, <2>5, <2>6
    <2> QED BY <2>1, <2>4, <2>7
  <1>4. ASSUME NEW k \in 1..z, NEW i \in S, i = f[k] - 1 PROVE k - 1 \in 1..z /\ f[k - 1] = i
    <2>1. PICK m \in 1..z : f[m] = i
      BY <1>1
    <2>2. f[m] \in Nat /\ f[k] \in Nat /\ f[k] \in S
      BY <1>1, <1>2
    <2>3. f[k] = f[m] + 1
      BY <1>4, <2>1, <2>2
    <2>4. m + 1 \in 1..z /\ f[m + 1] = f[k]
      BY <1>3, <2>2, <2>3
    <2>5. m + 1 \in Nat /\ k \in Nat /\ m \in Nat
      BY <1>1
    <2>6. (k < m + 1 => f[k] < f[m + 1]) /\ (m + 1 < k => f[m + 1] < f[k])
      BY <1>1, <2>4
    <2>7. m + 1 = k
      BY <2>2, <2>4, <2>5, <2>6
    <2> QED BY <2>1, <2>5, <2>7
  <1>5. ASSUME NEW k \in 1..z PROVE InPair(c, k)
    <2> DEFINE i == f[k]
    <2>1. c[k] = s[i] /\ i \in S /\ i \in 1..Len(s)
      BY <1>1, <1>2
    <2>2. /\ s[i].kind \notin {"call", "result"}
          /\ s[i].kind = "user" => s[i + 1].kind = "asst" /\ s[i + 1].turn = s[i].turn
          /\ s[i].kind = "asst" => s[i - 1].kind = "user" /\ s[i - 1].turn = s[i].turn
      BY <2>1 DEF Paired, InPair
    <2>3. CASE s[i].kind = "user"
      <3>1. i + 1 \in S
        BY <2>1, <2>3
      <3>2. k + 1 \in 1..z /\ f[k + 1] = i + 1
        BY <1>3, <3>1
      <3>3. c[k + 1] = s[i + 1]
        BY <1>1, <3>2
      <3> QED BY <1>1, <2>1, <2>2, <2>3, <3>2, <3>3 DEF InPair
    <2>4. CASE s[i].kind = "asst"
      <3>1. i - 1 \in S
        BY <2>1, <2>4
      <3>2. k - 1 \in 1..z /\ f[k - 1] = i - 1
        BY <1>4, <3>1
      <3>3. c[k - 1] = s[i - 1]
        BY <1>1, <3>2
      <3> QED BY <1>1, <2>1, <2>2, <2>4, <3>2, <3>3 DEF InPair
    <2> HIDE DEF i
    <2> QED BY <2>1, <2>2, <2>3, <2>4 DEF InPair
  <1>6. Paired(c)
    BY <1>1, <1>5 DEF Paired
  <1> QED BY <1>6 DEF c

(* ... and when only numbers change. *)
LEMMA PairedLike ==
    ASSUME NEW a, NEW b, Paired(a), Len(b) = Len(a),
           \A i \in 1..Len(a) : b[i].kind = a[i].kind /\ b[i].turn = a[i].turn
    PROVE  Paired(b)
  BY DEF Paired, InPair

-----------------------------------------------------------------------------
(* Appending.                                                              *)

LEMMA EventIdTurn ==
    ASSUME NEW q, NEW r, EventId(q) = EventId(r)
    PROVE  q.turn = r.turn
  <1>1. EventId(q)[2] = q.turn /\ EventId(r)[2] = r.turn
    BY DEF EventId
  <1> QED BY <1>1

(* A turn has one event id for its messages and one for its answers. *)
LEMMA EventIdKind ==
    ASSUME NEW q \in Stored, NEW r \in Stored, r.kind \in {"user", "asst"}
    PROVE  EventId(q) = EventId(r) <=> q.kind = r.kind /\ q.turn = r.turn
  <1>1. /\ EventId(q)[1] = q.kind /\ EventId(r)[1] = r.kind
        /\ EventId(q)[2] = q.turn /\ EventId(r)[2] = r.turn
    BY DEF EventId
  <1>2. q.info # "interrupted" /\ r.info # "interrupted"
    BY DEF Stored, Infos
  <1>3. EventId(r) = <<r.kind, r.turn, "">>
    BY <1>2 DEF EventId
  <1>4. q.kind = r.kind => EventId(q) = <<q.kind, q.turn, "">>
    BY <1>2 DEF EventId
  <1> QED BY <1>1, <1>3, <1>4

(* What a turn writes. *)
Batch(t) ==
    {b \in Seq(Stored) :
        Paired(b) /\ \A i \in 1..Len(b) : b[i].turn = t /\ b[i].kind # "summary"}

(* append() numbers on from the last record and writes records of the      *)
(* turn only; if the batch has any, the turn is in the file afterwards.    *)
LEMMA NewRecordsFacts ==
    ASSUME NEW l, FileOK(l), NEW t, NEW b \in Batch(t), NEW new, new = NewRecords(l, b)
    PROVE  /\ new \in Seq(Stored)
           /\ \A k \in 1..Len(new) :
                 /\ new[k].turn = t /\ new[k].kind # "summary"
                 /\ new[k].seq = NextSequence(l) + k - 1
           /\ Paired(new)
           /\ b # <<>> => \/ \E i \in 1..Len(l) : l[i].turn = t
                          \/ Len(new) > 0
  <1> DEFINE known == {EventId(r) : r \in ToSet(l)}
             S == {i \in DOMAIN b : /\ EventId(b[i]) \notin known
                                    /\ \A j \in 1..i - 1 : EventId(b[j]) # EventId(b[i])}
             fresh == At(b, S)
  <1>1. /\ b \in Seq(Stored) /\ Paired(b) /\ DOMAIN b = 1..Len(b) /\ Len(b) \in Nat
        /\ \A i \in 1..Len(b) : b[i].turn = t /\ b[i].kind # "summary"
    BY DEF Batch
  <1>2. new = [k \in DOMAIN fresh |-> [fresh[k] EXCEPT !.seq = NextSequence(l) + k - 1]]
    BY ReadAllIsFile DEF NewRecords
  <1>3. NextSequence(l) \in Nat
    <2>1. l \in Seq(Stored)
      BY DEF FileOK
    <2>2. l # <<>> => l[Len(l)] \in Stored
      BY <2>1
    <2> QED BY <2>2 DEF NextSequence, Last, Stored
  <1>4. S \subseteq DOMAIN b
    OBVIOUS
  <1>p. \A i \in S : /\ b[i].kind = "user" => i + 1 \in S
                     /\ b[i].kind = "asst" => i - 1 \in S
    <2> TAKE i \in S
    <2>0. DOMAIN l = 1..Len(l) /\ (\A q \in 1..Len(l) : l[q] \in Stored) /\ Paired(l)
      BY DEF FileOK
    <2>1. \A q \in 1..Len(l) : EventId(l[q]) \in known
      BY <2>0 DEF ToSet
    <2>2. \A e \in known : \E q \in 1..Len(l) : EventId(l[q]) = e
      BY <2>0 DEF ToSet
    <2>3. /\ i \in 1..Len(b) /\ i \in Nat /\ EventId(b[i]) \notin known
          /\ \A j \in 1..i - 1 : EventId(b[j]) # EventId(b[i])
      BY <1>1
    <2>4. \A j \in 1..Len(b) : b[j] \in Stored /\ b[j].turn = t /\ InPair(b, j) /\ j \in Nat
      BY <1>1 DEF Paired
    <2>5. \A q \in 1..Len(l) : InPair(l, q) /\ q \in Nat
      BY <2>0 DEF Paired, FileOK
    <2> HIDE DEF known
    <2>6. ASSUME b[i].kind = "user" PROVE i + 1 \in S
      <3>1. i + 1 \in 1..Len(b) /\ b[i + 1].kind = "asst"
        BY <2>3, <2>4, <2>6 DEF InPair
      <3>2. EventId(b[i + 1]) \notin known
        <4> SUFFICES ASSUME NEW q \in 1..Len(l), EventId(l[q]) = EventId(b[i + 1]) PROVE FALSE
          BY <2>2
        <4>1. l[q].kind = "asst" /\ l[q].turn = t
          BY <2>0, <2>4, <3>1, EventIdKind
        <4>2. q - 1 \in 1..Len(l) /\ l[q - 1].kind = "user" /\ l[q - 1].turn = t
          BY <2>5, <4>1 DEF InPair
        <4>3. EventId(l[q - 1]) = EventId(b[i])
          BY <2>0, <2>3, <2>4, <2>6, <4>2, EventIdKind
        <4> QED BY <2>1, <2>3, <4>2, <4>3
      <3>3. ASSUME NEW j \in 1..i, EventId(b[j]) = EventId(b[i + 1]) PROVE FALSE
        <4>0. j \in 1..Len(b) /\ j \in Nat
          BY <1>1, <2>3
        <4>1. b[j].kind = "asst"
          BY <2>4, <3>1, <3>3, <4>0, EventIdKind
        <4>2. j - 1 \in 1..Len(b) /\ b[j - 1].kind = "user"
          BY <2>4, <4>0, <4>1 DEF InPair
        <4>3. EventId(b[j - 1]) = EventId(b[i])
          BY <2>3, <2>4, <2>6, <4>2, EventIdKind
        <4>4. j - 1 \in 1..i - 1
          BY <1>1, <2>3, <4>0, <4>2
        <4> QED BY <2>3, <4>3, <4>4
      <3>4. \A j \in 1..(i + 1) - 1 : j \in 1..i
        BY <2>3
      <3> QED BY <1>1, <3>1, <3>2, <3>3, <3>4
    <2>7. ASSUME b[i].kind = "asst" PROVE i - 1 \in S
      <3>1. i - 1 \in 1..Len(b) /\ b[i - 1].kind = "user"
        BY <2>3, <2>4, <2>7 DEF InPair
      <3>2. EventId(b[i - 1]) \notin known
        <4> SUFFICES ASSUME NEW q \in 1..Len(l), EventId(l[q]) = EventId(b[i - 1]) PROVE FALSE
          BY <2>2
        <4>1. l[q].kind = "user" /\ l[q].turn = t
          BY <2>0, <2>4, <3>1, EventIdKind
        <4>2. q + 1 \in 1..Len(l) /\ l[q + 1].kind = "asst" /\ l[q + 1].turn = t
          BY <2>5, <4>1 DEF InPair
        <4>3. EventId(l[q + 1]) = EventId(b[i])
          BY <2>0, <2>3, <2>4, <2>7, <4>2, EventIdKind
        <4> QED BY <2>1, <2>3, <4>2, <4>3
      <3>3. ASSUME NEW j \in 1..(i - 1) - 1, EventId(b[j]) = EventId(b[i - 1]) PROVE FALSE
        <4>0. j \in 1..Len(b) /\ j \in Nat
          BY <1>1, <2>3
        <4>1. b[j].kind = "user"
          BY <2>4, <3>1, <3>3, <4>0, EventIdKind
        <4>2. j + 1 \in 1..Len(b) /\ b[j + 1].kind = "asst"
          BY <2>4, <4>0, <4>1 DEF InPair
        <4>3. EventId(b[j + 1]) = EventId(b[i])
          BY <2>3, <2>4, <2>7, <4>2, EventIdKind
        <4>4. j + 1 \in 1..i - 1
          BY <1>1, <2>3, <4>0
        <4> QED BY <2>3, <4>3, <4>4
      <3> QED BY <1>1, <3>1, <3>2, <3>3
    <2> QED BY <2>6, <2>7
  <1> HIDE DEF S
  <1>q. Paired(At(b, S))
    BY <1>1, <1>4, <1>p, PairedAt
  <1>f. PICK f : Picks(f, S, b, Stored)
    BY <1>1, <1>4, AtOfSeq
  <1>5. /\ f \in [1..Cardinality(S) -> S] /\ Cardinality(S) \in Nat
        /\ fresh \in Seq(Stored) /\ Len(fresh) = Cardinality(S)
        /\ \A k \in 1..Cardinality(S) : fresh[k] = b[f[k]]
        /\ \A i \in S : \E k \in 1..Cardinality(S) : f[k] = i
    BY <1>f DEF Picks
  <1> DEFINE n == Cardinality(S)
  <1> HIDE DEF fresh, n
  <1>6. DOMAIN fresh = 1..n /\ n \in Nat
    BY <1>5 DEF n
  <1>7. \A k \in 1..n : /\ fresh[k] \in Stored
                        /\ fresh[k].turn = t /\ fresh[k].kind # "summary"
    <2> TAKE k \in 1..n
    <2>1. fresh[k] = b[f[k]] /\ f[k] \in S
      BY <1>5 DEF n
    <2>2. f[k] \in 1..Len(b)
      BY <1>1, <1>4, <2>1
    <2> QED BY <1>1, <2>1, <2>2
  <1>8. \A k \in 1..n : k \in Nat /\ NextSequence(l) + k - 1 \in Nat
    BY <1>3, <1>6
  <1>9. \A k \in 1..n : /\ new[k] \in Stored
                        /\ new[k].turn = t /\ new[k].kind # "summary"
                        /\ new[k].seq = NextSequence(l) + k - 1
                        /\ new[k].kind = fresh[k].kind
    <2> TAKE k \in 1..n
    <2>1. new[k] = [fresh[k] EXCEPT !.seq = NextSequence(l) + k - 1]
      BY <1>2, <1>6
    <2> QED BY <1>7, <1>8, <2>1 DEF Stored
  <1>10. new \in [1..n -> Stored]
    BY <1>2, <1>6, <1>9
  <1>11. new \in Seq(Stored) /\ Len(new) = n
    BY <1>6, <1>10
  <1>r. Paired(new)
    <2>1. Paired(fresh) /\ Len(fresh) = n
      BY <1>5, <1>q DEF fresh, n
    <2> QED BY <1>7, <1>9, <1>11, <2>1, PairedLike
  <1>12. ASSUME b # <<>>, \A i \in 1..Len(l) : l[i].turn # t PROVE Len(new) > 0
    <2>1. 1 \in DOMAIN b /\ b[1].turn = t
      BY <1>1, <1>12
    <2>2. EventId(b[1]) \notin known
      <3> SUFFICES ASSUME NEW r \in ToSet(l), EventId(b[1]) = EventId(r) PROVE FALSE
        OBVIOUS
      <3>1. r.turn = t
        BY <2>1, EventIdTurn
      <3>2. PICK i \in 1..Len(l) : l[i] = r
        BY DEF ToSet, FileOK
      <3> QED BY <1>12, <3>1, <3>2
    <2>3. 1 \in S
      BY <2>1, <2>2 DEF S
    <2>4. \E k \in 1..n : f[k] = 1
      BY <1>5, <2>3 DEF n
    <2> QED BY <1>6, <1>11, <2>4
  <1> QED BY <1>9, <1>11, <1>12, <1>r

LEMMA AppendFacts ==
    ASSUME NEW l, FileOK(l), NEW t, ~IsCompaction(t), NEW b \in Batch(t),
           NEW r, r = AppendRecords(l, b)
    PROVE  /\ FileOK(r)
           /\ \A i \in 1..Len(l) : i \in 1..Len(r) /\ r[i] = l[i]
           /\ \A i \in 1..Len(r) : i \in 1..Len(l) \/ r[i].turn = t
           /\ b # <<>> => \E i \in 1..Len(r) : r[i].turn = t
  <1> DEFINE new == NewRecords(l, b)
             n == Len(l)
             m == Len(new)
  <1>1. /\ new \in Seq(Stored)
        /\ \A k \in 1..m :
              /\ new[k].turn = t /\ new[k].kind # "summary"
              /\ new[k].seq = NextSequence(l) + k - 1
        /\ b # <<>> => (\E i \in 1..n : l[i].turn = t) \/ m > 0
        /\ Paired(new)
    BY NewRecordsFacts
  <1>2. r = l \o new
    BY DEF AppendRecords
  <1> HIDE DEF new
  <1>3. l \in Seq(Stored) /\ Ordered(l) /\ SummariesFirst(l) /\ ChatIsOfTurns(l) /\ Paired(l)
    BY DEF FileOK
  <1>4. n \in Nat /\ m \in Nat
    BY <1>1, <1>3
  <1>p. Paired(r)
    BY <1>1, <1>2, <1>3, PairedConcat
  <1>5. r \in Seq(Stored) /\ Len(r) = n + m
        /\ \A i \in 1..n + m : r[i] = IF i <= n THEN l[i] ELSE new[i - n]
    BY <1>1, <1>2, <1>3, ConcatProperties
  <1>6. \A i \in 1..n : i \in 1..Len(r) /\ r[i] = l[i]
    BY <1>4, <1>5
  <1>7. \A i \in 1..Len(r) : i > n =>
           i - n \in 1..m /\ r[i] = new[i - n]
    BY <1>4, <1>5
  <1>s. \A i \in 1..n : l[i] \in Stored
    BY <1>3
  <1>8. \A i \in 1..n : l[i].seq \in Nat
    BY <1>s DEF Stored
  <1>9. \A i \in 1..n : l[i].seq < NextSequence(l) /\ NextSequence(l) \in Nat
    <2> TAKE i \in 1..n
    <2>1. n \in 1..n /\ l # <<>> /\ i \in Int
      BY <1>3, <1>4
    <2>2. NextSequence(l) = l[n].seq + 1
      BY <2>1 DEF NextSequence, Last
    <2>3. i = n \/ l[i].seq < l[n].seq
      BY <1>3, <1>4, <2>1 DEF Ordered
    <2> QED BY <1>8, <2>1, <2>2, <2>3
  <1>10. \A i \in 1..Len(r) : i > n =>
            /\ r[i].turn = t /\ r[i].kind # "summary"
            /\ r[i].seq = NextSequence(l) + (i - n) - 1
    BY <1>1, <1>7
  <1>n. NextSequence(l) \in Nat
    BY <1>3, <1>4, <1>9 DEF NextSequence
  <1> HIDE DEF n, m
  <1>11. Ordered(r)
    <2> SUFFICES ASSUME NEW i \in 1..Len(r), NEW j \in 1..Len(r), i < j
                 PROVE  r[i].seq < r[j].seq
      BY DEF Ordered
    <2>0. i \in Nat /\ j \in Nat /\ (i > n \/ i \in 1..n) /\ (j > n \/ j \in 1..n)
      BY <1>4, <1>5
    <2>1. CASE j \in 1..n
      <3>1. i \in 1..n
        BY <1>4, <2>0, <2>1
      <3> QED BY <1>3, <1>6, <2>1, <3>1 DEF Ordered, n
    <2>2. CASE j > n /\ i \in 1..n
      <3>1. r[j].seq = NextSequence(l) + (j - n) - 1
        BY <1>10, <2>2
      <3>2. r[i].seq < NextSequence(l) /\ r[i].seq \in Nat
        BY <1>6, <1>8, <1>9, <2>2
      <3> QED BY <1>n, <1>4, <2>0, <2>2, <3>1, <3>2
    <2>3. CASE j > n /\ i > n
      <3>1. /\ r[j].seq = NextSequence(l) + (j - n) - 1
            /\ r[i].seq = NextSequence(l) + (i - n) - 1
        BY <1>10, <2>3
      <3> QED BY <1>n, <1>4, <2>0, <3>1
    <2> QED BY <2>0, <2>1, <2>2, <2>3
  <1>12. SummariesFirst(r)
    <2> SUFFICES ASSUME NEW i \in 1..Len(r), r[i].kind = "summary"
                 PROVE  r[i].seq = i - 1 /\ \A j \in 1..i : r[j].kind = "summary"
      BY DEF SummariesFirst
    <2>1. i \in 1..n
      BY <1>4, <1>5, <1>10
    <2>2. l[i].seq = i - 1 /\ \A j \in 1..i : l[j].kind = "summary"
      BY <1>3, <1>6, <2>1 DEF SummariesFirst, n
    <2>3. \A j \in 1..i : j \in 1..n
      BY <1>4, <2>1
    <2> QED BY <1>6, <2>1, <2>2, <2>3
  <1>13. ChatIsOfTurns(r)
    <2> SUFFICES ASSUME NEW i \in 1..Len(r), r[i].kind # "summary"
                 PROVE  ~IsCompaction(r[i].turn)
      BY DEF ChatIsOfTurns
    <2>1. CASE i \in 1..n
      BY <1>3, <1>6, <2>1 DEF ChatIsOfTurns, n
    <2>2. CASE i > n
      BY <1>10, <2>2
    <2> QED BY <1>4, <1>5, <2>1, <2>2
  <1>14. \A i \in 1..Len(r) : i \in 1..n \/ r[i].turn = t
    BY <1>4, <1>5, <1>10
  <1>15. ASSUME b # <<>> PROVE \E i \in 1..Len(r) : r[i].turn = t
    <2>1. CASE \E i \in 1..n : l[i].turn = t
      BY <1>6, <2>1
    <2>2. CASE m > 0
      <3>1. n + 1 \in 1..Len(r) /\ n + 1 > n
        BY <1>4, <1>5, <2>2
      <3> QED BY <1>10, <3>1
    <2> QED BY <1>1, <1>15, <2>1, <2>2 DEF n, m
  <1> QED BY <1>5, <1>6, <1>11, <1>12, <1>13, <1>14, <1>15, <1>p DEF FileOK, n

-----------------------------------------------------------------------------
(* Compacting.                                                             *)

(* A finite set of numbers has a least one. *)
LEMMA LeastExists ==
    ASSUME NEW S, IsFiniteSet(S), S \subseteq Nat, S # {}
    PROVE  \E i \in S : \A j \in S : i <= j
  <1>1. PICK e : e \in S
    OBVIOUS
  <1>2. Cardinality(S) \in Nat /\ Cardinality(UpTo(S, e)) \in 1..Cardinality(S)
    BY <1>1, RankFacts
  <1>3. 1 \in 1..Cardinality(S)
    BY <1>2
  <1>4. PICK i \in S : Cardinality(UpTo(S, i)) = 1
    BY <1>3, RankFacts
  <1>5. ASSUME NEW j \in S, ~(i <= j) PROVE FALSE
    <2>1. i \in Nat /\ j \in Nat
      BY <1>4
    <2>2. j < i
      BY <1>5, <2>1
    <2>3. Cardinality(UpTo(S, j)) < Cardinality(UpTo(S, i))
          /\ Cardinality(UpTo(S, j)) \in 1..Cardinality(S)
      BY <1>4, <2>2, RankFacts
    <2> QED BY <1>2, <1>4, <2>3
  <1> QED BY <1>5

(* The elements at the first places. *)
LEMMA AtPrefix ==
    ASSUME NEW s, NEW n \in Nat
    PROVE  At(s, 1..n) = [k \in 1..n |-> s[k]]
  <1>1. Cardinality(1..n) = n
    BY FS_Interval
  <1> DEFINE Rank(i) == Cardinality({j \in 1..n : j <= i})
  <1>2. \A i \in 1..n : Rank(i) = i
    <2> TAKE i \in 1..n
    <2>1. i \in Nat /\ i >= 1
      OBVIOUS
    <2>2. {j \in 1..n : j <= i} = 1..i
      BY <2>1
    <2>3. Cardinality(1..i) = i
      BY <2>1, FS_Interval
    <2> QED BY <2>2, <2>3
  <1>3. At(s, 1..n) = [k \in 1..n |-> s[CHOOSE i \in 1..n : Rank(i) = k]]
    BY <1>1 DEF At
  <1> HIDE DEF Rank
  <1>4. \A k \in 1..n : (CHOOSE i \in 1..n : Rank(i) = k) = k
    BY <1>2
  <1> QED BY <1>3, <1>4

(* The summaries of a file are its first records. *)
LEMMA SummariesArePrefix ==
    ASSUME NEW l, FileOK(l)
    PROVE  \E n \in 0..Len(l) : {i \in DOMAIN l : l[i].kind = "summary"} = 1..n
  <1> DEFINE z == Len(l)
             S == {i \in 1..z : l[i].kind = "summary"}
             T == {i \in 1..z + 1 : i \notin S}
  <1>1. z \in Nat /\ DOMAIN l = 1..z
    BY DEF FileOK
  <1>2. \A i \in S : \A j \in 1..i : j \in S
    BY <1>1 DEF FileOK, SummariesFirst
  <1>3. IsFiniteSet(T) /\ T \subseteq Nat
    <2>1. IsFiniteSet(1..z + 1)
      BY <1>1, FS_Interval
    <2>2. T \in SUBSET (1..z + 1)
      OBVIOUS
    <2>3. 1..z + 1 \subseteq Nat
      BY <1>1
    <2> QED BY <2>1, <2>2, <2>3, FS_Subset
  <1>4. z + 1 \in T
    BY <1>1
  <1>5. \A i \in S : i \in 1..z
    OBVIOUS
  <1>6. \A i \in 1..z + 1 : i \in T <=> i \notin S
    OBVIOUS
  <1>t. \A i \in T : i \in 1..z + 1
    OBVIOUS
  <1> HIDE DEF S, T, z
  <1>7. PICK m \in T : \A j \in T : m <= j
    BY <1>3, <1>4, LeastExists
  <1>8. m \in 1..z + 1 /\ m \notin S /\ m \in Nat
    BY <1>1, <1>6, <1>7, <1>t
  <1>9. \A i \in 1..z : i \in S <=> i < m
    <2> TAKE i \in 1..z
    <2>0. i \in Nat /\ i \in 1..z + 1
      BY <1>1
    <2>1. i < m => i \in S
      BY <1>6, <1>7, <1>8, <2>0
    <2>2. ASSUME i \in S, ~(i < m) PROVE FALSE
      <3>1. m \in 1..i
        BY <1>8, <2>0, <2>2, <1>1
      <3> QED BY <1>2, <1>8, <2>2, <3>1
    <2> QED BY <2>1, <2>2
  <1>10. S = 1..m - 1
    <2>1. \A i : i \in 1..m - 1 => i \in 1..z /\ i < m
      BY <1>1, <1>8
    <2>2. \A i \in 1..z : i < m => i \in 1..m - 1
      BY <1>1, <1>8
    <2> QED BY <1>5, <1>9, <2>1, <2>2
  <1>11. m - 1 \in 0..z
    BY <1>1, <1>8
  <1>12. S = {i \in DOMAIN l : l[i].kind = "summary"}
    BY <1>1 DEF S
  <1> QED BY <1>10, <1>11, <1>12 DEF z

(* Every turn of a log begins somewhere in it, and nowhere before. *)
LEMMA BeginsFacts ==
    ASSUME NEW s \in Seq(Stored), NEW t, \E i \in 1..Len(s) : s[i].turn = t
    PROVE  /\ Begins(s, t) \in 1..Len(s) /\ s[Begins(s, t)].turn = t
           /\ \A j \in 1..Begins(s, t) - 1 : s[j].turn # t
  <1> DEFINE z == Len(s)
             P == {i \in 1..z : s[i].turn = t}
             First(i) == s[i].turn = t /\ \A j \in 1..i - 1 : s[j].turn # t
  <1>1. z \in Nat /\ DOMAIN s = 1..z
    OBVIOUS
  <1>2. IsFiniteSet(P) /\ P \subseteq Nat /\ P # {}
    <2>1. IsFiniteSet(1..z)
      BY <1>1, FS_Interval
    <2>2. P \in SUBSET (1..z)
      OBVIOUS
    <2>3. 1..z \subseteq Nat
      BY <1>1
    <2>4. P # {}
      OBVIOUS
    <2> QED BY <2>1, <2>2, <2>3, <2>4, FS_Subset
  <1>3. PICK i \in P : \A j \in P : i <= j
    <2> HIDE DEF P
    <2> QED BY <1>2, LeastExists
  <1>4. i \in 1..z /\ s[i].turn = t
    BY <1>3
  <1>5. \A j \in 1..i - 1 : s[j].turn # t
    <2> SUFFICES ASSUME NEW j \in 1..i - 1, s[j].turn = t PROVE FALSE
      OBVIOUS
    <2>1. i \in Nat /\ j \in Nat /\ j < i /\ j \in 1..z
      BY <1>1, <1>4
    <2>2. j \in P
      BY <2>1
    <2> QED BY <1>3, <2>1, <2>2
  <1>6. \E k \in DOMAIN s : First(k)
    BY <1>1, <1>4, <1>5
  <1>7. Begins(s, t) = CHOOSE k \in DOMAIN s : First(k)
    BY DEF Begins
  <1>8. Begins(s, t) \in DOMAIN s /\ First(Begins(s, t))
    <2> HIDE DEF First
    <2> QED BY <1>6, <1>7
  <1> QED BY <1>1, <1>8

(* If a compaction pass has something to summarise, the first record of    *)
(* the chat is among it: the turns kept are those that began last.         *)
LEMMA FirstIsOld ==
    ASSUME NEW chat \in Seq(Stored), Ordered(chat), NEW keep \in Nat,
           \A i \in 1..Len(chat) : ~IsCompaction(chat[i].turn),
           NEW a \in 1..Len(chat), chat[a].turn \notin OrderedRecentTurnIds(chat, keep),
           NEW b \in 1..Len(chat), chat[b].turn \in OrderedRecentTurnIds(chat, keep)
    PROVE  b > 1
  <1> DEFINE z == Len(chat)
             turns == {t \in TurnsOf(chat) : ~IsCompaction(t)}
             First(t) == Begins(chat, t)
             Later(t) == {u \in turns : First(u) > First(t)}
  <1>1. z \in Nat /\ DOMAIN chat = 1..z
    OBVIOUS
  <1>2. \A i \in 1..z : chat[i].turn \in turns
    BY <1>1 DEF TurnsOf, ToSet
  <1>3. OrderedRecentTurnIds(chat, keep) = {t \in turns : Cardinality(Later(t)) < keep}
    <2>1. OrderedRecentTurnIds(chat, keep) = LastTurns(chat, keep)
      BY SortedAlready DEF OrderedRecentTurnIds
    <2> QED BY <2>1 DEF LastTurns
  <1>4. \A t \in turns : \E i \in 1..z : chat[i].turn = t
    BY <1>1 DEF TurnsOf, ToSet
  <1>5. \A t \in turns : /\ First(t) \in 1..z
                         /\ \A j \in 1..First(t) - 1 : chat[j].turn # t
    BY <1>4, BeginsFacts
  <1>6. IsFiniteSet(turns)
    <2>1. IsFiniteSet(1..z)
      BY <1>1, FS_Interval
    <2> DEFINE g == [i \in 1..z |-> chat[i].turn]
    <2>2. g \in Surjection(1..z, turns)
      <3>1. g \in [1..z -> turns]
        BY <1>2
      <3>2. \A t \in turns : \E i \in 1..z : g[i] = t
        BY <1>4
      <3> QED BY <3>1, <3>2 DEF Surjection
    <2> HIDE DEF g, turns
    <2> QED BY <2>1, <2>2, FS_Surjection
  <1> DEFINE t == chat[a].turn
             w == chat[b].turn
  <1>7. t \in turns /\ w \in turns
    BY <1>2
  <1>8. Cardinality(Later(w)) < keep /\ ~(Cardinality(Later(t)) < keep)
    BY <1>3, <1>7
  <1>9. First(t) \in Nat /\ First(w) \in Nat /\ First(t) >= 1
    <2>1. First(t) \in 1..z /\ First(w) \in 1..z
      BY <1>5, <1>7
    <2> HIDE DEF First
    <2> QED BY <1>1, <2>1
  <1>10. First(w) <= b
    <2>1. First(w) \in 1..z
      BY <1>5, <1>7
    <2>2. \A j \in 1..First(w) - 1 : chat[j].turn # w
      BY <1>5, <1>7
    <2> HIDE DEF First
    <2>3. b \notin 1..First(w) - 1
      BY <2>2
    <2> QED BY <1>1, <1>9, <2>1, <2>3
  <1>11. First(t) < First(w)
    <2> SUFFICES ASSUME First(w) <= First(t) PROVE FALSE
      BY <1>9
    <2>0. \A u \in turns : First(u) \in Nat
      <3>1. \A u \in turns : First(u) \in 1..z
        BY <1>5
      <3> HIDE DEF First, turns
      <3> QED BY <1>1, <3>1
    <2>1. \A u \in turns : First(u) > First(t) => First(u) > First(w)
      <3> HIDE DEF First, turns
      <3> QED BY <1>9, <2>0
    <2>2. Later(t) \in SUBSET Later(w) /\ Later(w) \in SUBSET turns
      BY <2>1
    <2> HIDE DEF Later, turns
    <2>3. IsFiniteSet(Later(w)) /\ IsFiniteSet(Later(t))
          /\ Cardinality(Later(t)) <= Cardinality(Later(w))
      BY <1>6, <2>2, FS_Subset
    <2>4. Cardinality(Later(t)) \in Nat /\ Cardinality(Later(w)) \in Nat
      BY <2>3, FS_CardinalityType
    <2> QED BY <1>8, <2>3, <2>4
  <1> HIDE DEF First
  <1> QED BY <1>1, <1>9, <1>10, <1>11

(* What a compaction pass writes is again a file in order: the kept        *)
(* records come after the first record of the chat, whose number is not    *)
(* below the number of summaries, so the number of the new summary is free *)
(* and below theirs.                                                       *)
LEMMA CompactedFacts ==
    ASSUME NEW l, FileOK(l), RecordsToSummarize(l, KeepRecent) # <<>>,
           NEW id \in TurnIds
    PROVE  FileOK(Compacted(l, KeepRecent, id))
  <1> DEFINE C == {i \in DOMAIN l : l[i].kind # "summary"}
             chat == At(l, C)
             kept == OrderedRecentTurnIds(chat, KeepRecent)
             R == {i \in DOMAIN chat : chat[i].turn \notin kept}
             K == {i \in DOMAIN chat : chat[i].turn \in kept}
             old == At(chat, R)
             keeps == At(chat, K)
             summary == [seq |-> Len(Summaries(l)), turn |-> id, kind |-> "summary",
                         info |-> "", covers |-> TurnsOf(old)]
             r == Compacted(l, KeepRecent, id)
  <1>0. KeepRecent \in Nat
    BY ProcsAssumption
  <1>1. l \in Seq(Stored) /\ Ordered(l) /\ SummariesFirst(l) /\ ChatIsOfTurns(l) /\ Paired(l)
        /\ Len(l) \in Nat /\ DOMAIN l = 1..Len(l)
    BY DEF FileOK
  <1>2. PICK n \in 0..Len(l) : {i \in DOMAIN l : l[i].kind = "summary"} = 1..n
    BY SummariesArePrefix
  <1>3. n \in Nat /\ n <= Len(l)
    BY <1>1, <1>2
  <1>4. /\ Summaries(l) = [k \in 1..n |-> l[k]]
        /\ \A k \in 1..n : l[k] \in Stored /\ l[k].kind = "summary" /\ l[k].seq = k - 1
    <2>1. Summaries(l) = [k \in 1..n |-> l[k]]
      BY <1>2, <1>3, AtPrefix DEF Summaries, Where
    <2>2. \A k \in 1..n : k \in 1..Len(l) /\ l[k].kind = "summary"
      BY <1>1, <1>2
    <2> QED BY <1>1, <2>1, <2>2 DEF SummariesFirst
  <1>5. Summaries(l) \in Seq(Stored) /\ Len(Summaries(l)) = n
        /\ \A k \in 1..n : Summaries(l)[k] = l[k]
    BY <1>3, <1>4
  <1>6. /\ KeptRecords(l, KeepRecent) = keeps
        /\ RecordsToSummarize(l, KeepRecent) = old
        /\ r = Summaries(l) \o <<summary>> \o keeps
    <2>1. KeptRecords(l, KeepRecent) = keeps
      BY DEF KeptRecords, ChatRecords, Where
    <2>2. RecordsToSummarize(l, KeepRecent) = old
      BY DEF RecordsToSummarize, ChatRecords, Where
    <2> HIDE DEF keeps, old
    <2> QED BY <2>1, <2>2 DEF Compacted
  <1>7. C \subseteq DOMAIN l
    OBVIOUS
  <1>8. \A i \in C : i \in Nat /\ n < i /\ i \in 1..Len(l) /\ ~IsCompaction(l[i].turn)
                     /\ l[i].kind # "summary"
    <2> SUFFICES ASSUME NEW i \in DOMAIN l, l[i].kind # "summary"
                 PROVE  i \in Nat /\ n < i /\ i \in 1..Len(l) /\ ~IsCompaction(l[i].turn)
      OBVIOUS
    <2>1. i \in 1..Len(l) /\ i \in Nat /\ i \notin 1..n
      BY <1>1, <1>2
    <2> QED BY <1>1, <1>3, <2>1 DEF ChatIsOfTurns
  <1>9. \A i \in C : l[i].seq \in Nat /\ n <= l[i].seq
    <2> TAKE i \in C
    <2>1. l[i].seq \in Nat
      <3>1. l[i] \in Stored
        BY <1>1, <1>8
      <3> QED BY <3>1 DEF Stored
    <2>2. CASE n = 0
      BY <2>1, <2>2
    <2>3. CASE n # 0
      <3>1. n \in 1..Len(l) /\ n \in 1..n
        BY <1>1, <1>3, <2>3
      <3>2. l[n].seq < l[i].seq
        BY <1>1, <1>8, <3>1 DEF Ordered
      <3>3. l[n].seq = n - 1
        BY <1>4, <3>1
      <3> QED BY <1>3, <2>1, <3>2, <3>3
    <2> QED BY <2>2, <2>3
  <1>p. Paired(chat)
    <2>1. \A i \in C : /\ l[i].kind = "user" => i + 1 \in C
                       /\ l[i].kind = "asst" => i - 1 \in C
      BY <1>1 DEF Paired, InPair
    <2> HIDE DEF C
    <2> QED BY <1>1, <1>7, <2>1, PairedAt
  <1> HIDE DEF C, r
  <1>f. PICK f : Picks(f, C, l, Stored)
    BY <1>1, <1>7, AtOfSeq
  <1>10. /\ f \in [1..Cardinality(C) -> C] /\ Cardinality(C) \in Nat
         /\ chat \in Seq(Stored) /\ Len(chat) = Cardinality(C)
         /\ \A k \in 1..Cardinality(C) : chat[k] = l[f[k]]
         /\ \A k, m \in 1..Cardinality(C) : k < m => f[k] < f[m]
    BY <1>f DEF Picks
  <1> HIDE DEF chat
  <1> DEFINE z == Len(chat)
  <1>11. /\ z \in Nat /\ DOMAIN chat = 1..z
         /\ \A k \in 1..z : chat[k] \in Stored /\ f[k] \in C /\ chat[k] = l[f[k]]
         /\ \A k, m \in 1..z : k < m => f[k] < f[m]
    BY <1>10
  <1>12. Ordered(chat)
    <2> SUFFICES ASSUME NEW i \in 1..z, NEW j \in 1..z, i < j PROVE chat[i].seq < chat[j].seq
      BY DEF Ordered
    <2>1. f[i] < f[j] /\ f[i] \in C /\ f[j] \in C /\ chat[i] = l[f[i]] /\ chat[j] = l[f[j]]
      BY <1>11
    <2>2. f[i] \in 1..Len(l) /\ f[j] \in 1..Len(l)
      BY <1>8, <2>1
    <2> QED BY <1>1, <2>1, <2>2 DEF Ordered
  <1>13. \A k \in 1..z : /\ ~IsCompaction(chat[k].turn) /\ chat[k].kind # "summary"
                         /\ chat[k].seq \in Nat /\ n <= chat[k].seq
    BY <1>8, <1>9, <1>11
  <1>14. R \subseteq DOMAIN chat /\ K \subseteq DOMAIN chat
    OBVIOUS
  <1>15. \A i \in R : i \in 1..z /\ chat[i].turn \notin kept
    BY <1>11
  <1>16. \A i \in K : i \in 1..z /\ chat[i].turn \in kept
    BY <1>11
  <1>q. Paired(keeps)
    <2>1. \A i \in K : /\ chat[i].kind = "user" => i + 1 \in K
                       /\ chat[i].kind = "asst" => i - 1 \in K
      BY <1>11, <1>p DEF Paired, InPair
    <2> HIDE DEF K
    <2> QED BY <1>10, <1>14, <1>p, <2>1, PairedAt
  <1> HIDE DEF R, K
  <1>17. PICK a : a \in R
    <2> SUFFICES ASSUME R = {} PROVE FALSE
      OBVIOUS
    <2>f. PICK g : Picks(g, R, chat, Stored)
      BY <1>10, <1>14, AtOfSeq
    <2>1. old \in Seq(Stored) /\ Len(old) = Cardinality(R)
      BY <2>f DEF Picks
    <2>2. Cardinality(R) = 0
      BY FS_EmptySet
    <2>3. old = <<>>
      BY <2>1, <2>2, EmptySeq
    <2> QED BY <1>6, <2>3
  <1>18. \A b \in K : b \in Nat /\ b > 1
    <2> TAKE b \in K
    <2>1. a \in 1..z /\ b \in 1..z /\ chat[a].turn \notin kept /\ chat[b].turn \in kept
      BY <1>15, <1>16, <1>17
    <2>2. \A i \in 1..Len(chat) : ~IsCompaction(chat[i].turn)
      BY <1>13
    <2>3. b > 1
      BY <1>0, <1>10, <1>12, <2>1, <2>2, FirstIsOld
    <2> QED BY <1>11, <2>1, <2>3
  <1> HIDE DEF kept
  <1>19. \A b \in K : chat[b].seq \in Nat /\ n < chat[b].seq
    <2> TAKE b \in K
    <2>1. b \in 1..z /\ b > 1 /\ b \in Nat
      BY <1>16, <1>18
    <2>2. 1 \in 1..z
      BY <1>11, <2>1
    <2>3. chat[1].seq < chat[b].seq
      BY <1>12, <2>1, <2>2 DEF Ordered
    <2>4. chat[1].seq \in Nat /\ chat[b].seq \in Nat /\ n <= chat[1].seq
      BY <1>13, <2>1, <2>2
    <2> QED BY <1>3, <2>3, <2>4
  <1>g. PICK g : Picks(g, K, chat, Stored)
    BY <1>10, <1>14, AtOfSeq
  <1>20. /\ g \in [1..Cardinality(K) -> K] /\ Cardinality(K) \in Nat
         /\ keeps \in Seq(Stored) /\ Len(keeps) = Cardinality(K)
         /\ \A k \in 1..Cardinality(K) : keeps[k] = chat[g[k]]
         /\ \A k, m \in 1..Cardinality(K) : k < m => g[k] < g[m]
    BY <1>g DEF Picks
  <1>21. old \in Seq(Stored)
    <2>1. PICK h : Picks(h, R, chat, Stored)
      BY <1>10, <1>14, AtOfSeq
    <2> QED BY <2>1 DEF Picks
  <1> HIDE DEF keeps, old
  <1> DEFINE y == Len(keeps)
  <1>22. /\ y \in Nat
         /\ \A k \in 1..y : keeps[k] \in Stored /\ g[k] \in K /\ keeps[k] = chat[g[k]]
         /\ \A k, m \in 1..y : k < m => g[k] < g[m]
    BY <1>20
  <1>23. \A k \in 1..y : /\ keeps[k].seq \in Nat /\ n < keeps[k].seq
                         /\ ~IsCompaction(keeps[k].turn) /\ keeps[k].kind # "summary"
    BY <1>13, <1>16, <1>19, <1>22
  <1>24. \A k, m \in 1..y : k < m => keeps[k].seq < keeps[m].seq
    <2> SUFFICES ASSUME NEW k \in 1..y, NEW m \in 1..y, k < m PROVE keeps[k].seq < keeps[m].seq
      OBVIOUS
    <2>1. g[k] \in 1..z /\ g[m] \in 1..z /\ g[k] < g[m]
          /\ keeps[k] = chat[g[k]] /\ keeps[m] = chat[g[m]]
      BY <1>16, <1>22
    <2> QED BY <1>12, <2>1 DEF Ordered
  <1>25. summary \in Stored /\ summary.seq = n /\ summary.kind = "summary"
    <2>1. TurnsOf(old) \subseteq TurnIds
      <3>1. \A i \in DOMAIN old : old[i] \in Stored
        BY <1>21
      <3>2. \A x \in ToSet(old) : x \in Stored
        BY <3>1 DEF ToSet
      <3>3. \A x \in Stored : x.turn \in TurnIds
        BY DEF Stored
      <3> QED BY <3>2, <3>3 DEF TurnsOf
    <2>2. "summary" \in Kinds /\ "" \in Infos
      BY DEF Kinds, Infos
    <2>3. summary.seq = n /\ summary.kind = "summary"
      BY <1>5
    <2> QED BY <1>3, <1>5, <2>1, <2>2, <2>3 DEF Stored
  <1> HIDE DEF summary
  <1>26. /\ r \in Seq(Stored) /\ Len(r) = n + 1 + y
         /\ \A i \in 1..n : r[i] = l[i]
         /\ r[n + 1] = summary
         /\ \A i \in n + 2..Len(r) : r[i] = keeps[i - n - 1]
         /\ Paired(r)
    <2> DEFINE s == Summaries(l)
               q == s \o <<summary>>
    <2>1. <<summary>> \in Seq(Stored) /\ Len(<<summary>>) = 1 /\ <<summary>>[1] = summary
      BY <1>25
    <2>2. s \in Seq(Stored) /\ Len(s) = n /\ \A k \in 1..n : s[k] = l[k]
      BY <1>5
    <2> HIDE DEF s
    <2>3. /\ q \in Seq(Stored) /\ Len(q) = n + 1
          /\ \A i \in 1..n + 1 : q[i] = IF i <= n THEN s[i] ELSE <<summary>>[i - n]
      BY <2>1, <2>2, ConcatProperties
    <2>4. (\A i \in 1..n : q[i] = l[i]) /\ q[n + 1] = summary
      BY <1>3, <2>1, <2>2, <2>3
    <2>5. r = q \o keeps
      BY <1>6 DEF s
    <2> HIDE DEF q
    <2>p. Paired(q)
      <3>1. \A i \in 1..n + 1 : i \in 1..n \/ i = n + 1
        BY <1>3
      <3>2. \A i \in 1..n + 1 : q[i].kind = "summary"
        BY <1>4, <1>25, <2>4, <3>1
      <3> QED BY <2>3, <3>2 DEF Paired, InPair
    <2>q. Paired(r)
      BY <1>20, <1>q, <2>3, <2>5, <2>p, PairedConcat
    <2>6. /\ r \in Seq(Stored) /\ Len(r) = n + 1 + y
          /\ \A i \in 1..n + 1 + y : r[i] = IF i <= n + 1 THEN q[i] ELSE keeps[i - (n + 1)]
      <3>1. /\ r \in Seq(Stored) /\ Len(r) = Len(q) + Len(keeps)
            /\ \A i \in 1..Len(q) + Len(keeps) : r[i] = IF i <= Len(q) THEN q[i] ELSE keeps[i - Len(q)]
        BY <1>20, <2>3, <2>5, ConcatProperties
      <3> QED BY <2>3, <3>1
    <2>7. \A i \in n + 2..Len(r) : i - (n + 1) = i - n - 1 /\ i \in 1..n + 1 + y /\ ~(i <= n + 1)
      BY <1>3, <1>22, <2>6
    <2>8. \A i \in 1..n + 1 : i \in 1..n + 1 + y /\ i <= n + 1
      BY <1>3, <1>22
    <2>9. (\A i \in 1..n : i \in 1..n + 1) /\ n + 1 \in 1..n + 1
      BY <1>3
    <2>10. \A i \in 1..n + 1 : r[i] = q[i]
      BY <2>6, <2>8
    <2>11. \A i \in n + 2..Len(r) : r[i] = keeps[i - n - 1]
      BY <2>6, <2>7
    <2> QED BY <2>4, <2>6, <2>9, <2>10, <2>11, <2>q
  <1>27. \A i \in 1..Len(r) : /\ i \in Nat
                              /\ \/ i \in 1..n
                                 \/ i = n + 1
                                 \/ i \in n + 2..Len(r) /\ i - n - 1 \in 1..y /\ i > n + 1
    BY <1>3, <1>22, <1>26
  <1> HIDE DEF y
  <1>28. \A i \in 1..n : r[i].seq = i - 1 /\ r[i].kind = "summary" /\ i \in Nat /\ i <= n
    BY <1>3, <1>4, <1>26
  <1>29. r[n + 1].seq = n /\ r[n + 1].kind = "summary"
    BY <1>25, <1>26
  <1>30. \A i \in n + 2..Len(r) : i - n - 1 \in 1..y =>
            /\ r[i].seq \in Nat /\ n < r[i].seq
            /\ ~IsCompaction(r[i].turn) /\ r[i].kind # "summary"
    BY <1>23, <1>26
  <1>31. Ordered(r)
    <2> SUFFICES ASSUME NEW i \in 1..Len(r), NEW j \in 1..Len(r), i < j PROVE r[i].seq < r[j].seq
      BY DEF Ordered
    <2>1. i \in Nat /\ j \in Nat
      BY <1>27
    <2>2. CASE j \in 1..n \/ j = n + 1
      <3>1. i \in 1..n
        BY <1>3, <2>1, <2>2
      <3>2. r[i].seq = i - 1 /\ r[j].seq = j - 1
        BY <1>3, <1>28, <1>29, <2>2, <3>1
      <3> QED BY <2>1, <3>2
    <2>3. CASE j \in n + 2..Len(r) /\ j - n - 1 \in 1..y /\ j > n + 1
      <3>1. r[j].seq \in Nat /\ n < r[j].seq /\ r[j] = keeps[j - n - 1]
        BY <1>26, <1>30, <2>3
      <3>2. CASE i \in 1..n
        <4>1. r[i].seq = i - 1 /\ i <= n
          BY <1>28, <3>2
        <4> QED BY <1>3, <2>1, <3>1, <4>1
      <3>3. CASE i = n + 1
        BY <1>29, <3>1, <3>3
      <3>4. CASE i \in n + 2..Len(r) /\ i - n - 1 \in 1..y
        <4>1. i - n - 1 < j - n - 1
          BY <1>3, <2>1
        <4>2. r[i] = keeps[i - n - 1]
          BY <1>26, <3>4
        <4> QED BY <1>24, <2>3, <3>1, <3>4, <4>1, <4>2
      <3> QED BY <1>27, <3>2, <3>3, <3>4
    <2> QED BY <1>27, <2>2, <2>3
  <1>32. SummariesFirst(r)
    <2> SUFFICES ASSUME NEW i \in 1..Len(r), r[i].kind = "summary"
                 PROVE  r[i].seq = i - 1 /\ \A j \in 1..i : r[j].kind = "summary"
      BY DEF SummariesFirst
    <2>1. i \in 1..n \/ i = n + 1
      BY <1>27, <1>30
    <2>2. r[i].seq = i - 1
      <3>1. CASE i \in 1..n
        BY <1>28, <3>1
      <3>2. CASE i = n + 1
        BY <1>3, <1>29, <3>2
      <3> QED BY <2>1, <3>1, <3>2
    <2>3. \A j \in 1..i : j \in 1..n \/ j = n + 1
      BY <1>3, <2>1
    <2> QED BY <1>28, <1>29, <2>2, <2>3
  <1>33. ChatIsOfTurns(r)
    BY <1>27, <1>28, <1>29, <1>30 DEF ChatIsOfTurns
  <1> QED BY <1>26, <1>31, <1>32, <1>33 DEF FileOK, r

-----------------------------------------------------------------------------
(* What turns write.                                                       *)

LEMMA OneRecord ==
    ASSUME NEW t \in TurnIds, NEW info \in Infos
    PROVE  /\ <<Rec(t, "terminal", info)>> \in Batch(t)
           /\ <<Rec(t, "terminal", info)>> # <<>>
  <1>1. Rec(t, "terminal", info) \in Stored /\ Rec(t, "terminal", info).turn = t
        /\ Rec(t, "terminal", info).kind = "terminal"
    BY DEF Rec, Stored, Kinds
  <1> DEFINE x == Rec(t, "terminal", info)
  <1> HIDE DEF x
  <1>2. <<x>> \in Seq(Stored) /\ Len(<<x>>) = 1 /\ <<x>>[1] = x
    BY <1>1 DEF x
  <1>3. \A i \in 1..1 : i = 1
    OBVIOUS
  <1>4. Paired(<<x>>)
    BY <1>1, <1>2, <1>3 DEF Paired, InPair, x
  <1> QED BY <1>1, <1>2, <1>3, <1>4 DEF Batch, x

LEMMA Together ==
    ASSUME NEW t, NEW a \in Batch(t), NEW b \in Batch(t), a # <<>>
    PROVE  a \o b \in Batch(t) /\ a \o b # <<>>
  <1>1. a \in Seq(Stored) /\ b \in Seq(Stored) /\ Paired(a) /\ Paired(b)
    BY DEF Batch
  <1>2. /\ a \o b \in Seq(Stored) /\ Len(a \o b) = Len(a) + Len(b)
        /\ \A i \in 1..Len(a) + Len(b) : (a \o b)[i] = IF i <= Len(a) THEN a[i] ELSE b[i - Len(a)]
    BY <1>1, ConcatProperties
  <1>3. Len(a) \in Nat /\ Len(b) \in Nat /\ Len(a) > 0
    BY <1>1
  <1>4. \A i \in 1..Len(a) + Len(b) :
           \/ i \in 1..Len(a) /\ (a \o b)[i] = a[i]
           \/ i - Len(a) \in 1..Len(b) /\ (a \o b)[i] = b[i - Len(a)]
    BY <1>2, <1>3
  <1>5. \A i \in 1..Len(a \o b) : (a \o b)[i].turn = t /\ (a \o b)[i].kind # "summary"
    BY <1>2, <1>4 DEF Batch
  <1>6. a \o b # <<>>
    BY <1>2, <1>3
  <1>7. Paired(a \o b)
    BY <1>1, PairedConcat
  <1> QED BY <1>2, <1>5, <1>6, <1>7 DEF Batch

LEMMA TurnRecords ==
    ASSUME NEW t \in TurnIds
    PROVE  \A b \in {CompletedTurn(t, "completed"), CompletedTurn(t, "failed"),
                     PartialTurn(t) \o TerminalRecord(t, "degraded"), PartialTurn(t),
                     TerminalRecord(t, "cancelled"),
                     FailedRecords(t, "failed"), FailedRecords(t, "cancelled")} :
              b \in Batch(t) /\ b # <<>>
  <1>1. \A status \in {"completed", "failed", "degraded", "cancelled"} :
           TerminalRecord(t, status) \in Batch(t) /\ TerminalRecord(t, status) # <<>>
    BY OneRecord DEF TerminalRecord, Kinds, Infos
  <1>2. \A usage \in {"usage", "plain"} :
           InitialRecords(t, usage) \in Batch(t) /\ InitialRecords(t, usage) # <<>>
    <2> SUFFICES ASSUME NEW usage \in {"usage", "plain"}
                 PROVE  InitialRecords(t, usage) \in Batch(t) /\ InitialRecords(t, usage) # <<>>
      OBVIOUS
    <2> DEFINE u == Rec(t, "user", "")
               v == Rec(t, "asst", usage)
    <2>1. /\ u \in Stored /\ u.turn = t /\ u.kind = "user"
          /\ v \in Stored /\ v.turn = t /\ v.kind = "asst"
      BY DEF Rec, Stored, Kinds, Infos
    <2>2. InitialRecords(t, usage) = <<u, v>>
      BY DEF InitialRecords
    <2> HIDE DEF u, v
    <2>3. <<u, v>> \in Seq(Stored) /\ Len(<<u, v>>) = 2 /\ <<u, v>>[1] = u /\ <<u, v>>[2] = v
      BY <2>1
    <2>4. \A i \in 1..2 : i = 1 \/ i = 2
      OBVIOUS
    <2>5. Paired(<<u, v>>)
      <3> DEFINE p == <<u, v>>
      <3>1. Len(p) = 2 /\ p[1] = u /\ p[2] = v
        BY <2>3
      <3> HIDE DEF p
      <3>2. InPair(p, 1)
        BY <2>1, <3>1 DEF InPair
      <3>3. InPair(p, 2)
        BY <2>1, <3>1 DEF InPair
      <3>4. Paired(p)
        BY <2>4, <3>1, <3>2, <3>3 DEF Paired
      <3> QED BY <3>4 DEF p
    <2> QED BY <2>1, <2>2, <2>3, <2>4, <2>5 DEF Batch
  <1> QED BY <1>1, <1>2, Together DEF CompletedTurn, PartialTurn, FailedRecords

-----------------------------------------------------------------------------
(* The invariant.                                                          *)

Shape ==
    /\ pc \in [Procs -> DeliveryPlaces]
    /\ inner \in [Deliveries -> {"none", "initial", "outcomes", "failed"}]
    /\ snapshot \in [Procs -> Seq(Stored)]
    /\ archive \in [Turns -> Nat] /\ started \in [Turns -> Nat]
    /\ seen \subseteq Turns /\ passes \in Nat /\ expiries \in Nat

(* The file is in order, and so is what a waiting compaction pass will     *)
(* build its replacement from, however old that is.                        *)
FilesOK ==
    /\ FileOK(log)
    /\ \A p \in Procs : pc[p] = "summarize" =>
          FileOK(snapshot[p]) /\ RecordsToSummarize(snapshot[p], KeepRecent) # <<>>

(* An execution is paid for by an expired record or by the current one. *)
Accounted == \A t \in Turns : started[t] <= expiries + IF t \in seen THEN 1 ELSE 0

TurnInv == Shape /\ FilesOK /\ Accounted

(* What a step does to the file: nothing, an append of a turn that runs or *)
(* has a write outstanding, a reset, or the replacement by a waiting pass. *)
Kept == log' = log /\ recorded' = recorded /\ archive' = archive

Appending(d) ==
    /\ pc[d] = "model" \/ inner[d] # "none"
    /\ \E b \in Batch(EventOf[d]) :
          /\ b # <<>> /\ log' = AppendRecords(log, b)
          /\ recorded' = recorded \cup TurnsOf(b)
    /\ archive' = archive

Clearing ==
    /\ ArchiveSessionUsage
    /\ log' = <<>> /\ recorded' = {}

Replacing(p) ==
    /\ pc[p] = "summarize"
    /\ ReplaceFromSnapshot(p)
    /\ recorded' = recorded

LEMMA LogSteps ==
    ASSUME Shape, [Next]_vars
    PROVE  \/ Kept
           \/ \E d \in Deliveries : Appending(d)
           \/ Clearing
           \/ \E p \in Procs : Replacing(p)
  <1>1. \A d \in Deliveries : EventOf[d] \in TurnIds
    BY DEF TurnIds, Turns
  <1>2. ASSUME NEW d \in Deliveries,
               Start(d) \/ Prepare(d) \/ SummarizeRaises(d) \/ Notified(d)
                   \/ TurnRaises(d) \/ Cancel(d) \/ ShieldReturns(d)
        PROVE  Kept
    BY <1>2 DEF Start, Prepare, SummarizeRaises, Notified, TurnRaises, Cancel, ShieldReturns,
                Kept, store, observed
  <1>3. ASSUME NEW d \in Deliveries, SummarizeReturns(d) PROVE Replacing(d)
    BY <1>3 DEF SummarizeReturns, Replacing, observed
  <1>4. ASSUME NEW d \in Deliveries, ModelReturns(d) \/ ModelDegrades(d) \/ TurnFails(d)
        PROVE  Appending(d)
    <2>1. pc[d] = "model" /\ archive' = archive
      BY <1>4 DEF ModelReturns, ModelDegrades, TurnFails
    <2>2. \E b \in {CompletedTurn(EventOf[d], "completed"), CompletedTurn(EventOf[d], "failed"),
                    PartialTurn(EventOf[d]) \o TerminalRecord(EventOf[d], "degraded"),
                    FailedRecords(EventOf[d], "failed")} : Write(b)
      BY <1>4 DEF ModelReturns, ModelDegrades, TurnFails
    <2> QED BY <1>1, <2>1, <2>2, TurnRecords DEF Appending, Write
  <1>5. ASSUME NEW d \in Deliveries, ShieldedWrite(d) PROVE Appending(d)
    <2>1. inner[d] \in {"initial", "outcomes", "failed"} /\ archive' = archive
          /\ Write(InnerRecords(d))
      BY <1>5 DEF ShieldedWrite, Shape
    <2>2. InnerRecords(d) \in {PartialTurn(EventOf[d]), TerminalRecord(EventOf[d], "cancelled"),
                               FailedRecords(EventOf[d], "cancelled")}
      BY <2>1 DEF InnerRecords
    <2>3. InnerRecords(d) \in Batch(EventOf[d]) /\ InnerRecords(d) # <<>>
      BY <1>1, <2>2, TurnRecords
    <2> QED BY <2>1, <2>3 DEF Appending, Write
  <1>6. ASSUME NEW d \in Deliveries, TokenLimit(d) PROVE Clearing
    BY <1>6 DEF TokenLimit, Clearing, ClearSession
  <1>7. ASSUME NEW k \in Compactors, StartCompact(k) \/ CancelCompact(k) PROVE Kept
    BY <1>7 DEF StartCompact, CancelCompact, Kept, observed
  <1>8. ASSUME NEW k \in Compactors, CompactReturns(k) PROVE Kept \/ Replacing(k)
    BY <1>8 DEF CompactReturns, Kept, Replacing, observed
  <1>9. ASSUME Reset PROVE Clearing
    BY <1>9 DEF Reset, Clearing, ClearSession
  <1>10. ASSUME LockFileExpires \/ (\E t \in Turns : IdempotencyExpires(t)) \/ UNCHANGED vars
         PROVE  Kept
    BY <1>10 DEF LockFileExpires, IdempotencyExpires, vars, store, observed, Kept
  <1> QED BY <1>2, <1>3, <1>4, <1>5, <1>6, <1>7, <1>8, <1>9, <1>10 DEF Next, ModelCallEnds, Procs

-----------------------------------------------------------------------------
(* The session starts with a file in order that holds its old turns. *)
LEMMA InitialFile ==
    /\ FileOK(InitialLog)
    /\ OldTurns \subseteq TurnsOf(InitialLog)
  <1> DEFINE Num(i) == 100 + ((i + 2) \div 3)
             Place(i) == ((i - 1) % 3) + 1
             T(i) == CompletedTurn(TurnId(Num(i)), "completed")
             z == 3 * History
  <1>1. History \in Nat /\ z \in Nat
    BY ProcsAssumption
  <1>2. InitialLog = [i \in 1..z |-> [T(i)[Place(i)] EXCEPT !.seq = i - 1]]
    BY DEF InitialLog
  <1>3. \A i \in 1..z : i \in Nat /\ i - 1 \in Nat /\ Place(i) \in 1..3
                        /\ ((i + 2) \div 3) \in 1..History
    BY <1>1
  <1>4. \A i \in 1..z : TurnId(Num(i)) \in TurnIds /\ ~IsCompaction(TurnId(Num(i)))
    <2> TAKE i \in 1..z
    <2>1. TurnId(Num(i)) \in OldTurns
      BY <1>3 DEF OldTurns
    <2>2. ~IsCompaction(TurnId(Num(i)))
      BY DEF IsCompaction, TurnId
    <2> QED BY <2>1, <2>2 DEF TurnIds, Turns
  <1>5. ASSUME NEW t \in TurnIds
        PROVE  /\ CompletedTurn(t, "completed")[1].kind = "user"
               /\ CompletedTurn(t, "completed")[2].kind = "asst"
               /\ CompletedTurn(t, "completed")[3].kind = "terminal"
               /\ \A k \in 1..3 : /\ CompletedTurn(t, "completed")[k] \in Stored
                                  /\ CompletedTurn(t, "completed")[k].turn = t
    <2> DEFINE u == InitialRecords(t, "usage")
               v == TerminalRecord(t, "completed")
    <2>1. CompletedTurn(t, "completed") \in Batch(t)
      BY TurnRecords
    <2>2. CompletedTurn(t, "completed") = u \o v
      BY DEF CompletedTurn
    <2>3. /\ Len(CompletedTurn(t, "completed")) = 3
          /\ CompletedTurn(t, "completed")[1].kind = "user"
          /\ CompletedTurn(t, "completed")[2].kind = "asst"
          /\ CompletedTurn(t, "completed")[3].kind = "terminal"
      <3> DEFINE x == Rec(t, "user", "")
                 y == Rec(t, "asst", "usage")
                 w == Rec(t, "terminal", "completed")
      <3>1. x \in Stored /\ y \in Stored /\ w \in Stored
        BY DEF Rec, Stored, Kinds, Infos
      <3>k. x.kind = "user" /\ y.kind = "asst" /\ w.kind = "terminal"
        BY DEF Rec
      <3>2. u = <<x, y>> /\ v = <<w>>
        BY DEF InitialRecords, TerminalRecord
      <3> HIDE DEF u, v, x, y, w
      <3>3. u \in Seq(Stored) /\ Len(u) = 2 /\ u[1] = x /\ u[2] = y
        BY <3>1, <3>2
      <3>4. v \in Seq(Stored) /\ Len(v) = 1 /\ v[1] = w
        BY <3>1, <3>2
      <3> DEFINE c == u \o v
      <3>5. /\ Len(c) = Len(u) + Len(v)
            /\ \A i \in 1..Len(u) + Len(v) : c[i] = IF i <= Len(u) THEN u[i] ELSE v[i - Len(u)]
        BY <3>3, <3>4, ConcatProperties
      <3> HIDE DEF c
      <3>6. Len(c) = 3 /\ c[1] = x /\ c[2] = y /\ c[3] = w
        BY <3>3, <3>4, <3>5
      <3>7. CompletedTurn(t, "completed") = c
        BY <2>2 DEF c
      <3> QED BY <3>6, <3>7, <3>k
    <2> QED BY <2>1, <2>3 DEF Batch
  <1> DEFINE KindAt(k) == CASE k = 1 -> "user" [] k = 2 -> "asst" [] k = 3 -> "terminal"
  <1>6. \A i \in 1..z : /\ T(i)[Place(i)] \in Stored /\ T(i)[Place(i)].kind = KindAt(Place(i))
                        /\ T(i)[Place(i)].turn = TurnId(Num(i))
    <2> TAKE i \in 1..z
    <2>1. TurnId(Num(i)) \in TurnIds /\ Place(i) \in 1..3
      BY <1>3, <1>4
    <2> HIDE DEF Num, Place
    <2>2. Place(i) = 1 \/ Place(i) = 2 \/ Place(i) = 3
      BY <2>1
    <2> QED BY <1>5, <2>1, <2>2
  <1>p. \A i \in 1..z :
           /\ Place(i) = 1 => i + 1 \in 1..z /\ Place(i + 1) = 2 /\ Num(i + 1) = Num(i)
           /\ Place(i) = 2 => i - 1 \in 1..z /\ Place(i - 1) = 1 /\ Num(i - 1) = Num(i)
    BY <1>1
  <1> HIDE DEF T, z, Place
  <1>7. \A i \in 1..z : /\ InitialLog[i] \in Stored /\ InitialLog[i].kind = KindAt(Place(i))
                        /\ InitialLog[i].kind # "summary"
                        /\ InitialLog[i].turn = TurnId(Num(i)) /\ InitialLog[i].seq = i - 1
    <2> TAKE i \in 1..z
    <2>1. InitialLog[i] = [T(i)[Place(i)] EXCEPT !.seq = i - 1]
      BY <1>2
    <2>2. KindAt(Place(i)) # "summary"
      BY <1>3
    <2> HIDE DEF KindAt
    <2> QED BY <1>3, <1>6, <2>1, <2>2 DEF Stored
  <1>8. InitialLog \in [1..z -> Stored]
    BY <1>2, <1>7
  <1>9. InitialLog \in Seq(Stored) /\ Len(InitialLog) = z /\ DOMAIN InitialLog = 1..z
    BY <1>1, <1>8
  <1>10. FileOK(InitialLog)
    <2>1. Ordered(InitialLog)
      BY <1>3, <1>7, <1>9 DEF Ordered
    <2>2. SummariesFirst(InitialLog)
      BY <1>7, <1>9 DEF SummariesFirst
    <2>3. ChatIsOfTurns(InitialLog)
      BY <1>4, <1>7, <1>9 DEF ChatIsOfTurns
    <2>4. ASSUME NEW i \in 1..z PROVE InPair(InitialLog, i)
      <3>0. Place(i) = 1 \/ Place(i) = 2 \/ Place(i) = 3
        BY <1>3
      <3>1. CASE Place(i) = 1
        <4>1. i + 1 \in 1..z /\ Place(i + 1) = 2 /\ Num(i + 1) = Num(i)
          BY <1>p, <3>1
        <4> HIDE DEF Num
        <4>2. /\ InitialLog[i].kind = "user" /\ InitialLog[i + 1].kind = "asst"
              /\ InitialLog[i + 1].turn = InitialLog[i].turn
          BY <1>7, <3>1, <4>1
        <4> QED BY <1>9, <4>1, <4>2 DEF InPair
      <3>2. CASE Place(i) = 2
        <4>1. i - 1 \in 1..z /\ Place(i - 1) = 1 /\ Num(i - 1) = Num(i)
          BY <1>p, <3>2
        <4> HIDE DEF Num
        <4>2. /\ InitialLog[i].kind = "asst" /\ InitialLog[i - 1].kind = "user"
              /\ InitialLog[i - 1].turn = InitialLog[i].turn
          BY <1>7, <3>2, <4>1
        <4> QED BY <1>9, <4>1, <4>2 DEF InPair
      <3>3. CASE Place(i) = 3
        BY <1>7, <3>3 DEF InPair
      <3> QED BY <3>0, <3>1, <3>2, <3>3
    <2>5. Paired(InitialLog)
      BY <1>9, <2>4 DEF Paired
    <2> QED BY <1>9, <2>1, <2>2, <2>3, <2>5 DEF FileOK
  <1>11. OldTurns \subseteq TurnsOf(InitialLog)
    <2> SUFFICES ASSUME NEW n \in 1..History PROVE TurnId(100 + n) \in TurnsOf(InitialLog)
      BY DEF OldTurns
    <2>1. 3 * n \in 1..z /\ ((3 * n + 2) \div 3) = n
      BY <1>1 DEF z
    <2>2. InitialLog[3 * n].turn = TurnId(100 + n)
      BY <1>7, <2>1
    <2> QED BY <1>9, <2>1, <2>2 DEF TurnsOf, ToSet
  <1> QED BY <1>10, <1>11

LEMMA TurnInvInit ==
    ASSUME Init
    PROVE  TurnInv
  <1>1. <<>> \in Seq(Stored)
    OBVIOUS
  <1>2. Shape
    BY <1>1 DEF Init, Shape, DeliveryPlaces
  <1>3. FilesOK
    BY InitialFile DEF Init, FilesOK
  <1>4. Accounted
    BY DEF Init, Accounted
  <1> QED BY <1>2, <1>3, <1>4 DEF TurnInv

(* A file in order is written by every step. *)
LEMMA FileStep ==
    ASSUME TurnInv, [Next]_vars
    PROVE  FileOK(log')
  <1>1. CASE Kept
    BY <1>1 DEF TurnInv, FilesOK, Kept
  <1>2. ASSUME NEW d \in Deliveries, Appending(d) PROVE FileOK(log')
    <2>1. ~IsCompaction(EventOf[d])
      BY ProcsAssumption
    <2> QED BY <1>2, <2>1, AppendFacts DEF TurnInv, FilesOK, Appending
  <1>3. CASE Clearing
    <2>1. <<>> \in Seq(Stored) /\ Len(<<>>) = 0
      OBVIOUS
    <2> QED BY <1>3, <2>1 DEF Clearing, FileOK, Ordered, SummariesFirst, ChatIsOfTurns, Paired
  <1>4. ASSUME NEW p \in Procs, Replacing(p) PROVE FileOK(log')
    <2>1. FileOK(snapshot[p]) /\ RecordsToSummarize(snapshot[p], KeepRecent) # <<>>
      BY <1>4 DEF TurnInv, FilesOK, Replacing
    <2>2. CompactionId(passes) \in TurnIds
      BY DEF TurnInv, Shape, TurnIds
    <2>3. log' = Compacted(snapshot[p], KeepRecent, CompactionId(passes))
      BY <1>4 DEF Replacing, ReplaceFromSnapshot
    <2> QED BY <2>1, <2>2, <2>3, CompactedFacts
  <1> QED BY <1>1, <1>2, <1>3, <1>4, LogSteps DEF TurnInv

(* A pass only waits for a summary of what it has read, and it read a file *)
(* in order.                                                               *)
LEMMA SnapshotStep ==
    ASSUME TurnInv, [Next]_vars
    PROVE  /\ pc' \in [Procs -> DeliveryPlaces]
           /\ inner' \in [Deliveries -> {"none", "initial", "outcomes", "failed"}]
           /\ snapshot' \in [Procs -> Seq(Stored)]
           /\ \A p \in Procs : pc'[p] = "summarize" =>
                 /\ FileOK(snapshot'[p])
                 /\ RecordsToSummarize(snapshot'[p], KeepRecent) # <<>>
  <1> DEFINE Good == /\ pc' \in [Procs -> DeliveryPlaces]
                     /\ inner' \in [Deliveries -> {"none", "initial", "outcomes", "failed"}]
                     /\ snapshot' \in [Procs -> Seq(Stored)]
                     /\ \A p \in Procs : pc'[p] = "summarize" =>
                           /\ FileOK(snapshot'[p])
                           /\ RecordsToSummarize(snapshot'[p], KeepRecent) # <<>>
  <1>1. /\ pc \in [Procs -> DeliveryPlaces]
        /\ inner \in [Deliveries -> {"none", "initial", "outcomes", "failed"}]
        /\ snapshot \in [Procs -> Seq(Stored)]
        /\ FileOK(log) /\ ReadAll(log) = log /\ log \in Seq(Stored) /\ <<>> \in Seq(Stored)
        /\ \A p \in Procs : pc[p] = "summarize" =>
              /\ FileOK(snapshot[p])
              /\ RecordsToSummarize(snapshot[p], KeepRecent) # <<>>
    BY ReadAllIsFile DEF TurnInv, Shape, FilesOK, FileOK
  <1>2. ASSUME UNCHANGED <<pc, inner, snapshot>> PROVE Good
    BY <1>1, <1>2
  <1>3. ASSUME NEW p \in Procs, NEW place \in DeliveryPlaces \ {"summarize"}, Goto(p, place),
               inner' \in [Deliveries -> {"none", "initial", "outcomes", "failed"}],
               snapshot' = snapshot \/ snapshot' = [snapshot EXCEPT ![p] = <<>>]
        PROVE  Good
    <2>1. pc' \in [Procs -> DeliveryPlaces] /\ pc'[p] = place
          /\ \A q \in Procs : q # p => pc'[q] = pc[q]
      BY <1>1, <1>3 DEF Goto
    <2>2. snapshot' \in [Procs -> Seq(Stored)] /\ \A q \in Procs : q # p => snapshot'[q] = snapshot[q]
      BY <1>1, <1>3
    <2> QED BY <1>1, <1>3, <2>1, <2>2
  <1>4. ASSUME NEW p \in Procs, Goto(p, "summarize"), inner' = inner,
               snapshot' = [snapshot EXCEPT ![p] = log],
               RecordsToSummarize(log, KeepRecent) # <<>>
        PROVE  Good
    <2>1. pc' \in [Procs -> DeliveryPlaces] /\ \A q \in Procs : q # p => pc'[q] = pc[q]
      BY <1>1, <1>4 DEF Goto, DeliveryPlaces
    <2>2. snapshot' \in [Procs -> Seq(Stored)] /\ snapshot'[p] = log
          /\ \A q \in Procs : q # p => snapshot'[q] = snapshot[q]
      BY <1>1, <1>4
    <2> QED BY <1>1, <1>4, <2>1, <2>2
  <1>5. "content" \in DeliveryPlaces /\ "notify" \in DeliveryPlaces /\ "model" \in DeliveryPlaces
        /\ "shieldInitial" \in DeliveryPlaces /\ "shieldOutcomes" \in DeliveryPlaces
        /\ "shieldFailed" \in DeliveryPlaces /\ "done" \in DeliveryPlaces
    BY DEF DeliveryPlaces
  <1>6. \A d \in Deliveries : d \in Procs
    BY DEF Procs
  <1>7. ASSUME NEW d \in Deliveries PROVE CallModelOrWarn(d, log) => Goto(d, "model") \/ Goto(d, "done")
    BY DEF CallModelOrWarn, FinishTurn, Leave
  <1> HIDE DEF Good
  <1>8. ASSUME NEW d \in Deliveries, Start(d) PROVE Good
    <2>1. (Goto(d, "done") \/ Goto(d, "content")) /\ inner' = inner /\ snapshot' = snapshot
      BY <1>8 DEF Start
    <2> QED BY <1>1, <1>3, <1>5, <1>6, <2>1
  <1>9. ASSUME NEW d \in Deliveries, Prepare(d) PROVE Good
    <2>1. inner' = inner
      BY <1>9 DEF Prepare
    <2>2. \/ /\ Goto(d, "summarize") /\ snapshot' = [snapshot EXCEPT ![d] = log]
             /\ RecordsToSummarize(log, KeepRecent) # <<>>
          \/ CallModelOrWarn(d, log) /\ snapshot' = snapshot
      BY <1>1, <1>9 DEF Prepare, MayCompact
    <2>3. CASE /\ Goto(d, "summarize") /\ snapshot' = [snapshot EXCEPT ![d] = log]
               /\ RecordsToSummarize(log, KeepRecent) # <<>>
      BY <1>4, <1>6, <2>1, <2>3
    <2>4. CASE CallModelOrWarn(d, log) /\ snapshot' = snapshot
      BY <1>1, <1>3, <1>5, <1>6, <1>7, <2>1, <2>4
    <2> QED BY <2>2, <2>3, <2>4
  <1>10. ASSUME NEW d \in Deliveries, SummarizeReturns(d) \/ SummarizeRaises(d) \/ Notified(d)
         PROVE  Good
    <2>1. inner' = inner
      BY <1>10 DEF SummarizeReturns, SummarizeRaises, Notified
    <2>2. Goto(d, "notify") \/ Goto(d, "model") \/ Goto(d, "done")
      BY <1>7, <1>10 DEF SummarizeReturns, SummarizeRaises, Notified
    <2>3. snapshot' = snapshot \/ snapshot' = [snapshot EXCEPT ![d] = <<>>]
      BY <1>10 DEF SummarizeReturns, SummarizeRaises, Notified
    <2> QED BY <1>1, <1>3, <1>5, <1>6, <2>1, <2>2, <2>3
  <1>11. ASSUME NEW d \in Deliveries, ModelCallEnds(d) PROVE Good
    <2>1. Goto(d, "done") /\ inner' = inner /\ snapshot' = snapshot
      BY <1>11 DEF ModelCallEnds, ModelReturns, ModelDegrades, TurnFails, TurnRaises, TokenLimit,
                   FinishTurn, Leave
    <2> QED BY <1>1, <1>3, <1>5, <1>6, <2>1
  <1>12. ASSUME NEW d \in Deliveries, Cancel(d) PROVE Good
    <2>1. snapshot' = [snapshot EXCEPT ![d] = <<>>]
      BY <1>12 DEF Cancel
    <2>2. \/ Goto(d, "done") /\ inner' = inner
          \/ Goto(d, "shieldInitial") /\ inner' = [inner EXCEPT ![d] = "initial"]
          \/ Goto(d, "shieldFailed") /\ inner' = [inner EXCEPT ![d] = "failed"]
      BY <1>12 DEF Cancel, Leave
    <2>3. inner' \in [Deliveries -> {"none", "initial", "outcomes", "failed"}]
      BY <1>1, <2>2
    <2> QED BY <1>3, <1>5, <1>6, <2>1, <2>2, <2>3
  <1>13. ASSUME NEW d \in Deliveries, ShieldedWrite(d) PROVE Good
    <2>1. inner' \in [Deliveries -> {"none", "initial", "outcomes", "failed"}]
          /\ UNCHANGED <<pc, snapshot>>
      BY <1>1, <1>13 DEF ShieldedWrite
    <2> QED BY <1>1, <2>1 DEF Good
  <1>14. ASSUME NEW d \in Deliveries, ShieldReturns(d) PROVE Good
    <2>1. snapshot' = snapshot
      BY <1>14 DEF ShieldReturns
    <2>2. \/ Goto(d, "done") /\ inner' = inner
          \/ Goto(d, "shieldOutcomes") /\ inner' = [inner EXCEPT ![d] = "outcomes"]
      BY <1>14 DEF ShieldReturns, Leave
    <2>3. inner' \in [Deliveries -> {"none", "initial", "outcomes", "failed"}]
      BY <1>1, <2>2
    <2> QED BY <1>3, <1>5, <1>6, <2>1, <2>2, <2>3
  <1>15. ASSUME NEW k \in Compactors, StartCompact(k) \/ CompactReturns(k) \/ CancelCompact(k)
         PROVE  Good
    <2>0. k \in Procs
      BY DEF Procs
    <2>1. inner' = inner
      BY <1>15 DEF StartCompact, CompactReturns, CancelCompact
    <2>2. \/ /\ Goto(k, "summarize") /\ snapshot' = [snapshot EXCEPT ![k] = log]
             /\ RecordsToSummarize(log, KeepRecent) # <<>>
          \/ /\ Goto(k, "done")
             /\ snapshot' = snapshot \/ snapshot' = [snapshot EXCEPT ![k] = <<>>]
      BY <1>1, <1>15 DEF StartCompact, CompactReturns, CancelCompact, MayCompact, Leave
    <2>3. CASE /\ Goto(k, "summarize") /\ snapshot' = [snapshot EXCEPT ![k] = log]
               /\ RecordsToSummarize(log, KeepRecent) # <<>>
      BY <1>4, <2>0, <2>1, <2>3
    <2>4. CASE /\ Goto(k, "done")
               /\ snapshot' = snapshot \/ snapshot' = [snapshot EXCEPT ![k] = <<>>]
      BY <1>1, <1>3, <1>5, <2>0, <2>1, <2>4
    <2> QED BY <2>2, <2>3, <2>4
  <1>16. ASSUME Reset \/ (\E t \in Turns : IdempotencyExpires(t)) \/ LockFileExpires
                \/ UNCHANGED vars
         PROVE  Good
    BY <1>2, <1>16 DEF Reset, IdempotencyExpires, LockFileExpires, vars, control
  <1>17. Good
    BY <1>8, <1>9, <1>10, <1>11, <1>12, <1>13, <1>14, <1>15, <1>16 DEF Next
  <1> QED BY <1>17 DEF Good

(* The remaining variables. *)
LEMMA CountersStep ==
    ASSUME TurnInv, [Next]_vars
    PROVE  /\ archive' \in [Turns -> Nat] /\ started' \in [Turns -> Nat]
           /\ seen' \subseteq Turns /\ passes' \in Nat /\ expiries' \in Nat
           /\ Accounted'
  <1>1. archive \in [Turns -> Nat] /\ started \in [Turns -> Nat]
        /\ seen \subseteq Turns /\ passes \in Nat /\ expiries \in Nat
    BY DEF TurnInv, Shape
  <1>2. archive' \in [Turns -> Nat]
    <2>1. archive' = archive \/ ArchiveSessionUsage
      BY LogSteps DEF TurnInv, Kept, Appending, Clearing, Replacing, ReplaceFromSnapshot
    <2> QED BY <1>1, <2>1 DEF ArchiveSessionUsage
  <1>3. passes' \in Nat
    <2>1. passes' = passes \/ passes' = passes + 1
      BY DEF Next, Start, Prepare, SummarizeReturns, SummarizeRaises, Notified, ModelCallEnds,
             ModelReturns, ModelDegrades, TurnFails, TurnRaises, TokenLimit, Cancel,
             ShieldedWrite, ShieldReturns, StartCompact, CompactReturns, CancelCompact,
             Reset, IdempotencyExpires, LockFileExpires, ReplaceFromSnapshot, vars, store
    <2> QED BY <1>1, <2>1
  <1>4. \/ UNCHANGED <<started, seen, expiries>>
        \/ \E d \in Deliveries :
              /\ EventOf[d] \notin seen /\ seen' = seen \cup {EventOf[d]}
              /\ started' = [started EXCEPT ![EventOf[d]] = @ + 1] /\ expiries' = expiries
        \/ \E t \in Turns :
              /\ t \in seen /\ seen' = seen \ {t} /\ expiries' = expiries + 1
              /\ started' = started
    BY DEF Next, Start, Prepare, SummarizeReturns, SummarizeRaises, Notified, ModelCallEnds,
           ModelReturns, ModelDegrades, TurnFails, TurnRaises, TokenLimit, Cancel,
           ShieldedWrite, ShieldReturns, StartCompact, CompactReturns, CancelCompact,
           Reset, IdempotencyExpires, LockFileExpires, vars, store, bounds, observed
  <1>5. CASE UNCHANGED <<started, seen, expiries>>
    <2>1. Accounted'
      BY <1>5 DEF TurnInv, Accounted
    <2> QED BY <1>1, <1>2, <1>3, <1>5, <2>1
  <1>6. ASSUME NEW d \in Deliveries, EventOf[d] \notin seen, seen' = seen \cup {EventOf[d]},
               started' = [started EXCEPT ![EventOf[d]] = @ + 1], expiries' = expiries
        PROVE  /\ started' \in [Turns -> Nat] /\ seen' \subseteq Turns /\ expiries' \in Nat
               /\ Accounted'
    <2>1. EventOf[d] \in Turns
      BY DEF Turns
    <2>2. started' \in [Turns -> Nat] /\ started'[EventOf[d]] = started[EventOf[d]] + 1
          /\ \A t \in Turns : t # EventOf[d] => started'[t] = started[t]
      BY <1>1, <1>6, <2>1
    <2>3. ASSUME NEW t \in Turns PROVE started'[t] <= expiries + IF t \in seen' THEN 1 ELSE 0
      <3>1. started[t] \in Nat /\ started[t] <= expiries + IF t \in seen THEN 1 ELSE 0
        BY <1>1 DEF TurnInv, Accounted
      <3>2. CASE t = EventOf[d]
        BY <1>1, <1>6, <2>2, <3>1, <3>2
      <3>3. CASE t # EventOf[d]
        BY <1>6, <2>2, <3>1, <3>3
      <3> QED BY <3>2, <3>3
    <2> QED BY <1>1, <1>6, <2>1, <2>2, <2>3 DEF Accounted
  <1>7. ASSUME NEW t \in Turns, t \in seen, seen' = seen \ {t}, expiries' = expiries + 1,
               started' = started
        PROVE  /\ started' \in [Turns -> Nat] /\ seen' \subseteq Turns /\ expiries' \in Nat
               /\ Accounted'
    <2>1. ASSUME NEW w \in Turns PROVE started[w] <= expiries + 1 + IF w \in seen' THEN 1 ELSE 0
      <3>1. started[w] \in Nat /\ started[w] <= expiries + IF w \in seen THEN 1 ELSE 0
        BY <1>1 DEF TurnInv, Accounted
      <3> QED BY <1>1, <1>7, <3>1
    <2> QED BY <1>1, <1>7, <2>1 DEF Accounted
  <1> QED BY <1>2, <1>3, <1>4, <1>5, <1>6, <1>7

LEMMA TurnInvariant == Spec => []TurnInv
  <1>1. TurnInv /\ [Next]_vars => TurnInv'
    BY FileStep, SnapshotStep, CountersStep DEF TurnInv, Shape, FilesOK
  <1> QED BY TurnInvInit, <1>1, PTL DEF Spec

-----------------------------------------------------------------------------
(* No two records of a session file have the same number, however appends, *)
(* resets, shielded writes and replacements from stale snapshots follow    *)
(* each other.                                                             *)
THEOREM NumbersStayUnique == Spec => []SequencesUnique
  <1>1. TurnInv => SequencesUnique
    <2> SUFFICES ASSUME TurnInv, NEW i \in DOMAIN log, NEW j \in DOMAIN log,
                        log[i].seq = log[j].seq
                 PROVE  i = j
      BY DEF SequencesUnique
    <2>1. log \in Seq(Stored) /\ Ordered(log)
      BY DEF TurnInv, FilesOK, FileOK
    <2>2. DOMAIN log = 1..Len(log) /\ Len(log) \in Nat
      BY <2>1
    <2>3. log[i] \in Stored /\ log[j] \in Stored
      BY <2>1
    <2>4. log[i].seq \in Nat /\ log[j].seq \in Nat /\ i \in Nat /\ j \in Nat
      BY <2>2, <2>3 DEF Stored
    <2>5. ~(i < j) /\ ~(j < i)
      BY <2>1, <2>2, <2>4 DEF Ordered
    <2> QED BY <2>4, <2>5
  <1> QED BY TurnInvariant, <1>1, PTL

(* check_and_register lets an event through once per retention period,     *)
(* however many deliveries of it race.                                     *)
THEOREM OnceEachRetention == Spec => []ExecutedOncePerRetention
  <1>1. TurnInv => ExecutedOncePerRetention
    <2> SUFFICES ASSUME TurnInv, NEW t \in Turns PROVE started[t] <= 1 + expiries
      BY DEF ExecutedOncePerRetention
    <2>1. started[t] \in Nat /\ expiries \in Nat
      BY DEF TurnInv, Shape
    <2>2. started[t] <= expiries + IF t \in seen THEN 1 ELSE 0
      BY DEF TurnInv, Accounted
    <2> QED BY <2>1, <2>2
  <1> QED BY TurnInvariant, <1>1, PTL

(* Reported usage stays reported: an append keeps the records it finds,    *)
(* and whatever removes records has archived the usage they hold in the    *)
(* same step.                                                              *)
THEOREM UsageIsKept == Spec => UsageNeverLost
  <1>1. ASSUME TurnInv, [Next]_vars, NEW t \in Turns, HasUsage(t) \/ archive[t] > 0
        PROVE  HasUsage(t)' \/ archive'[t] > 0
    <2>1. archive[t] \in Nat /\ log \in Seq(Stored)
      BY <1>1 DEF TurnInv, Shape, FilesOK, FileOK
    <2>2. ASSUME ArchiveSessionUsage PROVE archive'[t] > 0
      <3>1. archive'[t] = archive[t] + IF HasUsage(t) THEN 1 ELSE 0
        BY <2>2 DEF ArchiveSessionUsage
      <3> QED BY <1>1, <2>1, <3>1
    <2>3. CASE Kept
      BY <1>1, <2>3 DEF Kept, HasUsage
    <2>4. ASSUME NEW d \in Deliveries, Appending(d) PROVE HasUsage(t)' \/ archive'[t] > 0
      <3>1. ~IsCompaction(EventOf[d]) /\ FileOK(log) /\ archive' = archive
        BY <1>1, <2>4, ProcsAssumption DEF TurnInv, FilesOK, Appending
      <3>2. PICK b \in Batch(EventOf[d]) : log' = AppendRecords(log, b)
        BY <2>4 DEF Appending
      <3>3. FileOK(log') /\ \A i \in 1..Len(log) : i \in 1..Len(log') /\ log'[i] = log[i]
        BY <3>1, <3>2, AppendFacts
      <3>4. DOMAIN log = 1..Len(log) /\ DOMAIN log' = 1..Len(log')
        BY <2>1, <3>3 DEF FileOK
      <3>5. \A r \in ToSet(log) : r \in ToSet(log')
        BY <3>3, <3>4 DEF ToSet
      <3>6. HasUsage(t) => HasUsage(t)'
        BY <3>5 DEF HasUsage
      <3> QED BY <1>1, <3>1, <3>6
    <2> QED BY <1>1, <2>2, <2>3, <2>4, LogSteps DEF TurnInv, Clearing, Replacing, ReplaceFromSnapshot
  <1>2. TurnInv /\ [Next]_vars =>
           [\A t \in Turns : HasUsage(t) \/ archive[t] > 0 => HasUsage(t)' \/ archive'[t] > 0]_vars
    BY <1>1
  <1> QED BY TurnInvariant, <1>2, PTL DEF Spec, UsageNeverLost

-----------------------------------------------------------------------------
(* The replayed history.                                                   *)

(* Sets that grow along a chain, one for each element, rank the elements. *)
LEMMA ChainRank ==
    ASSUME NEW S, IsFiniteSet(S), NEW up \in [S -> SUBSET S],
           \A i \in S : i \in up[i],
           \A i, j \in S : up[i] \subseteq up[j] \/ up[j] \subseteq up[i],
           \A i, j \in S : i \in up[j] /\ j \in up[i] => i = j
    PROVE  /\ Cardinality(S) \in Nat
           /\ \A i \in S : IsFiniteSet(up[i]) /\ Cardinality(up[i]) \in 1..Cardinality(S)
           /\ \A i, j \in S : Cardinality(up[i]) = Cardinality(up[j]) => i = j
           /\ \A k \in 1..Cardinality(S) : \E i \in S : Cardinality(up[i]) = k
  <1> DEFINE n == Cardinality(S)
             rank == [i \in S |-> Cardinality(up[i])]
  <1>1. n \in Nat
    BY FS_CardinalityType
  <1>2. \A i \in S : IsFiniteSet(up[i]) /\ Cardinality(up[i]) \in 1..n
    <2> TAKE i \in S
    <2>1. up[i] \in SUBSET S /\ up[i] # {}
      OBVIOUS
    <2>2. IsFiniteSet(up[i]) /\ Cardinality(up[i]) <= n
      BY <2>1, FS_Subset
    <2> QED BY <1>1, <2>1, <2>2, FS_CardinalityType, FS_EmptySet
  <1>3. ASSUME NEW i \in S, NEW j \in S, Cardinality(up[i]) = Cardinality(up[j]) PROVE i = j
    <2>1. up[i] = up[j]
      BY <1>2, <1>3, FS_Subset
    <2> QED BY <2>1
  <1>4. rank \in [S -> 1..n]
    BY <1>2
  <1>5. \A i, j \in S : rank[i] = rank[j] => i = j
    BY <1>3
  <1>6. \A i \in S : rank[i] = Cardinality(up[i])
    OBVIOUS
  <1> HIDE DEF rank
  <1>7. rank \in Surjection(S, 1..n)
    <2>1. rank \in Injection(S, 1..n)
      BY <1>4, <1>5, Fun_IsInj
    <2>2. IsFiniteSet(1..n) /\ Cardinality(1..n) = n
      BY <1>1, FS_Interval
    <2> QED BY <2>1, <2>2, FS_Injection
  <1>8. \A k \in 1..n : \E i \in S : rank[i] = k
    BY <1>7 DEF Surjection
  <1> QED BY <1>1, <1>2, <1>3, <1>6, <1>8

(* Listing records turn by turn keeps the pairs of each turn. *)
LEMMA ByTurnPaired ==
    ASSUME NEW s \in Seq(Stored), Paired(s), NEW S, S \subseteq DOMAIN s,
           \A i \in S : /\ s[i].kind = "user" => i + 1 \in S
                        /\ s[i].kind = "asst" => i - 1 \in S,
           NEW c, c = ByTurn(s, S)
    PROVE  /\ c \in Seq(Stored) /\ Paired(c)
           /\ \A k \in 1..Len(c) : \E i \in S : c[k] = s[i]
  <1> DEFINE z == Cardinality(S)
             B(i) == Begins(s, s[i].turn)
             Up(j) == {i \in S : B(i) < B(j) \/ (B(i) = B(j) /\ i <= j)}
             up == [j \in S |-> Up(j)]
  <1>1. DOMAIN s = 1..Len(s) /\ Len(s) \in Nat /\ \A i \in 1..Len(s) : s[i] \in Stored
    OBVIOUS
  <1>2. IsFiniteSet(S) /\ \A i \in S : i \in Nat /\ i \in 1..Len(s)
    <2>1. IsFiniteSet(1..Len(s)) /\ S \in SUBSET (1..Len(s))
      BY <1>1, FS_Interval
    <2> QED BY <1>1, <2>1, FS_Subset
  <1>3. \A i \in S : B(i) \in Nat /\ s[B(i)].turn = s[i].turn
    BY <1>2, BeginsFacts
  <1>4. \A i, j \in S : s[i].turn = s[j].turn <=> B(i) = B(j)
    BY <1>3
  <1>5. c = [k \in 1..z |-> s[CHOOSE j \in S : Cardinality(up[j]) = k]]
    <2>1. c = [k \in 1..z |-> s[CHOOSE j \in S : Cardinality(Up(j)) = k]]
      BY DEF ByTurn
    <2>2. \A j \in S : Up(j) = up[j]
      OBVIOUS
    <2> HIDE DEF Up, up
    <2>3. \A k \in 1..z : (CHOOSE j \in S : Cardinality(Up(j)) = k)
                          = (CHOOSE j \in S : Cardinality(up[j]) = k)
      BY <2>2
    <2> QED BY <2>1, <2>3
  <1> HIDE DEF B
  <1>6. \A i, j \in S : i \in up[j] <=> B(i) < B(j) \/ (B(i) = B(j) /\ i <= j)
    BY <1>4
  <1>7. up \in [S -> SUBSET S]
    OBVIOUS
  <1> HIDE DEF up
  <1>8. \A i \in S : i \in up[i]
    BY <1>2, <1>6
  <1>9. \A i, j \in S : i \in up[j] \/ j \in up[i]
    BY <1>2, <1>3, <1>6
  <1>10. \A i, j \in S : i \in up[j] => up[i] \subseteq up[j]
    <2> SUFFICES ASSUME NEW i \in S, NEW j \in S, i \in up[j], NEW m \in S, m \in up[i]
                 PROVE  m \in up[j]
      BY <1>7
    <2>1. /\ i \in Nat /\ j \in Nat /\ m \in Nat
          /\ B(i) \in Nat /\ B(j) \in Nat /\ B(m) \in Nat
      BY <1>2, <1>3
    <2>2. /\ B(i) < B(j) \/ (B(i) = B(j) /\ i <= j)
          /\ B(m) < B(i) \/ (B(m) = B(i) /\ m <= i)
      BY <1>6
    <2>3. B(m) < B(j) \/ (B(m) = B(j) /\ m <= j)
      BY <2>1, <2>2
    <2> QED BY <1>6, <2>3
  <1>11. \A i, j \in S : i \in up[j] /\ j \in up[i] => i = j
    BY <1>2, <1>3, <1>6
  <1>12. /\ z \in Nat
         /\ \A i \in S : IsFiniteSet(up[i]) /\ Cardinality(up[i]) \in 1..z
         /\ \A i, j \in S : Cardinality(up[i]) = Cardinality(up[j]) => i = j
         /\ \A k \in 1..z : \E i \in S : Cardinality(up[i]) = k
    <2>1. \A i, j \in S : up[i] \subseteq up[j] \/ up[j] \subseteq up[i]
      BY <1>9, <1>10
    <2> QED BY <1>2, <1>7, <1>8, <1>11, <2>1, ChainRank
  <1>13. ASSUME NEW i \in S, i + 1 \in S, s[i + 1].turn = s[i].turn
         PROVE  Cardinality(up[i + 1]) = Cardinality(up[i]) + 1
    <2>1. B(i + 1) = B(i) /\ i \in Nat
      BY <1>2, <1>4, <1>13
    <2>2. ASSUME NEW m \in S PROVE m \in up[i + 1] <=> m \in up[i] \/ m = i + 1
      <3>1. m \in Nat
        BY <1>2
      <3>2. m <= i + 1 <=> m <= i \/ m = i + 1
        BY <2>1, <3>1
      <3> QED BY <1>6, <1>13, <2>1, <3>2
    <2>3. up[i + 1] = up[i] \cup {i + 1}
      BY <1>7, <1>13, <2>2
    <2>4. i + 1 \notin up[i]
      BY <1>3, <1>6, <1>13, <2>1
    <2> QED BY <1>12, <2>3, <2>4, FS_AddElement
  <1> DEFINE f == [k \in 1..z |-> CHOOSE j \in S : Cardinality(up[j]) = k]
  <1>14. \A k \in 1..z : f[k] \in S /\ Cardinality(up[f[k]]) = k
    BY <1>12
  <1>15. \A k \in 1..z : c[k] = s[f[k]]
    BY <1>5
  <1>16. c \in [1..z -> Stored]
    BY <1>1, <1>2, <1>5, <1>14, <1>15
  <1> HIDE DEF z, f
  <1>17. c \in Seq(Stored) /\ Len(c) = z
    BY <1>12, <1>16
  <1>18. ASSUME NEW k \in 1..z, NEW i \in S, Cardinality(up[i]) = k PROVE f[k] = i
    BY <1>12, <1>14, <1>18
  <1>19. ASSUME NEW k \in 1..z PROVE InPair(c, k)
    <2> DEFINE i == f[k]
    <2>1. c[k] = s[i] /\ i \in S /\ i \in 1..Len(s) /\ i \in Nat /\ Cardinality(up[i]) = k
      BY <1>2, <1>14, <1>15
    <2>2. /\ s[i].kind \notin {"call", "result"}
          /\ s[i].kind = "user" => s[i + 1].kind = "asst" /\ s[i + 1].turn = s[i].turn
          /\ s[i].kind = "asst" => s[i - 1].kind = "user" /\ s[i - 1].turn = s[i].turn
      BY <2>1 DEF Paired, InPair
    <2> HIDE DEF i
    <2>3. CASE s[i].kind = "user"
      <3>1. i + 1 \in S
        BY <2>1, <2>3
      <3>2. Cardinality(up[i + 1]) = k + 1 /\ k + 1 \in 1..z
        BY <1>12, <1>13, <2>1, <2>2, <2>3, <3>1
      <3>3. c[k + 1] = s[i + 1]
        BY <1>15, <1>18, <3>1, <3>2
      <3> QED BY <1>17, <2>1, <2>2, <2>3, <3>2, <3>3 DEF InPair
    <2>4. CASE s[i].kind = "asst"
      <3>1. i - 1 \in S /\ (i - 1) + 1 = i
        BY <2>1, <2>4
      <3>2. Cardinality(up[i]) = Cardinality(up[i - 1]) + 1 /\ Cardinality(up[i - 1]) \in 1..z
        <4> DEFINE m == i - 1
        <4>1. m \in S /\ m + 1 = i /\ s[m].turn = s[i].turn
          BY <2>2, <2>4, <3>1
        <4> HIDE DEF m
        <4>2. Cardinality(up[m + 1]) = Cardinality(up[m]) + 1
          BY <1>13, <2>1, <4>1
        <4>3. Cardinality(up[m]) \in 1..z
          BY <1>12, <4>1
        <4> QED BY <4>1, <4>2, <4>3 DEF m
      <3>3. Cardinality(up[i - 1]) = k - 1 /\ k - 1 \in 1..z
        BY <1>12, <2>1, <3>2
      <3>4. c[k - 1] = s[i - 1]
        BY <1>15, <1>18, <3>1, <3>3
      <3> QED BY <1>17, <2>1, <2>2, <2>4, <3>3, <3>4 DEF InPair
    <2> QED BY <2>1, <2>2, <2>3, <2>4 DEF InPair
  <1> QED BY <1>14, <1>15, <1>17, <1>19 DEF Paired

(* The history replayed to the model is a series of summaries followed by  *)
(* exchanges of one user message and one answer of the same turn, however  *)
(* turns, cancellations, resets and compactions were interleaved.          *)
THEOREM ReplayIsExchanges == Spec => []ReplayAlternates
  <1>1. ASSUME TurnInv PROVE ReplayAlternates
    <2> DEFINE P == {i \in DOMAIN log : log[i].kind = "summary"}
               sums == At(log, P)
               n == IF Len(sums) < Budget THEN Len(sums) ELSE Budget
               shown == SubSeq(sums, 1, n)
               turns == CollectCompleteTurns(log)
               Slots(some) == UNION {FilterTurnRecords(log, t) : t \in some}
               From(t) == {u \in turns : Begins(log, u) >= Begins(log, t)}
               fitting == {t \in turns : Cardinality(Slots(From(t))) <= Budget - Len(shown)}
               S == Slots(fitting)
               chat == ByTurn(log, S)
               replay == BuildReplay(ReadAll(log), Budget)
    <2>1. /\ log \in Seq(Stored) /\ Paired(log) /\ ReadAll(log) = log
          /\ Len(log) \in Nat /\ DOMAIN log = 1..Len(log)
      BY <1>1, ReadAllIsFile DEF TurnInv, FilesOK, FileOK
    <2>2. replay = shown \o chat
      BY <2>1 DEF BuildReplay, Where
    <2>3. \A t : \A i : i \in FilterTurnRecords(log, t) =>
             i \in DOMAIN log /\ log[i].turn = t /\ log[i].kind \in {"user", "asst", "call", "result"}
      BY DEF FilterTurnRecords, ModelRecords
    <2>4. \A t : \A i \in DOMAIN log :
             log[i].turn = t /\ log[i].kind \in {"user", "asst"} => i \in FilterTurnRecords(log, t)
      BY DEF FilterTurnRecords, ModelRecords
    <2> HIDE DEF fitting
    <2>5. \A i \in S : i \in DOMAIN log /\ log[i].kind \in {"user", "asst", "call", "result"}
      BY <2>3
    <2>6. \A i \in S : /\ log[i].kind = "user" => i + 1 \in S
                       /\ log[i].kind = "asst" => i - 1 \in S
      <3> SUFFICES ASSUME NEW t \in fitting, NEW i \in FilterTurnRecords(log, t)
                   PROVE  /\ log[i].kind = "user" => i + 1 \in FilterTurnRecords(log, t)
                          /\ log[i].kind = "asst" => i - 1 \in FilterTurnRecords(log, t)
        OBVIOUS
      <3>1. i \in 1..Len(log) /\ log[i].turn = t
        BY <2>1, <2>3
      <3>2. InPair(log, i)
        BY <2>1, <3>1 DEF Paired
      <3> QED BY <2>1, <2>4, <3>1, <3>2 DEF InPair
    <2> HIDE DEF S
    <2>7. /\ chat \in Seq(Stored) /\ Paired(chat)
          /\ \A k \in 1..Len(chat) : \E i \in S : chat[k] = log[i]
      <3>1. S \subseteq DOMAIN log
        BY <2>5
      <3> QED BY <2>1, <2>6, <3>1, ByTurnPaired
    <2>8. /\ shown \in Seq(Stored)
          /\ \A k \in 1..Len(shown) : shown[k].kind = "summary"
      <3>1. P \subseteq DOMAIN log /\ \A i \in P : log[i].kind = "summary"
        OBVIOUS
      <3> HIDE DEF P
      <3>2. PICK f : Picks(f, P, log, Stored)
        BY <2>1, <3>1, AtOfSeq
      <3>3. sums \in Seq(Stored) /\ \A k \in 1..Len(sums) : sums[k].kind = "summary"
        BY <3>1, <3>2 DEF Picks
      <3> HIDE DEF sums
      <3>4. Len(sums) \in Nat /\ Budget \in Nat
        BY <3>3, ProcsAssumption
      <3>5. n \in Nat /\ n <= Len(sums)
        BY <3>4
      <3> HIDE DEF n
      <3>6. shown = [k \in 1..n |-> sums[k]]
        BY <3>3, <3>4, <3>5
      <3> HIDE DEF shown
      <3>7. \A k \in 1..n : k \in 1..Len(sums) /\ sums[k] \in Stored
        BY <3>3, <3>4, <3>5
      <3>8. shown \in [1..n -> Stored]
        BY <3>6, <3>7
      <3>9. shown \in Seq(Stored) /\ Len(shown) = n
        BY <3>5, <3>8
      <3> QED BY <3>3, <3>6, <3>7, <3>9
    <2>9. \A k \in 1..Len(chat) : InPair(chat, k) /\ chat[k].kind \in {"user", "asst"}
      BY <2>5, <2>7 DEF Paired, InPair
    <2> HIDE DEF shown, chat, replay
    <2> DEFINE a == Len(shown)
               b == Len(chat)
               Exchange(i) == /\ i \in 1..Len(replay) - 1
                              /\ replay[i].kind = "user" /\ replay[i + 1].kind = "asst"
                              /\ replay[i].turn = replay[i + 1].turn
    <2>10. /\ a \in Nat /\ b \in Nat /\ Len(replay) = a + b /\ DOMAIN replay = 1..a + b
           /\ \A i \in 1..a + b : replay[i] = IF i <= a THEN shown[i] ELSE chat[i - a]
      BY <2>2, <2>7, <2>8, ConcatProperties
    <2> HIDE DEF a, b
    <2>11. ASSUME NEW i \in 1..a PROVE \A j \in 1..i : replay[j].kind = "summary"
      <3> TAKE j \in 1..i
      <3>1. j \in 1..a /\ j \in 1..a + b /\ j <= a
        BY <2>10, <2>11
      <3> QED BY <2>8, <2>10, <3>1 DEF a
    <2>12. \A k \in 1..b : k + a \in 1..a + b /\ replay[k + a] = chat[k]
      BY <2>10
    <2>13. ASSUME NEW k \in 1..b PROVE Exchange(k + a) \/ Exchange(k + a - 1)
      <3>1. CASE chat[k].kind = "user"
        <4>1. k + 1 \in 1..b /\ chat[k + 1].kind = "asst" /\ chat[k + 1].turn = chat[k].turn
          BY <2>9, <2>13, <3>1 DEF InPair, b
        <4>2. (k + a) + 1 = (k + 1) + a /\ k + a \in 1..Len(replay) - 1
          BY <2>10, <2>13, <4>1
        <4> QED BY <2>12, <2>13, <3>1, <4>1, <4>2
      <3>2. CASE chat[k].kind = "asst"
        <4>1. k - 1 \in 1..b /\ chat[k - 1].kind = "user" /\ chat[k - 1].turn = chat[k].turn
          BY <2>9, <2>13, <3>2 DEF InPair, b
        <4>2. k + a - 1 = (k - 1) + a /\ (k + a - 1) + 1 = k + a /\ k + a - 1 \in 1..Len(replay) - 1
          BY <2>10, <2>13, <4>1
        <4> QED BY <2>12, <2>13, <3>2, <4>1, <4>2
      <3> QED BY <2>9, <3>1, <3>2 DEF b
    <2> HIDE DEF Exchange
    <2>14. ASSUME NEW i \in DOMAIN replay
           PROVE  \/ \A j \in 1..i : replay[j].kind = "summary"
                  \/ Exchange(i)
                  \/ Exchange(i - 1)
      <3> DEFINE k == i - a
      <3>1. i \in 1..a \/ (k \in 1..b /\ k + a = i /\ k + a - 1 = i - 1)
        BY <2>10, <2>14
      <3>2. CASE i \in 1..a
        BY <2>11, <3>2
      <3> HIDE DEF k
      <3>3. CASE k \in 1..b /\ k + a = i /\ k + a - 1 = i - 1
        <4>1. Exchange(k + a) \/ Exchange(k + a - 1)
          BY <2>13, <3>3
        <4> QED BY <3>3, <4>1, Zenon
      <3> QED BY <3>1, <3>2, <3>3
    <2> QED BY <2>14 DEF ReplayAlternates, replay, Exchange
  <1> QED BY TurnInvariant, <1>1, PTL

-----------------------------------------------------------------------------
(* A session without compaction.  Nothing is said here of a session with   *)
(* compaction: a pass that waits for its summary writes back what it read  *)
(* before, and the run turn_lost shows what that costs.                    *)

Resting(d) == Quiet(d) /\ inner[d] = "none"

PlainInv ==
    /\ \A p \in Procs : pc[p] # "summarize"
    /\ recorded \subseteq TurnsOf(log)
    /\ \A t \in erased : Settled(t) /\ t \notin TurnsOf(log)

(* Without compaction nobody waits for a summary. *)
LEMMA NoPass ==
    ASSUME ~CompactionEnabled, TurnInv, PlainInv, [Next]_vars
    PROVE  \A p \in Procs : pc'[p] # "summarize"
  <1>1. pc \in [Procs -> DeliveryPlaces] /\ \A p \in Procs : pc[p] # "summarize"
    BY DEF TurnInv, Shape, PlainInv
  <1>2. \/ pc' = pc
        \/ \E p \in Procs : \E place \in {"content", "notify", "model", "shieldInitial",
                                          "shieldOutcomes", "shieldFailed", "done"} :
              pc' = [pc EXCEPT ![p] = place]
    BY <1>1 DEF Next, Start, Prepare, SummarizeReturns, SummarizeRaises, Notified, ModelCallEnds,
           ModelReturns, ModelDegrades, TurnFails, TurnRaises, TokenLimit, Cancel,
           ShieldedWrite, ShieldReturns, StartCompact, CompactReturns, CancelCompact,
           Reset, IdempotencyExpires, LockFileExpires, vars, control, MayCompact,
           CallModelOrWarn, FinishTurn, Leave, Goto, Procs
  <1> QED BY <1>1, <1>2

(* Who rests stays at rest unless it starts, and then its turn is not      *)
(* counted as erased any more; only a reset erases, and only turns at rest.*)
LEMMA RestingSteps ==
    ASSUME Shape, [Next]_vars
    PROVE  /\ \A d \in Deliveries : Resting(d) => Resting(d)' \/ EventOf[d] \notin erased'
           /\ \A t \in erased' : t \in erased \/ (Settled(t) /\ log' = <<>>)
  <1> DEFINE Good == /\ \A d \in Deliveries : Resting(d) => Resting(d)' \/ EventOf[d] \notin erased'
                     /\ \A t \in erased' : t \in erased \/ (Settled(t) /\ log' = <<>>)
  <1>0. /\ pc \in [Procs -> DeliveryPlaces]
        /\ inner \in [Deliveries -> {"none", "initial", "outcomes", "failed"}]
        /\ (\A d \in Deliveries : d \in Procs) /\ (\A k \in Compactors : k \in Procs)
        /\ \A k \in Compactors : k \notin Deliveries
    BY ProcsAssumption DEF Shape, Procs
  <1>1. ASSUME NEW d \in Deliveries, ~Resting(d),
               \A q \in Deliveries : q # d => pc'[q] = pc[q] /\ inner'[q] = inner[q],
               erased' = erased
        PROVE  Good
    BY <1>1 DEF Resting, Quiet
  <1>2. ASSUME NEW d \in Deliveries, Start(d) PROVE Good
    <2>1. inner' = inner /\ \A q \in Deliveries : q # d => pc'[q] = pc[q]
      BY <1>0, <1>2 DEF Start, Goto
    <2>2. CASE EventOf[d] \in seen
      <3>1. pc'[d] = "done" /\ erased' = erased
        BY <1>0, <1>2, <2>2 DEF Start, Goto
      <3> QED BY <2>1, <3>1 DEF Resting, Quiet
    <2>3. CASE EventOf[d] \notin seen
      <3>1. erased' = erased \ {EventOf[d]}
        BY <1>2, <2>3 DEF Start
      <3> QED BY <2>1, <3>1 DEF Resting, Quiet
    <2> QED BY <2>2, <2>3
  <1>3. ASSUME NEW d \in Deliveries,
               \/ Prepare(d) \/ SummarizeReturns(d) \/ SummarizeRaises(d) \/ Notified(d)
               \/ ModelReturns(d) \/ ModelDegrades(d) \/ TurnFails(d) \/ TurnRaises(d)
               \/ Cancel(d) \/ ShieldedWrite(d) \/ ShieldReturns(d)
        PROVE  Good
    <2>1. ~Resting(d)
      BY <1>3 DEF Prepare, SummarizeReturns, SummarizeRaises, Notified, ModelReturns,
                  ModelDegrades, TurnFails, TurnRaises, Cancel, ShieldedWrite, ShieldReturns,
                  Resting, Quiet
    <2>2. erased' = erased
      BY <1>3 DEF Prepare, SummarizeReturns, SummarizeRaises, Notified, ModelReturns,
                  ModelDegrades, TurnFails, TurnRaises, Cancel, ShieldedWrite, ShieldReturns,
                  observed
    <2>3. /\ pc' = pc \/ \E place : pc' = [pc EXCEPT ![d] = place]
          /\ inner' = inner \/ \E write : inner' = [inner EXCEPT ![d] = write]
      BY <1>3 DEF Prepare, SummarizeReturns, SummarizeRaises, Notified, ModelReturns,
                  ModelDegrades, TurnFails, TurnRaises, Cancel, ShieldedWrite, ShieldReturns,
                  CallModelOrWarn, FinishTurn, Leave, Goto
    <2>4. \A q \in Deliveries : q # d => pc'[q] = pc[q] /\ inner'[q] = inner[q]
      BY <1>0, <2>3
    <2> QED BY <1>1, <2>1, <2>2, <2>4
  <1>4. ASSUME NEW d \in Deliveries, TokenLimit(d) PROVE Good
    <2>1. /\ inner' = inner /\ log' = <<>>
          /\ erased' = erased \cup {t \in Turns : HasTerminal(log, t) /\ Settled(t)}
      BY <1>4 DEF TokenLimit, ClearSession
    <2>2. pc'[d] = "done" /\ \A q \in Deliveries : q # d => pc'[q] = pc[q]
      BY <1>0, <1>4 DEF TokenLimit, Leave, Goto
    <2> QED BY <2>1, <2>2 DEF Resting, Quiet
  <1>5. ASSUME Reset PROVE Good
    <2>1. /\ inner' = inner /\ pc' = pc /\ log' = <<>>
          /\ erased' = erased \cup {t \in Turns : HasTerminal(log, t) /\ Settled(t)}
      BY <1>5 DEF Reset, ClearSession, control
    <2> QED BY <2>1 DEF Resting, Quiet
  <1>6. ASSUME NEW k \in Compactors, StartCompact(k) \/ CompactReturns(k) \/ CancelCompact(k)
        PROVE  Good
    <2>1. inner' = inner /\ erased' = erased
      BY <1>6 DEF StartCompact, CompactReturns, CancelCompact, observed
    <2>2. \E place : pc' = [pc EXCEPT ![k] = place]
      BY <1>6 DEF StartCompact, CompactReturns, CancelCompact, Leave, Goto
    <2>3. \A q \in Deliveries : pc'[q] = pc[q]
      BY <1>0, <2>2
    <2> QED BY <2>1, <2>3 DEF Resting, Quiet
  <1>7. ASSUME LockFileExpires \/ (\E t \in Turns : IdempotencyExpires(t)) \/ UNCHANGED vars
        PROVE  Good
    <2>1. UNCHANGED <<pc, inner, erased>>
      BY <1>7 DEF LockFileExpires, IdempotencyExpires, vars, control, observed
    <2> QED BY <2>1 DEF Resting, Quiet
  <1> HIDE DEF Good
  <1>8. Good
    BY <1>2, <1>3, <1>4, <1>5, <1>6, <1>7 DEF Next, ModelCallEnds
  <1> QED BY <1>8 DEF Good

LEMMA PlainStep ==
    ASSUME ~CompactionEnabled, TurnInv, PlainInv, [Next]_vars
    PROVE  PlainInv'
  <1>1. log \in Seq(Stored) /\ FileOK(log) /\ log' \in Seq(Stored)
    BY FileStep DEF TurnInv, FilesOK, FileOK
  <1>2. \A t : /\ t \in TurnsOf(log) <=> \E i \in 1..Len(log) : log[i].turn = t
               /\ t \in TurnsOf(log') <=> \E i \in 1..Len(log') : log'[i].turn = t
    <2>1. DOMAIN log = 1..Len(log) /\ DOMAIN log' = 1..Len(log')
      BY <1>1
    <2> QED BY <2>1 DEF TurnsOf, ToSet
  <1>3. \/ Kept
        \/ \E d \in Deliveries : Appending(d)
        \/ Clearing
    BY LogSteps DEF TurnInv, PlainInv, Replacing
  <1>4. ASSUME NEW t \in erased' PROVE Settled(t)'
    <2>1. Settled(t)
      BY RestingSteps DEF TurnInv, PlainInv
    <2> QED BY <2>1, RestingSteps DEF TurnInv, Settled, Resting, Quiet
  <1>5. CASE Kept
    <2>1. recorded' \subseteq TurnsOf(log')
      BY <1>5 DEF PlainInv, Kept
    <2>2. ASSUME NEW t \in erased' PROVE t \notin TurnsOf(log')
      <3>1. CASE t \in erased
        BY <1>5, <3>1 DEF PlainInv, Kept
      <3>2. CASE log' = <<>>
        BY <1>2, <3>2
      <3> QED BY <3>1, <3>2, RestingSteps DEF TurnInv
    <2> QED BY <1>4, <2>1, <2>2, NoPass DEF PlainInv
  <1>6. ASSUME NEW d \in Deliveries, Appending(d) PROVE PlainInv'
    <2> DEFINE w == EventOf[d]
    <2>1. ~IsCompaction(w)
      BY ProcsAssumption
    <2>2. PICK b \in Batch(w) : /\ b # <<>> /\ log' = AppendRecords(log, b)
                                /\ recorded' = recorded \cup TurnsOf(b)
      BY <1>6 DEF Appending
    <2>3. /\ \A i \in 1..Len(log) : i \in 1..Len(log') /\ log'[i] = log[i]
          /\ \A i \in 1..Len(log') : i \in 1..Len(log) \/ log'[i].turn = w
          /\ \E i \in 1..Len(log') : log'[i].turn = w
      BY <1>1, <2>1, <2>2, AppendFacts
    <2>4. \A t : t \in TurnsOf(log') <=> t \in TurnsOf(log) \/ t = w
      BY <1>2, <2>3
    <2>5. TurnsOf(b) \subseteq {w}
      BY DEF Batch, TurnsOf, ToSet
    <2>6. recorded' \subseteq TurnsOf(log')
      BY <2>2, <2>4, <2>5 DEF PlainInv
    <2>7. ASSUME NEW t \in erased' PROVE t \notin TurnsOf(log')
      <3>1. log' # <<>>
        BY <2>3
      <3>2. t \in erased
        BY <3>1, RestingSteps DEF TurnInv
      <3>3. t # w
        BY <1>6, <3>2 DEF PlainInv, Settled, Quiet, Appending
      <3> QED BY <2>4, <3>2, <3>3 DEF PlainInv
    <2> QED BY <1>4, <2>6, <2>7, NoPass DEF PlainInv
  <1>7. CASE Clearing
    <2>1. recorded' = {} /\ TurnsOf(log') = {}
      BY <1>2, <1>7 DEF Clearing
    <2> QED BY <1>4, <2>1, NoPass DEF PlainInv
  <1> QED BY <1>3, <1>5, <1>6, <1>7

LEMMA PlainInvariant ==
    ASSUME ~CompactionEnabled
    PROVE  Spec => []PlainInv
  <1>1. Init => PlainInv
    BY InitialFile DEF Init, PlainInv
  <1>2. TurnInv /\ PlainInv /\ [Next]_vars => PlainInv'
    BY PlainStep
  <1> QED BY TurnInvariant, <1>1, <1>2, PTL DEF Spec

(* With compaction switched off no recorded turn disappears from the file  *)
(* until a reset, whatever turns, cancellations and shielded writes run.   *)
THEOREM NoTurnIsLost ==
    ASSUME ~CompactionEnabled
    PROVE  Spec => []NoTurnLost
  <1>1. PlainInv => NoTurnLost
    BY DEF PlainInv, NoTurnLost
  <1> QED BY PlainInvariant, <1>1, PTL

(* With compaction switched off a turn that a reset erased does not come   *)
(* back, unless its event is delivered and executed again.                 *)
THEOREM ErasedStaysErased ==
    ASSUME ~CompactionEnabled
    PROVE  Spec => []ResetIsFinal
  <1>1. PlainInv => ResetIsFinal
    BY DEF PlainInv, ResetIsFinal
  <1> QED BY PlainInvariant, <1>1, PTL

=============================================================================
