----------------------------- MODULE StoreProofs -----------------------------
(***************************************************************************)
(* Proofs about the filesystem store: the session file across crashes,     *)
(* startup scans and compactions (SessionRecovery), and the lease locks    *)
(* (LockCoordinator, instantiated at the end), for every set of turns,     *)
(* every budget and every number of crashes; for every set of clients,     *)
(* keys and owner ids and every TTL.                                       *)
(*                                                                         *)
(* The invariant of the session file is about its lines, not about the     *)
(* records read from them: a line is appended or garbled, never moved, so  *)
(* a step can be followed line by line; what the store reads is then the   *)
(* lines that parse, sorted.                                               *)
(***************************************************************************)
EXTENDS SessionRecovery, Leases, FiniteSetTheorems, FunctionTheorems, SequenceTheorems, TLAPS

(* The bytes of the session file as lines, the unterminated one included. *)
File == lines \o open

(* The places of the lines that parse. *)
Legible(l) == {i \in DOMAIN l : l[i].kind # "garbled"}

Ids(l) == {EventId(l[i]) : i \in Legible(l)}

Closed(l, t) == \E i \in DOMAIN l : l[i].kind = "terminal" /\ l[i].turn = t

(* A turn has one terminal record, ... *)
ClosedOnce(l) ==
    \A i, j \in DOMAIN l :
        l[i].kind = "terminal" /\ l[j].kind = "terminal" /\ l[i].turn = l[j].turn => i = j

(* ... a call has a smaller number than its result, ... *)
CallsFirst(l) ==
    \A i, j \in DOMAIN l :
        /\ l[i].kind = "call" /\ l[j].kind = "result"
        /\ l[i].turn = l[j].turn /\ l[i].info = l[j].info
        => l[i].seq < l[j].seq

(* ... and its records are of turns that have begun or of compactions. *)
OfBegun(l) ==
    \A i \in Legible(l) :
        IF IsCompaction(l[i].turn) THEN TRUE
        ELSE l[i].turn \in begun /\ l[i].kind # "summary"

(* What is left of a turn's batches when the first is written. *)
Rests(t) ==
    {<<Ending(t, "completed")>>, <<Ending(t, "cancelled")>>,
     <<<<Rec(t, "result", "memory")>> \o Ending(t, "completed")>>}

(* A running turn has yet to write its terminal record, and everything if  *)
(* its first batch is not written; its records are not the torn one.       *)
PendingOK ==
    \A t \in UserTurns :
        /\ pending[t] \in {<<>>} \cup Batches(t) \cup Rests(t)
        /\ pending[t] # <<>> => /\ phase = "up" /\ t \in begun /\ ~Closed(File, t)
                                /\ \A i \in Legible(open) : open[i].turn # t
        /\ pending[t] \in Batches(t) => \A i \in Legible(File) : File[i].turn # t

(* Without a torn write every line parses, and the turns are closed but    *)
(* for those that run.                                                     *)
WholeOK ==
    torn = 0 =>
        /\ open = <<>> /\ \A i \in DOMAIN lines : lines[i].kind # "garbled"
        /\ phase = "results" => \A i \in DOMAIN lines : Closed(lines, lines[i].turn)
        /\ phase = "up" =>
              \A i \in DOMAIN lines :
                  \/ Closed(lines, lines[i].turn) \/ IsCompaction(lines[i].turn)
                  \/ lines[i].turn \in UserTurns /\ pending[lines[i].turn] # <<>>

(* An unterminated line stands for a loss to come. *)
LossOK ==
    /\ IsFiniteSet(acked \ Ids(lines))
    /\ Cardinality(acked \ Ids(lines)) + Len(open) <= torn
TurnIds == UserTurns \cup {TurnId(0)} \cup {CompactionId(n) : n \in Nat}

Infos == {"", "tool", "memory", "completed", "cancelled", "failed", "interrupted"}

Stored == [seq : Nat, turn : TurnIds, kind : Kinds \cup {"garbled"}, info : Infos,
           covers : SUBSET TurnIds]

-----------------------------------------------------------------------------
(* Sorting.                                                                *)

(* In a finite chain of sets, the sets are told apart by their sizes, and  *)
(* every size occurs.                                                      *)
LEMMA ChainRank ==
    ASSUME NEW S, IsFiniteSet(S), NEW up \in [S -> SUBSET S],
           \A i \in S : i \in up[i],
           \A i, j \in S : up[i] \subseteq up[j] \/ up[j] \subseteq up[i],
           \A i, j \in S : i \in up[j] /\ j \in up[i] => i = j
    PROVE  /\ Cardinality(S) \in Nat
           /\ \A i \in S : IsFiniteSet(up[i]) /\ Cardinality(up[i]) \in 1..Cardinality(S)
           /\ \A i, j \in S : Cardinality(up[i]) = Cardinality(up[j]) => i = j
           /\ \A k \in 1..Cardinality(S) : \E i \in S : Cardinality(up[i]) = k
  <1> DEFINE n == Cardinality(S)
             rank == [i \in S |-> Cardinality(up[i])]
  <1>1. n \in Nat
    BY FS_CardinalityType
  <1>2. \A i \in S : IsFiniteSet(up[i]) /\ Cardinality(up[i]) \in 1..n
    <2> TAKE i \in S
    <2>1. up[i] \in SUBSET S /\ up[i] # {}
      OBVIOUS
    <2>2. IsFiniteSet(up[i]) /\ Cardinality(up[i]) <= n
      BY <2>1, FS_Subset
    <2> QED BY <1>1, <2>1, <2>2, FS_CardinalityType, FS_EmptySet
  <1>3. ASSUME NEW i \in S, NEW j \in S, Cardinality(up[i]) = Cardinality(up[j]) PROVE i = j
    <2>1. up[i] = up[j]
      BY <1>2, <1>3, FS_Subset
    <2> QED BY <2>1
  <1>4. rank \in [S -> 1..n]
    BY <1>2
  <1>5. \A i, j \in S : rank[i] = rank[j] => i = j
    BY <1>3
  <1>6. \A i \in S : rank[i] = Cardinality(up[i])
    OBVIOUS
  <1> HIDE DEF rank
  <1>7. rank \in Surjection(S, 1..n)
    <2>1. rank \in Injection(S, 1..n)
      BY <1>4, <1>5, Fun_IsInj
    <2>2. IsFiniteSet(1..n) /\ Cardinality(1..n) = n
      BY <1>1, FS_Interval
    <2> QED BY <2>1, <2>2, FS_Injection
  <1>8. \A k \in 1..n : \E i \in S : rank[i] = k
    BY <1>7 DEF Surjection
  <1> QED BY <1>1, <1>2, <1>3, <1>6, <1>8

(* The places up to j in the order of key, then of place. *)
UpTo(S, key, j) == {i \in S : key[i] < key[j] \/ (key[i] = key[j] /\ i <= j)}

(* c lists the records of s at the places S in that order, f their places. *)
Arranged(c, f, s, S, key) ==
    /\ c \in Seq(Stored) /\ Len(c) \in Nat /\ DOMAIN c = 1..Len(c)
    /\ f \in [1..Len(c) -> S]
    /\ \A k \in 1..Len(c) : c[k] = s[f[k]]
    /\ \A k, m \in 1..Len(c) : k < m =>
          f[k] # f[m] /\ (key[f[k]] < key[f[m]] \/ (key[f[k]] = key[f[m]] /\ f[k] < f[m]))
    /\ \A i \in S : \E k \in 1..Len(c) : f[k] = i

Arrange(s, S, key) ==
    [k \in 1..Cardinality(S) |-> s[CHOOSE j \in S : Cardinality(UpTo(S, key, j)) = k]]

(* The sort by a key, then by place, lists every place once, in order. *)
LEMMA ArrangedFacts ==
    ASSUME NEW s \in Seq(Stored), NEW S, S \subseteq DOMAIN s, NEW key \in [S -> Nat]
    PROVE  \E f : Arranged(Arrange(s, S, key), f, s, S, key)
  <1> DEFINE n == Cardinality(S)
             up == [j \in S |-> UpTo(S, key, j)]
             f == [k \in 1..n |-> CHOOSE j \in S : Cardinality(up[j]) = k]
             c == Arrange(s, S, key)
  <1>1. DOMAIN s = 1..Len(s) /\ Len(s) \in Nat /\ \A i \in 1..Len(s) : s[i] \in Stored
    OBVIOUS
  <1>2. IsFiniteSet(S) /\ \A i \in S : i \in Nat /\ i \in 1..Len(s) /\ key[i] \in Nat
    <2>1. IsFiniteSet(1..Len(s)) /\ S \in SUBSET (1..Len(s))
      BY <1>1, FS_Interval
    <2> QED BY <1>1, <2>1, FS_Subset
  <1>3. \A i, j \in S : i \in up[j] <=> key[i] < key[j] \/ (key[i] = key[j] /\ i <= j)
    BY DEF UpTo
  <1>4. up \in [S -> SUBSET S]
    BY DEF UpTo
  <1>5. c = [k \in 1..n |-> c[k]] /\ \A k \in 1..n : c[k] = s[f[k]]
    <2>0. c = [k \in 1..n |-> s[CHOOSE j \in S : Cardinality(UpTo(S, key, j)) = k]]
      BY DEF Arrange
    <2>1. \A j \in S : UpTo(S, key, j) = up[j]
      OBVIOUS
    <2> HIDE DEF up, c, n
    <2>2. \A k \in 1..n : (CHOOSE j \in S : Cardinality(UpTo(S, key, j)) = k)
                          = (CHOOSE j \in S : Cardinality(up[j]) = k)
      BY <2>1
    <2>3. c = [k \in 1..n |-> c[k]]
      BY <2>0
    <2>4. \A k \in 1..n : c[k] = s[CHOOSE j \in S : Cardinality(UpTo(S, key, j)) = k]
      BY <2>0
    <2>5. \A k \in 1..n : f[k] = CHOOSE j \in S : Cardinality(up[j]) = k
      OBVIOUS
    <2> QED BY <2>2, <2>3, <2>4, <2>5
  <1> HIDE DEF up, c
  <1>6. \A i \in S : i \in up[i]
    BY <1>2, <1>3
  <1>7. \A i, j \in S : i \in up[j] \/ j \in up[i]
    <2> TAKE i, j \in S
    <2>1. i \in Nat /\ j \in Nat /\ key[i] \in Nat /\ key[j] \in Nat
      BY <1>2
    <2>2. \/ key[i] < key[j] \/ (key[i] = key[j] /\ i <= j)
          \/ key[j] < key[i] \/ (key[j] = key[i] /\ j <= i)
      BY <2>1
    <2> QED BY <1>3, <2>2
  <1>8. \A i, j \in S : i \in up[j] => up[i] \subseteq up[j]
    <2> SUFFICES ASSUME NEW i \in S, NEW j \in S, i \in up[j], NEW m \in S, m \in up[i]
                 PROVE  m \in up[j]
      BY <1>4
    <2>1. /\ i \in Nat /\ j \in Nat /\ m \in Nat
          /\ key[i] \in Nat /\ key[j] \in Nat /\ key[m] \in Nat
      BY <1>2
    <2>2. /\ key[i] < key[j] \/ (key[i] = key[j] /\ i <= j)
          /\ key[m] < key[i] \/ (key[m] = key[i] /\ m <= i)
      BY <1>3
    <2>3. key[m] < key[j] \/ (key[m] = key[j] /\ m <= j)
      BY <2>1, <2>2
    <2> QED BY <1>3, <2>3
  <1>9. \A i, j \in S : i \in up[j] /\ j \in up[i] => i = j
    BY <1>2, <1>3
  <1>10. \A i, j \in S : up[i] \subseteq up[j] \/ up[j] \subseteq up[i]
    BY <1>7, <1>8
  <1>11. /\ n \in Nat
         /\ \A i \in S : IsFiniteSet(up[i]) /\ Cardinality(up[i]) \in 1..n
         /\ \A i, j \in S : Cardinality(up[i]) = Cardinality(up[j]) => i = j
         /\ \A k \in 1..n : \E i \in S : Cardinality(up[i]) = k
    BY <1>2, <1>4, <1>6, <1>9, <1>10, ChainRank, ZenonT(60)
  <1>12. \A k \in 1..n : f[k] \in S /\ Cardinality(up[f[k]]) = k
    BY <1>11
  <1>13. f \in [1..n -> S]
    BY <1>12
  <1>14. \A i \in S : \E k \in 1..n : f[k] = i
    <2> TAKE i \in S
    <2>1. Cardinality(up[i]) \in 1..n
      BY <1>11
    <2> HIDE DEF f
    <2>2. f[Cardinality(up[i])] = i
      BY <1>11, <1>12, <2>1
    <2> QED BY <2>1, <2>2
  <1> HIDE DEF n, f
  <1>15. ASSUME NEW k \in 1..n, NEW m \in 1..n, k < m
         PROVE  f[k] # f[m] /\ (key[f[k]] < key[f[m]] \/ (key[f[k]] = key[f[m]] /\ f[k] < f[m]))
    <2>1. f[k] \in S /\ f[m] \in S /\ Cardinality(up[f[k]]) = k /\ Cardinality(up[f[m]]) = m
      BY <1>12
    <2>2. k \in Nat /\ m \in Nat /\ k # m
      BY <1>11, <1>15
    <2>3. f[k] # f[m]
      BY <2>1, <2>2
    <2>4. f[m] \notin up[f[k]]
      <3> SUFFICES ASSUME f[m] \in up[f[k]] PROVE FALSE
        OBVIOUS
      <3>1. up[f[m]] \in SUBSET up[f[k]] /\ IsFiniteSet(up[f[k]])
        BY <1>8, <1>11, <2>1
      <3>2. Cardinality(up[f[m]]) <= Cardinality(up[f[k]])
        BY <3>1, FS_Subset
      <3> QED BY <1>15, <2>1, <2>2, <3>2
    <2>5. key[f[k]] < key[f[m]] \/ (key[f[k]] = key[f[m]] /\ f[k] <= f[m])
      BY <1>3, <1>7, <2>1, <2>4
    <2>6. f[k] \in Nat /\ f[m] \in Nat
      BY <1>2, <2>1
    <2> QED BY <2>3, <2>5, <2>6
  <1>16. \A k \in 1..n : s[f[k]] \in Stored
    BY <1>1, <1>2, <1>12
  <1>17. c \in [1..n -> Stored]
    BY <1>5, <1>16
  <1>18. \A k \in 1..n : c[k] = s[f[k]]
    BY <1>5
  <1>19. n \in Nat
    BY <1>11
  <1>20. c \in Seq(Stored) /\ Len(c) = n /\ DOMAIN c = 1..n
    BY <1>17, <1>19
  <1>21. Arranged(c, f, s, S, key)
    BY <1>13, <1>14, <1>15, <1>18, <1>19, <1>20 DEF Arranged
  <1> QED BY <1>21 DEF c

(* At keeps the order of the places, ... *)
LEMMA AtArranged ==
    ASSUME NEW s \in Seq(Stored), NEW S, S \subseteq DOMAIN s
    PROVE  \E f : Arranged(At(s, S), f, s, S, [i \in S |-> 0])
  <1> DEFINE key == [i \in S |-> 0]
  <1>1. key \in [S -> Nat]
    OBVIOUS
  <1>2. \A j \in S : UpTo(S, key, j) = {i \in S : i <= j}
    BY DEF UpTo
  <1> HIDE DEF key
  <1>3. \A k : (CHOOSE i \in S : Cardinality({j \in S : j <= i}) = k)
               = (CHOOSE j \in S : Cardinality(UpTo(S, key, j)) = k)
    BY <1>2
  <1>4. At(s, S) = Arrange(s, S, key)
    <2>1. At(s, S) = [k \in 1..Cardinality(S) |->
                         s[CHOOSE i \in S : Cardinality({j \in S : j <= i}) = k]]
      BY DEF At
    <2> QED BY <1>3, <2>1, ZenonT(100) DEF Arrange
  <1> QED BY <1>1, <1>4, ArrangedFacts DEF key

(* ... what the store reads is in the order of the numbers, ... *)
Seqs(l) == [i \in Legible(l) |-> l[i].seq]

(* ReadAll is that sort of the lines that parse, by their numbers. *)
LEMMA ReadArranged ==
    ASSUME NEW l \in Seq(Stored)
    PROVE  \E f : Arranged(ReadAll(l), f, l, Legible(l), Seqs(l))
  <1> DEFINE S == Legible(l)
             key == Seqs(l)
  <1>1. S \subseteq DOMAIN l /\ key \in [S -> Nat]
    <2>1. \A i \in DOMAIN l : l[i] \in Stored
      OBVIOUS
    <2>2. \A i \in DOMAIN l : l[i].seq \in Nat
      BY <2>1 DEF Stored
    <2> QED BY <2>2 DEF Legible, Seqs
  <1>2. \A j \in S : UpTo(S, key, j)
                     = {i \in S : l[i].seq < l[j].seq \/ (l[i].seq = l[j].seq /\ i <= j)}
    BY DEF UpTo, Seqs
  <1> HIDE DEF key
  <1>3. ReadAll(l) = [p \in 1..Cardinality(S) |-> l[CHOOSE j \in S : Cardinality(
                {i \in S : l[i].seq < l[j].seq \/ (l[i].seq = l[j].seq /\ i <= j)}) = p]]
    BY DEF ReadAll, InSequence, Legible
  <1> HIDE DEF S
  <1>4. \A p : (CHOOSE j \in S : Cardinality(
                {i \in S : l[i].seq < l[j].seq \/ (l[i].seq = l[j].seq /\ i <= j)}) = p)
               = (CHOOSE j \in S : Cardinality(UpTo(S, key, j)) = p)
    BY <1>2
  <1>5. ReadAll(l) = Arrange(l, S, key)
    BY <1>3, <1>4, ZenonT(100) DEF Arrange
  <1> QED BY <1>1, <1>5, ArrangedFacts DEF key, S

(* Every turn of a log begins somewhere in it. *)
LEMMA BeginsFacts ==
    ASSUME NEW s \in Seq(Stored), NEW i \in DOMAIN s
    PROVE  Begins(s, s[i].turn) \in 1..Len(s) /\ s[Begins(s, s[i].turn)].turn = s[i].turn
  <1> DEFINE t == s[i].turn
             P == {k \in DOMAIN s : s[k].turn = t}
             First(k) == s[k].turn = t /\ \A j \in 1..k - 1 : s[j].turn # t
  <1>1. DOMAIN s = 1..Len(s) /\ Len(s) \in Nat /\ i \in P
    OBVIOUS
  <1>2. P \subseteq DOMAIN s
    OBVIOUS
  <1>3. PICK f : Arranged(At(s, P), f, s, P, [k \in P |-> 0])
    BY <1>2, AtArranged
  <1> HIDE DEF P
  <1>4. /\ f \in [1..Len(At(s, P)) -> P] /\ Len(At(s, P)) \in Nat
        /\ \A k, m \in 1..Len(At(s, P)) : k < m => f[k] < f[m]
        /\ \A k \in P : \E m \in 1..Len(At(s, P)) : f[m] = k
    <2>1. \A k \in P : [m \in P |-> 0][k] = 0
      OBVIOUS
    <2> DEFINE zero == [m \in P |-> 0]
    <2> HIDE DEF zero
    <2>2. Arranged(At(s, P), f, s, P, zero) /\ \A k \in P : zero[k] = 0
      BY <1>3, <2>1 DEF zero
    <2> QED BY <2>2, SMTT(60) DEF Arranged
  <1> DEFINE b == f[1]
  <1>5. 1 \in 1..Len(At(s, P))
    BY <1>1, <1>4
  <1>6. b \in P /\ \A k \in P : k \in Nat /\ b <= k
    BY <1>1, <1>2, <1>4, <1>5
  <1> HIDE DEF b
  <1>7. b \in DOMAIN s /\ s[b].turn = t
    BY <1>6 DEF P
  <1>8. \A j \in 1..b - 1 : s[j].turn # t
    <2> SUFFICES ASSUME NEW j \in 1..b - 1, s[j].turn = t PROVE FALSE
      OBVIOUS
    <2>1. b \in Nat /\ j \in 1..Len(s) /\ j \in Nat /\ j < b
      BY <1>1, <1>7
    <2>2. j \in P
      BY <1>1, <2>1 DEF P
    <2> QED BY <1>6, <2>1, <2>2
  <1>9. Begins(s, t) = CHOOSE k \in DOMAIN s : First(k)
    BY DEF Begins
  <1>10. \E k \in DOMAIN s : First(k)
    BY <1>7, <1>8
  <1>11. Begins(s, t) \in DOMAIN s /\ First(Begins(s, t))
    <2> HIDE DEF First
    <2> QED BY <1>9, <1>10
  <1> QED BY <1>1, <1>11

(* ... and ByTurn puts the turns in the order in which they began. *)
Start(s, S) == [i \in S |-> Begins(s, s[i].turn)]

(* ByTurn is that sort by the place where the turn begins. *)
LEMMA ByTurnArranged ==
    ASSUME NEW s \in Seq(Stored), NEW S, S \subseteq DOMAIN s
    PROVE  \E f : Arranged(ByTurn(s, S), f, s, S, Start(s, S))
  <1> DEFINE key == Start(s, S)
             B(i) == Begins(s, s[i].turn)
  <1>1. key \in [S -> Nat] /\ \A i \in S : key[i] = B(i)
    BY BeginsFacts DEF Start
  <1>2. ByTurn(s, S) = [k \in 1..Cardinality(S) |-> s[CHOOSE j \in S : Cardinality(
                {i \in S : B(i) < B(j) \/ (B(i) = B(j) /\ i <= j)}) = k]]
    BY DEF ByTurn
  <1> HIDE DEF key, B
  <1>3. \A j \in S : UpTo(S, key, j) = {i \in S : B(i) < B(j) \/ (B(i) = B(j) /\ i <= j)}
    BY <1>1 DEF UpTo
  <1>4. \A k : (CHOOSE j \in S : Cardinality(
                {i \in S : B(i) < B(j) \/ (B(i) = B(j) /\ i <= j)}) = k)
               = (CHOOSE j \in S : Cardinality(UpTo(S, key, j)) = k)
    BY <1>3
  <1>5. ByTurn(s, S) = Arrange(s, S, key)
    BY <1>2, <1>4, ZenonT(100) DEF Arrange
  <1> QED BY <1>1, <1>5, ArrangedFacts DEF key

-----------------------------------------------------------------------------
(* Reading the file.                                                       *)

(* The store reads the lines that parse, and numbers on from all of them. *)
LEMMA ReadFacts ==
    ASSUME NEW l \in Seq(Stored), NEW r, r = ReadAll(l)
    PROVE  /\ r \in Seq(Stored) /\ ToSet(r) = {l[i] : i \in Legible(l)}
           /\ NextSequence(r) \in Nat
           /\ \A i \in Legible(l) : l[i].seq < NextSequence(r)
  <1>1. PICK f : Arranged(r, f, l, Legible(l), Seqs(l))
    BY ReadArranged
  <1> DEFINE n == Len(r)
  <1>2. /\ r \in Seq(Stored) /\ n \in Nat /\ DOMAIN r = 1..n
        /\ f \in [1..n -> Legible(l)]
        /\ \A k \in 1..n : r[k] = l[f[k]]
        /\ \A k, m \in 1..n : k < m => \/ Seqs(l)[f[k]] < Seqs(l)[f[m]]
                                       \/ Seqs(l)[f[k]] = Seqs(l)[f[m]]
        /\ \A i \in Legible(l) : \E k \in 1..n : f[k] = i
    BY <1>1 DEF Arranged
  <1>3. \A i \in Legible(l) : Seqs(l)[i] = l[i].seq
    BY DEF Seqs
  <1>4. \A k \in 1..n : r[k] \in Stored /\ r[k].seq \in Nat
    <2>1. \A k \in 1..n : r[k] \in Stored
      BY <1>2
    <2> QED BY <2>1 DEF Stored
  <1> HIDE DEF n
  <1>5. \A k, m \in 1..n : k < m => r[k].seq <= r[m].seq
    <2> SUFFICES ASSUME NEW k \in 1..n, NEW m \in 1..n, k < m PROVE r[k].seq <= r[m].seq
      OBVIOUS
    <2>1. /\ r[k] = l[f[k]] /\ r[m] = l[f[m]]
          /\ Seqs(l)[f[k]] = l[f[k]].seq /\ Seqs(l)[f[m]] = l[f[m]].seq
      BY <1>2, <1>3
    <2>2. r[k].seq < r[m].seq \/ r[k].seq = r[m].seq
      BY <1>2, <2>1
    <2> QED BY <1>4, <2>2
  <1>6. ToSet(r) = {l[i] : i \in Legible(l)}
    BY <1>2 DEF ToSet
  <1>7. r # <<>> => NextSequence(r) = r[n].seq + 1 /\ n \in 1..n
    BY <1>2 DEF NextSequence, Last, n
  <1>8. NextSequence(r) \in Nat
    <2>1. CASE r = <<>>
      BY <2>1 DEF NextSequence
    <2>2. CASE r # <<>>
      BY <1>4, <1>7, <2>2
    <2> QED BY <2>1, <2>2
  <1>9. ASSUME NEW i \in Legible(l) PROVE l[i].seq < NextSequence(r)
    <2>1. PICK k \in 1..n : f[k] = i
      BY <1>2
    <2>2. r # <<>>
      BY <1>2, <2>1 DEF n
    <2>3. r[k].seq <= r[n].seq
      <3>1. k = n \/ k < n
        BY <1>2, <2>1
      <3> QED BY <1>4, <1>5, <1>7, <2>1, <2>2, <3>1
    <2> QED BY <1>2, <1>4, <1>7, <2>1, <2>2, <2>3, SMTT(60)
  <1> QED BY <1>2, <1>6, <1>8, <1>9

(* The turns read, and which of them are closed, are those of the lines. *)
LEMMA ReadTurns ==
    ASSUME NEW l \in Seq(Stored)
    PROVE  /\ TurnsOf(ReadAll(l)) = {l[i].turn : i \in Legible(l)}
           /\ \A t : HasTerminal(ReadAll(l), t) <=> Closed(l, t)
  <1>1. ToSet(ReadAll(l)) = {l[i] : i \in Legible(l)}
    BY ReadFacts
  <1>2. \A i : i \in Legible(l) <=> i \in DOMAIN l /\ l[i].kind # "garbled"
    BY DEF Legible
  <1> QED BY <1>1, <1>2 DEF TurnsOf, HasTerminal, Closed

(* An event id tells the turn and the kind of its record. *)
LEMMA EventIdParts ==
    ASSUME NEW q, NEW r, EventId(q) = EventId(r)
    PROVE  q.turn = r.turn /\ q.kind = r.kind
  <1>1. /\ EventId(q)[2] = q.turn /\ EventId(r)[2] = r.turn
        /\ EventId(q)[1] = q.kind /\ EventId(r)[1] = r.kind
    BY DEF EventId
  <1> QED BY <1>1

-----------------------------------------------------------------------------
(* What is appended.                                                       *)

(* new are the records of b at the places g, in order. *)
Copies(new, g, b) ==
    /\ g \in [1..Len(new) -> DOMAIN b]
    /\ \A k, m \in 1..Len(new) : k < m => g[k] < g[m]
    /\ \A k \in 1..Len(new) :
          /\ new[k].turn = b[g[k]].turn /\ new[k].kind = b[g[k]].kind
          /\ new[k].info = b[g[k]].info /\ EventId(new[k]) = EventId(b[g[k]])

NumberedFrom(new, next) ==
    /\ new \in Seq(Stored) /\ DOMAIN new = 1..Len(new) /\ Len(new) \in Nat
    /\ \A k \in 1..Len(new) : new[k].kind # "garbled" /\ new[k].seq = next + k - 1

Number(b, next) == [k \in DOMAIN b |-> [b[k] EXCEPT !.seq = next + k - 1]]

(* Numbering changes nothing but the numbers. *)
LEMMA NumberingFacts ==
    ASSUME NEW b \in Seq(Stored), \A i \in DOMAIN b : b[i].kind # "garbled",
           NEW next \in Nat
    PROVE  LET new == Number(b, next)
           IN  /\ NumberedFrom(new, next) /\ Len(new) = Len(b)
               /\ \A k \in 1..Len(new) :
                     /\ new[k].turn = b[k].turn /\ new[k].kind = b[k].kind
                     /\ new[k].info = b[k].info /\ EventId(new[k]) = EventId(b[k])
  <1> DEFINE n == Len(b)
             new == Number(b, next)
  <1>1. n \in Nat /\ DOMAIN b = 1..n /\ \A k \in 1..n : b[k] \in Stored /\ b[k].kind # "garbled"
    OBVIOUS
  <1> HIDE DEF n
  <1>2. \A k \in 1..n : next + k - 1 \in Nat
    BY <1>1
  <1>3. ASSUME NEW k \in 1..n
        PROVE  /\ new[k] \in Stored /\ new[k].seq = next + k - 1 /\ new[k].kind = b[k].kind
               /\ new[k].turn = b[k].turn /\ new[k].info = b[k].info
    <2>1. new[k] = [b[k] EXCEPT !.seq = next + k - 1]
      BY <1>1 DEF Number
    <2> QED BY <1>1, <1>2, <2>1, ZenonT(100) DEF Stored
  <1>4. new \in [1..n -> Stored]
    BY <1>1, <1>3 DEF Number
  <1>5. new \in Seq(Stored) /\ Len(new) = n /\ DOMAIN new = 1..n
    BY <1>1, <1>4
  <1>6. \A k \in 1..n : EventId(new[k]) = EventId(b[k])
    BY <1>3 DEF EventId
  <1> QED BY <1>1, <1>3, <1>5, <1>6 DEF NumberedFrom, n

(* append(): the records of the batch that the file does not have. *)
LEMMA NewRecordsFacts ==
    ASSUME NEW l \in Seq(Stored), NEW b \in Seq(Stored),
           \A i \in DOMAIN b : b[i].kind # "garbled",
           \A i, j \in DOMAIN b : EventId(b[i]) = EventId(b[j]) => i = j,
           NEW new, new = NewRecords(l, b)
    PROVE  /\ NumberedFrom(new, NextSequence(ReadAll(l)))
           /\ \E g : /\ Copies(new, g, b)
                     /\ \A i \in DOMAIN b : EventId(b[i]) \in Ids(l) \/ \E k \in 1..Len(new) : g[k] = i
           /\ \A i \in DOMAIN b : \/ EventId(b[i]) \in Ids(l)
                                  \/ \E k \in 1..Len(new) : EventId(new[k]) = EventId(b[i])
  <1> DEFINE next == NextSequence(ReadAll(l))
             known == {EventId(r) : r \in ToSet(ReadAll(l))}
             S == {i \in DOMAIN b : /\ EventId(b[i]) \notin known
                                    /\ \A j \in 1..i - 1 : EventId(b[j]) # EventId(b[i])}
             fresh == At(b, S)
  <1>1. next \in Nat /\ known = Ids(l)
    <2>1. next \in Nat /\ ToSet(ReadAll(l)) = {l[i] : i \in Legible(l)}
      BY ReadFacts
    <2> HIDE DEF next
    <2> QED BY <2>1 DEF Ids
  <1>n. next \in Nat
    BY <1>1
  <1>2. new = Number(fresh, next)
    BY DEF NewRecords, Number
  <1>3. S \subseteq DOMAIN b
    OBVIOUS
  <1>4. \A i \in DOMAIN b : EventId(b[i]) \notin Ids(l) => i \in S
    <2> SUFFICES ASSUME NEW i \in DOMAIN b, EventId(b[i]) \notin Ids(l),
                        NEW j \in 1..i - 1, EventId(b[j]) = EventId(b[i])
                 PROVE  FALSE
      BY <1>1
    <2>1. DOMAIN b = 1..Len(b) /\ Len(b) \in Nat
      OBVIOUS
    <2>2. j \in DOMAIN b /\ j # i
      BY <2>1
    <2> QED BY <2>2
  <1> HIDE DEF S, next
  <1>5. PICK g : Arranged(fresh, g, b, S, [i \in S |-> 0])
    BY <1>3, AtArranged
  <1>6. /\ fresh \in Seq(Stored) /\ DOMAIN fresh = 1..Len(fresh) /\ Len(fresh) \in Nat
        /\ g \in [1..Len(fresh) -> S]
        /\ \A k \in 1..Len(fresh) : fresh[k] = b[g[k]]
        /\ \A k, m \in 1..Len(fresh) : k < m => g[k] < g[m]
        /\ \A i \in S : \E k \in 1..Len(fresh) : g[k] = i
    <2> DEFINE zero == [i \in S |-> 0]
    <2>1. \A i \in S : zero[i] = 0
      OBVIOUS
    <2> HIDE DEF zero, fresh
    <2>2. Arranged(fresh, g, b, S, zero)
      BY <1>5 DEF zero
    <2>3. /\ fresh \in Seq(Stored) /\ DOMAIN fresh = 1..Len(fresh) /\ Len(fresh) \in Nat
          /\ g \in [1..Len(fresh) -> S]
          /\ \A k \in 1..Len(fresh) : fresh[k] = b[g[k]]
          /\ \A k, m \in 1..Len(fresh) : k < m =>
                zero[g[k]] < zero[g[m]] \/ (zero[g[k]] = zero[g[m]] /\ g[k] < g[m])
          /\ \A i \in S : \E k \in 1..Len(fresh) : g[k] = i
      BY <2>2 DEF Arranged
    <2>4. \A k \in 1..Len(fresh) : zero[g[k]] = 0
      BY <2>1, <2>3
    <2>5. ASSUME NEW k \in 1..Len(fresh), NEW m \in 1..Len(fresh), k < m
          PROVE  g[k] < g[m]
      <3>1. zero[g[k]] < zero[g[m]] \/ g[k] < g[m]
        BY <2>3, <2>5
      <3>2. zero[g[k]] = 0 /\ zero[g[m]] = 0
        BY <2>4
      <3>3. ~(0 < 0)
        OBVIOUS
      <3> QED BY <3>1, <3>2, <3>3
    <2> QED BY <2>3, <2>5
  <1> HIDE DEF fresh, known
  <1>7. \A k \in DOMAIN fresh : fresh[k].kind # "garbled"
    BY <1>3, <1>6
  <1>8. /\ NumberedFrom(new, next) /\ Len(new) = Len(fresh)
        /\ \A k \in 1..Len(new) :
              /\ new[k].turn = fresh[k].turn /\ new[k].kind = fresh[k].kind
              /\ new[k].info = fresh[k].info /\ EventId(new[k]) = EventId(fresh[k])
    <2>1. fresh \in Seq(Stored)
      BY <1>6
    <2> QED BY <1>n, <1>2, <1>7, <2>1, NumberingFacts
  <1>9. Copies(new, g, b)
    <2>1. g \in [1..Len(new) -> DOMAIN b]
      BY <1>3, <1>6, <1>8
    <2> QED BY <1>6, <1>8, <2>1 DEF Copies
  <1>10. \A i \in DOMAIN b : EventId(b[i]) \in Ids(l) \/ \E k \in 1..Len(new) : g[k] = i
    BY <1>4, <1>6, <1>8
  <1>11. ASSUME NEW i \in DOMAIN b, EventId(b[i]) \notin Ids(l)
         PROVE  \E k \in 1..Len(new) : EventId(new[k]) = EventId(b[i])
    BY <1>6, <1>8, <1>10, <1>11
  <1> QED BY <1>8, <1>9, <1>10, <1>11 DEF next

(* SetToSeq lists a finite set. *)
LEMMA ListFacts ==
    ASSUME NEW S, IsFiniteSet(S), NEW q, q = SetToSeq(S)
    PROVE  /\ q \in Seq(S) /\ DOMAIN q = 1..Len(q) /\ Len(q) \in Nat
           /\ \A i, j \in 1..Len(q) : q[i] = q[j] => i = j
           /\ \A x \in S : \E i \in 1..Len(q) : q[i] = x
  <1> DEFINE n == Cardinality(S)
  <1>1. n \in Nat /\ ExistsBijection(1..n, S)
    BY FS_CardinalityType
  <1>2. PICK f : f \in Bijection(1..n, S)
    BY <1>1 DEF ExistsBijection
  <1>3. f \in [1..n -> S] /\ IsInjective(f)
    BY <1>2 DEF Bijection, Injection, IsInjective
  <1>4. q \in [1..n -> S] /\ IsInjective(q)
    BY <1>3 DEF SetToSeq
  <1>5. q \in Seq(S) /\ Len(q) = n /\ DOMAIN q = 1..n
    BY <1>1, <1>4
  <1>6. \A i, j \in 1..n : q[i] = q[j] => i = j
    BY <1>4 DEF IsInjective
  <1>7. q \in Injection(1..n, S)
    BY <1>4, <1>6, Fun_IsInj
  <1>8. IsFiniteSet(1..n) /\ Cardinality(1..n) = n
    BY <1>1, FS_Interval
  <1>9. q \in Surjection(1..n, S)
    BY <1>7, <1>8, FS_Injection
  <1>10. \A x \in S : \E i \in 1..n : q[i] = x
    BY <1>9 DEF Surjection
  <1> QED BY <1>1, <1>5, <1>6, <1>10

(* What a finite list holds is finite. *)
LEMMA FiniteRange ==
    ASSUME NEW n \in Nat, NEW f, DOMAIN f = 1..n, NEW S, S \subseteq {f[i] : i \in 1..n},
           f = [i \in 1..n |-> f[i]]
    PROVE  IsFiniteSet(S)
  <1> DEFINE T == {f[i] : i \in 1..n}
  <1>1. f \in Surjection(1..n, T)
    <2>1. f \in [1..n -> T]
      OBVIOUS
    <2>2. \A x \in T : \E i \in 1..n : f[i] = x
      OBVIOUS
    <2> HIDE DEF T
    <2> QED BY <2>1, <2>2 DEF Surjection
  <1>2. IsFiniteSet(1..n)
    BY FS_Interval
  <1> HIDE DEF T
  <1>3. IsFiniteSet(T)
    BY <1>1, <1>2, FS_Surjection
  <1> QED BY <1>3, FS_Subset DEF T

-----------------------------------------------------------------------------
(* Writing the file.                                                       *)

(* Places and elements of a concatenation. *)
LEMMA Joined ==
    ASSUME NEW a \in Seq(Stored), NEW b \in Seq(Stored)
    PROVE  /\ a \o b \in Seq(Stored) /\ Len(a \o b) = Len(a) + Len(b)
           /\ DOMAIN (a \o b) = 1..Len(a) + Len(b)
           /\ \A i \in 1..Len(a) : i \in 1..Len(a \o b) /\ (a \o b)[i] = a[i]
           /\ \A k \in 1..Len(b) : Len(a) + k \in 1..Len(a \o b) /\ (a \o b)[Len(a) + k] = b[k]
           /\ \A i \in 1..Len(a \o b) : \/ i \in 1..Len(a)
                                        \/ \E k \in 1..Len(b) : i = Len(a) + k
  <1> DEFINE c == a \o b
             n == Len(a)
             m == Len(b)
  <1>1. n \in Nat /\ m \in Nat
    OBVIOUS
  <1>2. /\ c \in Seq(Stored) /\ Len(c) = n + m
        /\ \A i \in 1..n + m : c[i] = IF i <= n THEN a[i] ELSE b[i - n]
    BY ConcatProperties
  <1>3. DOMAIN c = 1..n + m
    BY <1>2
  <1> HIDE DEF c, n, m
  <1>4. \A i \in 1..n : i \in 1..n + m /\ c[i] = a[i]
    BY <1>1, <1>2
  <1>5. \A k \in 1..m : n + k \in 1..n + m /\ c[n + k] = b[k]
    BY <1>1, <1>2
  <1>6. ASSUME NEW i \in 1..n + m PROVE i \in 1..n \/ \E k \in 1..m : i = n + k
    <2>1. CASE i <= n
      BY <1>1, <2>1
    <2>2. CASE n < i
      <3>1. i - n \in 1..m /\ i = n + (i - n)
        BY <1>1, <2>2
      <3> QED BY <3>1
    <2> QED BY <1>1, <2>1, <2>2
  <1> QED BY <1>2, <1>3, <1>4, <1>5, <1>6 DEF c, n, m

(* Every line of the file w that parses was in l, or is a line of new that *)
(* went to its place behind base.                                          *)
Wrote(w, l, base, new) ==
    \A i \in Legible(w) :
        \/ i \in Legible(l) /\ w[i] = l[i]
        \/ \E k \in 1..Len(new) : i = base + k /\ w[i] = new[k]

(* Lines x and an open rest y behind l, taken from new: the file is written. *)
LEMMA Extended ==
    ASSUME NEW l \in Seq(Stored), NEW o \in Seq(Stored), NEW x \in Seq(Stored),
           NEW y \in Seq(Stored), NEW new \in Seq(Stored),
           \A k \in 1..Len(x) : x[k].kind = "garbled" \/ (k \in 1..Len(new) /\ x[k] = new[k]),
           \/ x = <<>> /\ y = o
           \/ \A k \in 1..Len(y) :
                 y[k].kind = "garbled" \/ (Len(x) + k \in 1..Len(new) /\ y[k] = new[Len(x) + k])
    PROVE  Wrote((l \o x) \o y, l \o o, Len(l), new)
  <1> DEFINE lx == l \o x
             w == lx \o y
             lo == l \o o
             n == Len(l)
             m == Len(x)
  <1>1. n \in Nat /\ m \in Nat /\ \A k \in 1..Len(y) : k \in Nat
    OBVIOUS
  <1>2. /\ lx \in Seq(Stored) /\ Len(lx) = n + m
        /\ \A i \in 1..n : lx[i] = l[i]
        /\ \A k \in 1..m : lx[n + k] = x[k]
        /\ \A i \in 1..Len(lx) : i \in 1..n \/ \E k \in 1..m : i = n + k
    BY Joined
  <1>3. /\ lo \in Seq(Stored)
        /\ \A i \in 1..n : i \in DOMAIN lo /\ lo[i] = l[i]
        /\ \A k \in 1..Len(o) : n + k \in DOMAIN lo /\ lo[n + k] = o[k]
    BY Joined, SMTT(60)
  <1> HIDE DEF lx, lo
  <1>4. /\ DOMAIN w = 1..Len(w)
        /\ \A i \in 1..Len(lx) : w[i] = lx[i]
        /\ \A k \in 1..Len(y) : w[Len(lx) + k] = y[k]
        /\ \A i \in 1..Len(w) : i \in 1..Len(lx) \/ \E k \in 1..Len(y) : i = Len(lx) + k
    <2>1. lx \in Seq(Stored)
      BY <1>2
    <2> QED BY <2>1, Joined
  <1> HIDE DEF w, n, m
  <1>5. ASSUME NEW i \in Legible(w)
        PROVE  \/ i \in Legible(lo) /\ w[i] = lo[i]
               \/ \E k \in 1..Len(new) : i = n + k /\ w[i] = new[k]
    <2>1. i \in 1..Len(w) /\ w[i].kind # "garbled"
      BY <1>4 DEF Legible
    <2>2. CASE i \in 1..Len(lx)
      <3>1. w[i] = lx[i]
        BY <1>4, <2>2
      <3>2. CASE i \in 1..n
        BY <1>2, <1>3, <2>1, <3>1, <3>2 DEF Legible
      <3>3. ASSUME NEW k \in 1..m, i = n + k
            PROVE  k \in 1..Len(new) /\ w[i] = new[k]
        BY <1>2, <2>1, <3>1, <3>3 DEF m
      <3> QED BY <1>2, <2>2, <3>2, <3>3
    <2>3. ASSUME NEW k \in 1..Len(y), i = Len(lx) + k
          PROVE  \/ i \in Legible(lo) /\ w[i] = lo[i]
                 \/ \E j \in 1..Len(new) : i = n + j /\ w[i] = new[j]
      <3>1. w[i] = y[k] /\ i = n + (m + k)
        BY <1>1, <1>2, <1>4, <2>3
      <3>2. CASE x = <<>> /\ y = o
        <4>1. m = 0
          BY <3>2 DEF m
        <4>2. i = n + k /\ k \in 1..Len(o)
          BY <1>1, <3>1, <3>2, <4>1
        <4>3. lo[i] = o[k] /\ i \in DOMAIN lo
          BY <1>3, <4>2
        <4> QED BY <2>1, <3>1, <3>2, <4>3 DEF Legible
      <3>3. CASE m + k \in 1..Len(new) /\ y[k] = new[m + k]
        BY <3>1, <3>3
      <3> QED BY <2>1, <3>1, <3>2, <3>3 DEF m
    <2> QED BY <1>4, <2>1, <2>2, <2>3
  <1> QED BY <1>5 DEF Wrote, w, lx, lo, n

(* Appending keeps the ids there are and adds those of the lines that parse. *)
LEMMA IdsGrow ==
    ASSUME NEW a \in Seq(Stored), NEW b \in Seq(Stored)
    PROVE  /\ Ids(a) \subseteq Ids(a \o b)
           /\ \A k \in 1..Len(b) : b[k].kind # "garbled" => EventId(b[k]) \in Ids(a \o b)
  <1> DEFINE c == a \o b
  <1>1. /\ DOMAIN c = 1..Len(c) /\ DOMAIN a = 1..Len(a)
        /\ \A i \in 1..Len(a) : i \in 1..Len(c) /\ c[i] = a[i]
        /\ \A k \in 1..Len(b) : Len(a) + k \in 1..Len(c) /\ c[Len(a) + k] = b[k]
    BY Joined
  <1> HIDE DEF c
  <1>2. ASSUME NEW i \in Legible(a) PROVE EventId(a[i]) \in Ids(c)
    <2>1. i \in Legible(c) /\ c[i] = a[i]
      BY <1>1 DEF Legible
    <2> QED BY <2>1 DEF Ids
  <1>3. ASSUME NEW k \in 1..Len(b), b[k].kind # "garbled" PROVE EventId(b[k]) \in Ids(c)
    <2>1. Len(a) + k \in Legible(c) /\ c[Len(a) + k] = b[k]
      BY <1>1, <1>3 DEF Legible
    <2> QED BY <2>1 DEF Ids
  <1>4. Ids(a) \subseteq Ids(c)
    BY <1>2 DEF Ids
  <1> QED BY <1>3, <1>4 DEF c

(* The lines of new as they reach the file. *)
Gluing(new) == <<Glued(Head(new))>> \o Tail(new)

(* Only the first new line can be spoiled, and only by an open one. *)
LEMMA GluingFacts ==
    ASSUME NEW new \in Seq(Stored), new # <<>>
    PROVE  /\ Gluing(new) \in Seq(Stored) /\ Len(Gluing(new)) = Len(new)
           /\ \A k \in 1..Len(new) : \/ Gluing(new)[k] = new[k]
                                     \/ /\ k = 1 /\ open # <<>>
                                        /\ Gluing(new)[k].kind = "garbled"
  <1> DEFINE g == Glued(Head(new))
             t == Tail(new)
  <1>1. /\ Head(new) = new[1] /\ new[1] \in Stored /\ t \in Seq(Stored) /\ Len(t) = Len(new) - 1
        /\ \A k \in 1..Len(t) : t[k] = new[k + 1]
    BY HeadTailProperties
  <1>2. Garbled \in Stored /\ Garbled.kind = "garbled"
    BY DEF Garbled, Rec, Stored, Infos, Kinds, TurnIds
  <1>3. g \in Stored /\ (g = new[1] \/ (open # <<>> /\ g.kind = "garbled"))
    BY <1>1, <1>2 DEF Glued
  <1> HIDE DEF g, t
  <1>4. <<g>> \in Seq(Stored) /\ Len(<<g>>) = 1 /\ <<g>>[1] = g
    BY <1>3
  <1> DEFINE a == <<g>>
             c == a \o t
  <1> HIDE DEF a
  <1>5. /\ c \in Seq(Stored) /\ Len(c) = 1 + Len(t) /\ c[1] = g
        /\ \A k \in 1..Len(t) : c[1 + k] = t[k]
    BY <1>1, <1>4, Joined DEF a
  <1> HIDE DEF c
  <1>6. Len(new) \in Nat /\ Len(t) \in Nat
    BY <1>1
  <1>7. ASSUME NEW k \in 1..Len(new), k # 1 PROVE c[k] = new[k]
    <2>1. k - 1 \in 1..Len(t) /\ 1 + (k - 1) = k /\ (k - 1) + 1 = k
      BY <1>1, <1>6, <1>7
    <2> QED BY <1>1, <1>5, <2>1
  <1>8. Len(c) = Len(new)
    BY <1>1, <1>5, <1>6
  <1>9. \A k \in 1..Len(new) : c[k] = new[k] \/ (k = 1 /\ open # <<>> /\ c[k].kind = "garbled")
    BY <1>3, <1>5, <1>7
  <1>10. Gluing(new) = c
    BY DEF Gluing, c, a, g, t
  <1> QED BY <1>5, <1>8, <1>9, <1>10

Shape == /\ lines \in Seq(Stored) /\ open \in Seq(Stored) /\ Len(open) <= 1

(* A completed write: each record arrives, but the one glued to an open line. *)
LEMMA WriteFacts ==
    ASSUME Shape, NEW new \in Seq(Stored), \A k \in 1..Len(new) : new[k].kind # "garbled",
           WriteLines(new)
    PROVE  /\ Shape' /\ Wrote(File', File, Len(lines), new)
           /\ Ids(lines) \subseteq Ids(lines')
           /\ open = <<>> => lines' = lines \o new /\ open' = <<>>
           /\ IF new = <<>> THEN lines' = lines /\ open' = open ELSE open' = <<>>
           /\ \A k \in 1..Len(new) : EventId(new[k]) \in Ids(lines') \/ (k = 1 /\ open # <<>>)
  <1>0. lines \in Seq(Stored) /\ open \in Seq(Stored) /\ Len(open) <= 1
    BY DEF Shape
  <1>1. CASE new = <<>>
    <2>1. lines' = lines /\ open' = open
      BY <1>1 DEF WriteLines
    <2>2. lines \o <<>> = lines
      BY <1>0, ConcatEmptySeq
    <2>3. Wrote(File', File, Len(lines), new)
      BY <2>1 DEF File, Wrote
    <2>4. Len(new) = 0
      BY <1>1
    <2> QED BY <1>0, <1>1, <2>1, <2>2, <2>3, <2>4 DEF Shape
  <1>2. CASE new # <<>>
    <2> DEFINE x == Gluing(new)
    <2>1. /\ x \in Seq(Stored) /\ Len(x) = Len(new)
          /\ \A k \in 1..Len(new) : x[k] = new[k] \/ (k = 1 /\ open # <<>> /\ x[k].kind = "garbled")
      BY <1>2, GluingFacts
    <2>2. lines' = lines \o x /\ open' = <<>>
      <3>1. lines' = lines \o <<Glued(Head(new))>> \o Tail(new) /\ open' = <<>>
        BY <1>2 DEF WriteLines
      <3>2. lines \o <<Glued(Head(new))>> \o Tail(new) = lines \o x
        <4>1. Glued(Head(new)) \in Stored /\ Tail(new) \in Seq(Stored)
          <5>1. Garbled \in Stored
            BY DEF Garbled, Rec, Stored, Infos, Kinds, TurnIds
          <5> QED BY <1>2, <5>1 DEF Glued
        <4> DEFINE a == <<Glued(Head(new))>>
                   b == Tail(new)
        <4>2. a \in Seq(Stored) /\ b \in Seq(Stored)
          BY <4>1
        <4>3. x = a \o b
          BY DEF Gluing
        <4> HIDE DEF a, b, x
        <4>4. (lines \o a) \o b = lines \o (a \o b)
          BY <1>0, <4>2, ConcatAssociative, SMTT(60)
        <4> QED BY <4>3, <4>4 DEF a, b
      <3> QED BY <3>1, <3>2
    <2> HIDE DEF x
    <2>3. <<>> \in Seq(Stored) /\ Len(<<>>) = 0
      BY EmptySeq
    <2>4. lines' \in Seq(Stored) /\ open' \in Seq(Stored) /\ Len(open') <= 1
      BY <1>0, <2>1, <2>2, <2>3, ConcatProperties
    <2>5. Wrote((lines \o x) \o <<>>, lines \o open, Len(lines), new)
      <3> DEFINE y == <<>>
      <3>1. y \in Seq(Stored) /\ Len(y) = 0 /\ \A k \in 1..Len(y) : FALSE
        BY <2>3
      <3>2. \A k \in 1..Len(x) : x[k].kind = "garbled" \/ (k \in 1..Len(new) /\ x[k] = new[k])
        BY <2>1
      <3> HIDE DEF y
      <3>3. Wrote((lines \o x) \o y, lines \o open, Len(lines), new)
        BY <1>0, <2>1, <3>1, <3>2, Extended
      <3> QED BY <3>3 DEF y
    <2>6. Wrote(File', File, Len(lines), new)
      BY <2>2, <2>5 DEF File
    <2>7. /\ Ids(lines) \subseteq Ids(lines')
          /\ \A k \in 1..Len(x) : x[k].kind # "garbled" => EventId(x[k]) \in Ids(lines')
      BY <1>0, <2>1, <2>2, IdsGrow
    <2>8. \A k \in 1..Len(new) : EventId(new[k]) \in Ids(lines') \/ (k = 1 /\ open # <<>>)
      BY <2>1, <2>7
    <2>9. open = <<>> => x = new
      BY <2>1, SeqEqual
    <2> QED BY <1>2, <2>2, <2>4, <2>6, <2>7, <2>8, <2>9 DEF Shape
  <1> QED BY <1>1, <1>2

(* A torn write spoils no terminated line. *)
LEMMA TornFacts ==
    ASSUME Shape, NEW new \in Seq(Stored), WritePartOf(new)
    PROVE  /\ Shape' /\ Wrote(File', File, Len(lines), new)
           /\ Ids(lines) \subseteq Ids(lines')
  <1>0. lines \in Seq(Stored) /\ open \in Seq(Stored) /\ Len(open) <= 1 /\ Len(new) \in Nat
    BY DEF Shape
  <1>1. PICK n \in 0..Len(new) - 1 :
           /\ lines' = lines \o SubSeq(Gluing(new), 1, n)
           /\ open' \in {IF n = 0 THEN open ELSE <<>>, <<Garbled>>, <<Gluing(new)[n + 1]>>}
    BY DEF WritePartOf, Gluing
  <1> DEFINE g == Gluing(new)
             x == SubSeq(g, 1, n)
             y == open'
  <1>2. n \in Nat /\ n + 1 \in 1..Len(new) /\ new # <<>> /\ n <= Len(new)
    BY <1>0, <1>1
  <1>3. /\ g \in Seq(Stored) /\ Len(g) = Len(new)
        /\ \A k \in 1..Len(new) : g[k] = new[k] \/ g[k].kind = "garbled"
    BY <1>2, GluingFacts
  <1>4. lines' = lines \o x
    BY <1>1
  <1> HIDE DEF g
  <1>5. \A k \in 1..n : k \in 1..Len(new) /\ g[k] \in Stored
    BY <1>0, <1>2, <1>3
  <1>6. x \in Seq(Stored) /\ Len(x) = n /\ \A k \in 1..n : x[k] = g[k]
    <2>1. /\ x \in Seq(Stored) /\ Len(x) = IF 1 <= n THEN n - 1 + 1 ELSE 0
          /\ \A k \in 1..n - 1 + 1 : x[k] = g[1 + k - 1]
      BY <1>2, <1>5, SubSeqProperties
    <2> HIDE DEF x
    <2>2. n - 1 + 1 = n /\ \A k \in 1..n : 1 + k - 1 = k
      BY <1>2
    <2> QED BY <1>2, <2>1, <2>2
  <1> HIDE DEF x
  <1>7. Garbled \in Stored /\ Garbled.kind = "garbled"
    BY DEF Garbled, Rec, Stored, Infos, Kinds, TurnIds
  <1>8. g[n + 1] \in Stored
    BY <1>2, <1>3
  <1>9. /\ y \in Seq(Stored) /\ Len(y) <= 1
        /\ \/ x = <<>> /\ y = open
           \/ \A k \in 1..Len(y) :
                 y[k].kind = "garbled" \/ (Len(x) + k \in 1..Len(new) /\ y[k] = new[Len(x) + k])
    <2>1. CASE n = 0 /\ y = open
      BY <1>0, <1>6, <2>1
    <2>2. CASE y = <<>>
      BY <2>2
    <2>3. CASE y = <<Garbled>>
      BY <1>7, <2>3
    <2>4. CASE y = <<g[n + 1]>>
      <3>1. y \in Seq(Stored) /\ Len(y) = 1 /\ y[1] = g[n + 1]
        BY <1>8, <2>4
      <3>2. y[1].kind = "garbled" \/ y[1] = new[n + 1]
        BY <1>2, <1>3, <3>1
      <3>3. \A k \in 1..Len(y) : k = 1 /\ Len(x) + k = n + 1
        BY <1>6, <3>1
      <3> HIDE DEF y
      <3> QED BY <1>2, <3>1, <3>2, <3>3
    <2> QED BY <1>1, <2>1, <2>2, <2>3, <2>4 DEF g
  <1>10. \A k \in 1..Len(x) : x[k].kind = "garbled" \/ (k \in 1..Len(new) /\ x[k] = new[k])
    BY <1>3, <1>5, <1>6
  <1> HIDE DEF y
  <1>11. Wrote((lines \o x) \o y, lines \o open, Len(lines), new)
    BY <1>0, <1>6, <1>9, <1>10, Extended
  <1>12. Wrote(File', File, Len(lines), new)
    BY <1>4, <1>11 DEF File, y
  <1>13. Ids(lines) \subseteq Ids(lines') /\ lines' \in Seq(Stored)
    BY <1>0, <1>4, <1>6, IdsGrow, ConcatProperties
  <1> QED BY <1>9, <1>12, <1>13 DEF Shape, y

-----------------------------------------------------------------------------
(* The batches of a turn.                                                  *)

ChatKinds == {"user", "asst", "call", "result", "terminal"}

(* A batch has records of its turn, of different kinds, a call before a    *)
(* result.                                                                 *)
BatchOK(t, b) ==
    /\ b \in Seq(Stored)
    /\ \A i \in DOMAIN b : b[i].turn = t /\ b[i].kind \in ChatKinds
    /\ \A i, j \in DOMAIN b : b[i].kind = b[j].kind => i = j
    /\ \A i, j \in DOMAIN b : b[i].kind = "call" /\ b[j].kind = "result" => i < j

Ends(b) == \E i \in DOMAIN b : b[i].kind = "terminal"

Calls(b) == \E i \in DOMAIN b : b[i].kind = "call"

(* A record of a turn is one that can be stored. *)
LEMMA RecFacts ==
    ASSUME NEW t \in UserTurns, NEW kind \in ChatKinds, NEW info \in Infos
    PROVE  /\ Rec(t, kind, info) \in Stored
           /\ Rec(t, kind, info).turn = t /\ Rec(t, kind, info).kind = kind
  BY DEF Rec, Stored, TurnIds, ChatKinds, Kinds

(* Message and answer. *)
LEMMA TalkFacts ==
    ASSUME NEW t \in UserTurns
    PROVE  /\ Rec(t, "user", "") \in Stored
           /\ Rec(t, "user", "").turn = t /\ Rec(t, "user", "").kind = "user"
           /\ Rec(t, "asst", "") \in Stored
           /\ Rec(t, "asst", "").turn = t /\ Rec(t, "asst", "").kind = "asst"
  <1>1. ASSUME NEW kind \in {"user", "asst"}
        PROVE  /\ Rec(t, kind, "") \in Stored
               /\ Rec(t, kind, "").turn = t /\ Rec(t, kind, "").kind = kind
    BY DEF Rec, Stored, TurnIds, Kinds, Infos
  <1> QED BY <1>1

(* Appending one element, spelt out. *)
LEMMA Longer ==
    ASSUME NEW S, NEW s \in Seq(S), NEW x \in S, NEW r \in Seq(S), Len(r) = Len(s) + 1,
           r[Len(s) + 1] = x, \A i \in 1..Len(s) : r[i] = s[i]
    PROVE  s \o <<x>> = r
  <1>1. Append(s, x) = s \o <<x>>
    BY AppendIsConcat
  <1>2. /\ Append(s, x) \in Seq(S) /\ Len(Append(s, x)) = Len(s) + 1
        /\ \A i \in 1..Len(s) : Append(s, x)[i] = s[i]
        /\ Append(s, x)[Len(s) + 1] = x
    BY AppendProperties
  <1> DEFINE a == Append(s, x)
  <1> HIDE DEF a
  <1>3. \A i \in 1..Len(s) + 1 : i \in 1..Len(s) \/ i = Len(s) + 1
    OBVIOUS
  <1>4. a = r
    BY <1>2, <1>3, SeqEqual DEF a
  <1> QED BY <1>1, <1>4 DEF a

(* Short concatenations, spelt out. *)
LEMMA Tuples ==
    ASSUME NEW a, NEW b, NEW c
    PROVE  /\ <<a, b>> \o <<c>> = <<a, b, c>>
           /\ <<a>> \o <<b>> \o <<c>> = <<a, b, c>>
           /\ <<a>> \o <<b>> = <<a, b>>
  <1> DEFINE S == {a, b, c}
             s1 == <<a>>
             s2 == <<a, b>>
             s3 == <<a, b, c>>
  <1>1. s1 \in Seq(S) /\ Len(s1) = 1 /\ s1[1] = a
    OBVIOUS
  <1>2. s2 \in Seq(S) /\ Len(s2) = 2 /\ s2[1] = a /\ s2[2] = b
    OBVIOUS
  <1>3. s3 \in Seq(S) /\ Len(s3) = 3 /\ s3[1] = a /\ s3[2] = b /\ s3[3] = c
    OBVIOUS
  <1>5. a \in S /\ b \in S /\ c \in S
    OBVIOUS
  <1> HIDE DEF S, s1, s2, s3
  <1>6. \A i \in 1..1 : i = 1
    OBVIOUS
  <1>7. \A i \in 1..2 : i = 1 \/ i = 2
    OBVIOUS
  <1>9. s1 \o <<b>> = s2
    <2>1. Len(s2) = Len(s1) + 1 /\ s2[Len(s1) + 1] = b /\ \A i \in 1..Len(s1) : s2[i] = s1[i]
      BY <1>1, <1>2, <1>6
    <2> QED BY <1>1, <1>2, <1>5, <2>1, Longer
  <1>10. s2 \o <<c>> = s3
    <2>1. Len(s3) = Len(s2) + 1 /\ s3[Len(s2) + 1] = c /\ \A i \in 1..Len(s2) : s3[i] = s2[i]
      BY <1>2, <1>3, <1>7
    <2> QED BY <1>2, <1>3, <1>5, <2>1, Longer
  <1>11. (s1 \o <<b>>) \o <<c>> = s3
    BY <1>9, <1>10
  <1> QED BY <1>9, <1>10, <1>11 DEF s1, s2, s3

(* Two records, one and one make four. *)
LEMMA JoinThree ==
    ASSUME NEW p \in Seq(Stored), Len(p) = 2, NEW q \in Seq(Stored), Len(q) = 1,
           NEW r \in Seq(Stored), Len(r) = 1
    PROVE  /\ (p \o q) \o r \in Seq(Stored) /\ Len((p \o q) \o r) = 4
           /\ ((p \o q) \o r)[1] = p[1] /\ ((p \o q) \o r)[2] = p[2]
           /\ ((p \o q) \o r)[3] = q[1] /\ ((p \o q) \o r)[4] = r[1]
  <1> DEFINE pq == p \o q
             s == pq \o r
  <1>1. /\ pq \in Seq(Stored) /\ Len(pq) = Len(p) + Len(q)
        /\ \A i \in 1..Len(p) : pq[i] = p[i]
        /\ \A k \in 1..Len(q) : pq[Len(p) + k] = q[k]
    BY Joined, ZenonT(100)
  <1> HIDE DEF pq
  <1>2. /\ s \in Seq(Stored) /\ Len(s) = Len(pq) + Len(r)
        /\ \A i \in 1..Len(pq) : s[i] = pq[i]
        /\ \A k \in 1..Len(r) : s[Len(pq) + k] = r[k]
    <2>1. pq \in Seq(Stored)
      BY <1>1
    <2> QED BY <2>1, Joined, ZenonT(100)
  <1> HIDE DEF s
  <1>3. pq[1] = p[1] /\ pq[2] = p[2] /\ pq[3] = q[1] /\ Len(pq) = 3
    BY <1>1
  <1>4. s[1] = pq[1] /\ s[2] = pq[2] /\ s[3] = pq[3] /\ s[4] = r[1] /\ Len(s) = 4
    BY <1>2, <1>3
  <1> QED BY <1>2, <1>3, <1>4 DEF s, pq

(* Message, call, result, answer. *)
LEMMA FourRecords ==
    ASSUME NEW t, NEW s \in Seq(Stored), Len(s) = 4,
           s[1].turn = t /\ s[2].turn = t /\ s[3].turn = t /\ s[4].turn = t,
           s[1].kind = "user" /\ s[2].kind = "call" /\ s[3].kind = "result"
           /\ s[4].kind = "asst"
    PROVE  BatchOK(t, s) /\ ~Ends(s)
  <1>1. DOMAIN s = 1..4
    OBVIOUS
  <1>2. \A i \in 1..4 : i = 1 \/ i = 2 \/ i = 3 \/ i = 4
    OBVIOUS
  <1> QED BY <1>1, <1>2 DEF BatchOK, Ends, ChatKinds

(* Message, call, answer; or message, answer, end. *)
LEMMA ThreeRecords ==
    ASSUME NEW t, NEW a \in Stored, NEW b \in Stored, NEW c \in Stored,
           a.turn = t /\ b.turn = t /\ c.turn = t,
           a.kind = "user",
           \/ b.kind = "call" /\ c.kind = "asst"
           \/ b.kind = "asst" /\ c.kind = "terminal",
           NEW s, s = <<a, b, c>>
    PROVE  BatchOK(t, s) /\ (Ends(s) <=> c.kind = "terminal")
  <1>1. /\ s \in Seq(Stored) /\ DOMAIN s = 1..3
        /\ s[1] = a /\ s[2] = b /\ s[3] = c
    OBVIOUS
  <1>2. \A i \in 1..3 : i = 1 \/ i = 2 \/ i = 3
    OBVIOUS
  <1> QED BY <1>1, <1>2 DEF BatchOK, Ends, ChatKinds

(* A late result and the end. *)
LEMMA TwoRecords ==
    ASSUME NEW t, NEW a \in Stored, NEW b \in Stored, a.turn = t /\ b.turn = t,
           a.kind = "result" /\ b.kind = "terminal",
           NEW s, s = <<a, b>>
    PROVE  BatchOK(t, s) /\ Ends(s) /\ ~Calls(s)
  <1>1. s \in Seq(Stored) /\ DOMAIN s = 1..2 /\ s[1] = a /\ s[2] = b
    OBVIOUS
  <1>2. \A i \in 1..2 : i = 1 \/ i = 2
    OBVIOUS
  <1> QED BY <1>1, <1>2 DEF BatchOK, Ends, Calls, ChatKinds

(* The end alone. *)
LEMMA OneRecord ==
    ASSUME NEW t, NEW a \in Stored, a.turn = t, a.kind = "terminal", NEW s, s = <<a>>
    PROVE  BatchOK(t, s) /\ Ends(s) /\ ~Calls(s)
  <1>1. s \in Seq(Stored) /\ DOMAIN s = 1..1 /\ s[1] = a
    OBVIOUS
  <1>2. \A i \in 1..1 : i = 1
    OBVIOUS
  <1> QED BY <1>1, <1>2 DEF BatchOK, Ends, Calls, ChatKinds

(* A turn writes its terminal record with its last batch, and calls only   *)
(* with its first.                                                         *)
LEMMA BatchFacts ==
    ASSUME NEW t \in UserTurns, NEW p, p \in Batches(t) \cup Rests(t)
    PROVE  /\ p # <<>> /\ BatchOK(t, Head(p)) /\ Tail(p) \in {<<>>} \cup Rests(t)
           /\ Tail(p) = <<>> <=> Ends(Head(p))
           /\ p \in Rests(t) => ~Calls(Head(p)) /\ p \notin Batches(t)
  <1> DEFINE user == Rec(t, "user", "")
             asst == Rec(t, "asst", "")
             call == [i \in {"tool", "memory"} |-> Rec(t, "call", i)]
             result == [i \in {"tool", "memory"} |-> Rec(t, "result", i)]
             end == [s \in {"completed", "cancelled", "failed"} |-> Rec(t, "terminal", s)]
  <1>1. user \in Stored /\ user.turn = t /\ user.kind = "user"
    BY TalkFacts
  <1>2. asst \in Stored /\ asst.turn = t /\ asst.kind = "asst"
    BY TalkFacts
  <1>3. \A i \in {"tool", "memory"} :
           /\ call[i] \in Stored /\ call[i].turn = t /\ call[i].kind = "call"
           /\ result[i] \in Stored /\ result[i].turn = t /\ result[i].kind = "result"
    <2> TAKE i \in {"tool", "memory"}
    <2>1. i \in Infos
      BY DEF Infos
    <2>2. LET r == Rec(t, "call", i) IN r \in Stored /\ r.turn = t /\ r.kind = "call"
      BY <2>1, RecFacts DEF ChatKinds
    <2>3. LET r == Rec(t, "result", i) IN r \in Stored /\ r.turn = t /\ r.kind = "result"
      BY <2>1, RecFacts DEF ChatKinds
    <2> QED BY <2>2, <2>3
  <1>4. \A s \in {"completed", "cancelled", "failed"} :
           end[s] \in Stored /\ end[s].turn = t /\ end[s].kind = "terminal"
    <2> TAKE s \in {"completed", "cancelled", "failed"}
    <2>1. s \in Infos
      BY DEF Infos
    <2>2. LET r == Rec(t, "terminal", s) IN r \in Stored /\ r.turn = t /\ r.kind = "terminal"
      BY <2>1, RecFacts DEF ChatKinds
    <2> QED BY <2>2
  <1> DEFINE tool == <<user, call["tool"]>> \o <<result["tool"]>> \o <<asst>>
             memory == <<user, call["memory"], asst>>
             failed == <<user, asst, end["failed"]>>
             done == <<end["completed"]>>
             stopped == <<end["cancelled"]>>
             late == <<result["memory"], end["completed"]>>
  <1>5. /\ Ending(t, "completed") = done /\ Ending(t, "cancelled") = stopped
        /\ Ending(t, "failed") = <<end["failed"]>> /\ Answer(t) = <<asst>>
        /\ WithCall(t, "tool") = <<user, call["tool"]>>
        /\ WithCall(t, "memory") = <<user, call["memory"]>>
        /\ Rec(t, "result", "tool") = result["tool"]
        /\ Rec(t, "result", "memory") = result["memory"]
        /\ Rec(t, "user", "") = user
    BY DEF Ending, Answer, WithCall
  <1> HIDE DEF user, asst, call, result, end
  <1>6. /\ <<user, call["memory"]>> \o <<asst>> = memory
        /\ <<user>> \o <<asst>> \o <<end["failed"]>> = failed
        /\ <<result["memory"]>> \o done = late
    <2>2. <<user, call["memory"]>> \o <<asst>> = memory
      BY Tuples, Zenon
    <2>3. <<user>> \o <<asst>> \o <<end["failed"]>> = failed
      BY Tuples, Zenon
    <2>4. <<result["memory"]>> \o done = late
      BY Tuples, Zenon
    <2> QED BY <2>2, <2>3, <2>4
  <1>7. Rests(t) = {<<done>>, <<stopped>>, <<late>>}
    BY <1>5, <1>6 DEF Rests
  <1>8. Batches(t) = {<<tool, done>>, <<memory, late>>, <<memory, stopped>>, <<failed>>}
    BY <1>5, <1>6 DEF Batches
  <1>9. BatchOK(t, tool) /\ ~Ends(tool)
    <2> DEFINE a == <<user, call["tool"]>>
               b == <<result["tool"]>>
               c == <<asst>>
    <2>1. a \in Seq(Stored) /\ Len(a) = 2 /\ a[1] = user /\ a[2] = call["tool"]
      BY <1>1, <1>3
    <2>2. b \in Seq(Stored) /\ Len(b) = 1 /\ b[1] = result["tool"]
      BY <1>3
    <2>3. c \in Seq(Stored) /\ Len(c) = 1 /\ c[1] = asst
      BY <1>2
    <2>4. tool = (a \o b) \o c
      OBVIOUS
    <2> HIDE DEF a, b, c, tool
    <2>5. /\ tool \in Seq(Stored) /\ Len(tool) = 4
          /\ tool[1] = a[1] /\ tool[2] = a[2] /\ tool[3] = b[1] /\ tool[4] = c[1]
      BY <2>1, <2>2, <2>3, <2>4, JoinThree
    <2>6. /\ tool[1] = user /\ tool[2] = call["tool"] /\ tool[3] = result["tool"]
          /\ tool[4] = asst
      BY <2>1, <2>2, <2>3, <2>5
    <2>7. "tool" \in {"tool", "memory"}
      OBVIOUS
    <2> QED BY <1>1, <1>2, <1>3, <2>5, <2>6, <2>7, FourRecords
  <1>10. BatchOK(t, memory) /\ ~Ends(memory)
    BY <1>1, <1>2, <1>3, ThreeRecords
  <1>11. BatchOK(t, failed) /\ Ends(failed)
    BY <1>1, <1>2, <1>4, ThreeRecords
  <1>12. BatchOK(t, done) /\ Ends(done) /\ ~Calls(done)
    BY <1>4, OneRecord
  <1>13. BatchOK(t, stopped) /\ Ends(stopped) /\ ~Calls(stopped)
    BY <1>4, OneRecord
  <1>14. BatchOK(t, late) /\ Ends(late) /\ ~Calls(late)
    BY <1>3, <1>4, TwoRecords
  <1> HIDE DEF tool, memory, failed, done, stopped, late
  <1>15. CASE p \in Rests(t)
    <2>1. \E b \in {done, stopped, late} : p = <<b>>
      BY <1>7, <1>15
    <2>2. PICK b \in {done, stopped, late} : p = <<b>>
      BY <2>1
    <2>3. p # <<>> /\ Head(p) = b /\ Tail(p) = <<>> /\ Len(p) = 1
      BY <2>2
    <2>4. BatchOK(t, b) /\ Ends(b) /\ ~Calls(b)
      BY <1>12, <1>13, <1>14
    <2>5. p \notin Batches(t)
      <3>1. b # failed
        <4>1. failed[1].kind = "user" /\ done[1].kind = "terminal" /\ stopped[1].kind = "terminal"
              /\ late[1].kind = "result"
          BY <1>1, <1>3, <1>4 DEF failed, done, stopped, late
        <4> QED BY <4>1
      <3>2. p # <<failed>> /\ \A x, y : p # <<x, y>>
        BY <2>2, <2>3, <3>1
      <3> QED BY <1>8, <3>2
    <2> QED BY <2>3, <2>4, <2>5
  <1>16. CASE p = <<failed>>
    <2>1. p # <<>> /\ Head(p) = failed /\ Tail(p) = <<>> /\ Len(p) = 1
      BY <1>16
    <2>2. p \notin Rests(t)
      <3> SUFFICES ASSUME p \in Rests(t) PROVE FALSE
        OBVIOUS
      <3>1. failed = done \/ failed = stopped \/ failed = late
        BY <1>7, <1>16
      <3>2. failed[1].kind = "user" /\ done[1].kind = "terminal" /\ stopped[1].kind = "terminal"
            /\ late[1].kind = "result"
        BY <1>1, <1>3, <1>4 DEF failed, done, stopped, late
      <3> QED BY <3>1, <3>2
    <2> QED BY <1>11, <2>1, <2>2
  <1>17. CASE \E b \in {tool, memory}, r \in {done, stopped, late} : p = <<b, r>>
    <2>1. PICK b \in {tool, memory}, r \in {done, stopped, late} : p = <<b, r>>
      BY <1>17
    <2>2. p # <<>> /\ Head(p) = b /\ Tail(p) = <<r>> /\ Tail(p) # <<>> /\ Len(p) = 2
      BY <2>1
    <2>3. p \notin Rests(t)
      <3>1. \A q \in Rests(t) : Len(q) = 1
        BY <1>7
      <3> QED BY <2>2, <3>1, SMTT(60)
    <2>4. Tail(p) \in Rests(t)
      BY <1>7, <2>2
    <2>5. BatchOK(t, b) /\ ~Ends(b)
      BY <1>9, <1>10
    <2> QED BY <2>2, <2>3, <2>4, <2>5
  <1>18. p \in Batches(t) => \/ p = <<failed>>
                             \/ \E b \in {tool, memory}, r \in {done, stopped, late} : p = <<b, r>>
    BY <1>8
  <1> QED BY <1>15, <1>16, <1>17, <1>18

-----------------------------------------------------------------------------
(* A write keeps the file in order.                                        *)

StateOK ==
    /\ Shape /\ begun \subseteq UserTurns /\ passes \in Nat /\ torn \in Nat
    /\ phase \in {"up", "down", "terminals", "results"}
    /\ pending = [t \in UserTurns |-> pending[t]]

FileOK == ClosedOnce(File) /\ CallsFirst(File) /\ OfBegun(File)

(* What may be added: numbered on, no second terminal record of a turn, no *)
(* call of a turn that is in the file, a call before its result.           *)
Fits(new) ==
    /\ NumberedFrom(new, NextSequence(Records))
    /\ \A k \in 1..Len(new) :
          /\ new[k].kind = "terminal" => ~Closed(File, new[k].turn)
          /\ new[k].kind = "call" => \A i \in Legible(File) : File[i].turn # new[k].turn
          /\ IsCompaction(new[k].turn) \/ (new[k].turn \in begun /\ new[k].kind # "summary")
    /\ \A k, m \in 1..Len(new) :
          /\ /\ new[k].kind = "terminal" /\ new[m].kind = "terminal"
             /\ new[k].turn = new[m].turn
             => k = m
          /\ new[k].kind = "call" /\ new[m].kind = "result" => k < m

(* The file is a sequence of lines. *)
LEMMA FileIsSeq ==
    ASSUME Shape
    PROVE  File \in Seq(Stored) /\ DOMAIN File = 1..Len(File)
  BY ConcatProperties DEF Shape, File

(* A write that closes no closed turn, and none twice, closes no turn twice. *)
LEMMA ClosedOnceKept ==
    ASSUME NEW l, NEW w, NEW n \in Nat, NEW new \in Seq(Stored), Wrote(w, l, n, new),
           ClosedOnce(l),
           \A k \in 1..Len(new) : new[k].kind = "terminal" => ~Closed(l, new[k].turn),
           \A k, m \in 1..Len(new) :
              /\ new[k].kind = "terminal" /\ new[m].kind = "terminal"
              /\ new[k].turn = new[m].turn
              => k = m
    PROVE  ClosedOnce(w)
  <1> SUFFICES ASSUME NEW i \in DOMAIN w, NEW j \in DOMAIN w, w[i].kind = "terminal",
                      w[j].kind = "terminal", w[i].turn = w[j].turn
               PROVE  i = j
    BY DEF ClosedOnce
  <1>1. i \in Legible(w) /\ j \in Legible(w)
    BY DEF Legible
  <1>2. \A q \in Legible(w) : \/ q \in Legible(l) /\ w[q] = l[q]
                              \/ \E k \in 1..Len(new) : q = n + k /\ w[q] = new[k]
    BY DEF Wrote
  <1>3. \A q \in Legible(l) : q \in DOMAIN l
    BY DEF Legible
  <1>4. CASE i \in Legible(l) /\ w[i] = l[i] /\ j \in Legible(l) /\ w[j] = l[j]
    BY <1>3, <1>4 DEF ClosedOnce
  <1>5. ASSUME NEW k \in 1..Len(new), w[i] = new[k], j \in Legible(l), w[j] = l[j] PROVE FALSE
    BY <1>3, <1>5 DEF Closed
  <1>6. ASSUME NEW k \in 1..Len(new), w[j] = new[k], i \in Legible(l), w[i] = l[i] PROVE FALSE
    BY <1>3, <1>6 DEF Closed
  <1>7. ASSUME NEW k \in 1..Len(new), i = n + k, w[i] = new[k],
               NEW m \in 1..Len(new), j = n + m, w[j] = new[m]
        PROVE  i = j
    BY <1>7
  <1> QED BY <1>1, <1>2, <1>4, <1>5, <1>6, <1>7

(* New calls are of new turns and new results have larger numbers. *)
LEMMA CallsFirstKept ==
    ASSUME NEW l \in Seq(Stored), NEW w, NEW n \in Nat, NEW next \in Nat, NEW new,
           NumberedFrom(new, next), Wrote(w, l, n, new), CallsFirst(l),
           \A i \in Legible(l) : l[i].seq < next,
           \A k \in 1..Len(new) :
              new[k].kind = "call" => \A i \in Legible(l) : l[i].turn # new[k].turn,
           \A k, m \in 1..Len(new) : new[k].kind = "call" /\ new[m].kind = "result" => k < m
    PROVE  CallsFirst(w)
  <1> SUFFICES ASSUME NEW i \in DOMAIN w, NEW j \in DOMAIN w, w[i].kind = "call",
                      w[j].kind = "result", w[i].turn = w[j].turn, w[i].info = w[j].info
               PROVE  w[i].seq < w[j].seq
    BY DEF CallsFirst
  <1>1. i \in Legible(w) /\ j \in Legible(w)
    BY DEF Legible
  <1>2. \A q \in Legible(w) : \/ q \in Legible(l) /\ w[q] = l[q]
                              \/ \E k \in 1..Len(new) : q = n + k /\ w[q] = new[k]
    BY DEF Wrote
  <1>3. \A q \in Legible(l) : q \in DOMAIN l /\ l[q] \in Stored /\ l[q].seq \in Nat
    <2>1. \A q \in Legible(l) : q \in DOMAIN l /\ l[q] \in Stored
      BY DEF Legible
    <2> QED BY <2>1 DEF Stored
  <1>4. Len(new) \in Nat /\ \A k \in 1..Len(new) : new[k].seq = next + k - 1
    BY DEF NumberedFrom
  <1>5. CASE i \in Legible(l) /\ w[i] = l[i] /\ j \in Legible(l) /\ w[j] = l[j]
    BY <1>3, <1>5 DEF CallsFirst
  <1>6. ASSUME NEW k \in 1..Len(new), w[i] = new[k], j \in Legible(l), w[j] = l[j] PROVE FALSE
    BY <1>6
  <1>7. ASSUME NEW k \in 1..Len(new), w[j] = new[k], i \in Legible(l), w[i] = l[i]
        PROVE  w[i].seq < w[j].seq
    <2>1. l[i].seq < next /\ l[i].seq \in Nat /\ new[k].seq = next + k - 1 /\ k \in Nat /\ k >= 1
      BY <1>3, <1>4, <1>7
    <2>2. l[i].seq < new[k].seq
      BY <2>1
    <2> QED BY <1>7, <2>2
  <1>8. ASSUME NEW k \in 1..Len(new), w[i] = new[k], NEW m \in 1..Len(new), w[j] = new[m]
        PROVE  w[i].seq < w[j].seq
    <2>1. k < m /\ k \in Nat /\ m \in Nat /\ new[k].seq = next + k - 1 /\ new[m].seq = next + m - 1
      BY <1>4, <1>8
    <2>2. new[k].seq < new[m].seq
      BY <2>1
    <2> QED BY <1>8, <2>2
  <1> QED BY <1>1, <1>2, <1>5, <1>6, <1>7, <1>8

(* So a write that fits keeps the file in order, complete or torn. *)
LEMMA FileKept ==
    ASSUME Shape, FileOK, NEW new, Fits(new), Wrote(File', File, Len(lines), new), begun' = begun
    PROVE  FileOK'
  <1> DEFINE next == NextSequence(Records)
  <1>1. File \in Seq(Stored) /\ Len(lines) \in Nat
    BY FileIsSeq DEF Shape
  <1>2. next \in Nat /\ \A i \in Legible(File) : File[i].seq < next
    BY <1>1, ReadFacts DEF Records, File
  <1>3. new \in Seq(Stored) /\ NumberedFrom(new, next)
    BY DEF Fits, NumberedFrom
  <1> HIDE DEF next
  <1>4. ClosedOnce(File')
    BY <1>1, <1>3, ClosedOnceKept DEF FileOK, Fits
  <1>5. CallsFirst(File')
    BY <1>1, <1>2, <1>3, CallsFirstKept DEF FileOK, Fits
  <1>6. OfBegun(File)'
    <2> SUFFICES ASSUME NEW i \in Legible(File')
                 PROVE  IF IsCompaction(File'[i].turn) THEN TRUE
                        ELSE File'[i].turn \in begun /\ File'[i].kind # "summary"
      BY DEF OfBegun, Legible
    <2>1. CASE i \in Legible(File) /\ File'[i] = File[i]
      BY <2>1 DEF FileOK, OfBegun
    <2>2. ASSUME NEW k \in 1..Len(new), File'[i] = new[k]
          PROVE  IF IsCompaction(File'[i].turn) THEN TRUE
                 ELSE File'[i].turn \in begun /\ File'[i].kind # "summary"
      BY <2>2 DEF Fits
    <2> QED BY <2>1, <2>2 DEF Wrote
  <1>7. ClosedOnce(File)' /\ CallsFirst(File)'
    BY <1>4, <1>5 DEF ClosedOnce, CallsFirst
  <1> QED BY <1>6, <1>7 DEF FileOK

(* The next batch of a running turn fits. *)
LEMMA BatchFits ==
    ASSUME StateOK, FileOK, PendingOK, NEW t \in UserTurns, pending[t] # <<>>, NEW new,
           new = NewRecords(lines \o open, Head(pending[t]))
    PROVE  /\ Fits(new) /\ \A k \in 1..Len(new) : new[k].turn = t /\ new[k].kind # "summary"
           /\ Ends(Head(pending[t])) \/ \A k \in 1..Len(new) : new[k].kind # "terminal"
           /\ \A i \in DOMAIN Head(pending[t]) :
                 \/ EventId(Head(pending[t])[i]) \in Ids(File)
                 \/ \E k \in 1..Len(new) : EventId(new[k]) = EventId(Head(pending[t])[i])
  <1> DEFINE b == Head(pending[t])
  <1>1. File \in Seq(Stored) /\ new = NewRecords(File, b)
    BY FileIsSeq DEF StateOK, File
  <1>2. pending[t] \in Batches(t) \cup Rests(t)
    BY DEF PendingOK
  <1>3. BatchOK(t, b) /\ (pending[t] \in Rests(t) => ~Calls(b))
    BY <1>2, BatchFacts
  <1> HIDE DEF b
  <1>4. /\ b \in Seq(Stored) /\ DOMAIN b = 1..Len(b) /\ Len(b) \in Nat
        /\ \A i \in DOMAIN b : b[i].turn = t /\ b[i].kind \in ChatKinds
        /\ \A i, j \in DOMAIN b : b[i].kind = b[j].kind => i = j
        /\ \A i, j \in DOMAIN b : b[i].kind = "call" /\ b[j].kind = "result" => i < j
    BY <1>3 DEF BatchOK
  <1>5. \A i \in DOMAIN b : b[i].kind # "garbled" /\ b[i].kind # "summary"
    BY <1>4 DEF ChatKinds
  <1>6. \A i, j \in DOMAIN b : EventId(b[i]) = EventId(b[j]) => i = j
    BY <1>4, EventIdParts
  <1>7. /\ NumberedFrom(new, NextSequence(ReadAll(File)))
        /\ \E g : Copies(new, g, b)
        /\ \A i \in DOMAIN b : \/ EventId(b[i]) \in Ids(File)
                               \/ \E k \in 1..Len(new) : EventId(new[k]) = EventId(b[i])
    BY <1>1, <1>4, <1>5, <1>6, NewRecordsFacts, SMTT(60)
  <1>8. PICK g : Copies(new, g, b)
    BY <1>7
  <1>9. /\ \A k \in 1..Len(new) : /\ g[k] \in DOMAIN b
                                  /\ new[k].turn = b[g[k]].turn /\ new[k].kind = b[g[k]].kind
        /\ \A k, m \in 1..Len(new) : k < m => g[k] < g[m]
        /\ Len(new) \in Nat
    BY <1>7, <1>8 DEF Copies, NumberedFrom
  <1>10. \A k \in 1..Len(new) : new[k].turn = t /\ new[k].kind # "summary"
    BY <1>4, <1>5, <1>9
  <1>11. Ends(b) \/ \A k \in 1..Len(new) : new[k].kind # "terminal"
    BY <1>9 DEF Ends
  <1>12. \A k \in 1..Len(new) : g[k] \in Nat /\ k \in Nat
    BY <1>4, <1>9
  <1>13. ~Closed(File, t) /\ t \in begun
    BY DEF PendingOK
  <1>14. ASSUME NEW k \in 1..Len(new), new[k].kind = "call"
         PROVE  \A i \in Legible(File) : File[i].turn # t
    <2>1. Calls(b)
      BY <1>9, <1>14 DEF Calls
    <2>2. pending[t] \in Batches(t)
      BY <1>2, <1>3, <2>1
    <2> QED BY <2>2 DEF PendingOK
  <1>15. ASSUME NEW k \in 1..Len(new), NEW m \in 1..Len(new), new[k].kind = new[m].kind
         PROVE  k = m
    <2>1. g[k] = g[m]
      BY <1>4, <1>9, <1>15, SMTT(60)
    <2>2. ~(k < m) /\ ~(m < k)
      BY <1>9, <1>12, <2>1
    <2> QED BY <1>12, <2>2
  <1>16. ASSUME NEW k \in 1..Len(new), NEW m \in 1..Len(new), new[k].kind = "call",
                new[m].kind = "result"
         PROVE  k < m
    <2>1. g[k] < g[m]
      BY <1>4, <1>9, <1>16, SMTT(60)
    <2>2. ~(m < k) /\ k # m
      BY <1>9, <1>12, <2>1
    <2> QED BY <1>12, <2>2
  <1>17. Fits(new)
    <2>1. NumberedFrom(new, NextSequence(Records))
      BY <1>7 DEF Records, File
    <2> QED BY <1>10, <1>13, <1>14, <1>15, <1>16, <2>1 DEF Fits
  <1> QED BY <1>7, <1>10, <1>11, <1>17 DEF b

(* What the scan adds is of turns in the file. *)
OfFile(new) == \A k \in 1..Len(new) : \E i \in Legible(File) : new[k].turn = File[i].turn

(* The scan numbers its records as append() does. *)
LEMMA NumberedIs ==
    ASSUME NEW r, NEW b
    PROVE  Numbered(r, b) = Number(b, NextSequence(r))
  BY DEF Numbered, Number

(* Nothing to write fits. *)
LEMMA NothingFits ==
    ASSUME NEW new, new = <<>>
    PROVE  Fits(new) /\ OfFile(new) /\ Len(new) = 0
  <1>1. new \in Seq(Stored) /\ Len(new) = 0 /\ DOMAIN new = 1..0 /\ \A k \in 1..0 : FALSE
    OBVIOUS
  <1> QED BY <1>1 DEF Fits, OfFile, NumberedFrom

(* _create_synthetic_terminals: one for each open turn of the file, no other. *)
LEMMA TerminalsFit ==
    ASSUME StateOK, FileOK, NEW new, new = SyntheticTerminals(Records)
    PROVE  /\ Fits(new) /\ OfFile(new)
           /\ \A k \in 1..Len(new) : new[k].kind = "terminal"
           /\ \A i \in Legible(File) :
                 \/ Closed(File, File[i].turn)
                 \/ \E k \in 1..Len(new) : new[k].turn = File[i].turn
  <1> DEFINE T == IncompleteTurns(Records)
             q == SetToSeq(T)
             b == [i \in DOMAIN q |-> Rec(q[i], "terminal", "interrupted")]
             next == NextSequence(Records)
  <1>1. File \in Seq(Stored) /\ DOMAIN File = 1..Len(File) /\ Len(File) \in Nat
        /\ Records = ReadAll(File)
    BY FileIsSeq DEF StateOK, Records, File
  <1>2. next \in Nat
    BY <1>1, ReadFacts
  <1>3. new = Number(b, next)
    BY NumberedIs DEF SyntheticTerminals
  <1>4. T = {t \in {File[i].turn : i \in Legible(File)} : ~Closed(File, t)}
    BY <1>1, ReadTurns DEF IncompleteTurns
  <1>5. /\ \A t \in T : ~Closed(File, t) /\ \E i \in Legible(File) : File[i].turn = t
        /\ \A i \in Legible(File) : Closed(File, File[i].turn) \/ File[i].turn \in T
    BY <1>4
  <1>6. \A i \in Legible(File) : i \in 1..Len(File) /\ File[i] \in Stored
    BY <1>1 DEF Legible
  <1>7. IsFiniteSet(T)
    <2> DEFINE f == [i \in 1..Len(File) |-> File[i].turn]
    <2>1. T \subseteq {f[i] : i \in 1..Len(File)}
      BY <1>5, <1>6
    <2>2. DOMAIN f = 1..Len(File) /\ f = [i \in 1..Len(File) |-> f[i]]
      OBVIOUS
    <2> HIDE DEF f, T
    <2> QED BY <1>1, <2>1, <2>2, FiniteRange
  <1>8. T \subseteq TurnIds
    BY <1>5, <1>6 DEF Stored
  <1> HIDE DEF T
  <1>9. /\ q \in Seq(T) /\ DOMAIN q = 1..Len(q) /\ Len(q) \in Nat
        /\ \A i, j \in 1..Len(q) : q[i] = q[j] => i = j
        /\ \A x \in T : \E i \in 1..Len(q) : q[i] = x
    BY <1>7, ListFacts
  <1> HIDE DEF q
  <1>10. \A i \in 1..Len(q) : q[i] \in T /\ q[i] \in TurnIds
    BY <1>8, <1>9
  <1>11. \A i \in 1..Len(q) : /\ b[i] \in Stored /\ b[i].turn = q[i] /\ b[i].kind = "terminal"
    <2> TAKE i \in 1..Len(q)
    <2>1. b[i] = Rec(q[i], "terminal", "interrupted")
      BY <1>9
    <2> HIDE DEF b
    <2>2. q[i] \in TurnIds
      BY <1>10
    <2> QED BY <2>1, <2>2 DEF Rec, Stored, Infos, Kinds
  <1>12. b \in [1..Len(q) -> Stored]
    BY <1>9, <1>11
  <1> HIDE DEF b
  <1>13. b \in Seq(Stored) /\ Len(b) = Len(q) /\ DOMAIN b = 1..Len(q)
    BY <1>9, <1>12
  <1>14. \A i \in DOMAIN b : b[i].kind # "garbled"
    BY <1>11, <1>13
  <1> HIDE DEF next
  <1>15. /\ NumberedFrom(new, next) /\ Len(new) = Len(q)
         /\ \A k \in 1..Len(q) : new[k].turn = b[k].turn /\ new[k].kind = b[k].kind
    BY <1>2, <1>3, <1>13, <1>14, NumberingFacts
  <1>16. \A k \in 1..Len(q) : new[k].turn = q[k] /\ new[k].kind = "terminal"
    BY <1>11, <1>15
  <1>17. OfFile(new)
    BY <1>5, <1>10, <1>15, <1>16 DEF OfFile
  <1>18. Fits(new)
    <2>1. \A k \in 1..Len(new) : ~Closed(File, new[k].turn)
      BY <1>5, <1>10, <1>15, <1>16
    <2>2. \A k \in 1..Len(new) : IsCompaction(new[k].turn) \/ new[k].turn \in begun
      BY <1>17 DEF FileOK, OfBegun, OfFile
    <2>3. \A k, m \in 1..Len(new) : new[k].turn = new[m].turn => k = m
      BY <1>9, <1>15, <1>16
    <2> QED BY <1>15, <1>16, <2>1, <2>2, <2>3 DEF Fits, next
  <1>19. ASSUME NEW i \in Legible(File), ~Closed(File, File[i].turn)
         PROVE  \E k \in 1..Len(new) : new[k].turn = File[i].turn
    <2>1. PICK k \in 1..Len(q) : q[k] = File[i].turn
      BY <1>5, <1>9, <1>19
    <2> QED BY <1>15, <1>16, <2>1
  <1> QED BY <1>15, <1>16, <1>17, <1>18, <1>19

(* _create_orphan_tool_results: results of calls in the file, no calls. *)
LEMMA ResultsFit ==
    ASSUME StateOK, FileOK, NEW new, new = OrphanToolResults(Records)
    PROVE  Fits(new) /\ OfFile(new)
  <1> DEFINE T == OrphanCalls(Records)
             q == SetToSeq(T)
             b == [i \in DOMAIN q |-> Rec(q[i][1], "result", q[i][2])]
             next == NextSequence(Records)
  <1>1. File \in Seq(Stored) /\ DOMAIN File = 1..Len(File) /\ Len(File) \in Nat
        /\ Records = ReadAll(File)
    BY FileIsSeq DEF StateOK, Records, File
  <1>2. next \in Nat /\ ToSet(Records) = {File[i] : i \in Legible(File)}
    BY <1>1, ReadFacts
  <1>3. new = Number(b, next)
    BY NumberedIs DEF OrphanToolResults
  <1>4. \A c \in T : \E i \in Legible(File) : c = <<File[i].turn, File[i].info>>
    <2>1. \A c \in T : \E r \in ToSet(Records) : c = <<r.turn, r.info>>
      BY DEF OrphanCalls
    <2> HIDE DEF T
    <2> QED BY <1>2, <2>1
  <1>6. \A i \in Legible(File) : i \in 1..Len(File) /\ File[i] \in Stored
    BY <1>1 DEF Legible
  <1> HIDE DEF T
  <1>7. IsFiniteSet(T)
    <2> DEFINE f == [i \in 1..Len(File) |-> <<File[i].turn, File[i].info>>]
    <2>1. T \subseteq {f[i] : i \in 1..Len(File)}
      BY <1>4, <1>6
    <2>2. DOMAIN f = 1..Len(File) /\ f = [i \in 1..Len(File) |-> f[i]]
      OBVIOUS
    <2> HIDE DEF f
    <2> QED BY <1>1, <2>1, <2>2, FiniteRange
  <1>9. /\ q \in Seq(T) /\ DOMAIN q = 1..Len(q) /\ Len(q) \in Nat
    BY <1>7, ListFacts
  <1> HIDE DEF q
  <1>10. ASSUME NEW k \in 1..Len(q)
         PROVE  /\ b[k] \in Stored /\ b[k].kind = "result"
                /\ \E i \in Legible(File) : b[k].turn = File[i].turn
    <2>1. q[k] \in T
      BY <1>9
    <2>2. PICK i \in Legible(File) : q[k] = <<File[i].turn, File[i].info>>
      BY <1>4, <2>1
    <2>3. b[k] = Rec(q[k][1], "result", q[k][2])
      BY <1>9
    <2> HIDE DEF b
    <2>4. b[k] = Rec(File[i].turn, "result", File[i].info)
      BY <2>2, <2>3
    <2>5. File[i].turn \in TurnIds /\ File[i].info \in Infos
      BY <1>6 DEF Stored
    <2> QED BY <2>4, <2>5 DEF Rec, Stored, Kinds
  <1>12. b \in [1..Len(q) -> Stored]
    BY <1>9, <1>10
  <1> HIDE DEF b
  <1>13. b \in Seq(Stored) /\ Len(b) = Len(q) /\ DOMAIN b = 1..Len(q)
    BY <1>9, <1>12
  <1>14. \A i \in DOMAIN b : b[i].kind # "garbled"
    BY <1>10, <1>13
  <1> HIDE DEF next
  <1>15. /\ NumberedFrom(new, next) /\ Len(new) = Len(q)
         /\ \A k \in 1..Len(q) : new[k].turn = b[k].turn /\ new[k].kind = b[k].kind
    BY <1>2, <1>3, <1>13, <1>14, NumberingFacts
  <1>16. \A k \in 1..Len(q) : new[k].kind = "result"
    BY <1>10, <1>15
  <1>17. OfFile(new)
    BY <1>10, <1>15 DEF OfFile
  <1>18. \A k \in 1..Len(new) : IsCompaction(new[k].turn) \/ new[k].turn \in begun
    BY <1>17 DEF FileOK, OfBegun, OfFile
  <1> QED BY <1>15, <1>16, <1>17, <1>18 DEF Fits, next

(* What a step of the scan appends fits, and closes what was open. *)
LEMMA RepairsFit ==
    ASSUME StateOK, FileOK, NEW new, new = Repairs
    PROVE  /\ Fits(new) /\ OfFile(new)
           /\ Listed /\ phase = "terminals" =>
                 \A i \in Legible(File) :
                    \/ Closed(File, File[i].turn)
                    \/ \E k \in 1..Len(new) : new[k].kind = "terminal"
                                              /\ new[k].turn = File[i].turn
  <1>1. CASE ~Listed
    <2>1. new = <<>>
      BY <1>1 DEF Repairs
    <2> QED BY <1>1, <2>1, NothingFits
  <1>2. CASE Listed /\ phase = "terminals"
    <2>1. new = SyntheticTerminals(Records)
      BY <1>2 DEF Repairs
    <2> QED BY <2>1, TerminalsFit
  <1>3. CASE Listed /\ phase # "terminals"
    <2>1. new = OrphanToolResults(Records)
      BY <1>3 DEF Repairs
    <2> QED BY <1>3, <2>1, ResultsFit
  <1> QED BY <1>1, <1>2, <1>3

-----------------------------------------------------------------------------
(* Compaction.                                                             *)

(* c are all the chat records that r has of some turns, g their places. *)
KeptAt(g, c, r) ==
    /\ g \in [1..Len(c) -> DOMAIN r]
    /\ \A k, m \in 1..Len(c) : g[k] = g[m] => k = m
    /\ \A k \in 1..Len(c) : c[k] = r[g[k]] /\ c[k].kind # "summary"
    /\ \A i \in DOMAIN r, k \in 1..Len(c) :
          r[i].kind # "summary" /\ r[i].turn = c[k].turn => \E m \in 1..Len(c) : g[m] = i

(* The kept records are all the chat records of the turns they are of. *)
LEMMA KeptFacts ==
    ASSUME NEW r \in Seq(Stored), NEW keep, NEW c, c = KeptRecords(r, keep)
    PROVE  /\ c \in Seq(Stored)
           /\ \E g : KeptAt(g, c, r)
  <1> DEFINE C == {i \in DOMAIN r : r[i].kind # "summary"}
             chat == At(r, C)
             kept == OrderedRecentTurnIds(chat, keep)
             K == {i \in DOMAIN chat : chat[i].turn \in kept}
             zero == [i \in C |-> 0]
             nought == [i \in K |-> 0]
  <1>1. c = At(chat, K)
    BY DEF KeptRecords, ChatRecords, Where
  <1>2. C \subseteq DOMAIN r /\ \A i : i \in C <=> i \in DOMAIN r /\ r[i].kind # "summary"
    OBVIOUS
  <1> HIDE DEF C
  <1>3. PICK f : Arranged(chat, f, r, C, zero)
    BY <1>2, AtArranged
  <1> HIDE DEF chat, kept, zero
  <1>4. chat \in Seq(Stored) /\ K \subseteq DOMAIN chat
    BY <1>3 DEF Arranged
  <1>5. \A i : i \in K <=> i \in DOMAIN chat /\ chat[i].turn \in kept
    OBVIOUS
  <1> HIDE DEF K
  <1>6. PICK h : Arranged(At(chat, K), h, chat, K, nought)
    BY <1>4, AtArranged
  <1> HIDE DEF nought
  <1>7. /\ DOMAIN chat = 1..Len(chat) /\ Len(chat) \in Nat /\ f \in [1..Len(chat) -> C]
        /\ \A k \in 1..Len(chat) : chat[k] = r[f[k]]
        /\ \A k, m \in 1..Len(chat) : k < m => f[k] # f[m]
        /\ \A i \in C : \E k \in 1..Len(chat) : f[k] = i
    BY <1>3 DEF Arranged
  <1>8. /\ c \in Seq(Stored) /\ Len(c) \in Nat /\ h \in [1..Len(c) -> K]
        /\ \A k \in 1..Len(c) : c[k] = chat[h[k]]
        /\ \A k, m \in 1..Len(c) : k < m => h[k] # h[m]
        /\ \A i \in K : \E k \in 1..Len(c) : h[k] = i
    BY <1>1, <1>6 DEF Arranged
  <1> DEFINE g == [k \in 1..Len(c) |-> f[h[k]]]
  <1>9. \A k \in 1..Len(c) : h[k] \in 1..Len(chat) /\ h[k] \in K /\ g[k] = f[h[k]] /\ g[k] \in C
    BY <1>4, <1>7, <1>8
  <1>10. g \in [1..Len(c) -> DOMAIN r]
    BY <1>2, <1>9
  <1> HIDE DEF g
  <1>11. ASSUME NEW k \in 1..Len(c), NEW m \in 1..Len(c), g[k] = g[m] PROVE k = m
    <2>1. f[h[k]] = f[h[m]] /\ h[k] \in Nat /\ h[m] \in Nat
      BY <1>7, <1>9, <1>11
    <2>2. h[k] = h[m]
      <3>1. ~(h[k] < h[m]) /\ ~(h[m] < h[k])
        BY <1>7, <1>9, <2>1
      <3> QED BY <2>1, <3>1
    <2>3. k \in Nat /\ m \in Nat /\ ~(k < m) /\ ~(m < k)
      BY <1>8, <2>2
    <2> QED BY <2>3
  <1>12. \A k \in 1..Len(c) : c[k] = r[g[k]] /\ c[k].kind # "summary"
    BY <1>2, <1>7, <1>8, <1>9
  <1>13. ASSUME NEW i \in DOMAIN r, NEW k \in 1..Len(c), r[i].kind # "summary",
                r[i].turn = c[k].turn
         PROVE  \E m \in 1..Len(c) : g[m] = i
    <2>1. c[k].turn \in kept
      BY <1>5, <1>8, <1>9
    <2>2. PICK j \in 1..Len(chat) : f[j] = i
      BY <1>2, <1>7, <1>13
    <2>3. j \in K
      BY <1>5, <1>7, <1>13, <2>1, <2>2
    <2>4. PICK m \in 1..Len(c) : h[m] = j
      BY <1>8, <2>3
    <2> QED BY <1>9, <2>2, <2>4
  <1>14. KeptAt(g, c, r)
    BY <1>10, <1>11, <1>12, <1>13 DEF KeptAt
  <1> QED BY <1>8, <1>14

(* The new file: summaries, then records of File at different places. *)
Rewrites(w, n, g, c) ==
    /\ w \in Seq(Stored) /\ DOMAIN w = 1..Len(w) /\ n \in Nat
    /\ \A i \in 1..Len(w) : \/ w[i].kind = "summary" /\ IsCompaction(w[i].turn)
                            \/ \E k \in 1..Len(c) : i = n + k
    /\ \A k \in 1..Len(c) : n + k \in 1..Len(w) /\ w[n + k] = c[k]
    /\ g \in [1..Len(c) -> Legible(File)]
    /\ \A k, m \in 1..Len(c) : g[k] = g[m] => k = m
    /\ \A k \in 1..Len(c) : c[k] = File[g[k]] /\ c[k].kind \notin {"summary", "garbled"}
    /\ \A i \in Legible(File), k \in 1..Len(c) :
          File[i].kind # "summary" /\ File[i].turn = c[k].turn => \E m \in 1..Len(c) : g[m] = i

(* The file a compaction writes: summaries and the kept records. *)
LEMMA CompactedFacts ==
    ASSUME StateOK, FileOK, NEW id, id \in TurnIds, IsCompaction(id), NEW w,
           w = Compacted(Records, KeepRecent, id)
    PROVE  \E n, g : Rewrites(w, n, g, KeptRecords(Records, KeepRecent))
  <1> DEFINE r == Records
             c == KeptRecords(r, KeepRecent)
             P == {i \in DOMAIN r : r[i].kind = "summary"}
             sums == At(r, P)
             summary == [seq |-> Len(sums), turn |-> id, kind |-> "summary", info |-> "",
                         covers |-> TurnsOf(RecordsToSummarize(r, KeepRecent))]
             one == <<summary>>
             zero == [i \in P |-> 0]
  <1>1. File \in Seq(Stored) /\ r = ReadAll(File)
    BY FileIsSeq DEF StateOK, Records, File
  <1>2. PICK f : Arranged(r, f, File, Legible(File), Seqs(File))
    BY <1>1, ReadArranged
  <1>3. w = (sums \o one) \o c
    BY DEF Compacted, Summaries, Where
  <1> HIDE DEF r
  <1>4. /\ r \in Seq(Stored) /\ Len(r) \in Nat /\ DOMAIN r = 1..Len(r)
        /\ f \in [1..Len(r) -> Legible(File)]
        /\ \A k \in 1..Len(r) : r[k] = File[f[k]]
        /\ \A k, m \in 1..Len(r) : k < m => f[k] # f[m]
        /\ \A i \in Legible(File) : \E k \in 1..Len(r) : f[k] = i
    BY <1>2 DEF Arranged
  <1>5. P \subseteq DOMAIN r /\ \A i \in P : i \in 1..Len(r) /\ r[i].kind = "summary"
    BY <1>4
  <1> HIDE DEF P
  <1>6. PICK e : Arranged(sums, e, r, P, zero)
    BY <1>4, <1>5, AtArranged
  <1> HIDE DEF sums, zero
  <1>7. /\ sums \in Seq(Stored) /\ Len(sums) \in Nat
        /\ \A k \in 1..Len(sums) : e[k] \in P /\ sums[k] = r[e[k]]
    BY <1>6 DEF Arranged
  <1>8. \A k \in 1..Len(sums) : sums[k].kind = "summary" /\ IsCompaction(sums[k].turn)
    <2> TAKE k \in 1..Len(sums)
    <2>1. e[k] \in 1..Len(r) /\ sums[k] = r[e[k]] /\ r[e[k]].kind = "summary"
      BY <1>5, <1>7
    <2>2. f[e[k]] \in Legible(File) /\ sums[k] = File[f[e[k]]]
      BY <1>4, <2>1
    <2> QED BY <2>1, <2>2 DEF FileOK, OfBegun
  <1>9. summary \in Stored /\ summary.kind = "summary" /\ summary.turn = id
    <2>1. TurnsOf(RecordsToSummarize(r, KeepRecent)) \in SUBSET TurnIds
      <3> DEFINE C == {i \in DOMAIN r : r[i].kind # "summary"}
                 chat == At(r, C)
                 K == {i \in DOMAIN chat : chat[i].turn \notin OrderedRecentTurnIds(chat, KeepRecent)}
                 old == At(chat, K)
      <3>1. RecordsToSummarize(r, KeepRecent) = old
        BY DEF RecordsToSummarize, ChatRecords, Where
      <3>2. C \subseteq DOMAIN r
        OBVIOUS
      <3> HIDE DEF C
      <3>3. \E h : Arranged(chat, h, r, C, [i \in C |-> 0])
        BY <1>4, <3>2, AtArranged
      <3>4. chat \in Seq(Stored)
        BY <3>3 DEF Arranged
      <3>5. K \subseteq DOMAIN chat
        OBVIOUS
      <3> HIDE DEF K, chat
      <3>6. \E h : Arranged(old, h, chat, K, [i \in K |-> 0])
        BY <3>4, <3>5, AtArranged
      <3>7. old \in Seq(Stored)
        BY <3>6 DEF Arranged
      <3> HIDE DEF old
      <3>8. \A x \in ToSet(old) : x \in Stored
        BY <3>7 DEF ToSet
      <3>9. \A x \in ToSet(old) : x.turn \in TurnIds
        BY <3>8 DEF Stored
      <3> QED BY <3>1, <3>9 DEF TurnsOf
    <2> DEFINE covers == TurnsOf(RecordsToSummarize(r, KeepRecent))
    <2> HIDE DEF covers
    <2>2. covers \in SUBSET TurnIds
      BY <2>1 DEF covers
    <2>3. summary = [seq |-> Len(sums), turn |-> id, kind |-> "summary", info |-> "",
                     covers |-> covers]
      BY DEF covers
    <2> HIDE DEF summary
    <2>4. "" \in Infos /\ "summary" \in Kinds \cup {"garbled"}
      BY DEF Infos, Kinds
    <2> QED BY <1>7, <2>2, <2>3, <2>4 DEF Stored
  <1> HIDE DEF summary
  <1>10. one \in Seq(Stored) /\ Len(one) = 1 /\ one[1] = summary
    BY <1>9
  <1> HIDE DEF one
  <1>11. c \in Seq(Stored)
    BY <1>4, KeptFacts
  <1>k. PICK h : KeptAt(h, c, r)
    BY <1>4, KeptFacts
  <1>12. /\ h \in [1..Len(c) -> DOMAIN r]
         /\ \A k, m \in 1..Len(c) : h[k] = h[m] => k = m
         /\ \A k \in 1..Len(c) : c[k] = r[h[k]] /\ c[k].kind # "summary"
         /\ \A i \in DOMAIN r, k \in 1..Len(c) :
               r[i].kind # "summary" /\ r[i].turn = c[k].turn
               => \E m \in 1..Len(c) : h[m] = i
    BY <1>k DEF KeptAt
  <1> HIDE DEF c
  <1> DEFINE so == sums \o one
             n == Len(so)
             g == [k \in 1..Len(c) |-> f[h[k]]]
  <1>13. /\ so \in Seq(Stored) /\ Len(so) = Len(sums) + 1
         /\ \A i \in 1..Len(so) : so[i].kind = "summary" /\ IsCompaction(so[i].turn)
    <2>1. /\ so \in Seq(Stored) /\ Len(so) = Len(sums) + Len(one)
          /\ \A i \in 1..Len(sums) : so[i] = sums[i]
          /\ \A k \in 1..Len(one) : so[Len(sums) + k] = one[k]
          /\ \A i \in 1..Len(so) : i \in 1..Len(sums) \/ \E k \in 1..Len(one) : i = Len(sums) + k
      BY <1>7, <1>10, Joined, ZenonT(100)
    <2> HIDE DEF so
    <2>2. \A k \in 1..Len(one) : one[k].kind = "summary" /\ IsCompaction(one[k].turn)
      <3>1. \A k \in 1..1 : k = 1
        OBVIOUS
      <3> QED BY <1>9, <1>10, <3>1
    <2> QED BY <1>8, <1>10, <2>1, <2>2
  <1> HIDE DEF so
  <1>14. /\ w \in Seq(Stored) /\ DOMAIN w = 1..Len(w) /\ n \in Nat
         /\ \A i \in 1..Len(so) : w[i] = so[i]
         /\ \A k \in 1..Len(c) : Len(so) + k \in 1..Len(w) /\ w[Len(so) + k] = c[k]
         /\ \A i \in 1..Len(w) : i \in 1..Len(so) \/ \E k \in 1..Len(c) : i = Len(so) + k
    <2>1. w = so \o c /\ so \in Seq(Stored)
      BY <1>3, <1>13 DEF so
    <2> QED BY <1>11, <2>1, Joined
  <1>15. \A i \in 1..Len(w) : \/ w[i].kind = "summary" /\ IsCompaction(w[i].turn)
                              \/ \E k \in 1..Len(c) : i = n + k
    BY <1>13, <1>14
  <1>16. \A k \in 1..Len(c) : h[k] \in 1..Len(r) /\ g[k] = f[h[k]] /\ g[k] \in Legible(File)
    BY <1>4, <1>12
  <1>17. g \in [1..Len(c) -> Legible(File)]
    BY <1>16
  <1> HIDE DEF g, n
  <1>18. ASSUME NEW k \in 1..Len(c), NEW m \in 1..Len(c), g[k] = g[m] PROVE k = m
    <2>1. f[h[k]] = f[h[m]] /\ h[k] \in 1..Len(r) /\ h[m] \in 1..Len(r)
      BY <1>16, <1>18
    <2>2. h[k] = h[m]
      <3>1. h[k] \in Nat /\ h[m] \in Nat /\ ~(h[k] < h[m]) /\ ~(h[m] < h[k])
        BY <1>4, <2>1
      <3> QED BY <3>1
    <2> QED BY <1>12, <2>2
  <1>19. \A k \in 1..Len(c) : c[k] = File[g[k]] /\ c[k].kind \notin {"summary", "garbled"}
    <2> TAKE k \in 1..Len(c)
    <2>1. c[k] = File[g[k]] /\ g[k] \in Legible(File)
      BY <1>4, <1>12, <1>16
    <2> QED BY <1>12, <2>1 DEF Legible
  <1>20. ASSUME NEW i \in Legible(File), NEW k \in 1..Len(c), File[i].kind # "summary",
                File[i].turn = c[k].turn
         PROVE  \E m \in 1..Len(c) : g[m] = i
    <2>1. PICK j \in 1..Len(r) : f[j] = i
      BY <1>4
    <2>2. r[j] = File[i] /\ j \in DOMAIN r
      BY <1>4, <2>1
    <2>3. PICK m \in 1..Len(c) : h[m] = j
      BY <1>12, <1>20, <2>2
    <2> QED BY <1>16, <2>1, <2>3
  <1>21. Rewrites(w, n, g, c)
    BY <1>14, <1>15, <1>17, <1>18, <1>19, <1>20 DEF Rewrites, n
  <1> QED BY <1>21 DEF c, r

-----------------------------------------------------------------------------
(* The invariant and its steps.                                            *)

RecoveryInv == StateOK /\ FileOK /\ PendingOK /\ WholeOK /\ LossOK

(* No turn of a user is a compaction. *)
LEMMA UserTurnFacts ==
    ASSUME NEW t \in UserTurns
    PROVE  ~IsCompaction(t)
  BY DEF UserTurns, TurnId, IsCompaction

(* The ids in the file are those of its terminated lines and of the open one. *)
LEMMA IdsOfFile ==
    ASSUME Shape
    PROVE  Ids(File) = Ids(lines) \cup Ids(open)
  <1>1. lines \in Seq(Stored) /\ open \in Seq(Stored) /\ File = lines \o open
    BY DEF Shape, File
  <1>2. /\ DOMAIN File = 1..Len(File) /\ DOMAIN lines = 1..Len(lines) /\ DOMAIN open = 1..Len(open)
        /\ \A i \in 1..Len(lines) : i \in 1..Len(File) /\ File[i] = lines[i]
        /\ \A k \in 1..Len(open) : Len(lines) + k \in 1..Len(File) /\ File[Len(lines) + k] = open[k]
        /\ \A i \in 1..Len(File) : \/ i \in 1..Len(lines)
                                   \/ \E k \in 1..Len(open) : i = Len(lines) + k
    BY <1>1, Joined
  <1>3. ASSUME NEW i \in Legible(File) PROVE EventId(File[i]) \in Ids(lines) \cup Ids(open)
    BY <1>2 DEF Legible, Ids
  <1>4. ASSUME NEW i \in Legible(lines) PROVE EventId(lines[i]) \in Ids(File)
    BY <1>2 DEF Legible, Ids
  <1>5. ASSUME NEW k \in Legible(open) PROVE EventId(open[k]) \in Ids(File)
    <2>1. Len(lines) + k \in Legible(File) /\ File[Len(lines) + k] = open[k]
      BY <1>2 DEF Legible
    <2> QED BY <2>1 DEF Ids
  <1> QED BY <1>3, <1>4, <1>5 DEF Ids

(* A turn is closed in the new file if it was in the old one or is now. *)
LEMMA StillOpen ==
    ASSUME NEW l, NEW w, NEW n, NEW new, Wrote(w, l, n, new), NEW t, ~Closed(l, t),
           \A k \in 1..Len(new) : ~(new[k].kind = "terminal" /\ new[k].turn = t)
    PROVE  ~Closed(w, t)
  <1> SUFFICES ASSUME NEW i \in DOMAIN w, w[i].kind = "terminal", w[i].turn = t PROVE FALSE
    BY DEF Closed
  <1>1. i \in Legible(w)
    BY DEF Legible
  <1>2. i \in Legible(l) /\ w[i] = l[i]
    BY <1>1 DEF Wrote
  <1> QED BY <1>2 DEF Legible, Closed

(* A loss is paid for by a line that was open. *)
LEMMA LossKept ==
    ASSUME StateOK, LossOK, torn' = torn,
           \/ /\ acked' \ Ids(lines') \subseteq acked \ Ids(lines)
              /\ open' = open \/ open' = <<>>
           \/ /\ \E e : acked' \ Ids(lines') \subseteq (acked \ Ids(lines)) \cup {e}
              /\ open # <<>> /\ open' = <<>>
    PROVE  LossOK'
  <1> DEFINE L == acked \ Ids(lines)
             M == acked' \ Ids(lines')
  <1>1. IsFiniteSet(L) /\ Cardinality(L) + Len(open) <= torn /\ torn \in Nat /\ Len(open) \in Nat
        /\ (open # <<>> => Len(open) >= 1)
    BY DEF LossOK, StateOK, Shape
  <1>2. Cardinality(L) \in Nat
    BY <1>1, FS_CardinalityType
  <1> HIDE DEF L
  <1>3. CASE M \subseteq L /\ (open' = open \/ open' = <<>>)
    <2>1. IsFiniteSet(M) /\ Cardinality(M) <= Cardinality(L)
      <3> HIDE DEF M
      <3> QED BY <1>1, <1>3, FS_Subset
    <2>2. Len(open') \in Nat /\ Len(open') <= Len(open)
      BY <1>1, <1>3
    <2>3. Cardinality(M) \in Nat
      BY <2>1, FS_CardinalityType
    <2> HIDE DEF M
    <2>4. Cardinality(M) + Len(open') <= torn'
      BY <1>1, <1>2, <2>1, <2>2, <2>3
    <2> QED BY <2>1, <2>4 DEF LossOK, M, Ids, Legible
  <1>4. ASSUME NEW e, M \subseteq L \cup {e}, open # <<>>, open' = <<>> PROVE LossOK'
    <2>1. /\ IsFiniteSet(L \cup {e})
          /\ Cardinality(L \cup {e}) = IF e \in L THEN Cardinality(L) ELSE Cardinality(L) + 1
      BY <1>1, FS_AddElement
    <2>2. IsFiniteSet(M) /\ Cardinality(M) <= Cardinality(L \cup {e})
      <3> HIDE DEF M
      <3> QED BY <1>4, <2>1, FS_Subset
    <2>3. Cardinality(M) \in Nat
      BY <2>2, FS_CardinalityType
    <2>4. Len(open') = 0
      BY <1>4
    <2> HIDE DEF M
    <2>5. Cardinality(M) + Len(open') <= torn'
      BY <1>1, <1>2, <1>4, <2>1, <2>2, <2>3, <2>4
    <2> QED BY <2>2, <2>5 DEF LossOK, M, Ids, Legible
  <1> QED BY <1>3, <1>4 DEF L

(* After a write that fits, what is left of the pending batches. *)
LEMMA OpenTurns ==
    ASSUME Shape, NEW t, \A i \in Legible(open) : open[i].turn # t,
           open' = open \/ open' = <<>>
    PROVE  \A i \in Legible(open') : open'[i].turn # t
  <1>1. open' = <<>> => \A i \in Legible(open') : FALSE
    BY DEF Legible
  <1> QED BY <1>1

(* c holds the lines of a and of b, so every turn they close is closed. *)
Grown(c, a, b) ==
    /\ \A t : Closed(a, t) => Closed(c, t)
    /\ \A k \in 1..Len(b) : b[k].kind = "terminal" => Closed(c, b[k].turn)
    /\ \A i \in DOMAIN c : \/ \E j \in DOMAIN a : c[i] = a[j]
                           \/ \E k \in 1..Len(b) : c[i] = b[k]

(* Appending to whole lines reopens no turn. *)
LEMMA ClosedGrows ==
    ASSUME NEW a \in Seq(Stored), NEW b \in Seq(Stored)
    PROVE  Grown(a \o b, a, b)
  <1> DEFINE c == a \o b
  <1>1. /\ DOMAIN c = 1..Len(c) /\ DOMAIN a = 1..Len(a)
        /\ \A i \in 1..Len(a) : i \in 1..Len(c) /\ c[i] = a[i]
        /\ \A k \in 1..Len(b) : Len(a) + k \in 1..Len(c) /\ c[Len(a) + k] = b[k]
        /\ \A i \in 1..Len(c) : i \in 1..Len(a) \/ \E k \in 1..Len(b) : i = Len(a) + k
    BY Joined
  <1> HIDE DEF c
  <1>2. \A t : Closed(a, t) => Closed(c, t)
    BY <1>1 DEF Closed
  <1>3. ASSUME NEW k \in 1..Len(b), b[k].kind = "terminal" PROVE Closed(c, b[k].turn)
    <2>1. Len(a) + k \in DOMAIN c /\ c[Len(a) + k] = b[k]
      BY <1>1
    <2> QED BY <1>3, <2>1 DEF Closed
  <1>4. ASSUME NEW i \in DOMAIN c
        PROVE  (\E j \in DOMAIN a : c[i] = a[j]) \/ \E k \in 1..Len(b) : c[i] = b[k]
    <2>1. CASE i \in 1..Len(a)
      <3>1. i \in DOMAIN a /\ c[i] = a[i]
        BY <1>1, <2>1
      <3> QED BY <3>1
    <2>2. ASSUME NEW k \in 1..Len(b), i = Len(a) + k PROVE c[i] = b[k]
      BY <1>1, <2>2
    <2> QED BY <1>1, <2>1, <2>2
  <1> QED BY <1>2, <1>3, <1>4 DEF Grown, c

(* A batch written: by append(), whole. *)
LEMMA WriteBatchStep ==
    ASSUME RecoveryInv, NEW t \in UserTurns, WriteBatch(t)
    PROVE  RecoveryInv'
  <1> DEFINE b == Head(pending[t])
             new == NewRecords(lines \o open, b)
  <1>0. /\ StateOK /\ FileOK /\ PendingOK /\ WholeOK /\ LossOK /\ Shape
        /\ lines \in Seq(Stored) /\ open \in Seq(Stored)
    BY DEF RecoveryInv, StateOK, Shape
  <1>1. /\ phase = "up" /\ pending[t] # <<>> /\ WriteLines(new)
        /\ pending' = [pending EXCEPT ![t] = Tail(@)]
        /\ acked' = acked \cup {EventId(r) : r \in ToSet(b)}
        /\ phase' = phase /\ begun' = begun /\ passes' = passes /\ torn' = torn
    BY DEF WriteBatch
  <1>2. /\ Fits(new) /\ \A k \in 1..Len(new) : new[k].turn = t /\ new[k].kind # "summary"
        /\ Ends(b) \/ \A k \in 1..Len(new) : new[k].kind # "terminal"
        /\ \A i \in DOMAIN b :
              \/ EventId(b[i]) \in Ids(File)
              \/ \E k \in 1..Len(new) : EventId(new[k]) = EventId(b[i])
    BY <1>0, <1>1, BatchFits
  <1>3. /\ pending[t] \in Batches(t) \cup Rests(t)
        /\ ~Closed(File, t) /\ t \in begun /\ \A i \in Legible(open) : open[i].turn # t
    BY <1>0, <1>1 DEF PendingOK
  <1>4. /\ BatchOK(t, b) /\ Tail(pending[t]) \in {<<>>} \cup Rests(t)
        /\ (Tail(pending[t]) = <<>> <=> Ends(b))
    BY <1>3, BatchFacts
  <1> HIDE DEF new, b
  <1>5. new \in Seq(Stored) /\ \A k \in 1..Len(new) : new[k].kind # "garbled"
    BY <1>2 DEF Fits, NumberedFrom
  <1>6. /\ Shape' /\ Wrote(File', File, Len(lines), new)
        /\ Ids(lines) \subseteq Ids(lines')
        /\ open = <<>> => lines' = lines \o new /\ open' = <<>>
        /\ IF new = <<>> THEN lines' = lines /\ open' = open ELSE open' = <<>>
        /\ \A k \in 1..Len(new) : EventId(new[k]) \in Ids(lines') \/ (k = 1 /\ open # <<>>)
    BY <1>0, <1>1, <1>5, WriteFacts
  <1>7. FileOK'
    BY <1>0, <1>1, <1>2, <1>6, FileKept
  <1>8. /\ pending' = [u \in UserTurns |-> pending'[u]] /\ pending'[t] = Tail(pending[t])
        /\ \A u \in UserTurns : u # t => pending'[u] = pending[u]
    BY <1>0, <1>1 DEF StateOK
  <1>9. StateOK'
    BY <1>0, <1>1, <1>6, <1>8 DEF StateOK
  <1>10. PendingOK'
    <2> SUFFICES ASSUME NEW u \in UserTurns
                 PROVE  /\ pending'[u] \in {<<>>} \cup Batches(u) \cup Rests(u)
                        /\ pending'[u] # <<>> =>
                              /\ phase' = "up" /\ u \in begun' /\ ~Closed(File', u)
                              /\ \A i \in Legible(open') : open'[i].turn # u
                        /\ pending'[u] \in Batches(u) => \A i \in Legible(File') : File'[i].turn # u
      BY DEF PendingOK, Closed, Legible
    <2>1. open' = open \/ open' = <<>>
      BY <1>6
    <2>2. CASE u = t
      <3>1. pending'[u] \in {<<>>} \cup Rests(t)
        BY <1>4, <1>8, <2>2
      <3>2. pending'[u] \notin Batches(u)
        <4>1. \A p \in Rests(t) : p \notin Batches(t)
          BY BatchFacts
        <4>2. \A p \in Batches(t) : p # <<>>
          BY BatchFacts
        <4> QED BY <2>2, <3>1, <4>1, <4>2
      <3>3. ASSUME pending'[u] # <<>>
            PROVE  ~Closed(File', u)
        <4>1. \A k \in 1..Len(new) : new[k].kind # "terminal"
          BY <1>2, <1>4, <1>8, <2>2, <3>3
        <4> QED BY <1>3, <1>6, <2>2, <4>1, StillOpen
      <3>4. \A i \in Legible(open') : open'[i].turn # u
        BY <1>0, <1>3, <2>1, <2>2, OpenTurns
      <3> QED BY <1>1, <1>3, <2>2, <3>1, <3>2, <3>3, <3>4
    <2>3. CASE u # t
      <3>1. pending'[u] = pending[u]
        BY <1>8, <2>3
      <3>2. \A k \in 1..Len(new) : new[k].turn # u
        BY <1>2, <2>3
      <3>3. /\ pending[u] \in {<<>>} \cup Batches(u) \cup Rests(u)
            /\ pending[u] # <<>> => /\ u \in begun /\ ~Closed(File, u)
                                    /\ \A i \in Legible(open) : open[i].turn # u
            /\ pending[u] \in Batches(u) => \A i \in Legible(File) : File[i].turn # u
        BY <1>0 DEF PendingOK
      <3>4. ASSUME pending[u] # <<>> PROVE ~Closed(File', u)
        BY <1>6, <3>2, <3>3, <3>4, StillOpen
      <3>5. ASSUME pending[u] # <<>> PROVE \A i \in Legible(open') : open'[i].turn # u
        BY <1>0, <2>1, <3>3, <3>5, OpenTurns
      <3>6. ASSUME pending[u] \in Batches(u) PROVE \A i \in Legible(File') : File'[i].turn # u
        <4>1. \A i \in Legible(File) : File[i].turn # u
          BY <3>3, <3>6
        <4>2. Wrote(File', File, Len(lines), new)
          BY <1>6
        <4> HIDE DEF File
        <4> QED BY <3>2, <4>1, <4>2 DEF Wrote
      <3> QED BY <1>1, <3>1, <3>3, <3>4, <3>5, <3>6
    <2> QED BY <2>2, <2>3
  <1>11. WholeOK'
    <2> SUFFICES ASSUME torn = 0
                 PROVE  /\ open' = <<>> /\ \A i \in DOMAIN lines' : lines'[i].kind # "garbled"
                        /\ \A i \in DOMAIN lines' :
                              \/ Closed(lines', lines'[i].turn) \/ IsCompaction(lines'[i].turn)
                              \/ lines'[i].turn \in UserTurns /\ pending'[lines'[i].turn] # <<>>
      BY <1>1 DEF WholeOK, Closed
    <2>1. /\ open = <<>> /\ \A i \in DOMAIN lines : lines[i].kind # "garbled"
          /\ \A i \in DOMAIN lines :
                \/ Closed(lines, lines[i].turn) \/ IsCompaction(lines[i].turn)
                \/ lines[i].turn \in UserTurns /\ pending[lines[i].turn] # <<>>
      BY <1>0, <1>1 DEF WholeOK
    <2>2. lines' = lines \o new /\ open' = <<>>
      BY <1>6, <2>1
    <2>3. /\ \A u : Closed(lines, u) => Closed(lines', u)
          /\ \A k \in 1..Len(new) : new[k].kind = "terminal" => Closed(lines', new[k].turn)
          /\ \A i \in DOMAIN lines' : \/ \E j \in DOMAIN lines : lines'[i] = lines[j]
                                      \/ \E k \in 1..Len(new) : lines'[i] = new[k]
      <3>1. Grown(lines \o new, lines, new)
        BY <1>0, <1>5, ClosedGrows
      <3>2. Grown(lines', lines, new)
        BY <2>2, <3>1, Zenon
      <3> QED BY <3>2 DEF Grown
    <2>4. ASSUME pending'[t] = <<>> PROVE Closed(lines', t)
      <3>1. Ends(b)
        BY <1>4, <1>8, <2>4
      <3>2. PICK i \in DOMAIN b : b[i].kind = "terminal"
        BY <3>1 DEF Ends
      <3>3. b[i].turn = t
        BY <1>4 DEF BatchOK
      <3>4. EventId(b[i]) \notin Ids(File)
        <4> SUFFICES ASSUME NEW j \in Legible(File), EventId(File[j]) = EventId(b[i]) PROVE FALSE
          BY DEF Ids
        <4>1. File[j].kind = "terminal" /\ File[j].turn = t /\ j \in DOMAIN File
          BY <3>2, <3>3, EventIdParts DEF Legible
        <4> QED BY <1>3, <4>1 DEF Closed
      <3>5. PICK k \in 1..Len(new) : EventId(new[k]) = EventId(b[i])
        BY <1>2, <3>4
      <3>6. new[k].kind = "terminal" /\ new[k].turn = t
        BY <3>2, <3>3, <3>5, EventIdParts
      <3> QED BY <2>3, <3>6
    <2>5. Closed(lines', t) \/ (t \in UserTurns /\ pending'[t] # <<>>)
      BY <2>4
    <2>6. ASSUME NEW j \in DOMAIN lines
          PROVE  \/ Closed(lines', lines[j].turn) \/ IsCompaction(lines[j].turn)
                 \/ lines[j].turn \in UserTurns /\ pending'[lines[j].turn] # <<>>
      <3>1. CASE lines[j].turn = t
        BY <2>5, <3>1
      <3>2. CASE lines[j].turn # t
        BY <1>8, <2>1, <2>3, <3>2
      <3> QED BY <3>1, <3>2
    <2> QED BY <1>2, <1>5, <2>1, <2>2, <2>3, <2>5, <2>6, ZenonT(100)
  <1>12. LossOK'
    <2>1. \A i \in DOMAIN b : b[i].turn = t
      BY <1>4 DEF BatchOK
    <2>2. \A e \in {EventId(r) : r \in ToSet(b)} :
             e \in Ids(lines') \/ (open # <<>> /\ new # <<>> /\ e = EventId(new[1]))
      <3> SUFFICES ASSUME NEW i \in DOMAIN b
                   PROVE  \/ EventId(b[i]) \in Ids(lines')
                          \/ open # <<>> /\ new # <<>> /\ EventId(b[i]) = EventId(new[1])
        BY DEF ToSet
      <3>1. CASE EventId(b[i]) \in Ids(File)
        <4>1. EventId(b[i]) \in Ids(lines) \cup Ids(open)
          BY <1>0, <3>1, IdsOfFile
        <4>2. EventId(b[i]) \notin Ids(open)
          <5> SUFFICES ASSUME NEW j \in Legible(open), EventId(open[j]) = EventId(b[i]) PROVE FALSE
            BY DEF Ids
          <5>1. open[j].turn = t
            BY <2>1, EventIdParts
          <5> QED BY <1>3, <5>1
        <4> QED BY <1>6, <4>1, <4>2
      <3>2. ASSUME NEW k \in 1..Len(new), EventId(new[k]) = EventId(b[i])
            PROVE  \/ EventId(b[i]) \in Ids(lines')
                   \/ open # <<>> /\ new # <<>> /\ EventId(b[i]) = EventId(new[1])
        <4>1. new # <<>>
          BY <1>5
        <4>2. EventId(new[k]) \in Ids(lines') \/ (k = 1 /\ open # <<>>)
          BY <1>6
        <4> QED BY <3>2, <4>1, <4>2
      <3> QED BY <1>2, <3>1, <3>2
    <2>3. CASE open # <<>> /\ new # <<>>
      <3>1. acked' \ Ids(lines') \subseteq (acked \ Ids(lines)) \cup {EventId(new[1])}
        BY <1>1, <1>6, <2>2
      <3>2. open' = <<>>
        BY <1>6, <2>3
      <3> QED BY <1>0, <1>1, <2>3, <3>1, <3>2, LossKept
    <2>4. CASE ~(open # <<>> /\ new # <<>>)
      <3>1. acked' \ Ids(lines') \subseteq acked \ Ids(lines)
        BY <1>1, <1>6, <2>2, <2>4
      <3>2. open' = open \/ open' = <<>>
        BY <1>6
      <3> QED BY <1>0, <1>1, <3>1, <3>2, LossKept
    <2> QED BY <2>3, <2>4
  <1> QED BY <1>7, <1>9, <1>10, <1>11, <1>12 DEF RecoveryInv


(* Steps that leave the file alone. *)
LEMMA FileSame ==
    ASSUME lines' = lines, open' = open
    PROVE  File' = File
  BY DEF File

(* Between crash and scan no turn runs. *)
LEMMA NothingRuns ==
    ASSUME PendingOK, NEW t \in UserTurns, phase # "up"
    PROVE  pending[t] = <<>>
  BY DEF PendingOK

(* When nothing runs there is nothing to say of what runs. *)
LEMMA IdleOK ==
    ASSUME \A t \in UserTurns : pending'[t] = <<>>
    PROVE  PendingOK'
  <1> SUFFICES ASSUME NEW t \in UserTurns
               PROVE  pending'[t] = <<>> /\ <<>> \notin Batches(t)
    BY DEF PendingOK
  <1>1. \A p \in Batches(t) : p # <<>>
    BY BatchFacts
  <1> QED BY <1>1

(* A turn started: it has nothing in the file yet. *)
LEMMA StartTurnStep ==
    ASSUME RecoveryInv, NEW t \in UserTurns, StartTurn(t)
    PROVE  RecoveryInv'
  <1>0. StateOK /\ FileOK /\ PendingOK /\ WholeOK /\ LossOK
    BY DEF RecoveryInv
  <1>1. /\ phase = "up" /\ phase' = "up" /\ t \notin begun /\ begun' = begun \cup {t}
        /\ lines' = lines /\ open' = open /\ passes' = passes /\ torn' = torn /\ acked' = acked
    BY DEF StartTurn
  <1>2. PICK batches \in Batches(t) : pending' = [pending EXCEPT ![t] = batches]
    BY DEF StartTurn
  <1>3. /\ pending' = [u \in UserTurns |-> pending'[u]] /\ pending'[t] = batches
        /\ \A u \in UserTurns : u # t => pending'[u] = pending[u]
    BY <1>0, <1>2 DEF StateOK
  <1>4. File' = File
    BY <1>1, FileSame
  <1>5. StateOK'
    BY <1>0, <1>1, <1>3 DEF StateOK, Shape
  <1>6. FileOK'
    <2>1. ClosedOnce(File) /\ CallsFirst(File) /\ OfBegun(File)
      BY <1>0 DEF FileOK
    <2>2. ClosedOnce(File)' /\ CallsFirst(File)'
      BY <1>4, <2>1 DEF ClosedOnce, CallsFirst
    <2>3. OfBegun(File)'
      <3> HIDE DEF File
      <3> QED BY <1>1, <1>4, <2>1 DEF OfBegun, Legible
    <2> QED BY <2>2, <2>3 DEF FileOK
  <1>7. \A i \in Legible(File) : File[i].turn # t
    BY <1>0, <1>1, UserTurnFacts DEF FileOK, OfBegun
  <1>8. PendingOK'
    <2> SUFFICES ASSUME NEW u \in UserTurns
                 PROVE  /\ pending'[u] \in {<<>>} \cup Batches(u) \cup Rests(u)
                        /\ pending'[u] # <<>> =>
                              /\ phase' = "up" /\ u \in begun' /\ ~Closed(File, u)
                              /\ \A i \in Legible(open) : open[i].turn # u
                        /\ pending'[u] \in Batches(u) => \A i \in Legible(File) : File[i].turn # u
      <3> HIDE DEF File
      <3> QED BY <1>1, <1>4 DEF PendingOK, Closed, Legible
    <2>1. CASE u = t
      <3>1. ~Closed(File, t)
        BY <1>7 DEF Closed, Legible
      <3>2. \A i \in Legible(open) : open[i].turn # t
        <4> SUFFICES ASSUME NEW i \in Legible(open), open[i].turn = t PROVE FALSE
          OBVIOUS
        <4>1. lines \in Seq(Stored) /\ open \in Seq(Stored) /\ File = lines \o open
          BY <1>0 DEF StateOK, Shape, File
        <4>2. i \in 1..Len(open) /\ open[i].kind # "garbled"
          BY <4>1 DEF Legible
        <4>3. /\ Len(lines) + i \in 1..Len(File) /\ File[Len(lines) + i] = open[i]
              /\ DOMAIN File = 1..Len(File)
          BY <4>1, <4>2, Joined
        <4>4. Len(lines) + i \in Legible(File)
          BY <4>2, <4>3 DEF Legible
        <4> QED BY <1>7, <4>3, <4>4
      <3> QED BY <1>1, <1>3, <1>7, <2>1, <3>1, <3>2
    <2>2. CASE u # t
      BY <1>0, <1>1, <1>3, <2>2 DEF PendingOK
    <2> QED BY <2>1, <2>2
  <1>9. WholeOK'
    <2> SUFFICES ASSUME torn = 0
                 PROVE  /\ open = <<>> /\ \A i \in DOMAIN lines : lines[i].kind # "garbled"
                        /\ \A i \in DOMAIN lines :
                              \/ Closed(lines, lines[i].turn) \/ IsCompaction(lines[i].turn)
                              \/ lines[i].turn \in UserTurns /\ pending'[lines[i].turn] # <<>>
      BY <1>1 DEF WholeOK, Closed
    <2>1. batches # <<>>
      BY BatchFacts
    <2>2. \A u \in UserTurns : pending[u] # <<>> => pending'[u] # <<>>
      BY <1>3, <2>1
    <2> QED BY <1>0, <1>1, <2>2 DEF WholeOK
  <1>10. LossOK'
    BY <1>0, <1>1, LossKept
  <1> QED BY <1>5, <1>6, <1>8, <1>9, <1>10 DEF RecoveryInv

(* The process starts again. *)
LEMMA RestartStep ==
    ASSUME RecoveryInv, Restart
    PROVE  RecoveryInv'
  <1>0. StateOK /\ FileOK /\ PendingOK /\ WholeOK /\ LossOK
    BY DEF RecoveryInv
  <1>1. /\ phase = "down" /\ phase' = "terminals" /\ begun' = begun /\ pending' = pending
        /\ lines' = lines /\ open' = open /\ passes' = passes /\ torn' = torn /\ acked' = acked
    BY DEF Restart
  <1>2. StateOK' /\ FileOK'
    BY <1>0, <1>1, SMTT(60) DEF StateOK, Shape, FileOK, ClosedOnce, CallsFirst, OfBegun, Legible, File
  <1>3. PendingOK'
    BY <1>0, <1>1, NothingRuns, IdleOK
  <1>4. WholeOK'
    BY <1>0, <1>1 DEF WholeOK
  <1>5. LossOK'
    BY <1>0, <1>1, LossKept
  <1> QED BY <1>2, <1>3, <1>4, <1>5 DEF RecoveryInv

(* A crash: between writes, or in one. *)
LEMMA CrashStep ==
    ASSUME RecoveryInv, Crash
    PROVE  RecoveryInv'
  <1>0. StateOK /\ FileOK /\ PendingOK /\ WholeOK /\ LossOK /\ Shape
    BY DEF RecoveryInv, StateOK
  <1>1. /\ phase # "down" /\ phase' = "down" /\ pending' = [t \in UserTurns |-> <<>>]
        /\ begun' = begun /\ passes' = passes /\ acked' = acked
        /\ \/ lines' = lines /\ open' = open /\ torn' = torn
           \/ (\E new \in InFlight : WritePartOf(new)) /\ torn' = torn + 1
    BY DEF Crash
  <1>2. PendingOK'
    BY <1>1, IdleOK
  <1>3. pending' = [t \in UserTurns |-> pending'[t]]
    BY <1>1
  <1>4. CASE lines' = lines /\ open' = open /\ torn' = torn
    <2>1. StateOK' /\ FileOK'
      BY <1>0, <1>1, <1>3, <1>4, SMTT(60)
         DEF StateOK, Shape, FileOK, ClosedOnce, CallsFirst, OfBegun, Legible, File
    <2>2. WholeOK'
      BY <1>0, <1>1, <1>4 DEF WholeOK
    <2>3. LossOK'
      BY <1>0, <1>1, <1>4, LossKept
    <2> QED BY <1>2, <2>1, <2>2, <2>3 DEF RecoveryInv
  <1>5. ASSUME NEW new \in InFlight, WritePartOf(new), torn' = torn + 1
        PROVE  RecoveryInv'
    <2>1. Fits(new)
      <3>1. CASE phase = "up"
        <4>1. PICK t \in Running : new = NewRecords(lines \o open, Head(pending[t]))
          BY <1>5, <3>1 DEF InFlight
        <4>2. t \in UserTurns /\ pending[t] # <<>>
          BY DEF Running
        <4> QED BY <1>0, <4>1, <4>2, BatchFits
      <3>2. CASE phase # "up"
        <4>1. new = Repairs
          BY <1>5, <3>2 DEF InFlight
        <4> QED BY <1>0, <4>1, RepairsFit
      <3> QED BY <3>1, <3>2
    <2>2. new \in Seq(Stored)
      BY <2>1 DEF Fits, NumberedFrom
    <2>3. /\ Shape' /\ Wrote(File', File, Len(lines), new) /\ Ids(lines) \subseteq Ids(lines')
      BY <1>0, <1>5, <2>2, TornFacts
    <2>4. FileOK'
      BY <1>0, <1>1, <2>1, <2>3, FileKept
    <2>5. StateOK'
      BY <1>0, <1>1, <1>3, <1>5, <2>3 DEF StateOK
    <2>6. torn \in Nat /\ torn' # 0
      BY <1>0, <1>5 DEF StateOK
    <2>7. WholeOK'
      BY <2>6 DEF WholeOK
    <2>8. LossOK'
      <3> DEFINE L == acked \ Ids(lines)
                 M == acked' \ Ids(lines')
      <3>1. IsFiniteSet(L) /\ Cardinality(L) + Len(open) <= torn /\ Len(open) \in Nat
        BY <1>0 DEF LossOK, Shape
      <3>2. M \subseteq L
        BY <1>1, <2>3
      <3>3. Len(open') \in Nat /\ Len(open') <= 1
        BY <2>3 DEF Shape
      <3> HIDE DEF L
      <3>4. IsFiniteSet(M) /\ Cardinality(M) <= Cardinality(L) /\ Cardinality(L) \in Nat
        <4> HIDE DEF M
        <4> QED BY <3>1, <3>2, FS_Subset, FS_CardinalityType
      <3>5. Cardinality(M) \in Nat
        BY <3>4, FS_CardinalityType
      <3> HIDE DEF M
      <3>6. Cardinality(M) + Len(open') <= torn'
        BY <1>5, <2>6, <3>1, <3>3, <3>4, <3>5
      <3> QED BY <3>4, <3>6 DEF LossOK, M, Ids, Legible
    <2> QED BY <1>2, <2>4, <2>5, <2>7, <2>8 DEF RecoveryInv
  <1> QED BY <1>1, <1>4, <1>5

(* A step of the scan, but for what it does to the open turns. *)
LEMMA ScanStepKeeps ==
    ASSUME RecoveryInv, NEW from, NEW to \in {"results", "up"}, from # "up", ScanStep(from, to)
    PROVE  StateOK' /\ FileOK' /\ PendingOK' /\ LossOK'
  <1> DEFINE new == Repairs
  <1>0. StateOK /\ FileOK /\ PendingOK /\ WholeOK /\ LossOK /\ Shape
    BY DEF RecoveryInv, StateOK
  <1>1. /\ phase = from /\ WriteLines(new) /\ phase' = to
        /\ acked' = acked \cup {EventId(r) : r \in ToSet(new)}
        /\ pending' = pending /\ begun' = begun /\ passes' = passes /\ torn' = torn
    BY DEF ScanStep
  <1>2. Fits(new)
    BY <1>0, RepairsFit
  <1> HIDE DEF new
  <1>3. new \in Seq(Stored) /\ DOMAIN new = 1..Len(new) /\ \A k \in 1..Len(new) : new[k].kind # "garbled"
    BY <1>2 DEF Fits, NumberedFrom
  <1>4. /\ Shape' /\ Wrote(File', File, Len(lines), new)
        /\ Ids(lines) \subseteq Ids(lines')
        /\ IF new = <<>> THEN lines' = lines /\ open' = open ELSE open' = <<>>
        /\ \A k \in 1..Len(new) : EventId(new[k]) \in Ids(lines') \/ (k = 1 /\ open # <<>>)
    BY <1>0, <1>1, <1>3, WriteFacts
  <1>5. FileOK'
    BY <1>0, <1>1, <1>2, <1>4, FileKept
  <1>6. StateOK'
    BY <1>0, <1>1, <1>4 DEF StateOK
  <1>7. PendingOK'
    BY <1>0, <1>1, NothingRuns, IdleOK
  <1>8. LossOK'
    <2>1. \A e \in {EventId(r) : r \in ToSet(new)} :
             e \in Ids(lines') \/ (open # <<>> /\ new # <<>> /\ e = EventId(new[1]))
      <3> SUFFICES ASSUME NEW k \in 1..Len(new)
                   PROVE  \/ EventId(new[k]) \in Ids(lines')
                          \/ open # <<>> /\ new # <<>> /\ EventId(new[k]) = EventId(new[1])
        BY <1>3 DEF ToSet
      <3>1. new # <<>>
        BY <1>3
      <3>2. EventId(new[k]) \in Ids(lines') \/ (k = 1 /\ open # <<>>)
        BY <1>4
      <3> QED BY <3>1, <3>2
    <2>2. CASE open # <<>> /\ new # <<>>
      <3>1. acked' \ Ids(lines') \subseteq (acked \ Ids(lines)) \cup {EventId(new[1])}
        BY <1>1, <1>4, <2>1
      <3>2. open' = <<>>
        BY <1>4, <2>2
      <3> QED BY <1>0, <1>1, <2>2, <3>1, <3>2, LossKept
    <2>3. CASE ~(open # <<>> /\ new # <<>>)
      <3>1. acked' \ Ids(lines') \subseteq acked \ Ids(lines)
        BY <1>1, <1>4, <2>1, <2>3
      <3>2. open' = open \/ open' = <<>>
        BY <1>4
      <3> QED BY <1>0, <1>1, <3>1, <3>2, LossKept
    <2> QED BY <2>2, <2>3
  <1> QED BY <1>5, <1>6, <1>7, <1>8

(* On a file without a torn line the scan adds its records at the end. *)
LEMMA ScanWhole ==
    ASSUME RecoveryInv, NEW from, NEW to, ScanStep(from, to), torn = 0
    PROVE  /\ open = <<>> /\ File = lines /\ lines' = lines \o Repairs /\ open' = <<>>
           /\ Repairs \in Seq(Stored) /\ lines \in Seq(Stored)
           /\ Legible(lines) = DOMAIN lines
           /\ lines # <<>> => Listed
           /\ \A i \in DOMAIN lines' : lines'[i].kind # "garbled"
           /\ \A u : Closed(lines, u) => Closed(lines', u)
           /\ \A k \in 1..Len(Repairs) :
                 /\ Repairs[k].kind = "terminal" => Closed(lines', Repairs[k].turn)
                 /\ \E i \in DOMAIN lines : Repairs[k].turn = lines[i].turn
           /\ \A i \in DOMAIN lines' : \/ \E j \in DOMAIN lines : lines'[i] = lines[j]
                                       \/ \E k \in 1..Len(Repairs) : lines'[i] = Repairs[k]
  <1> DEFINE new == Repairs
  <1>0. StateOK /\ FileOK /\ WholeOK /\ Shape /\ lines \in Seq(Stored)
    BY DEF RecoveryInv, StateOK, Shape
  <1>1. WriteLines(new)
    BY DEF ScanStep
  <1>2. Fits(new) /\ OfFile(new)
    BY <1>0, RepairsFit
  <1>3. open = <<>> /\ \A i \in DOMAIN lines : lines[i].kind # "garbled"
    BY <1>0 DEF WholeOK
  <1>4. File = lines
    BY <1>0, <1>3 DEF File
  <1>5. Legible(lines) = DOMAIN lines
    BY <1>3 DEF Legible
  <1>6. lines # <<>> => Listed
    <2> SUFFICES ASSUME lines # <<>> PROVE Listed
      OBVIOUS
    <2>1. lines \o open = lines
      BY <1>4 DEF File
    <2>2. Head(lines) = lines[1] /\ 1 \in DOMAIN lines
      BY <1>0
    <2> QED BY <1>3, <2>1, <2>2 DEF Listed
  <1> HIDE DEF new
  <1>7. new \in Seq(Stored) /\ \A k \in 1..Len(new) : new[k].kind # "garbled"
    BY <1>2 DEF Fits, NumberedFrom
  <1>8. lines' = lines \o new /\ open' = <<>>
    BY <1>0, <1>1, <1>3, <1>7, WriteFacts
  <1>9. /\ \A u : Closed(lines, u) => Closed(lines', u)
        /\ \A k \in 1..Len(new) : new[k].kind = "terminal" => Closed(lines', new[k].turn)
        /\ \A i \in DOMAIN lines' : \/ \E j \in DOMAIN lines : lines'[i] = lines[j]
                                    \/ \E k \in 1..Len(new) : lines'[i] = new[k]
    <2>1. Grown(lines \o new, lines, new)
      BY <1>0, <1>7, ClosedGrows
    <2>2. Grown(lines', lines, new)
      BY <1>8, <2>1, Zenon
    <2> QED BY <2>2 DEF Grown
  <1>10. \A k \in 1..Len(new) : \E i \in DOMAIN lines : new[k].turn = lines[i].turn
    BY <1>2, <1>4, <1>5 DEF OfFile
  <1>11. \A i \in DOMAIN lines' : lines'[i].kind # "garbled"
    BY <1>3, <1>7, <1>9
  <1> QED BY <1>0, <1>3, <1>4, <1>5, <1>6, <1>7, <1>8, <1>9, <1>10, <1>11 DEF new

(* The first step of the scan closes every turn of a whole file. *)
LEMMA ScanTerminalsStep ==
    ASSUME RecoveryInv, ScanTerminals
    PROVE  RecoveryInv'
  <1>0. /\ phase = "terminals" /\ phase' = "results" /\ torn' = torn
        /\ ScanStep("terminals", "results") /\ WriteLines(Repairs)
    BY DEF ScanTerminals, ScanStep
  <1>1. StateOK' /\ FileOK' /\ PendingOK' /\ LossOK'
    BY <1>0, ScanStepKeeps
  <1>2. WholeOK'
    <2> SUFFICES ASSUME torn = 0
                 PROVE  /\ open' = <<>> /\ \A i \in DOMAIN lines' : lines'[i].kind # "garbled"
                        /\ \A i \in DOMAIN lines' : Closed(lines', lines'[i].turn)
      BY <1>0 DEF WholeOK, Closed
    <2> DEFINE new == Repairs
    <2>1. /\ File = lines /\ open' = <<>> /\ Legible(lines) = DOMAIN lines
          /\ \A i \in DOMAIN lines' : lines'[i].kind # "garbled"
          /\ lines # <<>> => Listed
          /\ \A u : Closed(lines, u) => Closed(lines', u)
          /\ \A k \in 1..Len(new) :
                /\ new[k].kind = "terminal" => Closed(lines', new[k].turn)
                /\ \E i \in DOMAIN lines : new[k].turn = lines[i].turn
          /\ \A i \in DOMAIN lines' : \/ \E j \in DOMAIN lines : lines'[i] = lines[j]
                                      \/ \E k \in 1..Len(new) : lines'[i] = new[k]
      BY <1>0, ScanWhole
    <2>2. StateOK /\ FileOK
      BY DEF RecoveryInv
    <2>3. Listed => \A i \in Legible(File) :
                       \/ Closed(File, File[i].turn)
                       \/ \E k \in 1..Len(new) : new[k].kind = "terminal" /\ new[k].turn = File[i].turn
      BY <1>0, <2>2, RepairsFit
    <2> HIDE DEF new
    <2>4. ASSUME NEW j \in DOMAIN lines PROVE Closed(lines', lines[j].turn)
      <3>1. Listed
        <4>1. lines # <<>>
          OBVIOUS
        <4> QED BY <2>1, <4>1
      <3>2. \/ Closed(lines, lines[j].turn)
            \/ \E k \in 1..Len(new) : new[k].kind = "terminal" /\ new[k].turn = lines[j].turn
        BY <2>1, <2>3, <3>1
      <3> QED BY <2>1, <3>2
    <2>5. ASSUME NEW k \in 1..Len(new) PROVE Closed(lines', new[k].turn)
      BY <2>1, <2>4
    <2> QED BY <2>1, <2>4, <2>5
  <1> QED BY <1>1, <1>2 DEF RecoveryInv

(* The second adds results to closed turns only. *)
LEMMA ScanResultsStep ==
    ASSUME RecoveryInv, ScanResults
    PROVE  RecoveryInv'
  <1>0. /\ phase = "results" /\ phase' = "up" /\ torn' = torn
        /\ ScanStep("results", "up")
    BY DEF ScanResults, ScanStep
  <1>1. StateOK' /\ FileOK' /\ PendingOK' /\ LossOK'
    BY <1>0, ScanStepKeeps
  <1>2. WholeOK'
    <2> SUFFICES ASSUME torn = 0
                 PROVE  /\ open' = <<>> /\ \A i \in DOMAIN lines' : lines'[i].kind # "garbled"
                        /\ \A i \in DOMAIN lines' : Closed(lines', lines'[i].turn)
      BY <1>0 DEF WholeOK, Closed
    <2> DEFINE new == Repairs
    <2>1. /\ open' = <<>>
          /\ \A i \in DOMAIN lines' : lines'[i].kind # "garbled"
          /\ \A u : Closed(lines, u) => Closed(lines', u)
          /\ \A k \in 1..Len(new) : \E i \in DOMAIN lines : new[k].turn = lines[i].turn
          /\ \A i \in DOMAIN lines' : \/ \E j \in DOMAIN lines : lines'[i] = lines[j]
                                      \/ \E k \in 1..Len(new) : lines'[i] = new[k]
      BY <1>0, ScanWhole
    <2> HIDE DEF new
    <2>2. \A i \in DOMAIN lines : Closed(lines, lines[i].turn)
      BY <1>0 DEF RecoveryInv, WholeOK
    <2>3. ASSUME NEW k \in 1..Len(new) PROVE Closed(lines', new[k].turn)
      BY <2>1, <2>2
    <2> QED BY <2>1, <2>2, <2>3
  <1> QED BY <1>1, <1>2 DEF RecoveryInv

(* A compaction: a turn is kept with its end or dropped with it. *)
LEMMA CompactStep ==
    ASSUME RecoveryInv, Compact
    PROVE  RecoveryInv'
  <1> DEFINE c == KeptRecords(Records, KeepRecent)
             w == Compacted(Records, KeepRecent, CompactionId(passes))
  <1>0. /\ StateOK /\ FileOK /\ PendingOK /\ WholeOK /\ LossOK /\ passes \in Nat
        /\ ClosedOnce(File) /\ CallsFirst(File) /\ OfBegun(File)
    BY DEF RecoveryInv, StateOK, FileOK
  <1>1. /\ phase = "up" /\ phase' = "up" /\ lines' = w /\ open' = <<>> /\ passes' = passes + 1
        /\ acked' = {e \in acked : e \in {EventId(r) : r \in ToSet(c)}}
        /\ pending' = pending /\ begun' = begun /\ torn' = torn
    BY DEF Compact
  <1>2. CompactionId(passes) \in TurnIds /\ IsCompaction(CompactionId(passes))
    BY <1>0 DEF TurnIds, CompactionId, IsCompaction
  <1>3. c \in Seq(Stored)
    <2>1. Records \in Seq(Stored)
      <3>1. File \in Seq(Stored) /\ Records = ReadAll(File)
        BY <1>0, FileIsSeq DEF StateOK, Records, File
      <3> QED BY <3>1, ReadFacts
    <2> QED BY <2>1, KeptFacts
  <1>4. PICK n, g : Rewrites(w, n, g, c)
    BY <1>0, <1>2, CompactedFacts
  <1> HIDE DEF c, w
  <1>5. /\ w \in Seq(Stored) /\ DOMAIN w = 1..Len(w) /\ n \in Nat
        /\ \A i \in 1..Len(w) : \/ w[i].kind = "summary" /\ IsCompaction(w[i].turn)
                                \/ \E k \in 1..Len(c) : i = n + k
        /\ \A k \in 1..Len(c) : n + k \in 1..Len(w) /\ w[n + k] = c[k]
        /\ \A k \in 1..Len(c) : g[k] \in Legible(File)
        /\ \A k, m \in 1..Len(c) : g[k] = g[m] => k = m
        /\ \A k \in 1..Len(c) : c[k] = File[g[k]] /\ c[k].kind \notin {"summary", "garbled"}
        /\ \A i \in Legible(File), k \in 1..Len(c) :
              File[i].kind # "summary" /\ File[i].turn = c[k].turn => \E m \in 1..Len(c) : g[m] = i
    BY <1>4 DEF Rewrites
  <1>6. /\ Legible(w) = DOMAIN w /\ \A i \in Legible(File) : i \in DOMAIN File
        /\ \A k \in 1..Len(c) : g[k] \in DOMAIN File
    <2>1. \A i \in Legible(File) : i \in DOMAIN File
      BY DEF Legible
    <2>2. ASSUME NEW i \in DOMAIN w PROVE w[i].kind # "garbled"
      <3>1. CASE w[i].kind = "summary"
        BY <3>1
      <3>2. ASSUME NEW k \in 1..Len(c), i = n + k PROVE w[i].kind # "garbled"
        <4>1. w[i] = c[k] /\ c[k].kind # "garbled"
          BY <1>5, <3>2
        <4> QED BY <4>1
      <3> QED BY <1>5, <3>1, <3>2
    <2>3. Legible(w) = DOMAIN w
      BY <2>2 DEF Legible
    <2> QED BY <1>5, <2>1, <2>3
  <1>7. ASSUME NEW i \in DOMAIN w, w[i].kind # "summary"
        PROVE  \E k \in 1..Len(c) : i = n + k /\ w[i] = File[g[k]]
    <2>1. PICK k \in 1..Len(c) : i = n + k
      BY <1>5, <1>7
    <2>2. w[i] = File[g[k]]
      BY <1>5, <2>1
    <2> QED BY <2>1, <2>2
  <1>8. File' = w
    BY <1>1, <1>5 DEF File
  <1>9. StateOK'
    <2>1. Shape'
      BY <1>1, <1>5 DEF Shape
    <2> QED BY <1>0, <1>1, <2>1 DEF StateOK
  <1>10. ClosedOnce(w)
    <2> SUFFICES ASSUME NEW i \in DOMAIN w, NEW j \in DOMAIN w, w[i].kind = "terminal",
                        w[j].kind = "terminal", w[i].turn = w[j].turn
                 PROVE  i = j
      BY DEF ClosedOnce
    <2>1. PICK k \in 1..Len(c) : i = n + k /\ w[i] = File[g[k]]
      BY <1>7
    <2>2. PICK m \in 1..Len(c) : j = n + m /\ w[j] = File[g[m]]
      BY <1>7
    <2>3. g[k] = g[m]
      BY <1>0, <1>6, <2>1, <2>2 DEF ClosedOnce
    <2>4. k = m
      BY <1>5, <2>3
    <2> QED BY <2>1, <2>2, <2>4
  <1>11. CallsFirst(w)
    <2> SUFFICES ASSUME NEW i \in DOMAIN w, NEW j \in DOMAIN w, w[i].kind = "call",
                        w[j].kind = "result", w[i].turn = w[j].turn, w[i].info = w[j].info
                 PROVE  w[i].seq < w[j].seq
      BY DEF CallsFirst
    <2>1. PICK k \in 1..Len(c) : i = n + k /\ w[i] = File[g[k]]
      BY <1>7
    <2>2. PICK m \in 1..Len(c) : j = n + m /\ w[j] = File[g[m]]
      BY <1>7
    <2>3. File[g[k]].seq < File[g[m]].seq
      BY <1>0, <1>6, <2>1, <2>2 DEF CallsFirst
    <2> QED BY <2>1, <2>2, <2>3
  <1>12. OfBegun(w)
    <2> SUFFICES ASSUME NEW i \in DOMAIN w
                 PROVE  IF IsCompaction(w[i].turn) THEN TRUE
                        ELSE w[i].turn \in begun /\ w[i].kind # "summary"
      BY <1>6 DEF OfBegun
    <2>1. CASE w[i].kind = "summary"
      BY <1>5, <2>1
    <2>2. ASSUME NEW k \in 1..Len(c), w[i] = File[g[k]], w[i].kind # "summary"
          PROVE  IsCompaction(w[i].turn) \/ w[i].turn \in begun
      BY <1>0, <1>5, <2>2 DEF OfBegun
    <2> QED BY <1>7, <2>1, <2>2
  <1>13. FileOK'
    <2>1. ClosedOnce(File') /\ CallsFirst(File') /\ OfBegun(File')
      BY <1>8, <1>10, <1>11, <1>12
    <2>2. ClosedOnce(File)' /\ CallsFirst(File)'
      BY <2>1 DEF ClosedOnce, CallsFirst
    <2>3. OfBegun(File)'
      <3> HIDE DEF File
      <3> QED BY <1>1, <2>1 DEF OfBegun, Legible
    <2> QED BY <2>2, <2>3 DEF FileOK
  <1>14. ASSUME NEW u, Closed(w, u) PROVE Closed(File, u)
    <2>1. PICK i \in DOMAIN w : w[i].kind = "terminal" /\ w[i].turn = u
      BY <1>14 DEF Closed
    <2>2. PICK k \in 1..Len(c) : w[i] = File[g[k]]
      BY <1>7, <2>1
    <2> QED BY <1>6, <2>1, <2>2 DEF Closed
  <1>15. PendingOK'
    <2> SUFFICES ASSUME NEW u \in UserTurns
                 PROVE  /\ pending[u] \in {<<>>} \cup Batches(u) \cup Rests(u)
                        /\ pending[u] # <<>> =>
                              /\ phase' = "up" /\ u \in begun' /\ ~Closed(w, u)
                              /\ \A i \in Legible(open') : open'[i].turn # u
                        /\ pending[u] \in Batches(u) => \A i \in Legible(w) : w[i].turn # u
      <3> HIDE DEF File
      <3> QED BY <1>1, <1>8 DEF PendingOK, Closed, Legible
    <2>1. \A i \in Legible(open') : FALSE
      BY <1>1 DEF Legible
    <2>2. ASSUME pending[u] \in Batches(u), NEW i \in Legible(w), w[i].turn = u PROVE FALSE
      <3>1. w[i].kind # "summary" /\ i \in DOMAIN w
        BY <1>5, <1>6, <2>2, UserTurnFacts
      <3>2. PICK k \in 1..Len(c) : w[i] = File[g[k]]
        BY <1>7, <3>1
      <3> QED BY <1>0, <1>5, <2>2, <3>2 DEF PendingOK
    <2> QED BY <1>0, <1>1, <1>14, <2>1, <2>2 DEF PendingOK
  <1>16. WholeOK'
    <2> SUFFICES ASSUME torn = 0
                 PROVE  /\ open' = <<>> /\ \A i \in DOMAIN w : w[i].kind # "garbled"
                        /\ \A i \in DOMAIN w :
                              \/ Closed(w, w[i].turn) \/ IsCompaction(w[i].turn)
                              \/ w[i].turn \in UserTurns /\ pending[w[i].turn] # <<>>
      BY <1>1 DEF WholeOK, Closed
    <2>1. \A i \in DOMAIN w : w[i].kind # "garbled"
      BY <1>6 DEF Legible
    <2>2. File = lines
      BY <1>0 DEF WholeOK, File, StateOK, Shape
    <2>3. \A i \in DOMAIN File :
             \/ Closed(File, File[i].turn) \/ IsCompaction(File[i].turn)
             \/ File[i].turn \in UserTurns /\ pending[File[i].turn] # <<>>
      BY <1>0, <1>1, <2>2 DEF WholeOK
    <2>4. ASSUME NEW i \in DOMAIN w
          PROVE  \/ Closed(w, w[i].turn) \/ IsCompaction(w[i].turn)
                 \/ w[i].turn \in UserTurns /\ pending[w[i].turn] # <<>>
      <3>1. CASE w[i].kind = "summary"
        BY <1>5, <3>1
      <3>2. CASE w[i].kind # "summary"
        <4>1. PICK k \in 1..Len(c) : i = n + k /\ w[i] = File[g[k]]
          BY <1>7, <3>2
        <4>2. ASSUME Closed(File, w[i].turn) PROVE Closed(w, w[i].turn)
          <5>1. PICK j \in DOMAIN File : File[j].kind = "terminal" /\ File[j].turn = w[i].turn
            BY <4>2 DEF Closed
          <5>2. j \in Legible(File) /\ File[j].kind # "summary" /\ File[j].turn = c[k].turn
            BY <1>5, <4>1, <5>1 DEF Legible
          <5>3. PICK m \in 1..Len(c) : g[m] = j
            BY <1>5, <5>2
          <5>4. n + m \in DOMAIN w /\ w[n + m] = File[j]
            BY <1>5, <5>3
          <5> QED BY <5>1, <5>4 DEF Closed
        <4> QED BY <1>6, <2>3, <4>1, <4>2
      <3> QED BY <3>1, <3>2
    <2> QED BY <1>1, <2>1, <2>4
  <1>17. LossOK'
    <2>1. ASSUME NEW e \in acked' PROVE e \in Ids(lines')
      <3>1. PICK r \in ToSet(c) : e = EventId(r)
        BY <1>1
      <3>2. PICK k \in 1..Len(c) : r = c[k]
        BY <1>3 DEF ToSet
      <3>3. n + k \in Legible(w) /\ w[n + k] = r
        BY <1>5, <1>6, <3>2
      <3> QED BY <1>1, <3>1, <3>3 DEF Ids
    <2>2. acked' \ Ids(lines') \subseteq acked \ Ids(lines)
      BY <2>1
    <2> QED BY <1>0, <1>1, <2>2, LossKept
  <1> QED BY <1>9, <1>13, <1>15, <1>16, <1>17 DEF RecoveryInv

(* The empty file. *)
LEMMA InitOK ==
    ASSUME Init
    PROVE  RecoveryInv
  <1>0. /\ lines = <<>> /\ open = <<>> /\ phase = "up" /\ pending = [t \in UserTurns |-> <<>>]
        /\ begun = {} /\ passes = 0 /\ torn = 0 /\ acked = {}
    BY DEF Init
  <1>1. File = <<>> /\ Legible(File) = {} /\ Legible(open) = {} /\ DOMAIN File = {}
    BY <1>0 DEF File, Legible
  <1>2. StateOK
    BY <1>0 DEF StateOK, Shape
  <1>3. FileOK
    BY <1>1 DEF FileOK, ClosedOnce, CallsFirst, OfBegun
  <1>4. PendingOK
    <2>1. \A t \in UserTurns : pending[t] = <<>> /\ <<>> \notin Batches(t)
      <3> TAKE t \in UserTurns
      <3>1. \A p \in Batches(t) : p # <<>>
        BY BatchFacts
      <3> QED BY <1>0, <3>1
    <2> QED BY <2>1 DEF PendingOK
  <1>5. WholeOK
    BY <1>0 DEF WholeOK
  <1>6. LossOK
    <2>1. acked \ Ids(lines) = {}
      BY <1>0
    <2>2. IsFiniteSet({}) /\ Cardinality({}) = 0
      BY FS_EmptySet
    <2>3. Len(open) = 0
      BY <1>0
    <2> QED BY <1>0, <2>1, <2>2, <2>3 DEF LossOK
  <1> QED BY <1>2, <1>3, <1>4, <1>5, <1>6 DEF RecoveryInv

(* Nothing happens. *)
LEMMA SameOK ==
    ASSUME RecoveryInv, UNCHANGED vars
    PROVE  RecoveryInv'
  <1>0. /\ lines' = lines /\ open' = open /\ phase' = phase /\ pending' = pending
        /\ begun' = begun /\ passes' = passes /\ torn' = torn /\ acked' = acked
    BY DEF vars
  <1>1. File' = File
    BY <1>0, FileSame
  <1>2. StateOK' /\ WholeOK'
    BY <1>0 DEF RecoveryInv, StateOK, Shape, WholeOK, Closed
  <1>3. FileOK'
    <2> HIDE DEF File
    <2> QED BY <1>0, <1>1 DEF RecoveryInv, FileOK, ClosedOnce, CallsFirst, OfBegun, Legible
  <1>4. PendingOK'
    <2> HIDE DEF File
    <2> QED BY <1>0, <1>1 DEF RecoveryInv, PendingOK, Closed, Legible
  <1>5. LossOK'
    BY <1>0, LossKept DEF RecoveryInv
  <1> QED BY <1>2, <1>3, <1>4, <1>5 DEF RecoveryInv

(* The invariant holds in every reachable state. *)
LEMMA RecoveryInvariant == Spec => []RecoveryInv
  <1>1. Init => RecoveryInv
    BY InitOK
  <1>2. RecoveryInv /\ [Next]_vars => RecoveryInv'
    BY StartTurnStep, WriteBatchStep, CompactStep, CrashStep, RestartStep, ScanTerminalsStep,
       ScanResultsStep, SameOK DEF Next
  <1> QED BY <1>1, <1>2, PTL DEF Spec

-----------------------------------------------------------------------------
(* The theorems about the session file.                                    *)

(* The records read are the lines that parse, each once. *)
LEMMA RecordPlaces ==
    ASSUME StateOK
    PROVE  /\ Records \in Seq(Stored) /\ DOMAIN Records = 1..Len(Records)
           /\ \E f : Arranged(Records, f, File, Legible(File), Seqs(File))
  <1>1. File \in Seq(Stored) /\ Records = ReadAll(File)
    BY FileIsSeq DEF StateOK, Records, File
  <1>2. \E f : Arranged(ReadAll(File), f, File, Legible(File), Seqs(File))
    BY <1>1, ReadArranged
  <1> QED BY <1>1, <1>2, SMTT(60) DEF Arranged

(* However turns, crashes, scans and compactions follow each other, a turn *)
(* never has two terminal records: neither its own last batch nor          *)
(* _create_synthetic_terminals closes a turn that is closed.               *)
THEOREM OneTerminalPerTurn == Spec => []TerminalUnique
  <1>1. ASSUME RecoveryInv PROVE TerminalUnique
    <2> SUFFICES ASSUME NEW t
                 PROVE  Cardinality({i \in DOMAIN Records :
                           Records[i].turn = t /\ Records[i].kind = "terminal"}) <= 1
      BY DEF TerminalUnique
    <2> DEFINE S == {i \in DOMAIN Records :
                        Records[i].turn = t /\ Records[i].kind = "terminal"}
    <2>1. StateOK /\ ClosedOnce(File)
      BY <1>1 DEF RecoveryInv, FileOK
    <2>2. DOMAIN Records = 1..Len(Records)
          /\ \E f : Arranged(Records, f, File, Legible(File), Seqs(File))
      BY <2>1, RecordPlaces
    <2>3. PICK f : Arranged(Records, f, File, Legible(File), Seqs(File))
      BY <2>2
    <2>4. /\ Len(Records) \in Nat
          /\ \A k \in 1..Len(Records) : f[k] \in Legible(File) /\ Records[k] = File[f[k]]
          /\ \A k, m \in 1..Len(Records) : k < m => f[k] # f[m]
      BY <2>3 DEF Arranged
    <2>5. ASSUME NEW i \in S, NEW j \in S PROVE i = j
      <3>1. /\ i \in 1..Len(Records) /\ Records[i].turn = t /\ Records[i].kind = "terminal"
            /\ j \in 1..Len(Records) /\ Records[j].turn = t /\ Records[j].kind = "terminal"
        BY <2>2, <2>5
      <3>2. f[i] \in DOMAIN File /\ f[j] \in DOMAIN File
        BY <2>4, <3>1 DEF Legible
      <3>3. f[i] = f[j]
        BY <2>1, <2>4, <3>1, <3>2 DEF ClosedOnce
      <3>4. ~(i < j) /\ ~(j < i)
        BY <2>4, <3>1, <3>3
      <3> QED BY <3>1, <3>4
    <2> HIDE DEF S
    <2>6. CASE S = {}
      BY <2>6, FS_EmptySet DEF S
    <2>7. ASSUME NEW x \in S PROVE Cardinality(S) <= 1
      <3>1. S = {x}
        BY <2>5, <2>7
      <3>2. Cardinality({x}) = 1
        BY FS_Singleton
      <3> QED BY <3>1, <3>2
    <2> QED BY <2>6, <2>7 DEF S
  <1> QED BY RecoveryInvariant, <1>1, PTL

(* Unless a crash tore a write, the first step of the startup scan leaves  *)
(* every turn of the file complete, and from then on only a running turn   *)
(* or a compaction summary is incomplete.                                  *)
THEOREM ScanLeavesNoOpenTurn == Spec => []ScanCompletesTurns
  <1>1. ASSUME RecoveryInv PROVE ScanCompletesTurns
    <2> SUFFICES ASSUME torn = 0
                 PROVE  /\ phase = "results" => IncompleteTurns(Records) = {}
                        /\ phase = "up" =>
                              \A t \in IncompleteTurns(Records) : t \in Running \/ IsCompaction(t)
      BY DEF ScanCompletesTurns
    <2>1. StateOK /\ WholeOK /\ Shape
      BY <1>1 DEF RecoveryInv, StateOK
    <2>2. File \in Seq(Stored) /\ Records = ReadAll(File)
      BY <2>1, FileIsSeq DEF Records, File
    <2>3. open = <<>> /\ File = lines
      BY <2>1 DEF WholeOK, File, Shape
    <2>4. IncompleteTurns(Records) = {t \in {File[i].turn : i \in Legible(File)} : ~Closed(File, t)}
      BY <2>2, ReadTurns DEF IncompleteTurns
    <2>5. \A t \in IncompleteTurns(Records) :
             ~Closed(lines, t) /\ \E i \in DOMAIN lines : lines[i].turn = t
      BY <2>3, <2>4 DEF Legible
    <2> HIDE DEF File
    <2>6. ASSUME phase = "results" PROVE IncompleteTurns(Records) = {}
      BY <2>1, <2>5, <2>6 DEF WholeOK
    <2>7. ASSUME phase = "up", NEW t \in IncompleteTurns(Records)
          PROVE  t \in Running \/ IsCompaction(t)
      BY <2>1, <2>5, <2>7 DEF WholeOK, Running
    <2> QED BY <2>6, <2>7
  <1> QED BY RecoveryInvariant, <1>1, PTL

(* A crash between writes costs no record whose append returned, a torn    *)
(* write at most one: the record that comes to share its line.             *)
THEOREM TornWriteLosesOne == Spec => []LossBounded
  <1>1. ASSUME RecoveryInv PROVE LossBounded
    <2> DEFINE known == {EventId(r) : r \in ToSet(Records)}
               L == acked \ Ids(lines)
               M == acked \ known
    <2>1. StateOK /\ LossOK /\ Shape /\ torn \in Nat
      BY <1>1 DEF RecoveryInv, StateOK
    <2>2. File \in Seq(Stored) /\ Records = ReadAll(File)
      BY <2>1, FileIsSeq DEF Records, File
    <2>3. ToSet(Records) = {File[i] : i \in Legible(File)}
      BY <2>2, ReadFacts
    <2>4. known = Ids(File)
      BY <2>3 DEF Ids
    <2>5. Ids(lines) \subseteq Ids(File)
      BY <2>1, IdsOfFile
    <2>6. M \subseteq L
      BY <2>4, <2>5
    <2>7. IsFiniteSet(L) /\ Cardinality(L) + Len(open) <= torn /\ Len(open) \in Nat
      BY <2>1 DEF LossOK, Shape
    <2> HIDE DEF L, M
    <2>8. /\ IsFiniteSet(M) /\ Cardinality(M) <= Cardinality(L) /\ Cardinality(L) \in Nat
      BY <2>6, <2>7, FS_Subset, FS_CardinalityType
    <2>9. Cardinality(M) \in Nat
      BY <2>8, FS_CardinalityType
    <2>10. Cardinality(M) <= torn
      BY <2>1, <2>7, <2>8, <2>9
    <2> QED BY <2>10 DEF LossBounded, M
  <1> QED BY RecoveryInvariant, <1>1, PTL

(* In the records read a call comes before its result. *)
LEMMA CallsReadFirst ==
    ASSUME StateOK, CallsFirst(File), NEW i \in DOMAIN Records, NEW j \in DOMAIN Records,
           Records[i].kind = "call", Records[j].kind = "result",
           Records[i].turn = Records[j].turn, Records[i].info = Records[j].info
    PROVE  i < j
  <1>1. DOMAIN Records = 1..Len(Records) /\ File \in Seq(Stored)
        /\ \E f : Arranged(Records, f, File, Legible(File), Seqs(File))
    BY RecordPlaces, FileIsSeq DEF StateOK
  <1>2. PICK f : Arranged(Records, f, File, Legible(File), Seqs(File))
    BY <1>1
  <1>3. /\ Len(Records) \in Nat
        /\ \A k \in 1..Len(Records) : f[k] \in Legible(File) /\ Records[k] = File[f[k]]
        /\ \A k, m \in 1..Len(Records) :
              k < m => Seqs(File)[f[k]] < Seqs(File)[f[m]] \/ Seqs(File)[f[k]] = Seqs(File)[f[m]]
    BY <1>2, ZenonT(100) DEF Arranged
  <1>4. \A p \in Legible(File) : /\ Seqs(File)[p] = File[p].seq /\ p \in DOMAIN File
                                 /\ File[p].seq \in Nat
    <2>1. \A p \in Legible(File) : Seqs(File)[p] = File[p].seq /\ p \in DOMAIN File
      BY DEF Seqs, Legible
    <2>2. \A p \in DOMAIN File : File[p] \in Stored
      BY <1>1
    <2> QED BY <2>1, <2>2 DEF Stored
  <1>5. File[f[i]].seq < File[f[j]].seq
    BY <1>1, <1>3, <1>4, ZenonT(100) DEF CallsFirst
  <1>6. ~(j < i)
    BY <1>1, <1>3, <1>4, <1>5, SMTT(60)
  <1>7. i # j
    OBVIOUS
  <1> QED BY <1>1, <1>3, <1>6, <1>7

(* The places replayed hold calls and results by pairs, ... *)
InPairs(r, S) ==
    /\ \A i \in S : r[i].kind = "call" =>
          \E j \in S : r[j].kind = "result" /\ r[j].turn = r[i].turn /\ r[j].info = r[i].info
    /\ \A i \in S : r[i].kind = "result" =>
          \E j \in S : r[j].kind = "call" /\ r[j].turn = r[i].turn /\ r[j].info = r[i].info

(* FilterTurnRecords leaves calls and results only by pairs. *)
LEMMA FilterInPairs ==
    ASSUME NEW r, NEW some, NEW S, S = UNION {FilterTurnRecords(r, t) : t \in some}
    PROVE  InPairs(r, S) /\ \A i \in S : i \in DOMAIN r /\ r[i].kind # "summary"
  <1>1. \A t : \A i \in FilterTurnRecords(r, t) :
           /\ i \in DOMAIN r /\ r[i].turn = t /\ r[i].kind \in {"user", "asst", "call", "result"}
           /\ r[i].kind \in {"call", "result"} =>
                 /\ \E j \in ModelRecords(r, t) : r[j].kind = "call" /\ r[j].info = r[i].info
                 /\ \E j \in ModelRecords(r, t) : r[j].kind = "result" /\ r[j].info = r[i].info
    BY DEF FilterTurnRecords, ModelRecords
  <1>2. ASSUME NEW t, NEW i \in FilterTurnRecords(r, t), r[i].kind \in {"call", "result"},
               NEW j \in ModelRecords(r, t), r[j].info = r[i].info
        PROVE  j \in FilterTurnRecords(r, t)
    BY <1>2 DEF FilterTurnRecords
  <1>3. \A t : \A j \in ModelRecords(r, t) : r[j].turn = t
    BY DEF ModelRecords
  <1>4. \A i \in S : \E t \in some : i \in FilterTurnRecords(r, t)
    OBVIOUS
  <1>5. \A t \in some : \A i \in FilterTurnRecords(r, t) : i \in S
    OBVIOUS
  <1>6. ASSUME NEW i \in S, r[i].kind = "call"
        PROVE  \E j \in S : r[j].kind = "result" /\ r[j].turn = r[i].turn /\ r[j].info = r[i].info
    <2>1. PICK t \in some : i \in FilterTurnRecords(r, t)
      BY <1>4
    <2>2. PICK j \in ModelRecords(r, t) : r[j].kind = "result" /\ r[j].info = r[i].info
      BY <1>1, <1>6, <2>1
    <2>3. j \in FilterTurnRecords(r, t)
      BY <1>2, <1>6, <2>1, <2>2
    <2> QED BY <1>1, <1>5, <2>1, <2>2, <2>3
  <1>7. ASSUME NEW i \in S, r[i].kind = "result"
        PROVE  \E j \in S : r[j].kind = "call" /\ r[j].turn = r[i].turn /\ r[j].info = r[i].info
    <2>1. PICK t \in some : i \in FilterTurnRecords(r, t)
      BY <1>4
    <2>2. PICK j \in ModelRecords(r, t) : r[j].kind = "call" /\ r[j].info = r[i].info
      BY <1>1, <1>7, <2>1
    <2>3. j \in FilterTurnRecords(r, t)
      BY <1>2, <1>7, <2>1, <2>2
    <2> QED BY <1>1, <1>5, <2>1, <2>2, <2>3
  <1>8. \A i \in S : i \in DOMAIN r /\ r[i].kind # "summary"
    BY <1>1, <1>4
  <1> QED BY <1>6, <1>7, <1>8 DEF InPairs

(* ... and ByTurn keeps the order of a turn's records. *)
Matched(c) ==
    /\ \A k \in 1..Len(c) : c[k].kind = "call" =>
          \E m \in 1..Len(c) : /\ k < m /\ c[m].kind = "result"
                               /\ c[m].turn = c[k].turn /\ c[m].info = c[k].info
    /\ \A k \in 1..Len(c) : c[k].kind = "result" =>
          \E m \in 1..Len(c) : /\ m < k /\ c[m].kind = "call"
                               /\ c[m].turn = c[k].turn /\ c[m].info = c[k].info

(* So in the history a call comes before its result and has one. *)
LEMMA ByTurnMatched ==
    ASSUME NEW r \in Seq(Stored), NEW S, S \subseteq DOMAIN r, InPairs(r, S), NEW c, c = ByTurn(r, S),
           \A i, j \in S : /\ r[i].kind = "call" /\ r[j].kind = "result"
                           /\ r[i].turn = r[j].turn /\ r[i].info = r[j].info
                           => i < j
    PROVE  c \in Seq(Stored) /\ Matched(c)
  <1>1. PICK h : Arranged(c, h, r, S, Start(r, S))
    BY ByTurnArranged
  <1>2. /\ c \in Seq(Stored) /\ Len(c) \in Nat
        /\ \A k \in 1..Len(c) : h[k] \in S /\ c[k] = r[h[k]]
        /\ \A k, m \in 1..Len(c) : k < m =>
              \/ Start(r, S)[h[k]] < Start(r, S)[h[m]]
              \/ Start(r, S)[h[k]] = Start(r, S)[h[m]] /\ h[k] < h[m]
        /\ \A i \in S : \E k \in 1..Len(c) : h[k] = i
    BY <1>1 DEF Arranged
  <1>3. \A i \in S : Start(r, S)[i] = Begins(r, r[i].turn) /\ Start(r, S)[i] \in Nat /\ i \in Nat
    <2> TAKE i \in S
    <2>1. i \in DOMAIN r
      OBVIOUS
    <2>2. Begins(r, r[i].turn) \in 1..Len(r)
      BY <2>1, BeginsFacts
    <2> QED BY <2>1, <2>2 DEF Start
  <1>4. ASSUME NEW k \in 1..Len(c), NEW m \in 1..Len(c), h[k] < h[m], c[k].turn = c[m].turn
        PROVE  k < m
    <2>1. Start(r, S)[h[k]] = Start(r, S)[h[m]]
      <3>1. h[k] \in S /\ h[m] \in S /\ c[k] = r[h[k]] /\ c[m] = r[h[m]]
        BY <1>2
      <3>2. r[h[k]].turn = r[h[m]].turn
        BY <1>4, <3>1
      <3>3. /\ Start(r, S)[h[k]] = Begins(r, r[h[k]].turn)
            /\ Start(r, S)[h[m]] = Begins(r, r[h[m]].turn)
        BY <1>3, <3>1
      <3> QED BY <3>2, <3>3, Zenon
    <2>2. h[k] \in Nat /\ h[m] \in Nat /\ Start(r, S)[h[k]] \in Nat
      BY <1>2, <1>3
    <2>3. ~(m < k) /\ k # m
      BY <1>2, <1>4, <2>1, <2>2, SMTT(60)
    <2> QED BY <1>2, <2>3
  <1>5. ASSUME NEW k \in 1..Len(c), c[k].kind = "call"
        PROVE  \E m \in 1..Len(c) : /\ k < m /\ c[m].kind = "result"
                                    /\ c[m].turn = c[k].turn /\ c[m].info = c[k].info
    <2>0. h[k] \in S /\ r[h[k]].kind = "call"
      BY <1>2, <1>5
    <2>1. PICK j \in S : /\ r[j].kind = "result" /\ r[j].turn = r[h[k]].turn
                         /\ r[j].info = r[h[k]].info
      BY <2>0 DEF InPairs
    <2>2. PICK m \in 1..Len(c) : h[m] = j
      BY <1>2
    <2>3. h[k] < h[m]
      BY <2>0, <2>1, <2>2
    <2>4. c[m] = r[j] /\ c[k] = r[h[k]]
      BY <1>2, <2>2
    <2>5. k < m
      BY <1>4, <2>1, <2>3, <2>4
    <2> QED BY <2>1, <2>4, <2>5
  <1>6. ASSUME NEW k \in 1..Len(c), c[k].kind = "result"
        PROVE  \E m \in 1..Len(c) : /\ m < k /\ c[m].kind = "call"
                                    /\ c[m].turn = c[k].turn /\ c[m].info = c[k].info
    <2>0. h[k] \in S /\ r[h[k]].kind = "result"
      BY <1>2, <1>6
    <2>1. PICK j \in S : /\ r[j].kind = "call" /\ r[j].turn = r[h[k]].turn
                         /\ r[j].info = r[h[k]].info
      BY <2>0 DEF InPairs
    <2>2. PICK m \in 1..Len(c) : h[m] = j
      BY <1>2
    <2>3. h[m] < h[k]
      BY <2>0, <2>1, <2>2
    <2>4. c[m] = r[j] /\ c[k] = r[h[k]]
      BY <1>2, <2>2
    <2>5. m < k
      BY <1>4, <2>1, <2>3, <2>4
    <2> QED BY <2>1, <2>4, <2>5
  <1> QED BY <1>2, <1>5, <1>6 DEF Matched

(* A function on 1..n is a sequence of n elements. *)
LEMMA SeqOfFunction ==
    ASSUME NEW n \in Nat, NEW s \in [1..n -> Stored]
    PROVE  s \in Seq(Stored) /\ Len(s) = n
  OBVIOUS

(* The summaries that fit the budget. *)
LEMMA ShownFacts ==
    ASSUME NEW r \in Seq(Stored), NEW P, P = {i \in DOMAIN r : r[i].kind = "summary"},
           NEW n \in Nat, n <= Len(At(r, P)), NEW shown, shown = SubSeq(At(r, P), 1, n)
    PROVE  shown \in Seq(Stored) /\ \A k \in 1..Len(shown) : shown[k].kind = "summary"
  <1> DEFINE sums == At(r, P)
  <1>1. P \subseteq DOMAIN r /\ \A i \in P : r[i].kind = "summary"
    OBVIOUS
  <1> HIDE DEF sums
  <1>2. PICK f : Arranged(sums, f, r, P, [i \in P |-> 0])
    BY <1>1, AtArranged DEF sums
  <1>3. sums \in Seq(Stored) /\ Len(sums) \in Nat /\ \A k \in 1..Len(sums) : sums[k].kind = "summary"
    BY <1>1, <1>2, SMTT(60) DEF Arranged
  <1>4. n <= Len(sums) /\ shown = SubSeq(sums, 1, n)
    BY DEF sums
  <1>5. shown = [k \in 1..n |-> sums[k]]
    BY <1>3, <1>4
  <1>6. \A k \in 1..n : k \in 1..Len(sums) /\ sums[k] \in Stored
    BY <1>3, <1>4
  <1>7. shown \in [1..n -> Stored]
    BY <1>5, <1>6
  <1>8. shown \in Seq(Stored) /\ Len(shown) = n
    BY <1>7, SeqOfFunction
  <1> QED BY <1>3, <1>5, <1>6, <1>8

(* Whatever a crash, a cancellation or the scan left in the file, the      *)
(* history build_replay hands to the model has no open tool call, no       *)
(* result without its call and no result before its call.                  *)
THEOREM ReplayHasNoOpenCall == Spec => []ReplayClosed
  <1>1. ASSUME RecoveryInv PROVE ReplayClosed
    <2> DEFINE P == {i \in DOMAIN Records : Records[i].kind = "summary"}
               sums == At(Records, P)
               n == IF Len(sums) < Budget THEN Len(sums) ELSE Budget
               shown == SubSeq(sums, 1, n)
               turns == CollectCompleteTurns(Records)
               Slots(some) == UNION {FilterTurnRecords(Records, t) : t \in some}
               From(t) == {u \in turns : Begins(Records, u) >= Begins(Records, t)}
               fitting == {t \in turns : Cardinality(Slots(From(t))) <= Budget - Len(shown)}
               S == Slots(fitting)
               chat == ByTurn(Records, S)
               replay == BuildReplay(Records, Budget)
    <2>1. StateOK /\ CallsFirst(File) /\ Records \in Seq(Stored)
      BY <1>1, RecordPlaces DEF RecoveryInv, FileOK
    <2>2. replay = shown \o chat
      BY DEF BuildReplay, Where
    <2>3. InPairs(Records, S) /\ \A i \in S : i \in DOMAIN Records /\ Records[i].kind # "summary"
      <3> HIDE DEF fitting
      <3> QED BY FilterInPairs
    <2> HIDE DEF S
    <2>4. \A i, j \in S : /\ Records[i].kind = "call" /\ Records[j].kind = "result"
                          /\ Records[i].turn = Records[j].turn /\ Records[i].info = Records[j].info
                          => i < j
      BY <2>1, <2>3, CallsReadFirst
    <2>5. chat \in Seq(Stored) /\ Matched(chat)
      <3>1. S \subseteq DOMAIN Records
        BY <2>3
      <3> HIDE DEF Records
      <3> QED BY <2>1, <2>3, <2>4, <3>1, ByTurnMatched
    <2>6. /\ shown \in Seq(Stored) /\ \A k \in 1..Len(shown) : shown[k].kind = "summary"
      <3>1. Len(sums) \in Nat /\ Budget \in Nat
        <4>1. PICK f : Arranged(sums, f, Records, P, [i \in P |-> 0])
          <5>1. P \subseteq DOMAIN Records
            OBVIOUS
          <5> HIDE DEF P
          <5> QED BY <2>1, <5>1, AtArranged
        <4> QED BY <4>1, RecoveryAssumption DEF Arranged
      <3>2. n \in Nat /\ n <= Len(sums)
        <4> HIDE DEF sums
        <4> QED BY <3>1
      <3> HIDE DEF n
      <3> QED BY <2>1, <3>2, ShownFacts, ZenonT(100)
    <2> HIDE DEF shown, chat, replay
    <2> DEFINE a == Len(shown)
               b == Len(chat)
    <2>7. /\ a \in Nat /\ b \in Nat /\ Len(replay) = a + b /\ DOMAIN replay = 1..a + b
          /\ \A i \in 1..a : replay[i] = shown[i]
          /\ \A k \in 1..b : a + k \in 1..a + b /\ replay[a + k] = chat[k]
          /\ \A i \in 1..a + b : i \in 1..a \/ \E k \in 1..b : i = a + k
      <3>1. /\ Len(shown \o chat) = a + b
            /\ DOMAIN (shown \o chat) = 1..a + b
            /\ \A i \in 1..a : (shown \o chat)[i] = shown[i]
            /\ \A k \in 1..b : a + k \in 1..a + b /\ (shown \o chat)[a + k] = chat[k]
            /\ \A i \in 1..a + b : i \in 1..a \/ \E k \in 1..b : i = a + k
        BY <2>5, <2>6, Joined
      <3>2. a \in Nat /\ b \in Nat
        BY <2>5, <2>6
      <3> HIDE DEF a, b
      <3> QED BY <2>2, <3>1, <3>2
    <2> HIDE DEF a, b
    <2> DEFINE Pairs(i, j) == /\ replay[i].kind = "call" /\ replay[j].kind = "result"
                              /\ replay[i].turn = replay[j].turn
                              /\ replay[i].info = replay[j].info
    <2>8. ASSUME NEW i \in DOMAIN replay
          PROVE  /\ replay[i].kind = "call" => \E j \in i + 1..Len(replay) : Pairs(i, j)
                 /\ replay[i].kind = "result" => \E j \in 1..i - 1 : Pairs(j, i)
      <3>1. CASE i \in 1..a
        <4>1. replay[i].kind = "summary"
          BY <2>6, <2>7, <3>1 DEF a
        <4> QED BY <4>1
      <3>2. ASSUME NEW k \in 1..b, i = a + k, replay[i].kind = "call"
            PROVE  \E j \in i + 1..Len(replay) : Pairs(i, j)
        <4>1. replay[i] = chat[k] /\ chat[k].kind = "call"
          BY <2>7, <3>2
        <4>2. PICK m \in 1..b : /\ k < m /\ chat[m].kind = "result"
                                /\ chat[m].turn = chat[k].turn /\ chat[m].info = chat[k].info
          BY <2>5, <3>2, <4>1 DEF Matched, b
        <4>3. replay[a + m] = chat[m]
          BY <2>7
        <4>4. a + m \in i + 1..Len(replay)
          BY <2>7, <3>2, <4>2
        <4>5. Pairs(i, a + m)
          BY <4>1, <4>2, <4>3
        <4> QED BY <4>4, <4>5
      <3>3. ASSUME NEW k \in 1..b, i = a + k, replay[i].kind = "result"
            PROVE  \E j \in 1..i - 1 : Pairs(j, i)
        <4>1. replay[i] = chat[k] /\ chat[k].kind = "result"
          BY <2>7, <3>3
        <4>2. PICK m \in 1..b : /\ m < k /\ chat[m].kind = "call"
                                /\ chat[m].turn = chat[k].turn /\ chat[m].info = chat[k].info
          BY <2>5, <3>3, <4>1 DEF Matched, b
        <4>3. replay[a + m] = chat[m]
          BY <2>7
        <4>4. a + m \in 1..i - 1
          BY <2>7, <3>3, <4>2
        <4>5. Pairs(a + m, i)
          BY <4>1, <4>2, <4>3
        <4> QED BY <4>4, <4>5
      <3>4. i \in 1..a \/ \E k \in 1..b : i = a + k
        BY <2>7, <2>8
      <3> HIDE DEF Pairs
      <3> QED BY <3>1, <3>2, <3>3, <3>4
    <2> QED BY <2>8 DEF ReplayClosed, replay, Pairs
  <1> QED BY RecoveryInvariant, <1>1, PTL

-----------------------------------------------------------------------------
(* The lease locks.  The assumptions LockCoordinator makes of its          *)
(* constants are a hypothesis of each theorem.                             *)

CONSTANTS Owners, Owner, NoOwner, TTL

VARIABLE locks

Locks == INSTANCE LockCoordinator

LockConstants ==
    /\ Owner \in [Clients -> Owners] /\ NoOwner \notin Owners
    /\ TTL \in Nat \ {0}

USE DEF Locks!LockRecord, Locks!NoLock, Locks!Exists, Locks!IsExpired, Locks!Decrement

(* The lock files and the leases keep their shape in every step. *)
LEMMA LocksTypeStep == LockConstants /\ Locks!TypeOK /\ [Locks!Next]_(Locks!vars) => Locks!TypeOK'
<1> SUFFICES ASSUME LockConstants, Locks!TypeOK, [Locks!Next]_(Locks!vars) PROVE Locks!TypeOK'
  OBVIOUS
<1> USE DEF LockConstants, Locks!TypeOK
<1>1. ASSUME NEW c \in Clients, NEW k \in Keys, Locks!Acquire(c, k) PROVE Locks!TypeOK'
  BY <1>1 DEF Locks!Acquire, Locks!WriteLease
<1>2. ASSUME NEW c \in Clients, NEW k \in Keys, Locks!Release(c, k) PROVE Locks!TypeOK'
  BY <1>2 DEF Locks!Release
<1>3. ASSUME NEW c \in Clients, NEW k \in Keys, Locks!Refresh(c, k) PROVE Locks!TypeOK'
  BY <1>3 DEF Locks!Refresh, Locks!WriteLease
<1>4. ASSUME NEW k \in Keys, Locks!ForceReleaseLock(k) PROVE Locks!TypeOK'
  BY <1>4 DEF Locks!ForceReleaseLock
<1>5. CASE Locks!CleanupExpiredLocks
  BY <1>5 DEF Locks!CleanupExpiredLocks
<1>6. CASE Locks!Tick
  <2>1. \A n \in 0..TTL : Locks!Decrement(n) \in 0..TTL
    OBVIOUS
  <2>2. \A k \in Keys : [locks[k] EXCEPT !.left = Locks!Decrement(@)] \in Locks!LockRecord
    BY <2>1
  <2>3. locks' \in [Keys -> Locks!LockRecord]
    BY <1>6, <2>2 DEF Locks!Tick
  <2>4. lease' \in [Clients -> [Keys -> 0..TTL]]
    BY <1>6, <2>1 DEF Locks!Tick
  <2>5. QED
    BY <1>6, <2>3, <2>4 DEF Locks!Tick
<1>7. CASE Locks!Restart
  BY <1>7 DEF Locks!Restart
<1>8. CASE UNCHANGED Locks!vars
  BY <1>8 DEF Locks!vars
<1>9. QED
  BY <1>1, <1>2, <1>3, <1>4, <1>5, <1>6, <1>7, <1>8 DEF Locks!Next

(* Every lock file and every lease of every reachable state has its type. *)
THEOREM TypeCorrect ==
    ASSUME LockConstants
    PROVE  Locks!Spec => []Locks!TypeOK
<1>1. Locks!Init => Locks!TypeOK
  BY DEF LockConstants, Locks!Init, Locks!TypeOK
<1>2. QED
  BY <1>1, LocksTypeStep, PTL DEF Locks!Spec

-----------------------------------------------------------------------------
(* When no two clients share an owner id, a running lease stays backed by  *)
(* the lock file: acquire is refused to the others until it has expired,   *)
(* a late release or refresh of a former holder does not touch the file,   *)
(* and the cleanup only deletes files whose time, and so whose lease, is   *)
(* over.                                                                   *)
LEMMA LeaseBackedStep ==
    ASSUME LockConstants, \A c, d \in Clients : Owner[c] = Owner[d] => c = d,
           Locks!IInv, [Locks!Next]_(Locks!vars)
    PROVE  Locks!LeaseBacked'
<1> USE DEF LockConstants, Locks!TypeOK, Locks!IInv, Locks!LeaseBacked, Locks!Holds
<1>1. ASSUME NEW c \in Clients, NEW k \in Keys, Locks!Acquire(c, k) PROVE Locks!LeaseBacked'
  <2> SUFFICES ASSUME NEW d \in Clients, NEW j \in Keys, Locks!Holds(d, j)'
               PROVE  locks'[j].owner = Owner[d] /\ locks'[j].left >= lease'[d][j]
    BY DEF Locks!LeaseBacked
  <2>1. CASE j # k
    BY <1>1, <2>1 DEF Locks!Acquire, Locks!WriteLease
  <2>2. CASE j = k /\ d = c
    BY <1>1, <2>2 DEF Locks!Acquire, Locks!WriteLease
  <2>3. CASE j = k /\ d # c
    \* d would have to hold k already, so the file names d and has not expired
    <3>1. Locks!Holds(d, k) /\ lease[d][k] \in 0..TTL /\ locks[k].left \in 0..TTL
      BY <1>1, <2>3 DEF Locks!Acquire, Locks!WriteLease
    <3>2. locks[k].owner = Owner[d] /\ locks[k].left > 0
      BY <3>1
    <3>3. Owner[d] # NoOwner /\ Owner[d] # Owner[c]
      BY <2>3
    <3>4. QED
      BY <1>1, <3>2, <3>3 DEF Locks!Acquire
  <2>4. QED
    BY <2>1, <2>2, <2>3
<1>2. ASSUME NEW c \in Clients, NEW k \in Keys, Locks!Release(c, k) PROVE Locks!LeaseBacked'
  BY <1>2 DEF Locks!Release
<1>3. ASSUME NEW c \in Clients, NEW k \in Keys, Locks!Refresh(c, k) PROVE Locks!LeaseBacked'
  <2> SUFFICES ASSUME NEW d \in Clients, NEW j \in Keys, Locks!Holds(d, j)'
               PROVE  locks'[j].owner = Owner[d] /\ locks'[j].left >= lease'[d][j]
    BY DEF Locks!LeaseBacked
  <2>1. CASE j # k
    BY <1>3, <2>1 DEF Locks!Refresh, Locks!WriteLease
  <2>2. CASE j = k /\ d = c
    BY <1>3, <2>2 DEF Locks!Refresh, Locks!WriteLease
  <2>3. CASE j = k /\ d # c
    <3>1. Locks!Holds(d, k)
      BY <1>3, <2>3 DEF Locks!Refresh, Locks!WriteLease
    <3>2. QED
      BY <1>3, <2>3, <3>1 DEF Locks!Refresh
  <2>4. QED
    BY <2>1, <2>2, <2>3
<1>4. ASSUME NEW k \in Keys, Locks!ForceReleaseLock(k) PROVE Locks!LeaseBacked'
  BY <1>4 DEF Locks!ForceReleaseLock
<1>5. CASE Locks!CleanupExpiredLocks
  BY <1>5 DEF Locks!CleanupExpiredLocks
<1>6. CASE Locks!Tick
  BY <1>6 DEF Locks!Tick
<1>7. CASE Locks!Restart
  BY <1>7 DEF Locks!Restart
<1>8. CASE UNCHANGED Locks!vars
  BY <1>8 DEF Locks!vars
<1>9. QED
  BY <1>1, <1>2, <1>3, <1>4, <1>5, <1>6, <1>7, <1>8 DEF Locks!Next

(* Two running leases on one key are backed by one file, so they belong to *)
(* one owner id, and with distinct owner ids to one client.                *)
LEMMA BackedExcludes ==
    ASSUME LockConstants, \A c, d \in Clients : Owner[c] = Owner[d] => c = d, Locks!LeaseBacked
    PROVE  MutualExclusion
BY DEF Locks!LeaseBacked, MutualExclusion, Locks!Holds, Holds

(* Callers with distinct owner ids are mutually excluded by the lock store *)
(* (acquire, release, refresh), for any number of them, through expiry,    *)
(* background cleanup, administrative release and restarts.                *)
THEOREM LockExcludes ==
    ASSUME LockConstants, \A c, d \in Clients : Owner[c] = Owner[d] => c = d
    PROVE  Locks!Spec => []MutualExclusion
<1>1. Locks!Init => Locks!IInv
  BY DEF LockConstants, Locks!Init, Locks!IInv, Locks!TypeOK, Locks!LeaseBacked, Locks!Holds
<1>2. Locks!IInv /\ [Locks!Next]_(Locks!vars) => Locks!IInv'
  BY LocksTypeStep, LeaseBackedStep DEF Locks!IInv
<1>3. Locks!IInv => MutualExclusion
  BY BackedExcludes DEF Locks!IInv
<1>4. QED
  BY <1>1, <1>2, <1>3, PTL DEF Locks!Spec

=============================================================================
