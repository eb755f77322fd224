------------------------ MODULE TelegramIngressProofs ------------------------
(***************************************************************************)
(* For any updates of any users, any batches, throttle limit and number of *)
(* crashes and shutdowns: no update is skipped, one process does not hand  *)
(* an update out twice, and /stop reaches the messages before it.          *)
(***************************************************************************)
EXTENDS TelegramIngress, FiniteSetTheorems, FunctionTheorems,
        SequenceTheorems, TLAPS

-----------------------------------------------------------------------------
(* Batches.                                                                *)

(* A finite set of numbers can be listed in increasing order: the place of *)
(* a number is how many of the set it does not exceed.                     *)
LEMMA OrderExists ==
    ASSUME NEW S, IsFiniteSet(S), S \subseteq Nat
    PROVE  \E s \in [1..Cardinality(S) -> S] : \A i, j \in DOMAIN s : i < j => s[i] < s[j]
  <1> DEFINE n == Cardinality(S)
             UpTo(u) == {v \in S : v <= u}
             place == [u \in S |-> Cardinality(UpTo(u))]
  <1>1. n \in Nat
    BY FS_CardinalityType
  <1>2. \A u \in S : IsFiniteSet(UpTo(u)) /\ Cardinality(UpTo(u)) \in 1..n
    <2> TAKE u \in S
    <2>1. UpTo(u) \in SUBSET S
      OBVIOUS
    <2>2. IsFiniteSet(UpTo(u)) /\ Cardinality(UpTo(u)) <= n
      BY <2>1, FS_Subset
    <2>3. UpTo(u) # {}
      <3>1. u \in UpTo(u) OBVIOUS
      <3> QED BY <3>1
    <2> QED BY <1>1, <2>2, <2>3, FS_CardinalityType, FS_EmptySet
  <1>3. \A u, w \in S : u < w => place[u] < place[w]
    <2> SUFFICES ASSUME NEW u \in S, NEW w \in S, u < w
                 PROVE  Cardinality(UpTo(u)) < Cardinality(UpTo(w))
      OBVIOUS
    <2>0. u \in Nat /\ w \in Nat /\ \A v \in S : v \in Nat
      OBVIOUS
    <2>a. \A v \in UpTo(u) : v \in UpTo(w)
      <3> SUFFICES ASSUME NEW v \in S, v <= u PROVE v <= w
        OBVIOUS
      <3> QED BY <2>0
    <2>b. w \in UpTo(w) /\ w \notin UpTo(u)
      BY <2>0
    <2>1. UpTo(u) \in SUBSET UpTo(w) /\ w \in UpTo(w) /\ w \notin UpTo(u)
      BY <2>a, <2>b
    <2>2. Cardinality(UpTo(u)) <= Cardinality(UpTo(w)) /\ Cardinality(UpTo(u)) # Cardinality(UpTo(w))
      BY <1>2, <2>1, FS_Subset
    <2> HIDE DEF UpTo
    <2> QED BY <1>2, <2>2
  <1>4. place \in [S -> 1..n]
    BY <1>2
  <1> HIDE DEF place, UpTo
  <1>5. place \in Surjection(S, 1..n)
    <2>1. \A u, w \in S : place[u] = place[w] => u = w
      BY <1>3, <1>4
    <2>2. place \in Injection(S, 1..n)
      BY <1>4, <2>1, Fun_IsInj
    <2>3. IsFiniteSet(1..n) /\ Cardinality(1..n) = n
      BY <1>1, FS_Interval
    <2> QED BY <2>2, <2>3, FS_Injection
  <1>6. \A k \in 1..n : \E u \in S : place[u] = k
    BY <1>5 DEF Surjection
  <1> DEFINE s == [k \in 1..n |-> CHOOSE u \in S : place[u] = k]
  <1>7. \A k \in 1..n : s[k] \in S /\ place[s[k]] = k
    BY <1>6
  <1>8. s \in [1..n -> S] /\ DOMAIN s = 1..n
    BY <1>7
  <1> HIDE DEF s, n
  <1>9. \A i, j \in 1..n : i < j => s[i] < s[j]
    <2> SUFFICES ASSUME NEW i \in 1..n, NEW j \in 1..n, i < j PROVE s[i] < s[j]
      OBVIOUS
    <2>0. s[i] \in S /\ s[j] \in S
      BY <1>7
    <2>1. s[i] \in Nat /\ s[j] \in Nat /\ i \in Int /\ j \in Int
      <3>1. s[i] \in Nat /\ s[j] \in Nat
        BY <2>0
      <3>2. i \in Int /\ j \in Int
        BY <1>1
      <3> QED BY <3>1, <3>2
    <2>2. s[i] # s[j] /\ ~ (s[j] < s[i])
      BY <1>3, <1>7, <2>1
    <2> QED BY <2>1, <2>2
  <1> QED BY <1>8, <1>9 DEF n

(* InOrder lists each of a finite set of updates once, in order. *)
LEMMA InOrderLists ==
    ASSUME NEW S, IsFiniteSet(S), S \subseteq Nat
    PROVE  /\ InOrder(S) \in Seq(S)
           /\ \A u \in S : \E i \in 1..Len(InOrder(S)) : InOrder(S)[i] = u
           /\ \A i, j \in 1..Len(InOrder(S)) : i < j => InOrder(S)[i] < InOrder(S)[j]
  <1> DEFINE n == Cardinality(S)
  <1>1. /\ InOrder(S) \in [1..n -> S]
        /\ \A i, j \in DOMAIN InOrder(S) : i < j => InOrder(S)[i] < InOrder(S)[j]
    BY OrderExists DEF InOrder
  <1> DEFINE s == InOrder(S)
  <1> HIDE DEF s
  <1>2. s \in [1..n -> S] /\ \A i, j \in 1..n : i < j => s[i] < s[j]
    BY <1>1 DEF s
  <1>3. n \in Nat
    BY FS_CardinalityType
  <1> HIDE DEF n
  <1>4. s \in Seq(S) /\ Len(s) = n
    BY <1>2, <1>3
  <1>5. s \in Injection(1..n, S)
    <2>1. ASSUME NEW i \in 1..n, NEW j \in 1..n, s[i] = s[j] PROVE i = j
      <3>0. s[i] \in S /\ s[j] \in S
        BY <1>2
      <3>1. s[i] \in Nat /\ s[j] \in Nat /\ i \in Int /\ j \in Int
        <4>1. s[i] \in Nat /\ s[j] \in Nat
          BY <3>0
        <4>2. i \in Int /\ j \in Int
          BY <1>3
        <4> QED BY <4>1, <4>2
      <3> QED BY <1>2, <2>1, <3>1
    <2> QED BY <1>2, <2>1, Fun_IsInj
  <1>6. s \in Surjection(1..n, S)
    <2>1. Cardinality(1..n) = n
      BY <1>3, FS_Interval
    <2> QED BY <1>5, <2>1, FS_Injection DEF n
  <1>7. \A u \in S : \E i \in 1..n : s[i] = u
    BY <1>6 DEF Surjection
  <1> QED BY <1>2, <1>4, <1>7 DEF s

(* The last update of a batch. *)
LEMMA OffsetOfBatch ==
    ASSUME NEW a \in Nat, NEW b \in a + 1..N, N \in Nat
    PROVE  OffsetAfter(a + 1..b) = b
  <1>1. b \in a + 1..b /\ \A y \in a + 1..b : b >= y
    OBVIOUS
  <1>2. \A x \in a + 1..b : (\A y \in a + 1..b : x >= y) => x = b
    BY <1>1
  <1> QED BY <1>1, <1>2 DEF OffsetAfter, Max

-----------------------------------------------------------------------------
(* The invariant.                                                          *)

Shape ==
    /\ confirmed \in 0..N /\ offset \in 0..N /\ restarts \in Nat
    /\ loop \in {"down", "ready", "asking", "closing"}
    /\ album \in [Users -> Seq(Updates)] /\ queue \in Seq(Updates)
    /\ task \in [Updates -> Stages]
    /\ handed \in [Updates -> Nat]
    /\ stopped \subseteq Updates

(* The buffer holds photos that have been fetched, under their sender. *)
AlbumsSorted ==
    \A s \in Users : \A i \in 1..Len(album[s]) :
        /\ KindOf[album[s][i]] = "photo" /\ UserOf[album[s][i]] = s
        /\ album[s][i] <= offset

(* A process that is down remembers nothing, one that closes counts as a   *)
(* restart, and a pending get_updates has confirmed what was dispatched.   *)
LoopState ==
    /\ loop = "down" => offset = 0 /\ album = Empty /\ queue = <<>> /\ stopped = {}
    /\ loop = "closing" => restarts > 0
    /\ loop = "asking" => offset <= confirmed

(* NothingSkipped, for what has been dispatched but not yet confirmed too. *)
Taken(u) ==
    \/ u \in dropped \/ handed[u] > 0 \/ Buffered(u)
    \/ KindOf[u] = "photo" /\ restarts > 0

TakenUp == \A u \in Updates : u <= confirmed \/ u <= offset => Taken(u)

(* What this process has not fetched, or still holds in the buffer, it has *)
(* not handed out.                                                         *)
NotYetHanded ==
    \A u \in Updates :
        /\ loop \in {"ready", "asking"} /\ (u > offset \/ Buffered(u)) => handed[u] <= restarts
        /\ loop = "closing" /\ Buffered(u) => handed[u] < restarts

IsPhoto(u) == KindOf[u] = "photo"

(* Tasks other than those of albums start in the order of their updates,   *)
(* so those behind a /stop are later than it.                              *)
QueueOrdered ==
    /\ \A i, j \in 1..Len(queue) :
          i < j /\ ~IsPhoto(queue[i]) /\ ~IsPhoto(queue[j]) => queue[i] < queue[j]
    /\ \A i \in 1..Len(queue) : ~IsPhoto(queue[i]) => queue[i] <= offset

StoppedBefore ==
    \A u \in stopped :
        /\ u <= offset
        /\ \A i \in 1..Len(queue) : ~IsPhoto(queue[i]) => u < queue[i]

StoppedDone ==
    /\ \A u \in stopped, t \in Updates :
          t < u /\ KindOf[t] = "text" /\ UserOf[t] = UserOf[u] => task[t] # "running"
    /\ \A t \in Updates : task[t] = "preparing" => KindOf[t] = "slow"

TInv ==
    /\ Shape
    /\ AlbumsSorted
    /\ LoopState
    /\ TakenUp
    /\ NotYetHanded
    /\ OncePerLife
    /\ QueueOrdered
    /\ StoppedBefore
    /\ StoppedDone

(* Buffered, by the places of the buffer. *)
LEMMA BufferedAt ==
    ASSUME Shape, NEW u \in Updates
    PROVE  Buffered(u) <=> \E i \in 1..Len(album[UserOf[u]]) : album[UserOf[u]][i] = u
  <1>1. album[UserOf[u]] \in Seq(Updates)
    BY DEF Shape, Users
  <1> QED BY <1>1 DEF Buffered, ToSet

(* r is q with the updates of S behind it, in order. *)
Extends(r, q, S) ==
    /\ r \in Seq(Updates)
    /\ \A i \in 1..Len(q) : i \in 1..Len(r) /\ r[i] = q[i]
    /\ \A i \in 1..Len(r) :
          \/ i \in 1..Len(q) /\ r[i] = q[i]
          \/ i > Len(q) /\ r[i] \in S
    /\ \A u \in S : \E i \in 1..Len(r) : r[i] = u
    /\ \A i, j \in 1..Len(r) : Len(q) < i /\ i < j => r[i] < r[j]

LEMMA Appended ==
    ASSUME NEW q \in Seq(Updates), NEW S, IsFiniteSet(S), S \subseteq Updates, S \subseteq Nat,
           NEW r, r = q \o InOrder(S)
    PROVE  Extends(r, q, S)
  <1> DEFINE o == InOrder(S)
  <1>1. /\ o \in Seq(S)
        /\ \A u \in S : \E i \in 1..Len(o) : o[i] = u
        /\ \A i, j \in 1..Len(o) : i < j => o[i] < o[j]
    BY InOrderLists
  <1>2. r = q \o o
    OBVIOUS
  <1> HIDE DEF o
  <1>3. o \in Seq(Updates)
    BY <1>1, SeqMonotonic
  <1>4. /\ r \in Seq(Updates) /\ Len(r) = Len(q) + Len(o)
        /\ \A i \in 1..Len(q) + Len(o) : r[i] = IF i <= Len(q) THEN q[i] ELSE o[i - Len(q)]
    BY <1>2, <1>3, ConcatProperties
  <1>5. Len(q) \in Nat /\ Len(o) \in Nat
    BY <1>3, LenProperties
  <1>6. \A i \in 1..Len(q) : i \in 1..Len(r) /\ r[i] = q[i]
    BY <1>4, <1>5
  <1>7. \A i \in 1..Len(r) : i > Len(q) =>
           i - Len(q) \in 1..Len(o) /\ r[i] = o[i - Len(q)]
    BY <1>4, <1>5
  <1>8. \A i \in 1..Len(r) :
           \/ i \in 1..Len(q) /\ r[i] = q[i]
           \/ i > Len(q) /\ r[i] \in S
    <2> TAKE i \in 1..Len(r)
    <2>1. CASE i > Len(q)
      BY <1>1, <1>7, <2>1, ElementOfSeq
    <2>2. CASE ~(i > Len(q))
      BY <1>4, <1>5, <2>2
    <2> QED BY <2>1, <2>2
  <1>9. \A u \in S : \E i \in 1..Len(r) : r[i] = u
    <2> TAKE u \in S
    <2>1. PICK i \in 1..Len(o) : o[i] = u
      BY <1>1
    <2>2. Len(q) + i \in 1..Len(r) /\ r[Len(q) + i] = u
      BY <1>4, <1>5, <2>1
    <2> QED BY <2>2
  <1>10. \A i, j \in 1..Len(r) : Len(q) < i /\ i < j => r[i] < r[j]
    <2> SUFFICES ASSUME NEW i \in 1..Len(r), NEW j \in 1..Len(r), Len(q) < i, i < j
                 PROVE  r[i] < r[j]
      OBVIOUS
    <2>1. i - Len(q) < j - Len(q) /\ j > Len(q)
      BY <1>4, <1>5
    <2> QED BY <1>1, <1>7, <2>1
  <1> QED BY <1>4, <1>6, <1>8, <1>9, <1>10 DEF Extends

(* What one batch does to the buffer and to the queue. *)
LEMMA DispatchFacts ==
    ASSUME Shape, NEW last \in Unconfirmed, Dispatch(confirmed + 1..last)
    PROVE  /\ album' \in [Users -> Seq(Updates)] /\ queue' \in Seq(Updates)
           /\ \A s \in Users : \A i \in 1..Len(album[s]) :
                 i \in 1..Len(album'[s]) /\ album'[s][i] = album[s][i]
           /\ \A s \in Users : \A i \in 1..Len(album'[s]) :
                 \/ i \in 1..Len(album[s]) /\ album'[s][i] = album[s][i]
                 \/ /\ album'[s][i] \in confirmed + 1..last
                    /\ IsPhoto(album'[s][i]) /\ UserOf[album'[s][i]] = s
           /\ \A u \in confirmed + 1..last : IsPhoto(u) =>
                 \E i \in 1..Len(album'[UserOf[u]]) : album'[UserOf[u]][i] = u
           /\ \A i \in 1..Len(queue') :
                 \/ i \in 1..Len(queue) /\ queue'[i] = queue[i]
                 \/ i > Len(queue) /\ queue'[i] \in confirmed + 1..last /\ ~IsPhoto(queue'[i])
           /\ \A i, j \in 1..Len(queue') :
                 Len(queue) < i /\ i < j => queue'[i] < queue'[j]
  <1> DEFINE batch == confirmed + 1..last
             photos == {u \in batch : KindOf[u] = "photo"}
             others == batch \ photos
             Of(s) == {u \in photos : UserOf[u] = s}
  <1>0. confirmed \in Nat /\ last \in Nat /\ last <= N /\ confirmed + 1 <= last /\ N \in Nat
    BY IngressAssumption DEF Shape, Unconfirmed
  <1>1. IsFiniteSet(batch) /\ batch \subseteq Updates /\ Updates \subseteq Nat /\ batch \subseteq Nat
    <2>1. IsFiniteSet(batch)
      BY <1>0, FS_Interval
    <2> QED BY <1>0, <2>1 DEF Updates
  <1>2. IsFiniteSet(others) /\ others \subseteq Updates /\ others \subseteq Nat
        /\ \A u \in others : u \in batch /\ ~IsPhoto(u)
    <2>1. others \in SUBSET batch OBVIOUS
    <2> QED BY <1>1, <2>1, FS_Subset DEF IsPhoto
  <1>3. \A s \in Users : /\ IsFiniteSet(Of(s)) /\ Of(s) \subseteq Updates /\ Of(s) \subseteq Nat
                         /\ \A u \in Of(s) : u \in batch /\ IsPhoto(u) /\ UserOf[u] = s
    <2> TAKE s \in Users
    <2>1. Of(s) \in SUBSET batch OBVIOUS
    <2> QED BY <1>1, <2>1, FS_Subset DEF IsPhoto
  <1>4. /\ album' = [s \in Users |-> album[s] \o InOrder(Of(s))]
        /\ queue' = queue \o InOrder(others)
    BY DEF Dispatch
  <1>5. \A u \in batch : IsPhoto(u) => UserOf[u] \in Users /\ u \in Of(UserOf[u])
    BY <1>1 DEF IsPhoto, Users
  <1> HIDE DEF batch, photos, others, Of
  <1>7. queue \in Seq(Updates) /\ \A s \in Users : album[s] \in Seq(Updates)
    BY DEF Shape
  <1>8. /\ queue' \in Seq(Updates)
        /\ \A i \in 1..Len(queue') :
              \/ i \in 1..Len(queue) /\ queue'[i] = queue[i]
              \/ i > Len(queue) /\ queue'[i] \in batch /\ ~IsPhoto(queue'[i])
        /\ \A i, j \in 1..Len(queue') :
              Len(queue) < i /\ i < j => queue'[i] < queue'[j]
    <2>1. Extends(queue', queue, others)
      BY <1>2, <1>4, <1>7, Appended
    <2> QED BY <1>2, <2>1 DEF Extends
  <1>9. \A s \in Users :
           /\ album'[s] \in Seq(Updates)
           /\ \A i \in 1..Len(album[s]) :
                 i \in 1..Len(album'[s]) /\ album'[s][i] = album[s][i]
           /\ \A i \in 1..Len(album'[s]) :
                 \/ i \in 1..Len(album[s]) /\ album'[s][i] = album[s][i]
                 \/ album'[s][i] \in batch /\ IsPhoto(album'[s][i]) /\ UserOf[album'[s][i]] = s
           /\ \A u \in Of(s) : \E i \in 1..Len(album'[s]) : album'[s][i] = u
    <2> TAKE s \in Users
    <2>1. album'[s] = album[s] \o InOrder(Of(s))
      BY <1>4
    <2>2. /\ IsFiniteSet(Of(s)) /\ Of(s) \subseteq Updates /\ Of(s) \subseteq Nat
          /\ \A u \in Of(s) : u \in batch /\ IsPhoto(u) /\ UserOf[u] = s
      BY <1>3
    <2>3. Extends(album'[s], album[s], Of(s))
      BY <1>7, <2>1, <2>2, Appended
    <2> QED BY <2>2, <2>3 DEF Extends
  <1>10. album' \in [Users -> Seq(Updates)]
    BY <1>4, <1>9
  <1>11. \A u \in batch : IsPhoto(u) =>
            \E i \in 1..Len(album'[UserOf[u]]) : album'[UserOf[u]][i] = u
    BY <1>5, <1>9
  <1> QED BY <1>8, <1>9, <1>10, <1>11 DEF batch

(* What a flush does, update by update. *)
LEMMA FlushFacts ==
    ASSUME Shape, AlbumsSorted, NEW s \in Users, Flush(s)
    PROVE  /\ album' \in [Users -> Seq(Updates)]
           /\ \A w \in Users : album'[w] = IF w = s THEN <<>> ELSE album[w]
           /\ handed' \in [Updates -> Nat]
           /\ \A u \in Updates :
                 /\ Buffered(u) /\ UserOf[u] = s =>
                       /\ handed'[u] = handed[u] + 1 /\ u <= offset /\ IsPhoto(u)
                       /\ ~Buffered(u)'
                 /\ ~(Buffered(u) /\ UserOf[u] = s) =>
                       handed'[u] = handed[u] /\ (Buffered(u)' <=> Buffered(u))
           /\ queue' \in Seq(Updates) /\ Len(queue) \in Nat /\ Len(queue') = Len(queue) + 1
           /\ \A i \in 1..Len(queue) : queue'[i] = queue[i]
           /\ IsPhoto(queue'[Len(queue')])
  <1>1. album \in [Users -> Seq(Updates)] /\ queue \in Seq(Updates) /\ handed \in [Updates -> Nat]
    BY DEF Shape
  <1>2. album[s] \in Seq(Updates) /\ album[s] # <<>>
    BY <1>1 DEF Flush
  <1>3. /\ album' = [album EXCEPT ![s] = <<>>]
        /\ queue' = Append(queue, Head(album[s]))
        /\ handed' = Handed(ToSet(album[s]))
    BY DEF Flush
  <1>4. Len(album[s]) \in Nat /\ Len(album[s]) >= 1 /\ Head(album[s]) = album[s][1]
        /\ Head(album[s]) \in Updates
    BY <1>2
  <1>5. IsPhoto(Head(album[s]))
    BY <1>4 DEF AlbumsSorted, IsPhoto
  <1>6. <<>> \in Seq(Updates)
    OBVIOUS
  <1>7. /\ album' \in [Users -> Seq(Updates)]
        /\ \A w \in Users : album'[w] = IF w = s THEN <<>> ELSE album[w]
    BY <1>1, <1>3, <1>6
  <1>8. \A u \in Updates : Buffered(u) /\ UserOf[u] = s <=> u \in ToSet(album[s])
    <2> TAKE u \in Updates
    <2>1. ASSUME u \in ToSet(album[s]) PROVE Buffered(u) /\ UserOf[u] = s
      <3>1. PICK i \in 1..Len(album[s]) : album[s][i] = u
        BY <1>2, <2>1 DEF ToSet
      <3>2. UserOf[u] = s
        BY <3>1 DEF AlbumsSorted
      <3> QED BY <2>1, <3>2 DEF Buffered
    <2> QED BY <2>1 DEF Buffered
  <1>9. handed' \in [Updates -> Nat] /\ \A u \in Updates :
           handed'[u] = IF u \in ToSet(album[s]) THEN handed[u] + 1 ELSE handed[u]
    BY <1>1, <1>3 DEF Handed
  <1>10. \A u \in Updates : UserOf[u] \in Users
    BY DEF Users
  <1>11. \A u \in Updates : UserOf[u] # s => (Buffered(u)' <=> Buffered(u))
    BY <1>7, <1>10 DEF Buffered
  <1>12. \A u \in Updates : UserOf[u] = s => ~Buffered(u)'
    <2> SUFFICES ASSUME NEW u \in Updates, UserOf[u] = s PROVE u \notin ToSet(album'[s])
      BY DEF Buffered
    <2>1. album'[s] = <<>>
      BY <1>7
    <2> QED BY <2>1 DEF ToSet
  <1>13. \A u \in Updates : Buffered(u) => u <= offset /\ IsPhoto(u)
    BY <1>10, BufferedAt DEF AlbumsSorted, IsPhoto
  <1>14. /\ queue' \in Seq(Updates) /\ Len(queue) \in Nat /\ Len(queue') = Len(queue) + 1
         /\ \A i \in 1..Len(queue) : queue'[i] = queue[i]
         /\ queue'[Len(queue')] = Head(album[s])
    <2>1. Len(queue) \in Nat
      BY <1>1
    <2> QED BY <1>1, <1>3, <1>4, <2>1, AppendProperties
  <1>15. \A u \in Updates :
            /\ Buffered(u) /\ UserOf[u] = s =>
                  /\ handed'[u] = handed[u] + 1 /\ u <= offset /\ IsPhoto(u)
                  /\ ~Buffered(u)'
            /\ ~(Buffered(u) /\ UserOf[u] = s) =>
                  handed'[u] = handed[u] /\ (Buffered(u)' <=> Buffered(u))
    <2> TAKE u \in Updates
    <2>1. CASE Buffered(u) /\ UserOf[u] = s
      BY <1>8, <1>9, <1>12, <1>13, <2>1
    <2>2. CASE ~(Buffered(u) /\ UserOf[u] = s)
      BY <1>8, <1>9, <1>11, <1>12, <2>2
    <2> QED BY <2>1, <2>2
  <1> QED BY <1>5, <1>7, <1>9, <1>14, <1>15

(* What a batch does, update by update. *)
LEMMA BatchFacts ==
    ASSUME Shape, AlbumsSorted, LoopState, AskReturns
    PROVE  \E last \in confirmed + 1..N :
           /\ offset' = last
           /\ album' \in [Users -> Seq(Updates)] /\ queue' \in Seq(Updates)
           /\ handed' \in [Updates -> Nat]
           /\ AlbumsSorted'
           /\ \A u \in Updates :
                 /\ u \in confirmed + 1..last /\ IsPhoto(u) => handed'[u] = handed[u] /\ Buffered(u)'
                 /\ u \in confirmed + 1..last /\ ~IsPhoto(u) =>
                       handed'[u] = handed[u] + 1 /\ ~Buffered(u)'
                 /\ u \notin confirmed + 1..last =>
                       handed'[u] = handed[u] /\ (Buffered(u)' <=> Buffered(u))
           /\ \A i \in 1..Len(queue') :
                 \/ i \in 1..Len(queue) /\ queue'[i] = queue[i]
                 \/ i > Len(queue) /\ queue'[i] \in confirmed + 1..last /\ ~IsPhoto(queue'[i])
           /\ \A i, j \in 1..Len(queue') :
                 Len(queue) < i /\ i < j => queue'[i] < queue'[j]
  <1>0. N \in Nat /\ confirmed \in Nat /\ offset \in Nat /\ offset <= confirmed
        /\ Updates = 1..N /\ loop = "asking" /\ UNCHANGED <<confirmed, dropped, restarts, stopped, task>>
        /\ loop' = "ready"
    BY IngressAssumption DEF Shape, LoopState, AskReturns, Updates
  <1>1. PICK last \in Unconfirmed :
           Dispatch(confirmed + 1..last) /\ offset' = OffsetAfter(confirmed + 1..last)
    BY DEF AskReturns
  <1>2. last \in confirmed + 1..N /\ offset' = last
    BY <1>0, <1>1, OffsetOfBatch DEF Unconfirmed
  <1> DEFINE batch == confirmed + 1..last
  <1>3. /\ album' \in [Users -> Seq(Updates)] /\ queue' \in Seq(Updates)
        /\ \A s \in Users : \A i \in 1..Len(album[s]) :
              i \in 1..Len(album'[s]) /\ album'[s][i] = album[s][i]
        /\ \A s \in Users : \A i \in 1..Len(album'[s]) :
              \/ i \in 1..Len(album[s]) /\ album'[s][i] = album[s][i]
              \/ /\ album'[s][i] \in batch
                 /\ IsPhoto(album'[s][i]) /\ UserOf[album'[s][i]] = s
        /\ \A u \in batch : IsPhoto(u) =>
              \E i \in 1..Len(album'[UserOf[u]]) : album'[UserOf[u]][i] = u
        /\ \A i \in 1..Len(queue') :
              \/ i \in 1..Len(queue) /\ queue'[i] = queue[i]
              \/ i > Len(queue) /\ queue'[i] \in batch /\ ~IsPhoto(queue'[i])
        /\ \A i, j \in 1..Len(queue') :
              Len(queue) < i /\ i < j => queue'[i] < queue'[j]
    BY <1>1, DispatchFacts
  <1>4. handed' = Handed({u \in batch : ~IsPhoto(u)})
    <2>1. batch \ {u \in batch : KindOf[u] = "photo"} = {u \in batch : ~IsPhoto(u)}
      BY DEF IsPhoto
    <2> QED BY <1>1, <2>1 DEF Dispatch
  <1>5. handed' \in [Updates -> Nat] /\ \A u \in Updates :
           handed'[u] = IF u \in batch /\ ~IsPhoto(u) THEN handed[u] + 1 ELSE handed[u]
    BY <1>4 DEF Handed, Shape
  <1>6. \A u \in Updates : UserOf[u] \in Users
    BY DEF Users
  <1>7. \A u \in Updates : Buffered(u)' <=> \E i \in 1..Len(album'[UserOf[u]]) : album'[UserOf[u]][i] = u
    <2> TAKE u \in Updates
    <2>1. album'[UserOf[u]] \in Seq(Updates)
      BY <1>3, <1>6
    <2> QED BY <2>1 DEF Buffered, ToSet
  <1>8. \A u \in Updates : Buffered(u) <=> \E i \in 1..Len(album[UserOf[u]]) : album[UserOf[u]][i] = u
    BY BufferedAt
  <1>9. \A u \in Updates : u \in batch => ~(u <= offset)
    BY <1>0, <1>2
  <1>10. \A u \in Updates : Buffered(u) => u <= offset /\ IsPhoto(u)
    BY <1>6, <1>8 DEF AlbumsSorted, IsPhoto
  <1>11. AlbumsSorted'
    <2> SUFFICES ASSUME NEW s \in Users, NEW i \in 1..Len(album'[s])
                 PROVE  /\ KindOf[album'[s][i]] = "photo" /\ UserOf[album'[s][i]] = s
                        /\ album'[s][i] <= offset'
      BY DEF AlbumsSorted
    <2>1. CASE i \in 1..Len(album[s]) /\ album'[s][i] = album[s][i]
      <3>1. /\ KindOf[album[s][i]] = "photo" /\ UserOf[album[s][i]] = s
            /\ album[s][i] <= offset
        BY <2>1 DEF AlbumsSorted
      <3>2. album[s][i] \in Updates
        BY <2>1, ElementOfSeq DEF Shape
      <3> QED BY <1>0, <1>2, <2>1, <3>1, <3>2
    <2>2. CASE album'[s][i] \in batch /\ IsPhoto(album'[s][i]) /\ UserOf[album'[s][i]] = s
      BY <1>0, <1>2, <2>2 DEF IsPhoto
    <2> QED BY <1>3, <2>1, <2>2
  <1> HIDE DEF batch
  <1>12. \A u \in Updates :
            /\ u \in batch /\ IsPhoto(u) => handed'[u] = handed[u] /\ Buffered(u)'
            /\ u \in batch /\ ~IsPhoto(u) => handed'[u] = handed[u] + 1 /\ ~Buffered(u)'
            /\ u \notin batch => handed'[u] = handed[u] /\ (Buffered(u)' <=> Buffered(u))
    <2> TAKE u \in Updates
    <2>1. ASSUME u \in batch, IsPhoto(u) PROVE handed'[u] = handed[u] /\ Buffered(u)'
      BY <1>3, <1>5, <1>7, <2>1
    <2>2. Buffered(u) => Buffered(u)'
      BY <1>3, <1>6, <1>7, <1>8
    <2>3. ASSUME Buffered(u)' PROVE Buffered(u) \/ (u \in batch /\ IsPhoto(u))
      <3>1. PICK i \in 1..Len(album'[UserOf[u]]) : album'[UserOf[u]][i] = u
        BY <1>7, <2>3
      <3>2. \/ i \in 1..Len(album[UserOf[u]]) /\ album'[UserOf[u]][i] = album[UserOf[u]][i]
            \/ album'[UserOf[u]][i] \in batch /\ IsPhoto(album'[UserOf[u]][i])
        BY <1>3, <1>6, <3>1
      <3> QED BY <1>8, <3>1, <3>2
    <2>4. ASSUME u \in batch, ~IsPhoto(u) PROVE handed'[u] = handed[u] + 1 /\ ~Buffered(u)'
      BY <1>5, <1>10, <2>3, <2>4
    <2>5. ASSUME u \notin batch
          PROVE  handed'[u] = handed[u] /\ (Buffered(u)' <=> Buffered(u))
      BY <1>5, <2>2, <2>3, <2>5
    <2> QED BY <2>1, <2>4, <2>5
  <1> QED BY <1>2, <1>3, <1>5, <1>11, <1>12 DEF batch

(* What the start of a task does. *)
LEMMA StartFacts ==
    ASSUME TInv, StartTask
    PROVE  /\ queue' \in Seq(Updates) /\ Len(queue) \in Nat /\ Len(queue') = Len(queue) - 1
           /\ Len(queue) >= 1
           /\ \A i \in 1..Len(queue') : i + 1 \in 1..Len(queue) /\ queue'[i] = queue[i + 1]
           /\ task' \in [Updates -> Stages]
           /\ queue[1] \in Updates
           /\ \/ task' = task /\ stopped' = stopped
              \/ /\ KindOf[queue[1]] = "stop" /\ stopped' = stopped \cup {queue[1]}
                 /\ \A t \in Updates :
                       task'[t] = IF task[t] = "running" /\ UserOf[t] = UserOf[queue[1]]
                                  THEN "cancelled" ELSE task[t]
              \/ /\ KindOf[queue[1]] = "slow" /\ stopped' = stopped
                 /\ \A t \in Updates : task'[t] = IF t = queue[1] THEN "preparing" ELSE task[t]
              \/ /\ KindOf[queue[1]] \in {"text", "photo"} /\ stopped' = stopped
                 /\ \A t \in Updates : task'[t] = IF t = queue[1] THEN "running" ELSE task[t]
  <1>1. queue \in Seq(Updates) /\ queue # <<>> /\ queue' = Tail(queue) /\ task \in [Updates -> Stages]
    BY DEF TInv, Shape, StartTask
  <1>2. /\ Head(queue) = queue[1] /\ queue[1] \in Updates
        /\ Len(queue) \in Nat /\ Len(queue) >= 1
    BY <1>1
  <1>3. queue' \in Seq(Updates) /\ Len(queue') = Len(queue) - 1
    BY <1>1, HeadTailProperties
  <1>4. \A i \in 1..Len(queue') : i + 1 \in 1..Len(queue) /\ queue'[i] = queue[i + 1]
    BY <1>1, <1>2, <1>3, HeadTailProperties
  <1>5. KindOf[queue[1]] \in {"text", "slow", "photo", "stop"}
    BY <1>2, IngressAssumption
  <1>6. \/ task' = task /\ stopped' = stopped
        \/ /\ task' = Entered(queue[1])
           /\ stopped' = IF KindOf[queue[1]] = "stop" THEN stopped \cup {queue[1]} ELSE stopped
    BY <1>2 DEF StartTask
  <1>7. ASSUME KindOf[queue[1]] = "stop", task' = Entered(queue[1])
        PROVE  /\ task' \in [Updates -> Stages]
               /\ \A t \in Updates :
                     task'[t] = IF task[t] = "running" /\ UserOf[t] = UserOf[queue[1]]
                                THEN "cancelled" ELSE task[t]
    <2>1. task' = Cancel(UserOf[queue[1]])
      BY <1>7 DEF Entered
    <2> QED BY <1>1, <2>1 DEF Cancel, Stages
  <1>8. ASSUME KindOf[queue[1]] = "slow", task' = Entered(queue[1])
        PROVE  /\ task' \in [Updates -> Stages]
               /\ \A t \in Updates : task'[t] = IF t = queue[1] THEN "preparing" ELSE task[t]
    <2>1. task' = [task EXCEPT ![queue[1]] = "preparing"]
      BY <1>8 DEF Entered
    <2> QED BY <1>1, <1>2, <2>1 DEF Stages
  <1>9. ASSUME KindOf[queue[1]] \in {"text", "photo"}, task' = Entered(queue[1])
        PROVE  /\ task' \in [Updates -> Stages]
               /\ \A t \in Updates : task'[t] = IF t = queue[1] THEN "running" ELSE task[t]
    <2>1. task' = [task EXCEPT ![queue[1]] = "running"]
      BY <1>9 DEF Entered
    <2> QED BY <1>1, <1>2, <2>1 DEF Stages
  <1>10. task' \in [Updates -> Stages] /\
         (\/ task' = task /\ stopped' = stopped
          \/ /\ KindOf[queue[1]] = "stop" /\ stopped' = stopped \cup {queue[1]}
             /\ \A t \in Updates :
                   task'[t] = IF task[t] = "running" /\ UserOf[t] = UserOf[queue[1]]
                              THEN "cancelled" ELSE task[t]
          \/ /\ KindOf[queue[1]] = "slow" /\ stopped' = stopped
             /\ \A t \in Updates : task'[t] = IF t = queue[1] THEN "preparing" ELSE task[t]
          \/ /\ KindOf[queue[1]] \in {"text", "photo"} /\ stopped' = stopped
             /\ \A t \in Updates : task'[t] = IF t = queue[1] THEN "running" ELSE task[t])
    <2>1. CASE task' = task /\ stopped' = stopped
      BY <1>1, <2>1
    <2>2. CASE /\ task' = Entered(queue[1])
               /\ stopped' = IF KindOf[queue[1]] = "stop" THEN stopped \cup {queue[1]} ELSE stopped
      <3>1. CASE KindOf[queue[1]] = "stop"
        BY <1>7, <2>2, <3>1
      <3>2. CASE KindOf[queue[1]] = "slow"
        BY <1>8, <2>2, <3>2
      <3>3. CASE KindOf[queue[1]] \in {"text", "photo"}
        BY <1>9, <2>2, <3>3
      <3> QED BY <1>5, <3>1, <3>2, <3>3
    <2> QED BY <1>6, <2>1, <2>2
  <1> QED BY <1>2, <1>3, <1>4, <1>10

-----------------------------------------------------------------------------
(* The invariant is inductive: first what concerns the offset, the buffer  *)
(* and the tasks handed out, then the order in which tasks start.          *)

Fetching == Shape /\ AlbumsSorted /\ LoopState /\ TakenUp /\ NotYetHanded /\ OncePerLife

Starting == QueueOrdered /\ StoppedBefore /\ StoppedDone

LEMMA TInvInit ==
    ASSUME Init
    PROVE  TInv
  <1>1. N \in Nat
    BY IngressAssumption
  <1>2. <<>> \in Seq(Updates) /\ Len(<<>>) = 0
    OBVIOUS
  <1>3. Shape
    BY <1>1, <1>2 DEF Init, Shape, Empty, Idle, Stages
  <1>4. AlbumsSorted
    <2> SUFFICES ASSUME NEW s \in Users, NEW i \in 1..Len(album[s]) PROVE FALSE
      BY DEF AlbumsSorted
    <2>1. album[s] = <<>>
      BY DEF Init, Empty
    <2> QED BY <1>2, <2>1
  <1>5. LoopState
    BY DEF Init, LoopState
  <1>6. TakenUp
    BY <1>1 DEF Init, TakenUp, Updates
  <1>7. NotYetHanded /\ OncePerLife
    BY DEF Init, NotYetHanded, OncePerLife, Lives
  <1>8. QueueOrdered /\ StoppedBefore /\ StoppedDone
    BY <1>2 DEF Init, QueueOrdered, StoppedBefore, StoppedDone, Idle
  <1> QED BY <1>3, <1>4, <1>5, <1>6, <1>7, <1>8 DEF TInv

(* Once the process has ended nothing of it is left. *)
LEMMA ForgetFacts ==
    ASSUME Shape, Forget
    PROVE  /\ album' \in [Users -> Seq(Updates)] /\ queue' \in Seq(Updates)
           /\ task' \in [Updates -> Stages] /\ offset' = 0 /\ Len(queue') = 0
           /\ \A s \in Users : Len(album'[s]) = 0
           /\ \A t \in Updates : task'[t] = "none"
           /\ \A u \in Updates : ~Buffered(u)'
  <1>1. album' = Empty /\ queue' = <<>> /\ task' = Idle /\ offset' = 0
    BY DEF Forget
  <1>2. <<>> \in Seq(Updates) /\ Len(<<>>) = 0
    OBVIOUS
  <1>3. album' \in [Users -> Seq(Updates)] /\ \A s \in Users : album'[s] = <<>>
    BY <1>1, <1>2 DEF Empty
  <1>4. task' \in [Updates -> Stages] /\ \A t \in Updates : task'[t] = "none"
    BY <1>1 DEF Idle, Stages
  <1>5. \A u \in Updates : ~Buffered(u)'
    <2> SUFFICES ASSUME NEW u \in Updates PROVE u \notin ToSet(album'[UserOf[u]])
      BY DEF Buffered
    <2>1. album'[UserOf[u]] = <<>>
      BY <1>3 DEF Users
    <2> QED BY <2>1 DEF ToSet
  <1> QED BY <1>1, <1>2, <1>3, <1>4, <1>5

LEMMA FetchingStep ==
    ASSUME TInv, [Next]_vars
    PROVE  Fetching'
  <1> USE IngressAssumption
  <1>0. N \in Nat /\ Updates = 1..N /\ confirmed \in Nat /\ offset \in Nat /\ restarts \in Nat
        /\ \A u \in Updates : u \in Nat /\ handed[u] \in Nat
    BY DEF TInv, Shape, Updates
  <1>1. CASE Startup
    <2>1. loop = "down" /\ loop' = "ready" /\ offset = 0 /\ offset' = 0 /\ album = Empty
          /\ queue = <<>> /\ stopped = {}
          /\ UNCHANGED <<album, queue, task, restarts, handed, stopped>>
      BY <1>1 DEF Startup, TInv, LoopState
    <2>2. \/ confirmed' = confirmed /\ dropped' = dropped
          \/ \E last \in Unconfirmed :
                confirmed' = last /\ dropped' = dropped \cup confirmed + 1..last
      BY <1>1 DEF Startup
    <2>3. /\ confirmed' \in 0..N
          /\ \A u \in Updates : u \in dropped => u \in dropped'
          /\ \A u \in Updates : u <= confirmed' => u <= confirmed \/ u \in dropped'
      <3>1. CASE confirmed' = confirmed /\ dropped' = dropped
        BY <3>1 DEF TInv, Shape
      <3>2. ASSUME NEW last \in Unconfirmed, confirmed' = last,
                   dropped' = dropped \cup confirmed + 1..last
            PROVE  /\ confirmed' \in 0..N
                   /\ \A u \in Updates : u \in dropped => u \in dropped'
                   /\ \A u \in Updates : u <= confirmed' => u <= confirmed \/ u \in dropped'
        BY <1>0, <3>2 DEF Unconfirmed
      <3> QED BY <2>2, <3>1, <3>2
    <2>4. Shape' /\ AlbumsSorted' /\ LoopState'
      BY <1>0, <2>1, <2>3 DEF TInv, Shape, AlbumsSorted, LoopState
    <2>5. \A u \in Updates : Buffered(u)' <=> Buffered(u)
      BY <2>1 DEF Buffered
    <2>6. TakenUp'
      <3> SUFFICES ASSUME NEW u \in Updates, u <= confirmed' PROVE Taken(u)'
        BY <1>0, <2>1 DEF TakenUp
      <3>1. CASE u <= confirmed
        <4>1. Taken(u)
          BY <3>1 DEF TInv, TakenUp
        <4> QED BY <2>1, <2>3, <2>5, <4>1 DEF Taken
      <3>2. CASE u \in dropped'
        BY <3>2 DEF Taken
      <3>3. u <= confirmed \/ u \in dropped'
        BY <2>3
      <3> QED BY <3>1, <3>2, <3>3
    <2>7. \A u \in Updates : handed[u] <= restarts
      BY <1>0, <2>1 DEF TInv, OncePerLife, Lives
    <2>8. NotYetHanded' /\ OncePerLife'
      BY <1>0, <2>1, <2>7 DEF NotYetHanded, OncePerLife, Lives
    <2> QED BY <2>4, <2>6, <2>8 DEF Fetching
  <1>2. CASE Ask \/ AskFails
    <2>1. /\ UNCHANGED <<offset, album, queue, task, restarts, handed, dropped, stopped>>
          /\ confirmed' = confirmed \/ confirmed' = offset
          /\ loop \in {"ready", "asking"} /\ loop' \in {"ready", "asking"}
          /\ loop' = "asking" => confirmed' >= offset
      BY <1>0, <1>2 DEF Ask, AskFails, observed
    <2>2. Shape' /\ AlbumsSorted' /\ LoopState'
      BY <1>0, <2>1 DEF TInv, Shape, AlbumsSorted, LoopState
    <2>3. \A u \in Updates : Buffered(u)' <=> Buffered(u)
      BY <2>1 DEF Buffered
    <2>4. TakenUp'
      BY <1>0, <2>1, <2>3 DEF TInv, TakenUp, Taken
    <2>5. NotYetHanded' /\ OncePerLife'
      BY <1>0, <2>1, <2>3 DEF TInv, NotYetHanded, OncePerLife, Lives
    <2> QED BY <2>2, <2>4, <2>5 DEF Fetching
  <1>3. CASE AskReturns
    <2>1. loop = "asking" /\ loop' = "ready" /\ offset <= confirmed
          /\ UNCHANGED <<confirmed, restarts, dropped, stopped, task>>
      BY <1>3 DEF AskReturns, TInv, LoopState
    <2>2. PICK last \in confirmed + 1..N :
           /\ offset' = last
           /\ album' \in [Users -> Seq(Updates)] /\ queue' \in Seq(Updates)
           /\ handed' \in [Updates -> Nat]
           /\ AlbumsSorted'
           /\ \A u \in Updates :
                 /\ u \in confirmed + 1..last /\ IsPhoto(u) => handed'[u] = handed[u] /\ Buffered(u)'
                 /\ u \in confirmed + 1..last /\ ~IsPhoto(u) =>
                       handed'[u] = handed[u] + 1 /\ ~Buffered(u)'
                 /\ u \notin confirmed + 1..last =>
                       handed'[u] = handed[u] /\ (Buffered(u)' <=> Buffered(u))
      BY <1>3, BatchFacts DEF TInv
    <2>3. Shape' /\ AlbumsSorted' /\ LoopState'
      BY <1>0, <2>1, <2>2 DEF TInv, Shape, LoopState
    <2>4. \A u \in Updates : u \in confirmed + 1..last <=> confirmed < u /\ u <= last
      BY <1>0
    <2>5. TakenUp'
      <3> SUFFICES ASSUME NEW u \in Updates, u <= confirmed' \/ u <= offset' PROVE Taken(u)'
        BY DEF TakenUp
      <3>1. CASE u \in confirmed + 1..last
        <4>1. handed'[u] = handed[u] + 1 \/ Buffered(u)'
          BY <2>2, <3>1
        <4> QED BY <1>0, <4>1 DEF Taken
      <3>2. CASE u \notin confirmed + 1..last
        <4>1. Taken(u)
          BY <1>0, <2>1, <2>2, <2>4, <3>2 DEF TInv, TakenUp
        <4> QED BY <2>1, <2>2, <3>2, <4>1 DEF Taken
      <3> QED BY <3>1, <3>2
    <2>6. \A u \in Updates : /\ u > offset' \/ Buffered(u)' => handed'[u] <= restarts
                             /\ handed'[u] <= restarts + 1
      <3> TAKE u \in Updates
      <3>1. /\ u > offset \/ Buffered(u) => handed[u] <= restarts
            /\ handed[u] <= restarts + 1
        BY <2>1 DEF TInv, NotYetHanded, OncePerLife, Lives
      <3>2. CASE u \in confirmed + 1..last
        BY <1>0, <2>1, <2>2, <2>4, <3>1, <3>2
      <3>3. CASE u \notin confirmed + 1..last
        BY <1>0, <2>1, <2>2, <2>4, <3>1, <3>3
      <3> QED BY <3>2, <3>3
    <2>7. NotYetHanded' /\ OncePerLife'
      BY <2>1, <2>6 DEF NotYetHanded, OncePerLife, Lives
    <2> QED BY <2>3, <2>5, <2>7 DEF Fetching
  <1>4. ASSUME NEW s \in Users, Flush(s) PROVE Fetching'
    <2>1. /\ UNCHANGED <<confirmed, loop, offset, task, restarts, dropped, stopped>>
          /\ album[s] # <<>>
      BY <1>4 DEF Flush
    <2>2. /\ album' \in [Users -> Seq(Updates)] /\ handed' \in [Updates -> Nat]
          /\ queue' \in Seq(Updates)
          /\ \A w \in Users : album'[w] = IF w = s THEN <<>> ELSE album[w]
          /\ \A u \in Updates :
                 /\ Buffered(u) /\ UserOf[u] = s =>
                       /\ handed'[u] = handed[u] + 1 /\ u <= offset /\ IsPhoto(u)
                       /\ ~Buffered(u)'
                 /\ ~(Buffered(u) /\ UserOf[u] = s) =>
                       handed'[u] = handed[u] /\ (Buffered(u)' <=> Buffered(u))
      BY <1>4, FlushFacts DEF TInv
    <2>3. loop # "down"
      BY <2>1 DEF TInv, LoopState, Empty
    <2>4. Shape' /\ LoopState'
      BY <2>1, <2>2, <2>3 DEF TInv, Shape, LoopState
    <2>5. AlbumsSorted'
      <3> SUFFICES ASSUME NEW w \in Users, NEW i \in 1..Len(album'[w])
                   PROVE  /\ KindOf[album'[w][i]] = "photo" /\ UserOf[album'[w][i]] = w
                          /\ album'[w][i] <= offset
        BY <2>1 DEF AlbumsSorted
      <3>1. album'[w] = album[w]
        BY <2>2
      <3> QED BY <3>1 DEF TInv, AlbumsSorted
    <2>6. TakenUp'
      <3> SUFFICES ASSUME NEW u \in Updates, u <= confirmed \/ u <= offset PROVE Taken(u)'
        BY <2>1 DEF TakenUp
      <3>1. Taken(u)
        BY DEF TInv, TakenUp
      <3>2. handed'[u] > 0 \/ (handed'[u] = handed[u] /\ (Buffered(u)' <=> Buffered(u)))
        BY <1>0, <2>2
      <3> QED BY <2>1, <3>1, <3>2 DEF Taken
    <2>7. NotYetHanded'
      <3> SUFFICES ASSUME NEW u \in Updates
                   PROVE  /\ loop \in {"ready", "asking"} /\ (u > offset \/ Buffered(u)') => handed'[u] <= restarts
                          /\ loop = "closing" /\ Buffered(u)' => handed'[u] < restarts
        BY <2>1 DEF NotYetHanded
      <3>1. CASE Buffered(u) /\ UserOf[u] = s
        <4>1. u <= offset /\ ~Buffered(u)'
          BY <2>2, <3>1
        <4> QED BY <1>0, <4>1
      <3>2. CASE ~(Buffered(u) /\ UserOf[u] = s)
        <4>1. handed'[u] = handed[u] /\ (Buffered(u)' <=> Buffered(u))
          BY <2>2, <3>2
        <4> QED BY <4>1 DEF TInv, NotYetHanded
      <3> QED BY <3>1, <3>2
    <2>8. OncePerLife'
      <3> SUFFICES ASSUME NEW u \in Updates PROVE handed'[u] <= Lives
        BY <2>1 DEF OncePerLife, Lives
      <3>1. CASE Buffered(u) /\ UserOf[u] = s
        <4>1. handed'[u] = handed[u] + 1
          BY <2>2, <3>1
        <4>2. /\ loop \in {"ready", "asking"} => handed[u] <= restarts
              /\ loop = "closing" => handed[u] < restarts
          BY <3>1 DEF TInv, NotYetHanded
        <4>3. loop \in {"ready", "asking", "closing"}
          BY <2>3 DEF TInv, Shape
        <4> QED BY <1>0, <4>1, <4>2, <4>3 DEF Lives
      <3>2. CASE ~(Buffered(u) /\ UserOf[u] = s)
        BY <2>2, <3>2 DEF TInv, OncePerLife
      <3> QED BY <3>1, <3>2
    <2> QED BY <2>4, <2>5, <2>6, <2>7, <2>8 DEF Fetching
  <1>5. ASSUME \/ StartTask \/ Tick \/ (\E u \in Updates : Prepared(u) \/ TaskEnds(u))
               \/ UNCHANGED vars
        PROVE  Fetching'
    <2>1. /\ UNCHANGED <<confirmed, loop, offset, album, restarts, handed, dropped>>
          /\ queue' \in Seq(Updates) /\ task' \in [Updates -> Stages] /\ stopped' \subseteq Updates
          /\ loop = "down" => queue' = queue /\ stopped' = stopped
      <3>0. queue \in Seq(Updates) /\ task \in [Updates -> Stages] /\ stopped \subseteq Updates
        BY DEF TInv, Shape
      <3>1. CASE StartTask
        <4>1. UNCHANGED <<confirmed, loop, offset, album, restarts, handed, dropped>>
          BY <3>1 DEF StartTask
        <4>2. queue' \in Seq(Updates) /\ task' \in [Updates -> Stages]
              /\ stopped' \subseteq Updates
          BY <3>0, <3>1, StartFacts
        <4>3. loop # "down"
          BY <3>1 DEF StartTask, TInv, LoopState
        <4> QED BY <4>1, <4>2, <4>3
      <3>2. CASE Tick
        BY <3>0, <3>2 DEF Tick
      <3>3. ASSUME NEW u \in Updates, Prepared(u) \/ TaskEnds(u)
            PROVE  UNCHANGED <<confirmed, loop, offset, album, restarts, handed, dropped>>
                   /\ UNCHANGED <<queue, stopped>> /\ task' \in [Updates -> Stages]
        BY <3>0, <3>3 DEF Prepared, TaskEnds, observed, Stages
      <3>4. CASE UNCHANGED vars
        BY <3>0, <3>4 DEF vars, process, observed
      <3> QED BY <1>5, <3>0, <3>1, <3>2, <3>3, <3>4
    <2>2. Shape' /\ LoopState'
      BY <2>1 DEF TInv, Shape, LoopState
    <2>3. AlbumsSorted' /\ TakenUp' /\ NotYetHanded' /\ OncePerLife'
      BY <2>1 DEF TInv, AlbumsSorted, TakenUp, Taken, Buffered, NotYetHanded, OncePerLife, Lives
    <2> QED BY <2>2, <2>3 DEF Fetching
  <1>6. CASE Close
    <2>1. /\ loop \in {"ready", "asking"} /\ loop' = "closing" /\ restarts' = restarts + 1
          /\ UNCHANGED <<confirmed, offset, album, handed, dropped, stopped>>
          /\ queue' = <<>>
          /\ task' = [u \in Updates |-> IF task[u] = "none" THEN "none" ELSE "cancelled"]
      BY <1>6 DEF Close, observed
    <2>2. Shape' /\ AlbumsSorted' /\ LoopState'
      <3>1. queue' \in Seq(Updates) /\ task' \in [Updates -> Stages]
        BY <2>1 DEF Stages
      <3> QED BY <1>0, <2>1, <3>1 DEF TInv, Shape, AlbumsSorted, LoopState
    <2>3. \A u \in Updates : Buffered(u)' <=> Buffered(u)
      BY <2>1 DEF Buffered
    <2>4. TakenUp'
      BY <1>0, <2>1, <2>3 DEF TInv, TakenUp, Taken
    <2>5. NotYetHanded' /\ OncePerLife'
      BY <1>0, <2>1, <2>3 DEF TInv, NotYetHanded, OncePerLife, Lives
    <2> QED BY <2>2, <2>4, <2>5 DEF Fetching
  <1>7. CASE Exit \/ Crash
    <2>1. /\ Forget /\ restarts' \in Nat /\ restarts' >= restarts /\ restarts' > 0
          /\ restarts' = restarts => loop = "closing"
          /\ restarts' = restarts \/ restarts' = restarts + 1
      BY <1>0, <1>7 DEF Exit, Crash, TInv, LoopState
    <2>2. /\ loop' = "down" /\ stopped' = {} /\ album' = Empty /\ queue' = <<>>
          /\ UNCHANGED <<confirmed, handed, dropped>>
      BY <2>1 DEF Forget
    <2>3. /\ album' \in [Users -> Seq(Updates)] /\ queue' \in Seq(Updates)
          /\ task' \in [Updates -> Stages] /\ offset' = 0
          /\ \A s \in Users : Len(album'[s]) = 0
          /\ \A u \in Updates : ~Buffered(u)'
      BY <2>1, ForgetFacts DEF TInv
    <2>4. Shape' /\ AlbumsSorted' /\ LoopState'
      <3>1. Shape'
        BY <1>0, <2>1, <2>2, <2>3 DEF TInv, Shape
      <3>2. AlbumsSorted'
        BY <2>3 DEF AlbumsSorted
      <3>3. LoopState'
        BY <2>2, <2>3 DEF LoopState
      <3> QED BY <3>1, <3>2, <3>3
    <2>5. TakenUp'
      <3> SUFFICES ASSUME NEW u \in Updates, u <= confirmed PROVE Taken(u)'
        BY <1>0, <2>2, <2>3 DEF TakenUp
      <3>1. Taken(u)
        BY DEF TInv, TakenUp
      <3>2. Buffered(u) => KindOf[u] = "photo"
        BY BufferedAt DEF TInv, AlbumsSorted, Users
      <3> QED BY <2>1, <2>2, <3>1, <3>2 DEF Taken
    <2>6. NotYetHanded' /\ OncePerLife'
      BY <1>0, <2>1, <2>2 DEF TInv, NotYetHanded, OncePerLife, Lives
    <2> QED BY <2>4, <2>5, <2>6 DEF Fetching
  <1> QED BY <1>1, <1>2, <1>3, <1>4, <1>5, <1>6, <1>7 DEF Next, TaskStep

LEMMA StartingStep ==
    ASSUME TInv, [Next]_vars
    PROVE  Starting'
  <1> USE IngressAssumption
  <1>0. N \in Nat /\ Updates = 1..N /\ confirmed \in Nat /\ offset \in Nat
        /\ (\A u \in Updates : u \in Nat) /\ queue \in Seq(Updates) /\ Len(queue) \in Nat
        /\ (\A i \in 1..Len(queue) : queue[i] \in Updates)
        /\ stopped \subseteq Updates /\ task \in [Updates -> Stages]
    BY DEF TInv, Shape, Updates
  <1>1. CASE Startup \/ Ask \/ AskFails \/ Tick \/ UNCHANGED vars
    <2>1. UNCHANGED <<queue, task, stopped>> /\ offset' = offset
      BY <1>1 DEF Startup, Ask, AskFails, Tick, vars, process, observed, TInv, LoopState
    <2> QED BY <2>1 DEF TInv, Starting, QueueOrdered, StoppedBefore, StoppedDone
  <1>2. CASE AskReturns
    <2>1. UNCHANGED <<task, stopped>> /\ offset <= confirmed
      BY <1>2 DEF AskReturns, TInv, LoopState
    <2>2. PICK last \in confirmed + 1..N :
           /\ offset' = last /\ queue' \in Seq(Updates)
           /\ \A i \in 1..Len(queue') :
                 \/ i \in 1..Len(queue) /\ queue'[i] = queue[i]
                 \/ i > Len(queue) /\ queue'[i] \in confirmed + 1..last /\ ~IsPhoto(queue'[i])
           /\ \A i, j \in 1..Len(queue') :
                 Len(queue) < i /\ i < j => queue'[i] < queue'[j]
      BY <1>2, BatchFacts DEF TInv
    <2>3. last \in Nat /\ confirmed < last /\ offset < last /\ Len(queue') \in Nat
      BY <1>0, <2>1, <2>2
    <2>4. \A u \in confirmed + 1..last : u \in Nat /\ offset < u /\ u <= last
      BY <1>0, <2>1, <2>3
    <2>5. QueueOrdered'
      <3>1. ASSUME NEW i \in 1..Len(queue'), NEW j \in 1..Len(queue'), i < j,
                   ~IsPhoto(queue'[i]), ~IsPhoto(queue'[j])
            PROVE  queue'[i] < queue'[j]
        <4>1. CASE j \in 1..Len(queue) /\ queue'[j] = queue[j]
          <5>1. i \in 1..Len(queue) /\ queue'[i] = queue[i]
            BY <1>0, <2>2, <2>3, <3>1, <4>1
          <5> QED BY <3>1, <4>1, <5>1 DEF TInv, QueueOrdered
        <4>2. CASE j > Len(queue) /\ queue'[j] \in confirmed + 1..last
          <5>1. CASE i \in 1..Len(queue) /\ queue'[i] = queue[i]
            <6>1. queue[i] <= offset
              BY <3>1, <5>1 DEF TInv, QueueOrdered
            <6>2. queue[i] \in Nat
              BY <1>0, <5>1
            <6>3. queue'[j] \in Nat /\ offset < queue'[j]
              BY <2>4, <4>2, Zenon
            <6> QED BY <1>0, <5>1, <6>1, <6>2, <6>3
          <5>2. CASE i > Len(queue)
            BY <2>2, <3>1, <5>2
          <5> QED BY <2>2, <5>1, <5>2
        <4> QED BY <2>2, <4>1, <4>2
      <3>2. ASSUME NEW i \in 1..Len(queue'), ~IsPhoto(queue'[i])
            PROVE  queue'[i] <= offset'
        <4>1. CASE i \in 1..Len(queue) /\ queue'[i] = queue[i]
          <5>1. queue[i] <= offset /\ queue[i] \in Nat
            BY <1>0, <3>2, <4>1 DEF TInv, QueueOrdered
          <5> QED BY <1>0, <2>2, <2>3, <4>1, <5>1
        <4>2. CASE queue'[i] \in confirmed + 1..last
          BY <2>2, <2>4, <4>2
        <4> QED BY <2>2, <4>1, <4>2
      <3> QED BY <3>1, <3>2 DEF QueueOrdered, IsPhoto
    <2>6. StoppedBefore'
      <3> SUFFICES ASSUME NEW u \in stopped
                   PROVE  /\ u <= offset'
                          /\ \A i \in 1..Len(queue') : ~IsPhoto(queue'[i]) => u < queue'[i]
        BY <2>1 DEF StoppedBefore, IsPhoto
      <3>1. u <= offset /\ u \in Nat
            /\ \A i \in 1..Len(queue) : ~IsPhoto(queue[i]) => u < queue[i]
        BY <1>0 DEF TInv, StoppedBefore
      <3>2. u <= offset'
        BY <1>0, <2>2, <2>3, <3>1
      <3>3. ASSUME NEW i \in 1..Len(queue'), ~IsPhoto(queue'[i]) PROVE u < queue'[i]
        <4>1. CASE i \in 1..Len(queue) /\ queue'[i] = queue[i]
          BY <3>1, <3>3, <4>1
        <4>2. CASE queue'[i] \in confirmed + 1..last
          <5>1. queue'[i] \in Nat /\ offset < queue'[i]
            BY <2>4, <4>2, Zenon
          <5> QED BY <1>0, <3>1, <5>1
        <4> QED BY <2>2, <4>1, <4>2
      <3> QED BY <3>2, <3>3
    <2>7. StoppedDone'
      BY <2>1 DEF TInv, StoppedDone
    <2> QED BY <2>5, <2>6, <2>7 DEF Starting
  <1>3. ASSUME NEW s \in Users, Flush(s) PROVE Starting'
    <2>1. UNCHANGED <<offset, task, stopped>>
      BY <1>3 DEF Flush
    <2>2. /\ Len(queue') = Len(queue) + 1
          /\ \A i \in 1..Len(queue) : queue'[i] = queue[i]
          /\ IsPhoto(queue'[Len(queue')])
      BY <1>3, FlushFacts DEF TInv
    <2>3. \A i \in 1..Len(queue') : ~IsPhoto(queue'[i]) => i \in 1..Len(queue) /\ queue'[i] = queue[i]
      BY <1>0, <2>2
    <2>4. QueueOrdered'
      BY <2>1, <2>3 DEF TInv, QueueOrdered, IsPhoto
    <2>5. StoppedBefore'
      BY <2>1, <2>3 DEF TInv, StoppedBefore, IsPhoto
    <2>6. StoppedDone'
      BY <2>1 DEF TInv, StoppedDone
    <2> QED BY <2>4, <2>5, <2>6 DEF Starting
  <1>4. CASE StartTask
    <2> DEFINE h == queue[1]
    <2>1. offset' = offset
      BY <1>4 DEF StartTask
    <2>2. /\ queue' \in Seq(Updates) /\ Len(queue') = Len(queue) - 1 /\ Len(queue) >= 1
          /\ \A i \in 1..Len(queue') : i + 1 \in 1..Len(queue) /\ queue'[i] = queue[i + 1]
          /\ h \in Updates
          /\ \/ task' = task /\ stopped' = stopped
             \/ /\ KindOf[h] = "stop" /\ stopped' = stopped \cup {h}
                /\ \A t \in Updates :
                      task'[t] = IF task[t] = "running" /\ UserOf[t] = UserOf[h]
                                 THEN "cancelled" ELSE task[t]
             \/ /\ KindOf[h] = "slow" /\ stopped' = stopped
                /\ \A t \in Updates : task'[t] = IF t = h THEN "preparing" ELSE task[t]
             \/ /\ KindOf[h] \in {"text", "photo"} /\ stopped' = stopped
                /\ \A t \in Updates : task'[t] = IF t = h THEN "running" ELSE task[t]
      BY <1>4, StartFacts
    <2>3. 1 \in 1..Len(queue) /\ h \in Nat
      BY <1>0, <2>2
    <2>4. ~IsPhoto(h) => h <= offset /\ \A u \in stopped : u < h
      BY <2>3 DEF TInv, QueueOrdered, StoppedBefore
    <2>5. \A i \in 1..Len(queue') :
             i \in Nat /\ i + 1 \in 1..Len(queue) /\ 1 < i + 1 /\ queue'[i] = queue[i + 1]
      BY <1>0, <2>2
    <2>6. QueueOrdered'
      <3>1. ASSUME NEW i \in 1..Len(queue'), NEW j \in 1..Len(queue'), i < j,
                   ~IsPhoto(queue'[i]), ~IsPhoto(queue'[j])
            PROVE  queue'[i] < queue'[j]
        <4>1. i + 1 < j + 1
          BY <2>5, <3>1
        <4> QED BY <2>5, <3>1, <4>1 DEF TInv, QueueOrdered
      <3>2. ASSUME NEW i \in 1..Len(queue'), ~IsPhoto(queue'[i])
            PROVE  queue'[i] <= offset'
        BY <2>1, <2>5, <3>2 DEF TInv, QueueOrdered
      <3> QED BY <3>1, <3>2 DEF QueueOrdered, IsPhoto
    <2>7. \A i \in 1..Len(queue') : ~IsPhoto(queue'[i]) =>
             /\ ~IsPhoto(h) => h < queue'[i]
             /\ \A u \in stopped : u < queue'[i]
      BY <2>3, <2>5 DEF TInv, QueueOrdered, StoppedBefore
    <2>8. \A u \in stopped' : u \in stopped \/ (u = h /\ KindOf[h] = "stop")
      BY <2>2
    <2>9. StoppedBefore'
      <3> SUFFICES ASSUME NEW u \in stopped'
                   PROVE  /\ u <= offset
                          /\ \A i \in 1..Len(queue') : ~IsPhoto(queue'[i]) => u < queue'[i]
        BY <2>1 DEF StoppedBefore, IsPhoto
      <3>1. CASE u \in stopped
        BY <2>7, <3>1 DEF TInv, StoppedBefore
      <3>2. CASE u = h /\ KindOf[h] = "stop"
        <4>1. ~IsPhoto(h)
          BY <3>2 DEF IsPhoto
        <4> QED BY <2>4, <2>7, <3>2, <4>1
      <3> QED BY <2>8, <3>1, <3>2
    <2>10. ASSUME NEW u \in stopped', NEW t \in Updates, t < u, KindOf[t] = "text",
                  UserOf[t] = UserOf[u]
           PROVE  task'[t] # "running"
      <3>1. CASE u \in stopped
        <4>1. task[t] # "running"
          BY <2>10, <3>1 DEF TInv, StoppedDone
        <4>2. t # h
          <5> SUFFICES ASSUME t = h PROVE FALSE
            OBVIOUS
          <5>1. ~IsPhoto(h)
            BY <2>10 DEF IsPhoto
          <5>2. u < h /\ u \in Nat
            BY <1>0, <2>4, <3>1, <5>1
          <5> QED BY <2>3, <2>10, <5>2
        <4> QED BY <2>2, <4>1, <4>2
      <3>2. CASE u = h /\ KindOf[h] = "stop" /\ u \notin stopped
        BY <2>2, <2>10, <3>2
      <3> QED BY <2>8, <3>1, <3>2
    <2>11. ASSUME NEW t \in Updates, task'[t] = "preparing" PROVE KindOf[t] = "slow"
      <3>1. task[t] = "preparing" \/ (t = h /\ KindOf[h] = "slow")
        BY <2>2, <2>11
      <3> QED BY <3>1 DEF TInv, StoppedDone
    <2>12. StoppedDone'
      BY <2>10, <2>11 DEF StoppedDone
    <2> QED BY <2>6, <2>9, <2>12 DEF Starting
  <1>5. ASSUME NEW u \in Updates, Prepared(u) \/ TaskEnds(u) PROVE Starting'
    <2>1. UNCHANGED <<offset, queue, stopped>>
      BY <1>5 DEF Prepared, TaskEnds, observed
    <2>2. /\ \A t \in Updates : t # u => task'[t] = task[t]
          /\ task'[u] = "none" \/ (task'[u] = "running" /\ task[u] = "preparing")
      BY <1>0, <1>5 DEF Prepared, TaskEnds
    <2>3. task'[u] = "running" => KindOf[u] # "text"
      BY <2>2 DEF TInv, StoppedDone
    <2>4. StoppedDone'
      BY <2>1, <2>2, <2>3 DEF TInv, StoppedDone
    <2> QED BY <2>1, <2>4 DEF TInv, Starting, QueueOrdered, StoppedBefore
  <1>6. CASE Close
    <2>1. UNCHANGED <<offset, stopped>> /\ Len(queue') = 0
          /\ \A t \in Updates : task'[t] \in {"none", "cancelled"}
      BY <1>6 DEF Close, observed
    <2>2. QueueOrdered'
      BY <2>1 DEF QueueOrdered
    <2>3. StoppedBefore'
      BY <2>1 DEF TInv, StoppedBefore
    <2>4. StoppedDone'
      <3>1. \A t \in Updates : task'[t] # "running" /\ task'[t] # "preparing"
        BY <2>1
      <3> QED BY <3>1 DEF StoppedDone
    <2> QED BY <2>2, <2>3, <2>4 DEF Starting
  <1>7. CASE Exit \/ Crash
    <2>1. Forget /\ stopped' = {}
      BY <1>7 DEF Exit, Crash, Forget
    <2>2. Len(queue') = 0 /\ \A t \in Updates : task'[t] = "none"
      BY <2>1, ForgetFacts DEF TInv
    <2> QED BY <2>1, <2>2 DEF Starting, QueueOrdered, StoppedBefore, StoppedDone
  <1> QED BY <1>1, <1>2, <1>3, <1>4, <1>5, <1>6, <1>7 DEF Next, TaskStep

LEMMA TInvariant == Spec => []TInv
  <1>1. TInv /\ [Next]_vars => TInv'
    BY FetchingStep, StartingStep DEF TInv, Fetching, Starting
  <1> QED BY TInvInit, <1>1, PTL DEF Spec

-----------------------------------------------------------------------------
(* No update is lost between Telegram and the program: whatever a call of  *)
(* get_updates confirmed has been given to a task, waits in the album      *)
(* buffer or was dropped at startup, and only a photo that was in the      *)
(* buffer when the process ended can be gone.                              *)
THEOREM NothingLost == Spec => []NothingSkipped
  <1>1. TInv => NothingSkipped
    <2> SUFFICES ASSUME TInv, NEW u \in 1..confirmed PROVE Taken(u)
      BY DEF NothingSkipped, Taken
    <2>1. u \in Updates /\ u <= confirmed
      BY IngressAssumption DEF TInv, Shape, Updates
    <2> QED BY <2>1 DEF TInv, TakenUp
  <1> QED BY TInvariant, <1>1, PTL

(* Only a restart repeats an update: no process hands out an update twice, *)
(* whether it comes by itself or in an album whose timer fires late.       *)
THEOREM HandedOncePerLife == Spec => []OncePerLife
  <1>1. TInv => OncePerLife
    BY DEF TInv
  <1> QED BY TInvariant, <1>1, PTL

(* /stop is never overtaken: once it has been handled, no earlier text of  *)
(* its sender waits in the queue or runs.                                  *)
THEOREM StopIsNotOvertaken == Spec => []StopReachesEarlier
  <1>1. TInv => StopReachesEarlier
    <2> SUFFICES ASSUME TInv, NEW u \in stopped, NEW t \in 1..(u - 1),
                        KindOf[t] = "text", UserOf[t] = UserOf[u]
                 PROVE  t \notin ToSet(queue) /\ task[t] \notin {"preparing", "running"}
      BY DEF StopReachesEarlier
    <2>0. N \in Nat /\ u \in Nat /\ u <= N
      BY IngressAssumption DEF TInv, Shape, Updates
    <2>1. t \in Updates /\ t < u /\ t \in Nat
      BY <2>0 DEF Updates
    <2>2. task[t] \notin {"preparing", "running"}
      BY <2>1 DEF TInv, StoppedDone
    <2>3. ASSUME t \in ToSet(queue) PROVE FALSE
      <3>1. PICK i \in 1..Len(queue) : queue[i] = t
        BY <2>3 DEF ToSet, TInv, Shape
      <3>2. u < t
        BY <3>1 DEF TInv, StoppedBefore, IsPhoto
      <3> QED BY <2>0, <2>1, <3>2
    <2> QED BY <2>2, <2>3
  <1> QED BY TInvariant, <1>1, PTL

=============================================================================
