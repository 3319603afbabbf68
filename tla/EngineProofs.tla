---------------------------- MODULE EngineProofs ----------------------------
(***************************************************************************)
(* No write is lost and no old value comes back (ViewConsistent), for every *)
(* number of threads, keys, values, batches, thresholds and failures, when  *)
(* the clock advances between two readings and no save of the manifest      *)
(* fails in the middle of compact's removals; and, whatever the clock does  *)
(* and whatever fails, every part of the state is of its type.             *)
(***************************************************************************)
EXTENDS Engine, FoldLemmas

-----------------------------------------------------------------------------
(* What rotating, clearing, adding an SSTable and merging do to a lookup *)

\* A set of integers with an upper bound has a largest element.
LEMMA LargestExists ==
  ASSUME NEW S \in SUBSET Int, S # {}, NEW c \in Int, \A x \in S : x <= c
  PROVE  \E x \in S : \A y \in S : y <= x
BY MaxIsLargest

-----------------------------------------------------------------------------
(* The frozen queue *)

\* A queue of buffers; their offsets may be anything.
IsQueue(q) ==
  /\ q \in Seq({q[i] : i \in DOMAIN q})
  /\ \A i \in DOMAIN q : q[i].data \in Tables

\* Every sequence is one of its own elements.
LEMMA SeqOfElements ==
  ASSUME NEW S, NEW q \in Seq(S)
  PROVE  q \in Seq({q[i] : i \in DOMAIN q})
<1> DEFINE R == {q[i] : i \in DOMAIN q}
<1>1. Len(q) \in Nat /\ q = [i \in 1..Len(q) |-> q[i]] /\ DOMAIN q = 1..Len(q)
  OBVIOUS
<1>2. \A i \in 1..Len(q) : q[i] \in R
  BY <1>1
<1> HIDE DEF R
<1>3. [i \in 1..Len(q) |-> q[i]] \in Seq(R)
  BY <1>1, <1>2
<1> QED  BY <1>1, <1>3 DEF R

\* The holder a newest-first search of the queue finds is the only one.
LEMMA SearchQueueHit ==
  ASSUME NEW q, IsQueue(q), NEW k, NEW i \in NewestHolder(q, k)
  PROVE  /\ NewestHolder(q, k) = {i}
         /\ SearchQueue(q, k) = q[i].data[k]
<1>1. DOMAIN q = 1..Len(q) /\ Len(q) \in Nat
  BY DEF IsQueue
<1>2. NewestHolder(q, k) = {i}
  BY <1>1 DEF NewestHolder
<1> QED  BY <1>2 DEF SearchQueue

\* A table's values are stored values, and never None.
LEMMA TableValue ==
  ASSUME NEW t \in Tables, NEW k \in DOMAIN t
  PROVE  t[k] \in Stored /\ t[k] # None /\ k \in Keys
BY ValueAssumption DEF Tables

\* If a buffer of the queue holds k, the search finds k.
LEMMA SearchQueueFinds ==
  ASSUME NEW q, IsQueue(q), NEW k, NEW i \in DOMAIN q, k \in DOMAIN q[i].data
  PROVE  NewestHolder(q, k) # {} /\ SearchQueue(q, k) # None
<1>1. DOMAIN q = 1..Len(q) /\ Len(q) \in Nat
  BY DEF IsQueue
<1> DEFINE S == {j \in DOMAIN q : k \in DOMAIN q[j].data}
<1>2. PICK j \in S : \A h \in S : h <= j
  <2>1. S \in SUBSET Int /\ S # {} /\ \A x \in S : x <= Len(q)
    BY <1>1
  <2> DEFINE n == Len(q)
  <2>2. n \in Int /\ \A x \in S : x <= n
    BY <1>1
  <2> HIDE DEF S, n
  <2> QED  BY <2>1, <2>2, LargestExists
<1>3. j \in NewestHolder(q, k)
  BY <1>1, <1>2 DEF NewestHolder
<1> QED  BY <1>2, <1>3, SearchQueueHit, TableValue DEF IsQueue

\* What append (a rotation) does to a search of the queue.
LEMMA SearchQueueAppend ==
  ASSUME NEW q, IsQueue(q), NEW b, b.data \in Tables, NEW k
  PROVE  /\ IsQueue(Append(q, b))
         /\ SearchQueue(Append(q, b), k) =
              IF k \in DOMAIN b.data THEN b.data[k] ELSE SearchQueue(q, k)
<1> DEFINE r == Append(q, b)
<1>1. /\ Len(q) \in Nat /\ DOMAIN q = 1..Len(q)
      /\ Len(r) = Len(q) + 1 /\ DOMAIN r = 1..(Len(q) + 1)
      /\ \A i \in DOMAIN q : r[i] = q[i]
      /\ r[Len(q) + 1] = b
      /\ r \in Seq({q[i] : i \in DOMAIN q} \cup {b})
  BY DEF IsQueue
<1>2. r \in Seq({r[i] : i \in DOMAIN r})
  BY <1>1
<1> HIDE DEF r
<1>3. IsQueue(r)
  BY <1>1, <1>2 DEF IsQueue
<1>4. CASE k \in DOMAIN b.data
  <2>1. Len(q) + 1 \in NewestHolder(r, k)
    BY <1>1, <1>4 DEF NewestHolder
  <2>2. SearchQueue(r, k) = r[Len(q) + 1].data[k]
    BY <1>3, <2>1, SearchQueueHit
  <2> QED  BY <1>1, <1>3, <1>4, <2>2 DEF r
<1>5. CASE k \notin DOMAIN b.data
  <2>1. NewestHolder(r, k) = NewestHolder(q, k)
    BY <1>1, <1>5 DEF NewestHolder
  <2>2. \A i \in NewestHolder(q, k) : r[i] = q[i]
    BY <1>1 DEF NewestHolder
  <2>3. SearchQueue(r, k) = SearchQueue(q, k)
    BY <2>1, <2>2 DEF SearchQueue
  <2> QED  BY <1>3, <1>5, <2>3 DEF r
<1> QED  BY <1>4, <1>5

\* What clear_frozen does to a search: a key only the oldest buffer holds is
\* no longer found, any other is found as before.
LEMMA SearchQueueTail ==
  ASSUME NEW q, IsQueue(q), q # <<>>, NEW k
  PROVE  /\ IsQueue(Tail(q))
         /\ \/ SearchQueue(Tail(q), k) = SearchQueue(q, k)
            \/ /\ SearchQueue(Tail(q), k) = None
               /\ k \in DOMAIN Head(q).data
               /\ SearchQueue(q, k) = Head(q).data[k]
<1> DEFINE r == Tail(q)
<1>1. /\ Len(q) \in Nat /\ DOMAIN q = 1..Len(q) /\ Len(q) > 0
      /\ Len(r) = Len(q) - 1 /\ DOMAIN r = 1..(Len(q) - 1)
      /\ \A i \in DOMAIN r : r[i] = q[i + 1]
      /\ Head(q) = q[1]
      /\ r \in Seq({q[i] : i \in DOMAIN q})
  BY DEF IsQueue
<1>2. r \in Seq({r[i] : i \in DOMAIN r})
  <2> DEFINE S == {q[i] : i \in DOMAIN q}
  <2>1. r \in Seq(S)
    BY <1>1
  <2> HIDE DEF r, S
  <2> QED  BY <2>1, SeqOfElements
<1>3. IsQueue(r)
  <2> HIDE DEF r
  <2>1. \A i \in DOMAIN r : i + 1 \in DOMAIN q
    BY <1>1
  <2>2. \A i \in DOMAIN r : r[i].data \in Tables
    BY <1>1, <2>1 DEF IsQueue
  <2> QED  BY <1>2, <2>2 DEF IsQueue
<1> HIDE DEF r
<1>4. CASE NewestHolder(r, k) # {}
  <2>1. PICK i \in NewestHolder(r, k) : TRUE
    BY <1>4
  <2>2. i + 1 \in NewestHolder(q, k)
    <3>1. i + 1 \in DOMAIN q /\ k \in DOMAIN q[i + 1].data
      BY <1>1, <2>1 DEF NewestHolder
    <3>2. ASSUME NEW j \in DOMAIN q, j > i + 1 PROVE k \notin DOMAIN q[j].data
      <4>1. j - 1 \in DOMAIN r /\ j - 1 > i /\ (j - 1) + 1 = j
        BY <1>1, <2>1, <3>2 DEF NewestHolder
      <4>2. r[j - 1] = q[j]
        BY <1>1, <4>1
      <4> QED  BY <2>1, <4>1, <4>2 DEF NewestHolder
    <3> QED  BY <3>1, <3>2 DEF NewestHolder
  <2>3. r[i] = q[i + 1]
    BY <1>1, <2>1 DEF NewestHolder
  <2>4. SearchQueue(r, k) = SearchQueue(q, k)
    BY <1>3, <2>1, <2>2, <2>3, SearchQueueHit
  <2> QED  BY <1>3, <2>4 DEF r
<1>5. CASE NewestHolder(r, k) = {} /\ NewestHolder(q, k) # {}
  <2>1. PICK i \in NewestHolder(q, k) : TRUE
    BY <1>5
  <2>2. CASE i = 1
    <3>1. k \in DOMAIN Head(q).data
      BY <1>1, <2>1, <2>2 DEF NewestHolder
    <3>2. SearchQueue(q, k) = Head(q).data[k]
      BY <1>1, <2>1, <2>2, SearchQueueHit
    <3> QED  BY <1>3, <1>5, <3>1, <3>2 DEF SearchQueue, r
  <2>3. CASE i # 1
    <3>1. i - 1 \in DOMAIN r /\ i \in DOMAIN q
      BY <1>1, <2>1, <2>3 DEF NewestHolder
    <3>2. r[i - 1] = q[i]
      <4>1. (i - 1) + 1 = i
        BY <1>1, <3>1
      <4> QED  BY <1>1, <3>1, <4>1
    <3>3. ASSUME NEW j \in DOMAIN r, j > i - 1 PROVE k \notin DOMAIN r[j].data
      <4>1. j + 1 \in DOMAIN q /\ j + 1 > i /\ r[j] = q[j + 1]
        BY <1>1, <3>1, <3>3
      <4> QED  BY <2>1, <4>1 DEF NewestHolder
    <3>4. i - 1 \in NewestHolder(r, k)
      BY <2>1, <3>1, <3>2, <3>3 DEF NewestHolder
    <3> QED  BY <1>5, <3>4
  <2> QED  BY <2>2, <2>3
<1>6. CASE NewestHolder(r, k) = {} /\ NewestHolder(q, k) = {}
  BY <1>3, <1>6 DEF SearchQueue, r
<1> QED  BY <1>4, <1>5, <1>6

-----------------------------------------------------------------------------
(* The MemTable *)

\* A MemTable whose counters may be anything.
IsMem(m) ==
  /\ m = [data |-> m.data, size |-> m.size, off |-> m.off, frozen |-> m.frozen]
  /\ m.data \in Tables
  /\ IsQueue(m.frozen)

\* Tables are the functions from keys to stored values.
LEMMA TablesAre ==
  ASSUME NEW t
  PROVE  t \in Tables <=> /\ t = [k \in DOMAIN t |-> t[k]]
                         /\ DOMAIN t \subseteq Keys
                         /\ \A k \in DOMAIN t : t[k] \in Stored
<1>1. ASSUME t \in Tables
      PROVE  /\ t = [k \in DOMAIN t |-> t[k]] /\ DOMAIN t \subseteq Keys
             /\ \A k \in DOMAIN t : t[k] \in Stored
  BY <1>1 DEF Tables
<1>2. ASSUME t = [k \in DOMAIN t |-> t[k]], DOMAIN t \subseteq Keys,
             \A k \in DOMAIN t : t[k] \in Stored
      PROVE  t \in Tables
  <2>1. t \in [DOMAIN t -> Stored]
    BY <1>2
  <2> QED  BY <1>2, <2>1 DEF Tables
<1> QED  BY <1>1, <1>2

\* Updating the buffer and its size leaves the rest of the record.
LEMMA Refilled ==
  ASSUME NEW m, IsMem(m), NEW size, NEW data
  PROVE  [m EXCEPT !.size = size, !.data = data] =
           [data |-> data, size |-> size, off |-> m.off, frozen |-> m.frozen]
<1>1. [m EXCEPT !.size = size] =
        [data |-> m.data, size |-> size, off |-> m.off, frozen |-> m.frozen]
  BY DEF IsMem
<1> DEFINE n == [m EXCEPT !.size = size]
<1> HIDE DEF n
<1>2. n = [data |-> m.data, size |-> size, off |-> m.off, frozen |-> m.frozen]
  BY <1>1 DEF n
<1>3. [n EXCEPT !.data = data] =
        [data |-> data, size |-> size, off |-> m.off, frozen |-> m.frozen]
  BY <1>2
<1> QED  BY <1>3 DEF n

\* A put is what the next get of the key finds, and changes no other.
LEMMA PutMem ==
  ASSUME NEW m, IsMem(m), NEW k \in Keys, NEW v \in Stored
  PROVE  /\ IsMem(PutUnlocked(m, k, v))
         /\ PutUnlocked(m, k, v).frozen = m.frozen
         /\ \A x : MemGet(PutUnlocked(m, k, v), x) = IF x = k THEN v ELSE MemGet(m, x)
<1> DEFINE data == [x \in DOMAIN m.data \cup {k} |-> IF x = k THEN v ELSE m.data[x]]
           n == PutUnlocked(m, k, v)
<1> DEFINE size == m.size - HeldSize(m.data, k) + SizeOf(v)
<1>1. n = [data |-> data, size |-> size, off |-> m.off, frozen |-> m.frozen]
  <2>1. n = [m EXCEPT !.size = size, !.data = data]
    BY DEF PutUnlocked
  <2> HIDE DEF n, size, data
  <2> QED  BY <2>1, Refilled
<1>2. data \in Tables
  BY TablesAre DEF IsMem
<1> HIDE DEF n, size
<1>3. n.data = data /\ n.frozen = m.frozen /\ n.off = m.off
  BY <1>1
<1>4. IsMem(n)
  BY <1>1, <1>2, <1>3 DEF IsMem
<1>5. \A x : MemGet(n, x) = IF x = k THEN v ELSE MemGet(m, x)
  BY <1>3 DEF MemGet
<1> QED  BY <1>3, <1>4, <1>5 DEF n

\* The value the last pair of a key writes is a stored value.
LEMMA BatchValueStored ==
  ASSUME NEW pairs \in Seq([key : Keys, value : Stored]), NEW k \in BatchKeys(pairs)
  PROVE  k \in Keys /\ BatchValue(pairs, k) \in Stored
<1> DEFINE P == [key : Keys, value : Stored]
           S == {i \in DOMAIN pairs : pairs[i].key = k}
<1>1. /\ DOMAIN pairs = 1..Len(pairs) /\ Len(pairs) \in Nat
      /\ \A i \in DOMAIN pairs : pairs[i] \in P
  <2> HIDE DEF P
  <2>1. pairs \in Seq(P)
    BY DEF P
  <2> QED  BY <2>1
<1>2. PICK i \in S : \A j \in S : j <= i
  <2> DEFINE n == Len(pairs)
  <2>1. S \in SUBSET Int /\ S # {} /\ n \in Int /\ \A j \in S : j <= n
    BY <1>1 DEF BatchKeys
  <2> HIDE DEF S, n
  <2> QED  BY <2>1, LargestExists
<1> DEFINE IsLast(i1) == /\ pairs[i1].key = k
                         /\ \A j \in DOMAIN pairs : j > i1 => pairs[j].key # k
<1>3. i \in DOMAIN pairs /\ IsLast(i)
  BY <1>1, <1>2
<1> DEFINE h == CHOOSE i1 \in DOMAIN pairs : IsLast(i1)
<1>4. h \in DOMAIN pairs
  BY <1>3
<1>5. BatchValue(pairs, k) = pairs[h].value
  BY DEF BatchValue
<1> QED  BY <1>1, <1>3, <1>4, <1>5

\* The MemTable after the pairs of a batch.
BatchMem(m, pairs, off) == [PutAllUnlocked(m, pairs) EXCEPT !.off = off]

\* After a batch a get finds the last pair of each of its keys.
LEMMA PutAllMem ==
  ASSUME NEW m, IsMem(m), NEW pairs \in Seq([key : Keys, value : Stored]), NEW off
  PROVE  /\ IsMem(BatchMem(m, pairs, off))
         /\ BatchMem(m, pairs, off).frozen = m.frozen
         /\ \A x : MemGet(BatchMem(m, pairs, off), x) = IF x \in BatchKeys(pairs) THEN BatchValue(pairs, x)
                                  ELSE MemGet(m, x)
<1> DEFINE ks == BatchKeys(pairs)
           data == [x \in DOMAIN m.data \cup ks |->
                      IF x \in ks THEN BatchValue(pairs, x) ELSE m.data[x]]
           all == PutAllUnlocked(m, pairs)
           n == BatchMem(m, pairs, off)
<1> DEFINE size == m.size + MapThenSumSet(
                       LAMBDA x : SizeOf(BatchValue(pairs, x)) - HeldSize(m.data, x), ks)
<1>1. all = [data |-> data, size |-> size, off |-> m.off, frozen |-> m.frozen]
  <2>1. all = [m EXCEPT !.size = size, !.data = data]
    BY DEF PutAllUnlocked
  <2> HIDE DEF all, size, data
  <2> QED  BY <2>1, Refilled
<1>2. data \in Tables
  <2>1. \A x \in ks : x \in Keys /\ BatchValue(pairs, x) \in Stored
    BY BatchValueStored
  <2> HIDE DEF ks
  <2> QED  BY <2>1, TablesAre DEF IsMem
<1>3. n = [all EXCEPT !.off = off]
  BY DEF BatchMem
<1> HIDE DEF all, size, data, n
<1>4. n = [data |-> data, size |-> size, off |-> off, frozen |-> m.frozen]
  BY <1>1, <1>3
<1>5. IsMem(n)
  <2>1. n.data = data /\ n.size = size /\ n.off = off /\ n.frozen = m.frozen
    BY <1>4
  <2>2. IsQueue(m.frozen)
    BY DEF IsMem
  <2> QED  BY <1>2, <1>4, <2>1, <2>2 DEF IsMem
<1>6. \A x : MemGet(n, x) = IF x \in ks THEN BatchValue(pairs, x) ELSE MemGet(m, x)
  BY <1>4 DEF MemGet, data
<1> QED  BY <1>4, <1>5, <1>6 DEF n

\* The WAL offset a buffer carries makes no difference to a get.
LEMMA RaiseOffsetMem ==
  ASSUME NEW m, IsMem(m), NEW o
  PROVE  /\ IsMem(RaiseOffset(m, o))
         /\ RaiseOffset(m, o).frozen = m.frozen
         /\ \A x : MemGet(RaiseOffset(m, o), x) = MemGet(m, x)
<1> DEFINE n == RaiseOffset(m, o)
<1>1. n = [data |-> m.data, size |-> m.size, off |-> n.off, frozen |-> m.frozen]
  BY DEF RaiseOffset, IsMem
<1> HIDE DEF n
<1>2. n.data = m.data /\ n.frozen = m.frozen
  BY <1>1
<1> QED  BY <1>1, <1>2 DEF IsMem, MemGet, n

\* Nor does a rotation; it leaves the head of a queue where it is.
LEMMA RotateMem ==
  ASSUME NEW m, IsMem(m)
  PROVE  /\ IsMem(RotateUnlocked(m))
         /\ \A x : MemGet(RotateUnlocked(m), x) = MemGet(m, x)
         /\ m.frozen # <<>> => /\ RotateUnlocked(m).frozen # <<>>
                               /\ Head(RotateUnlocked(m).frozen) = Head(m.frozen)
<1> DEFINE b == [data |-> m.data, off |-> m.off]
           q == Append(m.frozen, b)
           n == RotateUnlocked(m)
<1>1. n = [data |-> EmptyTable, size |-> 0, off |-> 0, frozen |-> q]
  BY DEF RotateUnlocked
<1>2. EmptyTable \in Tables /\ \A x : x \notin DOMAIN EmptyTable
  BY TablesAre DEF EmptyTable
<1>3. b.data = m.data /\ b.data \in Tables
  BY DEF IsMem
<1> HIDE DEF b
<1>4. /\ IsQueue(q)
      /\ \A x : SearchQueue(q, x) =
               IF x \in DOMAIN b.data THEN b.data[x] ELSE SearchQueue(m.frozen, x)
  BY <1>3, SearchQueueAppend DEF IsMem
<1>5. m.frozen # <<>> => q # <<>> /\ Head(q) = Head(m.frozen)
  BY DEF IsMem, IsQueue
<1> HIDE DEF n, q
<1>6. IsMem(n)
  BY <1>1, <1>2, <1>4 DEF IsMem
<1>7. \A x : MemGet(n, x) = MemGet(m, x)
  BY <1>1, <1>2, <1>3, <1>4 DEF MemGet
<1> QED  BY <1>1, <1>5, <1>6, <1>7 DEF n

\* clear_frozen takes from a get what the oldest buffer alone holds.
LEMMA ClearMem ==
  ASSUME NEW m, IsMem(m), m.frozen # <<>>
  PROVE  /\ IsMem(ClearFrozen(m))
         /\ \A x : \/ MemGet(ClearFrozen(m), x) = MemGet(m, x)
                  \/ /\ MemGet(ClearFrozen(m), x) = None
                     /\ x \in DOMAIN Head(m.frozen).data
                     /\ MemGet(m, x) = Head(m.frozen).data[x]
<1> DEFINE n == ClearFrozen(m)
<1>1. n = [data |-> m.data, size |-> m.size, off |-> m.off, frozen |-> Tail(m.frozen)]
  BY DEF ClearFrozen, IsMem
<1>2. IsQueue(Tail(m.frozen))
  BY SearchQueueTail DEF IsMem
<1> HIDE DEF n
<1>3. n.data = m.data /\ n.frozen = Tail(m.frozen)
  BY <1>1
<1>4. IsMem(n)
  BY <1>1, <1>2, <1>3 DEF IsMem
<1>5. ASSUME NEW x
      PROVE  \/ MemGet(n, x) = MemGet(m, x)
             \/ /\ MemGet(n, x) = None
                /\ x \in DOMAIN Head(m.frozen).data
                /\ MemGet(m, x) = Head(m.frozen).data[x]
  BY <1>3, SearchQueueTail DEF MemGet, IsMem
<1> QED  BY <1>4, <1>5 DEF n

\* A get finds what any buffer of the queue holds, or something newer.
LEMMA HeadFound ==
  ASSUME NEW m, IsMem(m), m.frozen # <<>>, NEW k \in DOMAIN Head(m.frozen).data
  PROVE  MemGet(m, k) # None
<1>1. 1 \in DOMAIN m.frozen /\ Head(m.frozen) = m.frozen[1]
  BY DEF IsMem, IsQueue
<1>2. SearchQueue(m.frozen, k) # None
  BY <1>1, SearchQueueFinds DEF IsMem
<1> QED  BY <1>2, TableValue DEF MemGet, IsMem

-----------------------------------------------------------------------------
(* The SSTables of a level *)

\* Entries made at different times, none of them after c.
Dated(S, c) ==
  /\ S \in SUBSET Entries
  /\ \A e \in S : e.created <= c
  /\ \A e, f \in S : e.created = f.created => e = f

\* Files that hold tables.
FilesOK(fs) == \A p \in DOMAIN fs : fs[p] \in Tables

\* Of two entries made at different times one is newer, and only one.
LEMMA NewerIsLater ==
  ASSUME NEW c, NEW S, Dated(S, c), NEW e \in S, NEW f \in S
  PROVE  Newer(e, f) <=> e.created > f.created
<1>1. /\ e.created \in Int /\ f.created \in Int
      /\ e.created = f.created => e = f
  BY DEF Dated, Entries
<1>2. e.path[2] \in Int /\ f.path[2] \in Int
  BY DEF Dated, Entries, Paths
<1> QED  BY <1>1, <1>2 DEF Newer

\* Of any entries there is one that was made last.
LEMMA LatestExists ==
  ASSUME NEW c \in Int, NEW S, Dated(S, c), NEW T \in SUBSET S, T # {}
  PROVE  \E e \in T : \A f \in T : f = e \/ e.created > f.created
<1> DEFINE times == {e.created : e \in T}
<1>1. times \in SUBSET Int /\ times # {} /\ \A x \in times : x <= c
  BY DEF Dated, Entries
<1>2. PICK x \in times : \A y \in times : y <= x
  <2> HIDE DEF times
  <2> QED  BY <1>1, LargestExists
<1>3. PICK e \in T : e.created = x
  OBVIOUS
<1>4. ASSUME NEW f \in T PROVE f = e \/ e.created > f.created
  <2>1. f.created <= e.created /\ f.created \in Int /\ e.created \in Int
    BY <1>2, <1>3 DEF Dated, Entries
  <2> QED  BY <2>1 DEF Dated
<1> QED  BY <1>4

\* Newest is what its name says.
LEMMA NewestIsIn ==
  ASSUME NEW c \in Int, NEW S, Dated(S, c), NEW T \in SUBSET S, T # {}
  PROVE  Newest(T) \in T
<1>1. PICK e \in T : \A f \in T : f = e \/ Newer(e, f)
  BY LatestExists, NewerIsLater
<1> QED  BY <1>1 DEF Newest

\* A newest-first search stops at no more than one entry, and returns what
\* that one holds.
LEMMA FirstHitOnly ==
  ASSUME NEW fs, NEW c, NEW S, Dated(S, c), NEW k, NEW e \in FirstHit(fs, S, k)
  PROVE  /\ FirstHit(fs, S, k) = {e}
         /\ SearchLevel(fs, S, k) = fs[e.path][k]
<1>1. ASSUME NEW f \in FirstHit(fs, S, k) PROVE f = e
  <2>1. /\ e \in S /\ f \in S
        /\ ~Newer(e, f) /\ ~Newer(f, e)
    BY <1>1 DEF FirstHit
  <2>2. e.created \in Int /\ f.created \in Int
    BY <2>1 DEF Dated, Entries
  <2>3. ~(e.created > f.created) /\ ~(f.created > e.created)
    BY <2>1, NewerIsLater
  <2> QED  BY <2>1, <2>2, <2>3 DEF Dated
<1>2. FirstHit(fs, S, k) = {e}
  BY <1>1
<1> QED  BY <1>2 DEF SearchLevel

\* If an entry holds the key, the search stops somewhere.
LEMMA FirstHitExists ==
  ASSUME NEW fs, NEW c \in Int, NEW S, Dated(S, c), NEW k,
         NEW e \in S, Holds(fs, e.path, k)
  PROVE  FirstHit(fs, S, k) # {}
<1> DEFINE T == {f \in S : Holds(fs, f.path, k)}
<1>1. PICK h \in T : \A f \in T : f = h \/ h.created > f.created
  <2>1. T \in SUBSET S /\ T # {}
    OBVIOUS
  <2> HIDE DEF T
  <2> QED  BY <2>1, LatestExists
<1>2. ASSUME NEW f \in S, Newer(f, h) PROVE ~Holds(fs, f.path, k)
  <2>1. f.created > h.created /\ f.created \in Int /\ h.created \in Int
    BY <1>2, NewerIsLater DEF Dated, Entries
  <2> QED  BY <1>1, <2>1
<1>3. h \in FirstHit(fs, S, k)
  BY <1>2 DEF FirstHit
<1> QED  BY <1>3

\* What a search of a level returns is None exactly when no entry holds the key.
LEMMA SearchLevelNone ==
  ASSUME NEW fs, FilesOK(fs), NEW c \in Int, NEW S, Dated(S, c), NEW k
  PROVE  /\ SearchLevel(fs, S, k) = None <=> FirstHit(fs, S, k) = {}
         /\ FirstHit(fs, S, k) = {} <=> \A e \in S : ~Holds(fs, e.path, k)
<1>1. ASSUME NEW e \in FirstHit(fs, S, k) PROVE SearchLevel(fs, S, k) # None
  <2>1. e.path \in DOMAIN fs /\ k \in DOMAIN fs[e.path]
    BY DEF FirstHit, Holds
  <2>2. fs[e.path][k] # None
    BY <2>1, TableValue DEF FilesOK
  <2> QED  BY <2>2, FirstHitOnly
<1>2. FirstHit(fs, S, k) = {} => \A e \in S : ~Holds(fs, e.path, k)
  BY FirstHitExists
<1>3. (\A e \in S : ~Holds(fs, e.path, k)) => FirstHit(fs, S, k) = {}
  BY DEF FirstHit
<1>4. FirstHit(fs, S, k) = {} => SearchLevel(fs, S, k) = None
  BY DEF SearchLevel
<1> QED  BY <1>1, <1>2, <1>3, <1>4

\* Searching entries of which some were all made later than the others is
\* searching the later ones first.
LEMMA SearchUnion ==
  ASSUME NEW fs, FilesOK(fs), NEW c \in Int, NEW S, Dated(S, c),
         NEW A, NEW B, S = A \cup B, NEW k,
         \A a \in A, b \in B : b.created > a.created
  PROVE  /\ Dated(A, c) /\ Dated(B, c)
         /\ SearchLevel(fs, B, k) # None =>
              SearchLevel(fs, S, k) = SearchLevel(fs, B, k)
         /\ SearchLevel(fs, B, k) = None =>
              SearchLevel(fs, S, k) = SearchLevel(fs, A, k)
<1>1. Dated(A, c) /\ Dated(B, c)
  BY DEF Dated
<1>2. ASSUME NEW e \in FirstHit(fs, B, k)
      PROVE  SearchLevel(fs, S, k) = SearchLevel(fs, B, k)
  <2>1. e \in B /\ Holds(fs, e.path, k) /\ \A f \in B : Newer(f, e) => ~Holds(fs, f.path, k)
    BY DEF FirstHit
  <2>2. \A f \in A : ~Newer(f, e)
    <3> TAKE f \in A
    <3>1. e.created > f.created /\ e.created \in Int /\ f.created \in Int
      BY <2>1 DEF Dated, Entries
    <3> QED  BY <2>1, <3>1, NewerIsLater
  <2>3. e \in FirstHit(fs, S, k)
    BY <2>1, <2>2 DEF FirstHit
  <2>4. SearchLevel(fs, S, k) = fs[e.path][k]
    BY <2>3, FirstHitOnly
  <2>5. SearchLevel(fs, B, k) = fs[e.path][k]
    BY <1>1, FirstHitOnly
  <2> QED  BY <2>4, <2>5
<1>3. ASSUME FirstHit(fs, B, k) = {}
      PROVE  SearchLevel(fs, S, k) = SearchLevel(fs, A, k)
  <2>1. \A f \in B : ~Holds(fs, f.path, k)
    BY <1>1, <1>3, SearchLevelNone
  <2>2. FirstHit(fs, S, k) = FirstHit(fs, A, k)
    BY <2>1 DEF FirstHit
  <2>3. CASE FirstHit(fs, A, k) = {}
    BY <2>2, <2>3 DEF SearchLevel
  <2>4. ASSUME NEW e \in FirstHit(fs, A, k)
        PROVE  SearchLevel(fs, S, k) = SearchLevel(fs, A, k)
    <3>1. SearchLevel(fs, A, k) = fs[e.path][k]
      BY <1>1, FirstHitOnly
    <3>2. SearchLevel(fs, S, k) = fs[e.path][k]
      BY <2>2, FirstHitOnly
    <3> QED  BY <3>1, <3>2
  <2> QED  BY <2>3, <2>4
<1>4. SearchLevel(fs, B, k) = None <=> FirstHit(fs, B, k) = {}
  BY <1>1, SearchLevelNone
<1> QED  BY <1>1, <1>2, <1>3, <1>4

\* A path names the same file in both, or none.
SameIn(fs, gs, p) ==
  /\ p \in DOMAIN fs <=> p \in DOMAIN gs
  /\ p \in DOMAIN fs => fs[p] = gs[p]

\* The search only looks at the files its entries name.
LEMMA SearchFrame ==
  ASSUME NEW fs, NEW gs, NEW S, NEW k,
         \A e \in S : SameIn(fs, gs, e.path)
  PROVE  FirstHit(gs, S, k) = FirstHit(fs, S, k) /\ SearchLevel(gs, S, k) = SearchLevel(fs, S, k)
<1>1. \A e \in S : Holds(gs, e.path, k) <=> Holds(fs, e.path, k)
  BY DEF Holds, SameIn
<1>2. FirstHit(gs, S, k) = FirstHit(fs, S, k)
  BY <1>1 DEF FirstHit
<1>3. CASE FirstHit(fs, S, k) = {}
  BY <1>2, <1>3 DEF SearchLevel
<1>4. CASE FirstHit(fs, S, k) # {}
  <2> DEFINE e == CHOOSE x \in FirstHit(fs, S, k) : TRUE
  <2>1. e \in S /\ Holds(fs, e.path, k)
    BY <1>4 DEF FirstHit
  <2>2. fs[e.path] = gs[e.path]
    BY <2>1 DEF Holds, SameIn
  <2> QED  BY <1>2, <1>4, <2>2 DEF SearchLevel
<1> QED  BY <1>2, <1>3, <1>4

-----------------------------------------------------------------------------
(* The view *)

\* The level-0 SSTables that count: compact has put the merged data of its
\* inputs into level 1 before it takes the first one out of level 0.
Upper ==
  IF CompactAt("removing") THEN manifest.mem[0] \ compaction.inputs ELSE manifest.mem[0]

\* A search of two levels.
Find(fs, upper, lower, k) ==
  IF SearchLevel(fs, upper, k) # None THEN SearchLevel(fs, upper, k)
  ELSE SearchLevel(fs, lower, k)

\* What the SSTables that count say about k.
OnDisk(k) == Find(files, Upper, manifest.mem[1], k)

\* The entries of level 0 and those compact works on.
Inputs == manifest.mem[0] \cup compaction.inputs

-----------------------------------------------------------------------------
(* The inductive invariant *)

\* The parts of the writers' state that the argument needs.
WritersOK ==
  /\ writer = [t \in Writers |-> writer[t]]
  /\ \A t \in Writers :
       LET w == writer[t] IN
       /\ w = [pc |-> w.pc, pairs |-> w.pairs, n |-> w.n, bytes |-> w.bytes, off |-> w.off]
       /\ w.pairs \in Seq(Pairs)
       /\ w.pc \in {"put", "delete"} => Len(w.pairs) = 1
       /\ w.pc = "delete" => w.pairs[1].value = Tombstone

\* And of the rest of the state.
Shapes ==
  /\ IsMem(mem)
  /\ WritersOK
  /\ flush = [pc |-> flush.pc, by |-> flush.by, items |-> flush.items,
              off |-> flush.off, path |-> flush.path]
  /\ flush.items \in Tables /\ flush.path \in Paths
  /\ manifest \in [mem : LevelSets, disk : LevelSets]
  /\ FilesOK(files)
  /\ clock \in Int
  /\ compaction \in Compactions

\* The entries of a level have their own times and, on level 0, paths, and all
\* of these are in the past.
LevelsOK ==
  /\ Dated(Inputs, clock)
  /\ Dated(manifest.mem[1], clock)
  /\ \A e, f \in Inputs : e.path = f.path => e = f
  /\ \A e \in Inputs : e.path[1] = 0 /\ e.path[2] <= clock
  /\ \A e \in manifest.mem[1] : e.path[1] = 1 /\ e.path[2] <= clock

\* What compact has read stays the older part of level 0 until it has put the
\* merged file into level 1; afterwards nothing else names its inputs.
CompactionOK ==
  /\ compaction.pc \in {"merging", "written"} =>
       /\ compaction.inputs \subseteq manifest.mem[0] /\ compaction.inputs # {}
       /\ \A e \in manifest.mem[0] \ compaction.inputs, i \in compaction.inputs :
            e.created > i.created
  /\ CompactAt("written") =>
       /\ compaction.out[1] = 1 /\ compaction.out[2] <= clock
       /\ compaction.out \in DOMAIN files
       /\ files[compaction.out] = MergeTables(compaction.inputs)
       /\ \A e \in manifest.mem[1] : e.path # compaction.out
  /\ CompactAt("removing") =>
       manifest.mem[0] \cap compaction.inputs = compaction.todo /\ compaction.todo # {}
  /\ CompactAt("deleting") =>
       /\ manifest.mem[0] \cap compaction.inputs = {}
       /\ compaction.todo \subseteq compaction.inputs /\ compaction.todo # {}

\* The buffer a flush has taken is the head of the queue until it clears it, its
\* file holds what the buffer holds, and from its installation to the truncation
\* of the log a search of the SSTables finds that.
FlushOK ==
  /\ flush.pc \in {"taken", "written", "installed", "saved"} =>
       mem.frozen # <<>> /\ Head(mem.frozen).data = flush.items
  /\ FlushAt("written") =>
       /\ flush.path[1] = 0 /\ flush.path[2] <= clock
       /\ flush.path \in DOMAIN files /\ files[flush.path] = flush.items
       /\ \A e \in Inputs : e.path # flush.path
  /\ flush.pc \in {"installed", "saved", "cleared"} =>
       \A k \in DOMAIN flush.items : OnDisk(k) = flush.items[k]

\* Buffers and SSTables together hold what was written last.
NothingLost ==
  \A k \in Keys :
    applied[k] = IF MemGet(mem, k) # None THEN MemGet(mem, k) ELSE OnDisk(k)

IInv == Shapes /\ LevelsOK /\ CompactionOK /\ FlushOK /\ NothingLost

-----------------------------------------------------------------------------
(* What a search of the SSTables finds, before and after a step *)

\* A step that leaves a file as it is, or leaves it missing.
SameFile(p) == SameIn(files, files', p)

\* Searches look at the files their entries name and no others.
LEMMA SameSearch ==
  ASSUME NEW S, \A e \in S : SameFile(e.path), NEW k
  PROVE  /\ FirstHit(files', S, k) = FirstHit(files, S, k)
         /\ SearchLevel(files', S, k) = SearchLevel(files, S, k)
BY SearchFrame DEF SameFile

\* A step that leaves the levels, and the files they name, leaves what a search
\* finds.
LEMMA OnDiskFrame ==
  ASSUME Upper' = Upper, manifest'.mem[1] = manifest.mem[1],
         \A e \in Upper \cup manifest.mem[1] : SameFile(e.path)
  PROVE  \A k : OnDisk(k)' = OnDisk(k)
<1> TAKE k
<1> DEFINE lower == manifest.mem[1]
<1>1. SearchLevel(files', Upper, k) = SearchLevel(files, Upper, k)
  BY SameSearch
<1>2. SearchLevel(files', lower, k) = SearchLevel(files, lower, k)
  BY SameSearch
<1>3. OnDisk(k)' = Find(files', Upper, lower, k)
  BY DEF OnDisk
<1> QED  BY <1>1, <1>2, <1>3 DEF OnDisk, Find

\* Merging inputs makes a table of what a search of them finds.
LEMMA MergeIs ==
  ASSUME FilesOK(files), clock \in Int, NEW S, Dated(S, clock)
  PROVE  /\ MergeTables(S) \in Tables
         /\ \A k \in Keys :
              /\ k \in DOMAIN MergeTables(S) <=> SearchLevel(files, S, k) # None
              /\ k \in DOMAIN MergeTables(S) => MergeTables(S)[k] = SearchLevel(files, S, k)
<1> DEFINE t == MergeTables(S)
<1>1. /\ t = [k \in DOMAIN t |-> t[k]]
      /\ DOMAIN t = {x \in Keys : FirstHit(files, S, x) # {}}
      /\ \A k \in DOMAIN t : t[k] = SearchLevel(files, S, k)
  BY DEF MergeTables
<1>2. ASSUME NEW k \in DOMAIN t PROVE t[k] \in Stored
  <2>1. PICK e \in FirstHit(files, S, k) : TRUE
    BY <1>1
  <2>2. t[k] = files[e.path][k]
    BY <1>1, <2>1, FirstHitOnly
  <2>3. e.path \in DOMAIN files /\ k \in DOMAIN files[e.path]
    BY <2>1 DEF FirstHit, Holds
  <2> QED  BY <2>2, <2>3, TableValue DEF FilesOK
<1>3. t \in Tables
  BY <1>1, <1>2, TablesAre
<1>4. \A k \in Keys : k \in DOMAIN t <=> SearchLevel(files, S, k) # None
  BY <1>1, SearchLevelNone
<1> QED  BY <1>1, <1>3, <1>4

\* One entry that is newer than the rest of its level.
LEMMA SearchNewest ==
  ASSUME NEW fs, FilesOK(fs), NEW c \in Int, NEW S, Dated(S, c),
         NEW A, NEW e, S = A \cup {e}, \A a \in A : e.created > a.created,
         e.path \in DOMAIN fs, NEW k
  PROVE  /\ k \in DOMAIN fs[e.path] => SearchLevel(fs, S, k) = fs[e.path][k]
         /\ k \notin DOMAIN fs[e.path] => SearchLevel(fs, S, k) = SearchLevel(fs, A, k)
<1> DEFINE B == {e}
<1>1. \A a \in A, b \in B : b.created > a.created
  OBVIOUS
<1>2. S = A \cup B /\ e \in B /\ \A b \in B : b = e
  OBVIOUS
<1> HIDE DEF B
<1>3. /\ Dated(B, c)
      /\ SearchLevel(fs, B, k) # None => SearchLevel(fs, S, k) = SearchLevel(fs, B, k)
      /\ SearchLevel(fs, B, k) = None => SearchLevel(fs, S, k) = SearchLevel(fs, A, k)
  BY <1>1, <1>2, SearchUnion
<1>4. CASE k \in DOMAIN fs[e.path]
  <2>1. e \in FirstHit(fs, B, k)
    <3>1. ~Newer(e, e)
      <4>1. e.created \in Int /\ e.path[2] \in Int
        BY <1>2, <1>3 DEF Dated, Entries, Paths
      <4> QED  BY <4>1 DEF Newer
    <3> QED  BY <1>2, <1>4, <3>1 DEF FirstHit, Holds
  <2>2. SearchLevel(fs, B, k) = fs[e.path][k]
    BY <1>3, <2>1, FirstHitOnly
  <2>3. fs[e.path][k] # None
    BY <1>4, TableValue DEF FilesOK
  <2> QED  BY <1>3, <1>4, <2>2, <2>3
<1>5. CASE k \notin DOMAIN fs[e.path]
  <2>1. FirstHit(fs, B, k) = {}
    BY <1>2, <1>5 DEF FirstHit, Holds
  <2> QED  BY <1>3, <1>5, <2>1 DEF SearchLevel
<1> QED  BY <1>4, <1>5

-----------------------------------------------------------------------------
(* The initial state *)

\* A new engine has nothing to lose.
LEMMA InitIInv == Init => IInv
<1> SUFFICES ASSUME Init PROVE IInv
  OBVIOUS
<1> USE DEF Init
<1>1. EmptyTable \in Tables /\ \A k : k \notin DOMAIN EmptyTable
  BY TablesAre DEF EmptyTable
<1>2. Shapes
  <2>1. IsMem(mem)
    BY <1>1 DEF IsMem, IsQueue, NewMemTable
  <2>2. WritersOK
    <3>1. IdleWriter = [pc |-> "idle", pairs |-> <<>>, n |-> 0, bytes |-> 0, off |-> 0]
      BY DEF IdleWriter
    <3>2. <<>> \in Seq(Pairs)
      OBVIOUS
    <3>3. \A t \in Writers : writer[t] = IdleWriter
      OBVIOUS
    <3> QED  BY <3>1, <3>2, <3>3 DEF WritersOK
  <2>3. /\ flush = [pc |-> flush.pc, by |-> flush.by, items |-> flush.items,
                    off |-> flush.off, path |-> flush.path]
        /\ flush.items \in Tables /\ flush.path \in Paths
    BY <1>1 DEF NoFlush, Paths, Levels
  <2>4. manifest \in [mem : LevelSets, disk : LevelSets]
    BY DEF NewManifest, NoLevels, LevelSets
  <2>5. compaction \in Compactions
    BY DEF NoCompaction, Compactions, CompactionPCs, Paths, Levels
  <2>6. FilesOK(files)
    BY DEF FilesOK
  <2> QED  BY <2>1, <2>2, <2>3, <2>4, <2>5, <2>6 DEF Shapes
<1>3. Inputs = {} /\ Upper = {} /\ manifest.mem[1] = {}
  BY DEF Inputs, Upper, NewManifest, NoLevels, NoCompaction, Levels, CompactAt
<1>4. LevelsOK
  BY <1>3 DEF LevelsOK, Dated
<1>5. CompactionOK
  BY DEF CompactionOK, CompactAt, NoCompaction
<1>6. FlushOK
  BY DEF FlushOK, FlushAt, NoFlush
<1>7. NothingLost
  <2> SUFFICES ASSUME NEW k \in Keys
               PROVE  MemGet(mem, k) = None /\ OnDisk(k) = None
    BY DEF NothingLost
  <2>1. MemGet(mem, k) = None
    BY <1>1 DEF MemGet, NewMemTable, SearchQueue, NewestHolder
  <2>2. SearchLevel(files, {}, k) = None
    BY DEF SearchLevel, FirstHit
  <2> QED  BY <1>3, <2>1, <2>2 DEF OnDisk, Find
<1> QED  BY <1>2, <1>4, <1>5, <1>6, <1>7 DEF IInv

-----------------------------------------------------------------------------
(* Steps of the writers *)

\* A step of a writer: it touches the MemTable and its own locals, and of the
\* invariant only these conditions are left to show.
LEMMA WriterFrame ==
  ASSUME IInv, IsMem(mem'), WritersOK', UNCHANGED <<flush, compactionVars>>,
         mem.frozen # <<>> => mem'.frozen # <<>> /\ Head(mem'.frozen) = Head(mem.frozen),
         \A k \in Keys :
           \/ applied'[k] = applied[k] /\ MemGet(mem', k) = MemGet(mem, k)
           \/ applied'[k] = MemGet(mem', k) /\ MemGet(mem', k) # None
  PROVE  IInv'
<1> USE DEF compactionVars
<1>1. /\ Upper' = Upper /\ Inputs' = Inputs
      /\ \A k : OnDisk(k)' = OnDisk(k)
      /\ MergeTables(compaction.inputs)' = MergeTables(compaction.inputs)
  BY DEF Upper, Inputs, OnDisk, CompactAt, MergeTables
<1>2. Shapes'
  BY DEF IInv, Shapes
<1>3. LevelsOK'
  BY <1>1 DEF IInv, LevelsOK
<1>4. CompactionOK'
  BY <1>1 DEF IInv, CompactionOK, CompactAt
<1>5. FlushOK'
  BY <1>1 DEF IInv, FlushOK, FlushAt
<1>6. NothingLost'
  BY <1>1 DEF IInv, NothingLost
<1> QED  BY <1>2, <1>3, <1>4, <1>5, <1>6 DEF IInv

\* A writer's next locals are as WritersOK wants them.
LEMMA WriterMoves ==
  ASSUME WritersOK, NEW t \in Writers, NEW w, writer' = [writer EXCEPT ![t] = w],
         w = [pc |-> w.pc, pairs |-> w.pairs, n |-> w.n, bytes |-> w.bytes, off |-> w.off],
         w.pairs \in Seq(Pairs),
         w.pc \in {"put", "delete"} => Len(w.pairs) = 1,
         w.pc = "delete" => w.pairs[1].value = Tombstone
  PROVE  WritersOK'
<1>1. /\ writer' = [u \in Writers |-> writer'[u]]
      /\ writer'[t] = w
      /\ \A u \in Writers : u # t => writer'[u] = writer[u]
  BY DEF WritersOK
<1>2. ASSUME NEW u \in Writers, u # t
      PROVE  LET x == writer'[u] IN
             /\ x = [pc |-> x.pc, pairs |-> x.pairs, n |-> x.n, bytes |-> x.bytes, off |-> x.off]
             /\ x.pairs \in Seq(Pairs)
             /\ x.pc \in {"put", "delete"} => Len(x.pairs) = 1
             /\ x.pc = "delete" => x.pairs[1].value = Tombstone
  BY <1>1, <1>2 DEF WritersOK
<1> QED  BY <1>1, <1>2 DEF WritersOK

\* A step that leaves the MemTable alone.
LEMMA WriterFrameMem ==
  ASSUME IInv, WritersOK', UNCHANGED <<mem, applied, flush, compactionVars>>
  PROVE  IInv'
<1>1. IsMem(mem')
  BY DEF IInv, Shapes
<1> QED  BY <1>1, WriterFrame

\* What a write of pairs under the lock is to make of a get.
LEMMA WriteApplied ==
  ASSUME IInv, NEW pairs, applied' = Applied(pairs),
         \A x : MemGet(mem', x) = IF x \in BatchKeys(pairs) THEN BatchValue(pairs, x)
                                 ELSE MemGet(mem, x),
         \A x \in BatchKeys(pairs) : BatchValue(pairs, x) \in Stored
  PROVE  \A k \in Keys :
           \/ applied'[k] = applied[k] /\ MemGet(mem', k) = MemGet(mem, k)
           \/ applied'[k] = MemGet(mem', k) /\ MemGet(mem', k) # None
<1> TAKE k \in Keys
<1>1. applied'[k] = IF k \in BatchKeys(pairs) THEN BatchValue(pairs, k) ELSE applied[k]
  BY DEF Applied
<1>2. CASE k \in BatchKeys(pairs)
  BY <1>1, <1>2, ValueAssumption
<1>3. CASE k \notin BatchKeys(pairs)
  BY <1>1, <1>3
<1> QED  BY <1>2, <1>3

\* A put is a batch of one pair.
LEMMA OnePair ==
  ASSUME NEW p \in Pairs
  PROVE  BatchKeys(<<p>>) = {p.key} /\ BatchValue(<<p>>, p.key) = p.value
<1> DEFINE q == <<p>>
           IsLast(i) == /\ q[i].key = p.key
                        /\ \A j \in DOMAIN q : j > i => q[j].key # p.key
           last == CHOOSE i \in DOMAIN q : IsLast(i)
<1>1. DOMAIN q = {1} /\ q[1] = p
  OBVIOUS
<1> HIDE DEF q
<1>2. BatchKeys(q) = {p.key}
  BY <1>1 DEF BatchKeys
<1>3. last \in DOMAIN q
  <2>1. 1 \in DOMAIN q /\ IsLast(1)
    BY <1>1
  <2> HIDE DEF IsLast
  <2> QED  BY <2>1
<1>4. BatchValue(q, p.key) = q[last].value
  BY DEF BatchValue
<1>5. BatchValue(q, p.key) = p.value
  BY <1>1, <1>3, <1>4
<1> QED  BY <1>2, <1>5 DEF q

\* A writer's locals.
IsLocals(w) ==
  w = [pc |-> w.pc, pairs |-> w.pairs, n |-> w.n, bytes |-> w.bytes, off |-> w.off]

\* Setting its step leaves the rest.
LEMMA SetPC ==
  ASSUME NEW w, IsLocals(w), NEW pc
  PROVE  [w EXCEPT !.pc = pc] =
           [pc |-> pc, pairs |-> w.pairs, n |-> w.n, bytes |-> w.bytes, off |-> w.off]
BY DEF IsLocals

\* Setting its step and its pairs leaves the rest.
LEMMA SetPairs ==
  ASSUME NEW w, IsLocals(w), NEW pc, NEW pairs
  PROVE  [w EXCEPT !.pc = pc, !.pairs = pairs] =
           [pc |-> pc, pairs |-> pairs, n |-> w.n, bytes |-> w.bytes, off |-> w.off]
<1> DEFINE x == [w EXCEPT !.pc = pc]
<1>1. x = [pc |-> pc, pairs |-> w.pairs, n |-> w.n, bytes |-> w.bytes, off |-> w.off]
  BY SetPC
<1> HIDE DEF x
<1>2. [x EXCEPT !.pairs = pairs] =
        [pc |-> pc, pairs |-> pairs, n |-> w.n, bytes |-> w.bytes, off |-> w.off]
  BY <1>1
<1> QED  BY <1>2 DEF x

\* Setting its step and its offset leaves the rest.
LEMMA SetOff ==
  ASSUME NEW w, IsLocals(w), NEW pc, NEW off
  PROVE  [w EXCEPT !.pc = pc, !.off = off] =
           [pc |-> pc, pairs |-> w.pairs, n |-> w.n, bytes |-> w.bytes, off |-> off]
<1> DEFINE x == [w EXCEPT !.pc = pc]
<1>1. x = [pc |-> pc, pairs |-> w.pairs, n |-> w.n, bytes |-> w.bytes, off |-> w.off]
  BY SetPC
<1> HIDE DEF x
<1>2. [x EXCEPT !.off = off] =
        [pc |-> pc, pairs |-> w.pairs, n |-> w.n, bytes |-> w.bytes, off |-> off]
  BY <1>1
<1> QED  BY <1>2 DEF x

\* Setting all three leaves the rest.
LEMMA SetCall ==
  ASSUME NEW w, IsLocals(w), NEW pc, NEW pairs, NEW off
  PROVE  [w EXCEPT !.pc = pc, !.pairs = pairs, !.off = off] =
           [pc |-> pc, pairs |-> pairs, n |-> w.n, bytes |-> w.bytes, off |-> off]
<1> DEFINE x == [w EXCEPT !.pc = pc, !.pairs = pairs]
<1>1. x = [pc |-> pc, pairs |-> pairs, n |-> w.n, bytes |-> w.bytes, off |-> w.off]
  BY SetPairs
<1> HIDE DEF x
<1>2. [x EXCEPT !.off = off] =
        [pc |-> pc, pairs |-> pairs, n |-> w.n, bytes |-> w.bytes, off |-> off]
  BY <1>1
<1> QED  BY <1>2 DEF x

\* Setting what it has measured leaves the rest.
LEMMA SetMeasured ==
  ASSUME NEW w, IsLocals(w), NEW n, NEW bytes
  PROVE  [w EXCEPT !.n = n, !.bytes = bytes] =
           [pc |-> w.pc, pairs |-> w.pairs, n |-> n, bytes |-> bytes, off |-> w.off]
<1> DEFINE x == [w EXCEPT !.n = n]
<1>1. x = [pc |-> w.pc, pairs |-> w.pairs, n |-> n, bytes |-> w.bytes, off |-> w.off]
  BY DEF IsLocals
<1> HIDE DEF x
<1>2. [x EXCEPT !.bytes = bytes] =
        [pc |-> w.pc, pairs |-> w.pairs, n |-> n, bytes |-> bytes, off |-> w.off]
  BY <1>1
<1> QED  BY <1>2 DEF x

\* An idle writer has its locals.
LEMMA IdleLocals ==
  /\ IsLocals(IdleWriter) /\ IdleWriter.pairs = <<>> /\ IdleWriter.n = 0
  /\ IdleWriter.bytes = 0 /\ IdleWriter.off = 0
BY DEF IdleWriter, IsLocals

\* A call that has logged its record.
LEMMA LogMoves ==
  ASSUME WritersOK, NEW t \in Writers, NEW pc \in {"put", "delete"}, NEW p \in Pairs,
         pc = "delete" => p.value = Tombstone, Log(t, pc, p)
  PROVE  WritersOK'
<1> DEFINE w == [IdleWriter EXCEPT !.pc = pc, !.pairs = <<p>>, !.off = NextOffset(wal)]
<1>1. w = [pc |-> pc, pairs |-> <<p>>, n |-> 0, bytes |-> 0, off |-> NextOffset(wal)]
  <2>1. w = [pc |-> pc, pairs |-> <<p>>, n |-> IdleWriter.n, bytes |-> IdleWriter.bytes,
             off |-> NextOffset(wal)]
    <3>1. IsLocals(IdleWriter) /\ IdleWriter.n = IdleWriter.n
      BY IdleLocals
    <3> QED  BY <3>1, SetCall, ZenonT(30)
  <2> HIDE DEF w
  <2> QED  BY <2>1, IdleLocals
<1>2. writer' = [writer EXCEPT ![t] = w]
  BY DEF Log
<1>3. <<p>> \in Seq(Pairs) /\ Len(<<p>>) = 1 /\ <<p>>[1] = p
  OBVIOUS
<1> HIDE DEF w
<1>4. /\ w.pc = pc /\ w.pairs = <<p>>
      /\ w = [pc |-> w.pc, pairs |-> w.pairs, n |-> w.n, bytes |-> w.bytes, off |-> w.off]
  BY <1>1
<1> QED  BY <1>2, <1>3, <1>4, WriterMoves

\* A call that has returned, but perhaps for the thread it starts.
LEMMA IdleMoves ==
  ASSUME WritersOK, NEW t \in Writers, NEW pc \in {"idle", "spawn"},
         writer' = [writer EXCEPT ![t] = [IdleWriter EXCEPT !.pc = pc]]
  PROVE  WritersOK'
<1> DEFINE w == [IdleWriter EXCEPT !.pc = pc]
<1>1. w = [pc |-> pc, pairs |-> <<>>, n |-> 0, bytes |-> 0, off |-> 0]
  BY DEF IdleWriter
<1>2. <<>> \in Seq(Pairs)
  OBVIOUS
<1> HIDE DEF w
<1>3. writer' = [writer EXCEPT ![t] = w]
  BY DEF w
<1> QED  BY <1>1, <1>2, <1>3, WriterMoves

\* A step within a call: the pairs stay.
LEMMA WithinMoves ==
  ASSUME WritersOK, NEW t \in Writers, NEW w, w.pairs = writer[t].pairs,
         w = [pc |-> w.pc, pairs |-> w.pairs, n |-> w.n, bytes |-> w.bytes, off |-> w.off],
         w.pc \notin {"put", "delete"}, writer' = [writer EXCEPT ![t] = w]
  PROVE  WritersOK'
<1>1. writer[t].pairs \in Seq(Pairs)
  BY DEF WritersOK
<1> QED  BY <1>1, WriterMoves

\* Every step of every writer keeps the invariant.
LEMMA WriterInv ==
  ASSUME IInv, NEW t \in Writers, WriterCalls(t) \/ WriterReturns(t)
  PROVE  IInv'
<1>0. /\ WritersOK /\ IsMem(mem)
      /\ writer[t] = [pc |-> writer[t].pc, pairs |-> writer[t].pairs, n |-> writer[t].n,
                      bytes |-> writer[t].bytes, off |-> writer[t].off]
      /\ writer[t].pairs \in Seq(Pairs)
      /\ WriterAt(t, "put") \/ WriterAt(t, "delete") => Len(writer[t].pairs) = 1
      /\ WriterAt(t, "delete") => writer[t].pairs[1].value = Tombstone
  BY DEF IInv, Shapes, WritersOK, WriterAt
<1>1. ASSUME NEW k \in Keys, NEW v \in Values, Put(t, k, v) PROVE IInv'
  <2>1. [key |-> k, value |-> v] \in Pairs
    BY DEF Pairs, Stored
  <2>2. WritersOK'
    BY <1>0, <1>1, <2>1, LogMoves DEF Put
  <2> QED  BY <1>1, <2>2, WriterFrameMem DEF Put
<1>2. ASSUME NEW k \in Keys, Delete(t, k) PROVE IInv'
  <2>1. [key |-> k, value |-> Tombstone] \in Pairs
    BY DEF Pairs, Stored
  <2>2. WritersOK'
    BY <1>0, <1>2, <2>1, LogMoves DEF Delete
  <2> QED  BY <1>2, <2>2, WriterFrameMem DEF Delete
<1>3. ASSUME NEW b \in Batches, BatchPut(t, b) PROVE IInv'
  <2> DEFINE w == [IdleWriter EXCEPT !.pc = "measuring", !.pairs = b]
  <2>1. w = [pc |-> "measuring", pairs |-> b, n |-> 0, bytes |-> 0, off |-> 0]
    <3>1. w = [pc |-> "measuring", pairs |-> b, n |-> IdleWriter.n,
               bytes |-> IdleWriter.bytes, off |-> IdleWriter.off]
      BY SetPairs, IdleLocals, Zenon
    <3> HIDE DEF w
    <3> QED  BY <3>1, IdleLocals
  <2>2. b \in Seq(Pairs)
    <3> DEFINE P == [key : Keys, value : Values]
    <3>1. P \subseteq Pairs
      BY DEF Pairs, Stored
    <3>2. b \in Seq(P)
      BY EngineAssumption
    <3> HIDE DEF P
    <3> QED  BY <3>1, <3>2
  <2>3. writer' = [writer EXCEPT ![t] = w]
    BY <1>3 DEF BatchPut
  <2> HIDE DEF w
  <2>4. WritersOK'
    BY <1>0, <2>1, <2>2, <2>3, WriterMoves
  <2> QED  BY <1>3, <2>4, WriterFrameMem DEF BatchPut
<1>4. CASE PutApply(t)
  <2> DEFINE p == writer[t].pairs[1]
             n == PutUnlocked(mem, p.key, p.value)
             m == RaiseOffset(n, writer[t].off)
  <2>1. p \in Pairs /\ p.key \in Keys /\ p.value \in Stored
    <3>1. p \in Pairs
      BY <1>0, <1>4 DEF PutApply
    <3> QED  BY <3>1 DEF Pairs
  <2>2. /\ IsMem(n) /\ n.frozen = mem.frozen
        /\ \A x : MemGet(n, x) = IF x = p.key THEN p.value ELSE MemGet(mem, x)
    <3> HIDE DEF p
    <3> QED  BY <1>0, <2>1, PutMem
  <2>3. /\ IsMem(m) /\ m.frozen = mem.frozen
        /\ \A x : MemGet(m, x) = IF x = p.key THEN p.value ELSE MemGet(mem, x)
    <3> HIDE DEF n
    <3> QED  BY <2>2, RaiseOffsetMem
  <2>4. /\ mem' = IF IsFull(m) THEN RotateUnlocked(m) ELSE m
        /\ writer' = [writer EXCEPT ![t] = [IdleWriter EXCEPT
                                              !.pc = IF IsFull(m) THEN "spawn" ELSE "idle"]]
        /\ applied' = Applied(<<p>>)
        /\ UNCHANGED <<flush, compactionVars>>
    BY <1>4 DEF PutApply, Apply
  <2> HIDE DEF p, n, m
  <2>5. WritersOK'
    BY <1>0, <2>4, IdleMoves
  <2>6. /\ IsMem(mem')
        /\ \A x : MemGet(mem', x) = MemGet(m, x)
        /\ m.frozen # <<>> => mem'.frozen # <<>> /\ Head(mem'.frozen) = Head(m.frozen)
    BY <2>3, <2>4, RotateMem
  <2>7. BatchKeys(<<p>>) = {p.key} /\ BatchValue(<<p>>, p.key) = p.value
    BY <2>1, OnePair
  <2> DEFINE q == <<p>>
  <2>8. /\ \A x : MemGet(mem', x) = IF x \in BatchKeys(q) THEN BatchValue(q, x)
                                    ELSE MemGet(mem, x)
        /\ \A x \in BatchKeys(q) : BatchValue(q, x) \in Stored
        /\ applied' = Applied(q)
    BY <2>1, <2>3, <2>4, <2>6, <2>7
  <2> HIDE DEF q
  <2>9. \A k \in Keys :
          \/ applied'[k] = applied[k] /\ MemGet(mem', k) = MemGet(mem, k)
          \/ applied'[k] = MemGet(mem', k) /\ MemGet(mem', k) # None
    BY <2>8, WriteApplied
  <2> QED  BY <2>3, <2>4, <2>5, <2>6, <2>9, WriterFrame
<1>5. CASE SpawnFlush(t)
  <2>1. writer' = [writer EXCEPT ![t] = [IdleWriter EXCEPT !.pc = "idle"]]
    BY <1>5 DEF SpawnFlush, IdleWriter
  <2>2. WritersOK'
    BY <1>0, <2>1, IdleMoves
  <2> QED  BY <1>5, <2>2, WriterFrameMem DEF SpawnFlush
<1>6. CASE DeleteApply(t)
  <2> DEFINE p == writer[t].pairs[1]
             q == writer[t].pairs
             w == [writer[t] EXCEPT !.pc = "setOffset"]
  <2>1. p \in Pairs /\ p.key \in Keys /\ p.value = Tombstone /\ Tombstone \in Stored /\ q = <<p>>
    <3>1. p \in Pairs /\ q = <<p>> /\ p.value = Tombstone
      BY <1>0, <1>6 DEF DeleteApply
    <3> QED  BY <3>1 DEF Pairs, Stored
  <2>2. /\ mem' = PutUnlocked(mem, p.key, Tombstone)
        /\ writer' = [writer EXCEPT ![t] = w]
        /\ applied' = Applied(q)
        /\ UNCHANGED <<flush, compactionVars>>
    BY <1>6 DEF DeleteApply, Apply
  <2>3. /\ w = [pc |-> w.pc, pairs |-> w.pairs, n |-> w.n, bytes |-> w.bytes, off |-> w.off]
        /\ w.pairs = writer[t].pairs /\ w.pc = "setOffset"
    BY <1>0
  <2> HIDE DEF p, w
  <2>4. WritersOK'
    BY <1>0, <2>2, <2>3, WithinMoves
  <2>5. /\ IsMem(mem') /\ mem'.frozen = mem.frozen
        /\ \A x : MemGet(mem', x) = IF x = p.key THEN Tombstone ELSE MemGet(mem, x)
    BY <1>0, <2>1, <2>2, PutMem
  <2>6. BatchKeys(<<p>>) = {p.key} /\ BatchValue(<<p>>, p.key) = Tombstone
    BY <2>1, OnePair
  <2> HIDE DEF q
  <2>7. BatchKeys(q) = {p.key} /\ BatchValue(q, p.key) = Tombstone
    BY <2>1, <2>6
  <2>8. \A k \in Keys :
          \/ applied'[k] = applied[k] /\ MemGet(mem', k) = MemGet(mem, k)
          \/ applied'[k] = MemGet(mem', k) /\ MemGet(mem', k) # None
    BY <2>1, <2>2, <2>5, <2>7, WriteApplied
  <2> QED  BY <2>2, <2>4, <2>5, <2>8, WriterFrame
<1>7. CASE DeleteSetOffset(t)
  <2>1. writer' = [writer EXCEPT ![t] = [IdleWriter EXCEPT !.pc = "idle"]]
    BY <1>7 DEF DeleteSetOffset, IdleWriter
  <2>2. WritersOK'
    BY <1>0, <2>1, IdleMoves
  <2>3. /\ mem' = RaiseOffset(mem, writer[t].off) /\ applied' = applied
        /\ UNCHANGED <<flush, compactionVars>>
    BY <1>7 DEF DeleteSetOffset
  <2>4. /\ IsMem(mem') /\ mem'.frozen = mem.frozen
        /\ \A x : MemGet(mem', x) = MemGet(mem, x)
    BY <1>0, <2>3, RaiseOffsetMem
  <2> QED  BY <2>2, <2>3, <2>4, WriterFrame
<1>8. CASE BatchMeasure(t)
  <2> DEFINE w == [writer[t] EXCEPT !.n = @ + 1,
                     !.bytes = @ + PairSize(mem, writer[t].pairs[writer[t].n + 1])]
  <2>1. writer' = [writer EXCEPT ![t] = w]
    BY <1>0, <1>8 DEF BatchMeasure, WritersOK
  <2>2. /\ w = [pc |-> w.pc, pairs |-> w.pairs, n |-> w.n, bytes |-> w.bytes, off |-> w.off]
        /\ w.pairs = writer[t].pairs /\ w.pc = "measuring"
    <3> DEFINE v == writer[t]
    <3>1. IsLocals(v) /\ v.pc = "measuring"
      BY <1>0, <1>8 DEF BatchMeasure, WriterAt, IsLocals
    <3>2. w = [pc |-> v.pc, pairs |-> v.pairs, n |-> v.n + 1,
               bytes |-> v.bytes + PairSize(mem, v.pairs[v.n + 1]), off |-> v.off]
      BY <3>1, SetMeasured, Zenon
    <3> HIDE DEF w
    <3> QED  BY <3>1, <3>2
  <2> HIDE DEF w
  <2>3. WritersOK'
    BY <1>0, <2>1, <2>2, WithinMoves
  <2> QED  BY <1>8, <2>3, WriterFrameMem DEF BatchMeasure
<1>9. CASE BatchReject(t)
  <2>1. writer' = [writer EXCEPT ![t] = [IdleWriter EXCEPT !.pc = "idle"]]
    BY <1>9 DEF BatchReject, IdleWriter
  <2>2. WritersOK'
    BY <1>0, <2>1, IdleMoves
  <2> QED  BY <1>9, <2>2, WriterFrameMem DEF BatchReject
<1>10. CASE BatchLog(t)
  <2> DEFINE w == [writer[t] EXCEPT !.pc = "batch", !.off = LastOffset(wal, writer[t].pairs)]
  <2>1. writer' = [writer EXCEPT ![t] = w]
    BY <1>0, <1>10 DEF BatchLog, WritersOK
  <2>2. /\ w = [pc |-> w.pc, pairs |-> w.pairs, n |-> w.n, bytes |-> w.bytes, off |-> w.off]
        /\ w.pairs = writer[t].pairs /\ w.pc = "batch"
    <3> DEFINE v == writer[t]
    <3>1. IsLocals(v)
      BY <1>0 DEF IsLocals
    <3>2. w = [pc |-> "batch", pairs |-> v.pairs, n |-> v.n, bytes |-> v.bytes,
               off |-> LastOffset(wal, v.pairs)]
      BY <3>1, SetOff, Zenon
    <3> HIDE DEF w
    <3> QED  BY <3>2
  <2> HIDE DEF w
  <2>3. WritersOK'
    BY <1>0, <2>1, <2>2, WithinMoves
  <2> QED  BY <1>10, <2>3, WriterFrameMem DEF BatchLog
<1>11. CASE BatchApply(t)
  <2> DEFINE full == BatchWouldExceed(mem, writer[t].bytes)
             room == IF full THEN RotateUnlocked(mem) ELSE mem
             q == writer[t].pairs
  <2>1. /\ mem' = [PutAllUnlocked(room, q) EXCEPT !.off = writer[t].off]
        /\ writer' = [writer EXCEPT ![t] = [IdleWriter EXCEPT
                                              !.pc = IF full THEN "spawn" ELSE "idle"]]
        /\ applied' = Applied(q)
        /\ UNCHANGED <<flush, compactionVars>>
    BY <1>11 DEF BatchApply, Apply
  <2>2. q \in Seq([key : Keys, value : Stored])
    BY <1>0 DEF Pairs
  <2>3. /\ IsMem(room)
        /\ \A x : MemGet(room, x) = MemGet(mem, x)
        /\ mem.frozen # <<>> => room.frozen # <<>> /\ Head(room.frozen) = Head(mem.frozen)
    BY <1>0, RotateMem
  <2> HIDE DEF full, room, q
  <2>4. WritersOK'
    BY <1>0, <2>1, IdleMoves
  <2>5. /\ IsMem(mem') /\ mem'.frozen = room.frozen
        /\ \A x : MemGet(mem', x) = IF x \in BatchKeys(q) THEN BatchValue(q, x)
                                    ELSE MemGet(mem, x)
    <3>1. mem' = BatchMem(room, q, writer[t].off)
      BY <2>1 DEF BatchMem
    <3> DEFINE n == BatchMem(room, q, writer[t].off)
    <3>2. /\ IsMem(n) /\ n.frozen = room.frozen
          /\ \A x : MemGet(n, x) = IF x \in BatchKeys(q) THEN BatchValue(q, x)
                                   ELSE MemGet(room, x)
      BY <2>2, <2>3, PutAllMem
    <3> HIDE DEF n
    <3>3. mem' = n
      BY <3>1 DEF n
    <3> QED  BY <2>3, <3>2, <3>3
  <2>6. \A x \in BatchKeys(q) : BatchValue(q, x) \in Stored
    BY <2>2, BatchValueStored
  <2>7. \A k \in Keys :
          \/ applied'[k] = applied[k] /\ MemGet(mem', k) = MemGet(mem, k)
          \/ applied'[k] = MemGet(mem', k) /\ MemGet(mem', k) # None
    BY <2>1, <2>5, <2>6, WriteApplied
  <2> QED  BY <2>1, <2>3, <2>4, <2>5, <2>7, WriterFrame
<1> QED
  BY <1>1, <1>2, <1>3, <1>4, <1>5, <1>6, <1>7, <1>8, <1>9, <1>10, <1>11
  DEF WriterCalls, WriterReturns

-----------------------------------------------------------------------------
(* Steps of the flusher *)

\* Time goes on between two readings of it.
ClockAdvances == ClockSteps \subseteq Nat \ {0}

\* Then what is read is later than anything read before.
LEMMA TickAdvances ==
  ASSUME ClockAdvances, clock \in Int, NEW now, Tick(now)
  PROVE  now \in Int /\ now > clock
BY DEF ClockAdvances, Tick

\* Entries of the past stay entries of the past.
LEMMA DatedLater ==
  ASSUME NEW c \in Int, NEW d \in Int, c <= d, NEW S, Dated(S, c)
  PROVE  Dated(S, d)
<1>1. \A e \in S : e.created \in Int /\ e.created <= c
  BY DEF Dated, Entries
<1> QED  BY <1>1 DEF Dated

\* So do the levels, when a step only reads the time.
LEMMA LevelsLater ==
  ASSUME IInv, manifest'.mem = manifest.mem, clock' \in Int, clock <= clock',
         compaction'.inputs \subseteq Inputs
  PROVE  LevelsOK'
<1>1. clock \in Int /\ LevelsOK
  BY DEF IInv, Shapes
<1>2. Inputs' \subseteq Inputs
  BY DEF Inputs
<1>3. /\ \A e \in Inputs : e.path \in Paths
      /\ \A e \in manifest.mem[1] : e.path \in Paths
  BY <1>1 DEF LevelsOK, Dated, Entries
<1>4. /\ \A e \in Inputs : e.path[2] \in Int
      /\ \A e \in manifest.mem[1] : e.path[2] \in Int
  BY <1>3 DEF Paths
<1>5. Dated(Inputs', clock')
  <2>1. Dated(Inputs', clock)
    BY <1>1, <1>2 DEF LevelsOK, Dated
  <2> QED  BY <1>1, <2>1, DatedLater
<1>6. Dated(manifest'.mem[1], clock')
  BY <1>1, DatedLater DEF LevelsOK
<1> QED  BY <1>1, <1>2, <1>4, <1>5, <1>6 DEF LevelsOK

\* The shape of the flusher's locals.
FlushShape ==
  /\ flush = [pc |-> flush.pc, by |-> flush.by, items |-> flush.items,
              off |-> flush.off, path |-> flush.path]
  /\ flush.items \in Tables /\ flush.path \in Paths

\* The locals a flusher leaves behind.
LEMMA NoFlushShape ==
  /\ NoFlush = [pc |-> NoFlush.pc, by |-> NoFlush.by, items |-> NoFlush.items,
                off |-> NoFlush.off, path |-> NoFlush.path]
  /\ NoFlush.items \in Tables /\ NoFlush.path \in Paths /\ NoFlush.pc = "free"
<1>1. EmptyTable \in Tables
  BY TablesAre DEF EmptyTable
<1> QED  BY <1>1 DEF NoFlush, Paths, Levels

\* What is left to show of a step that changes neither the MemTable nor what was
\* written last.
LEMMA StoreFrame ==
  ASSUME IInv, UNCHANGED <<mem, writer, applied>>, FlushShape',
         manifest' \in [mem : LevelSets, disk : LevelSets], FilesOK(files'),
         clock' \in Int, compaction' \in Compactions, LevelsOK', CompactionOK', FlushOK',
         \A k \in Keys : MemGet(mem, k) = None => OnDisk(k)' = OnDisk(k)
  PROVE  IInv'
<1>1. Shapes'
  BY DEF IInv, Shapes, WritersOK, FlushShape
<1>2. NothingLost'
  BY DEF IInv, NothingLost
<1> QED  BY <1>1, <1>2 DEF IInv

\* A step that changes the flusher's locals only.
LEMMA FlushFrame ==
  ASSUME IInv, UNCHANGED <<mem, writer, applied, manifest, files, clock, compaction>>,
         FlushShape', FlushOK'
  PROVE  IInv'
<1>1. /\ Upper' = Upper /\ Inputs' = Inputs
      /\ \A k : OnDisk(k)' = OnDisk(k)
      /\ MergeTables(compaction.inputs)' = MergeTables(compaction.inputs)
  BY DEF Upper, Inputs, OnDisk, CompactAt, MergeTables
<1>2. LevelsOK'
  BY <1>1 DEF IInv, LevelsOK
<1>3. CompactionOK'
  BY <1>1 DEF IInv, CompactionOK, CompactAt
<1> QED  BY <1>1, <1>2, <1>3, StoreFrame DEF IInv, Shapes

\* A flusher that leaves.
LEMMA LeaveOK ==
  ASSUME flush' = NoFlush
  PROVE  FlushShape' /\ FlushOK'
BY NoFlushShape DEF FlushShape, FlushOK, FlushAt

\* get_frozen_items: the flusher takes a copy of the head of the queue.
LEMMA FlushTakeInv ==
  ASSUME IInv, NEW by, FlushTake(by)
  PROVE  IInv'
<1> DEFINE items == FrozenItems(mem)
<1>1. mem.frozen # <<>> /\ items = Head(mem.frozen).data
  BY DEF FlushTake, FrozenItems
<1>2. items \in Tables
  <2>1. 1 \in DOMAIN mem.frozen /\ Head(mem.frozen) = mem.frozen[1]
    BY <1>1 DEF IInv, Shapes, IsMem, IsQueue
  <2> QED  BY <1>1, <2>1 DEF IInv, Shapes, IsMem, IsQueue
<1>3. flush' = [pc |-> "taken", by |-> by, items |-> items, off |-> FrozenOffset(mem),
                path |-> NoFlush.path]
  <2> DEFINE w == [NoFlush EXCEPT !.pc = "taken"]
             x == [w EXCEPT !.by = by]
             y == [x EXCEPT !.items = items]
  <2>1. x = [pc |-> "taken", by |-> by, items |-> NoFlush.items, off |-> NoFlush.off,
             path |-> NoFlush.path]
    <3>1. w = [pc |-> "taken", by |-> NoFlush.by, items |-> NoFlush.items,
               off |-> NoFlush.off, path |-> NoFlush.path]
      BY NoFlushShape
    <3> HIDE DEF w
    <3> QED  BY <3>1
  <2>2. y = [pc |-> "taken", by |-> by, items |-> items, off |-> NoFlush.off,
             path |-> NoFlush.path]
    <3> HIDE DEF x, items
    <3> QED  BY <2>1
  <2>3. flush' = [y EXCEPT !.off = FrozenOffset(mem)]
    BY DEF FlushTake
  <2> HIDE DEF y, items
  <2> QED  BY <2>2, <2>3
<1> HIDE DEF items
<1>4. flush'.pc = "taken" /\ flush'.items = items /\ flush'.path \in Paths
  BY <1>3, NoFlushShape
<1>5. FlushShape'
  BY <1>2, <1>3, <1>4 DEF FlushShape
<1>6. FlushOK'
  BY <1>1, <1>4 DEF FlushOK, FlushAt, FlushTake
<1> QED  BY <1>5, <1>6, FlushFrame DEF FlushTake, compactionVars

\* The steps after the last one that touches the SSTables or the queue.
LEMMA FlushEndInv ==
  ASSUME IInv, FlushTruncate \/ FlushTruncateFails
  PROVE  IInv'
<1>1. CASE FlushTruncate
  <2>1. flush' = [pc |-> "truncated", by |-> flush.by, items |-> flush.items,
                  off |-> flush.off, path |-> flush.path]
    BY <1>1 DEF FlushTruncate, IInv, Shapes
  <2>2. FlushShape' /\ FlushOK'
    BY <2>1 DEF FlushShape, FlushOK, FlushAt, IInv, Shapes
  <2> QED  BY <1>1, <2>2, FlushFrame DEF FlushTruncate, compactionVars
<1>2. CASE FlushTruncateFails
  BY <1>2, LeaveOK, FlushFrame DEF FlushTruncateFails, Leave
<1> QED  BY <1>1, <1>2

\* The paths of the entries are paths of the past.
LEMMA PastPaths ==
  ASSUME IInv
  PROVE  /\ clock \in Int
         /\ \A e \in Inputs \cup manifest.mem[1] :
              e.path \in Paths /\ e.path[2] \in Int /\ e.path[2] <= clock
         /\ \A e \in Inputs : e.path[1] = 0 /\ e.created \in Int /\ e.created <= clock
         /\ \A e \in manifest.mem[1] : e.path[1] = 1
<1>1. \A e \in Inputs \cup manifest.mem[1] : e.path \in Paths /\ e.created \in Int
  BY DEF IInv, LevelsOK, Dated, Entries
<1>2. \A p \in Paths : p[2] \in Int
  BY DEF Paths
<1> QED  BY <1>1, <1>2 DEF IInv, Shapes, LevelsOK, Dated

\* A step that writes or removes no file the levels or compact go by.
LEMMA FilesFrame ==
  ASSUME IInv, manifest'.mem = manifest.mem, compaction' = compaction,
         clock' \in Int, clock <= clock',
         \A e \in Inputs \cup manifest.mem[1] : SameFile(e.path),
         CompactAt("written") => SameFile(compaction.out)
  PROVE  /\ LevelsOK' /\ CompactionOK'
         /\ \A k : OnDisk(k)' = OnDisk(k)
         /\ Inputs' = Inputs
<1>1. Upper' = Upper /\ Inputs' = Inputs
  BY DEF Upper, Inputs, CompactAt
<1>2. \A k : OnDisk(k)' = OnDisk(k)
  <2>1. Upper \subseteq Inputs
    BY DEF Upper, Inputs
  <2>2. \A e \in Upper \cup manifest.mem[1] : SameFile(e.path)
    BY <2>1
  <2> QED  BY <1>1, <2>2, OnDiskFrame
<1>3. LevelsOK'
  <2>1. compaction'.inputs \subseteq Inputs
    BY DEF Inputs
  <2> QED  BY <2>1, LevelsLater
<1>4. MergeTables(compaction.inputs)' = MergeTables(compaction.inputs)
  <2> DEFINE S == compaction.inputs
  <2>1. \A k : FirstHit(files', S, k) = FirstHit(files, S, k)
               /\ SearchLevel(files', S, k) = SearchLevel(files, S, k)
    <3>1. S \subseteq Inputs
      BY DEF Inputs
    <3> HIDE DEF S
    <3> QED  BY <3>1, SameSearch
  <2> HIDE DEF S
  <2>2. [k \in {x \in Keys : FirstHit(files', S, x) # {}} |-> SearchLevel(files', S, k)] =
          [k \in {x \in Keys : FirstHit(files, S, x) # {}} |-> SearchLevel(files, S, k)]
    BY <2>1
  <2> QED  BY <2>2 DEF MergeTables, S
<1>5. CompactionOK'
  <2>1. CompactAt("written") =>
          /\ compaction.out[2] <= clock'
          /\ compaction.out \in DOMAIN files' /\ files'[compaction.out] = files[compaction.out]
    <3>1. ASSUME CompactAt("written") PROVE compaction.out[2] <= clock'
      <4>1. compaction.out[2] \in Int /\ compaction.out[2] <= clock /\ clock \in Int
        BY <3>1 DEF IInv, Shapes, CompactionOK, Compactions, Paths
      <4> QED  BY <4>1
    <3>2. ASSUME CompactAt("written")
          PROVE  compaction.out \in DOMAIN files' /\ files'[compaction.out] = files[compaction.out]
      BY <3>2 DEF IInv, CompactionOK, SameFile, SameIn
    <3> QED  BY <3>1, <3>2
  <2> QED  BY <1>4, <2>1 DEF IInv, CompactionOK, CompactAt
<1> QED  BY <1>1, <1>2, <1>3, <1>5

\* A file made now has a path none of them has.
LEMMA FreshFile ==
  ASSUME NEW now \in Int, now > clock, clock \in Int, NEW l, FilesOK(files), NEW t \in Tables
  PROVE  /\ FilesOK(WriteFile(files, <<l, now>>, t)) /\ FilesOK(Unlinked(files, <<l, now>>))
         /\ <<l, now>> \in DOMAIN WriteFile(files, <<l, now>>, t)
         /\ WriteFile(files, <<l, now>>, t)[<<l, now>>] = t
         /\ \A p : p[2] \in Int /\ p[2] <= clock =>
              /\ SameIn(files, WriteFile(files, <<l, now>>, t), p)
              /\ SameIn(files, Unlinked(files, <<l, now>>), p)
<1> DEFINE q == <<l, now>>
           fs == WriteFile(files, q, t)
           gs == Unlinked(files, q)
<1>1. q[2] = now
  OBVIOUS
<1>2. \A p : p[2] \in Int /\ p[2] <= clock => p # q
  BY <1>1
<1> HIDE DEF q
<1>3. /\ DOMAIN fs = DOMAIN files \cup {q} /\ fs[q] = t
      /\ \A p \in DOMAIN files : p # q => fs[p] = files[p]
  BY DEF WriteFile
<1>4. /\ DOMAIN gs = DOMAIN files \ {q}
      /\ \A p \in DOMAIN gs : gs[p] = files[p]
  BY DEF Unlinked
<1> HIDE DEF fs, gs
<1>5. FilesOK(fs) /\ FilesOK(gs)
  BY <1>3, <1>4 DEF FilesOK
<1>6. \A p : p # q => SameIn(files, fs, p) /\ SameIn(files, gs, p)
  BY <1>3, <1>4 DEF SameIn
<1> QED  BY <1>2, <1>3, <1>5, <1>6 DEF fs, gs, q

\* SSTable.write: the new file has a path nothing names yet.
LEMMA FlushWriteInv ==
  ASSUME ClockAdvances, IInv, FlushWrite
  PROVE  IInv'
<1> DEFINE p == <<0, clock'>>
<1>1. clock' \in Int /\ clock' > clock /\ clock \in Int
  BY PastPaths, TickAdvances DEF FlushWrite
<1>2. /\ FlushAt("taken") /\ flush.items \in Tables
      /\ mem.frozen # <<>> /\ Head(mem.frozen).data = flush.items
      /\ FilesOK(files)
  BY DEF FlushWrite, FlushAt, IInv, Shapes, FlushOK
<1>3. /\ FilesOK(files') /\ p \in DOMAIN files' /\ files'[p] = flush.items
      /\ \A q : q[2] \in Int /\ q[2] <= clock => SameFile(q)
  <2>1. files' = WriteFile(files, p, flush.items)
    BY DEF FlushWrite
  <2> QED  BY <1>1, <1>2, <2>1, FreshFile DEF SameFile
<1>4. p \in Paths /\ p[1] = 0 /\ p[2] = clock'
  BY <1>1 DEF Paths, Levels
<1> HIDE DEF p
<1>5. /\ LevelsOK' /\ CompactionOK' /\ Inputs' = Inputs
      /\ \A k : OnDisk(k)' = OnDisk(k)
  <2>1. \A e \in Inputs \cup manifest.mem[1] : SameFile(e.path)
    BY <1>3, PastPaths
  <2>2. CompactAt("written") => SameFile(compaction.out)
    BY <1>3 DEF IInv, Shapes, CompactionOK, Compactions, Paths
  <2>3. manifest'.mem = manifest.mem /\ compaction' = compaction
    BY DEF FlushWrite
  <2> QED  BY <1>1, <2>1, <2>2, <2>3, FilesFrame
<1>6. flush' = [pc |-> "written", by |-> flush.by, items |-> flush.items,
                off |-> flush.off, path |-> p]
  <2>1. flush' = [flush EXCEPT !.pc = "written", !.path = p]
    BY DEF FlushWrite, p
  <2> DEFINE x == [flush EXCEPT !.pc = "written"]
  <2>2. x = [pc |-> "written", by |-> flush.by, items |-> flush.items,
             off |-> flush.off, path |-> flush.path]
    BY DEF IInv, Shapes
  <2>3. flush' = [x EXCEPT !.path = p]
    BY <2>1
  <2> HIDE DEF x
  <2> QED  BY <2>2, <2>3
<1>7. flush'.pc = "written" /\ flush'.items = flush.items /\ flush'.path = p
  BY <1>6
<1>8. FlushShape'
  BY <1>2, <1>4, <1>6, <1>7 DEF FlushShape
<1>9. FlushOK'
  <2>1. \A e \in Inputs : e.path # p
    BY <1>1, <1>4, PastPaths
  <2>2. mem' = mem
    BY DEF FlushWrite
  <2> QED  BY <1>1, <1>2, <1>3, <1>4, <1>5, <1>7, <2>1, <2>2 DEF FlushOK, FlushAt
<1>10. /\ UNCHANGED <<mem, writer, applied>>
       /\ manifest' \in [mem : LevelSets, disk : LevelSets] /\ compaction' \in Compactions
  BY DEF FlushWrite, IInv, Shapes
<1> QED  BY <1>1, <1>3, <1>5, <1>8, <1>9, <1>10, StoreFrame

\* A write that raises unlinks the file again; the buffer stays.
LEMMA FlushWriteFailsInv ==
  ASSUME ClockAdvances, IInv, FlushWriteFails
  PROVE  IInv'
<1> DEFINE p == <<0, clock'>>
<1>1. clock' \in Int /\ clock' > clock /\ clock \in Int
  BY PastPaths, TickAdvances DEF FlushWriteFails
<1>2. /\ FilesOK(files')
      /\ \A q : q[2] \in Int /\ q[2] <= clock => SameFile(q)
  <2>1. files' = Unlinked(files, p)
    BY DEF FlushWriteFails
  <2>2. flush.items \in Tables /\ FilesOK(files)
    BY DEF IInv, Shapes
  <2> QED  BY <1>1, <2>1, <2>2, FreshFile DEF SameFile
<1>3. /\ UNCHANGED <<mem, writer, applied>>
      /\ manifest' = manifest /\ compaction' = compaction /\ flush' = NoFlush
  BY DEF FlushWriteFails, Leave
<1>4. /\ LevelsOK' /\ CompactionOK' /\ Inputs' = Inputs
      /\ \A k : OnDisk(k)' = OnDisk(k)
  <2>1. \A e \in Inputs \cup manifest.mem[1] : SameFile(e.path)
    BY <1>2, PastPaths
  <2>2. CompactAt("written") => SameFile(compaction.out)
    BY <1>2 DEF IInv, Shapes, CompactionOK, Compactions, Paths
  <2> QED  BY <1>1, <1>3, <2>1, <2>2, FilesFrame
<1>5. manifest' \in [mem : LevelSets, disk : LevelSets] /\ compaction' \in Compactions
  BY <1>3 DEF IInv, Shapes
<1> QED  BY <1>1, <1>2, <1>3, <1>4, <1>5, LeaveOK, StoreFrame

\* A step that leaves all of this alone.
LEMMA UntouchedInv ==
  ASSUME IInv, UNCHANGED <<mem, writer, flush, applied, manifest, files, clock, compaction>>
  PROVE  IInv'
<1>1. /\ Inputs' = Inputs
      /\ \A k : OnDisk(k)' = OnDisk(k)
  BY DEF Upper, Inputs, OnDisk, CompactAt
<1>2. FlushOK'
  BY <1>1 DEF IInv, FlushOK, FlushAt
<1>3. FlushShape'
  BY DEF IInv, Shapes, FlushShape
<1> QED  BY <1>2, <1>3, FlushFrame

\* Adding an entry to a level, saved or not.
LEMMA AddEntry ==
  ASSUME NEW m \in [mem : LevelSets, disk : LevelSets], NEW l \in Levels, NEW e \in Entries,
         NEW n, n = AddSSTable(m, l, e) \/ n = AddSSTableUnsaved(m, l, e)
  PROVE  /\ n \in [mem : LevelSets, disk : LevelSets]
         /\ n.mem[l] = m.mem[l] \cup {e}
         /\ \A h \in Levels : h # l => n.mem[h] = m.mem[h]
<1> DEFINE u == AddSSTableUnsaved(m, l, e)
           levels == [m.mem EXCEPT ![l] = @ \cup {e}]
<1>1. u = [m EXCEPT !.mem = levels]
  BY DEF AddSSTableUnsaved
<1>2. /\ levels \in LevelSets
      /\ levels[l] = m.mem[l] \cup {e}
      /\ \A h \in Levels : h # l => levels[h] = m.mem[h]
  BY DEF LevelSets
<1> HIDE DEF u, levels
<1>3. u \in [mem : LevelSets, disk : LevelSets] /\ u.mem = levels
  BY <1>1, <1>2
<1>4. /\ Save(u) \in [mem : LevelSets, disk : LevelSets]
      /\ Save(u).mem = u.mem
  BY <1>3 DEF Save
<1>5. n = u \/ n = Save(u)
  BY DEF AddSSTable, u
<1> QED  BY <1>2, <1>3, <1>4, <1>5

\* Removing an entry, saved or not.
LEMMA RemoveEntry ==
  ASSUME NEW m \in [mem : LevelSets, disk : LevelSets], NEW l \in Levels, NEW p,
         NEW n, n = RemoveSSTable(m, l, p)
  PROVE  /\ n \in [mem : LevelSets, disk : LevelSets]
         /\ n.mem[l] = {e \in m.mem[l] : e.path # p}
         /\ \A h \in Levels : h # l => n.mem[h] = m.mem[h]
<1> DEFINE u == RemoveSSTableUnsaved(m, l, p)
           rest == {e \in m.mem[l] : e.path # p}
           levels == [m.mem EXCEPT ![l] = rest]
<1>1. u = [m EXCEPT !.mem = levels]
  BY DEF RemoveSSTableUnsaved
<1>2. /\ levels \in LevelSets
      /\ levels[l] = rest
      /\ \A h \in Levels : h # l => levels[h] = m.mem[h]
  <2>1. rest \in SUBSET Entries /\ m.mem \in LevelSets
    BY DEF LevelSets
  <2> HIDE DEF rest
  <2> QED  BY <2>1 DEF LevelSets
<1> HIDE DEF u, levels
<1>3. u \in [mem : LevelSets, disk : LevelSets] /\ u.mem = levels
  BY <1>1, <1>2
<1>4. /\ Save(u) \in [mem : LevelSets, disk : LevelSets]
      /\ Save(u).mem = u.mem
  BY <1>3 DEF Save
<1>5. n = Save(u)
  BY DEF RemoveSSTable, u
<1> QED  BY <1>2, <1>3, <1>4, <1>5

\* What an SSTable on level 0 changes for a search: it is the newest, and holds
\* what the flushed buffer holds.
LEMMA InstallUpper ==
  ASSUME IInv, FlushAt("written"), clock' \in Int, clock' > clock,
         UNCHANGED <<files, compaction>>,
         manifest' = AddSSTable(manifest, 0, [path |-> flush.path, created |-> clock'])
           \/ manifest' = AddSSTableUnsaved(manifest, 0, [path |-> flush.path, created |-> clock'])
  PROVE  /\ LevelsOK' /\ CompactionOK'
         /\ manifest' \in [mem : LevelSets, disk : LevelSets]
         /\ \A k : /\ k \in DOMAIN flush.items => OnDisk(k)' = flush.items[k]
                   /\ k \notin DOMAIN flush.items => OnDisk(k)' = OnDisk(k)
<1> DEFINE e == [path |-> flush.path, created |-> clock']
<1>1. /\ clock \in Int /\ FilesOK(files) /\ flush.items \in Tables /\ LevelsOK
      /\ flush.path \in Paths /\ flush.path[1] = 0 /\ flush.path[2] <= clock
      /\ flush.path \in DOMAIN files /\ files[flush.path] = flush.items
      /\ \A x \in Inputs : x.path # flush.path
      /\ manifest \in [mem : LevelSets, disk : LevelSets]
  BY DEF IInv, Shapes, FlushOK, FlushAt
<1>2. /\ e \in Entries /\ e.path = flush.path /\ e.created = clock'
  BY <1>1 DEF Entries
<1> HIDE DEF e
<1>3. /\ manifest' \in [mem : LevelSets, disk : LevelSets]
      /\ manifest'.mem[0] = manifest.mem[0] \cup {e}
      /\ manifest'.mem[1] = manifest.mem[1]
  <2>1. manifest' = AddSSTable(manifest, 0, e) \/ manifest' = AddSSTableUnsaved(manifest, 0, e)
    BY DEF e
  <2>2. 0 \in Levels /\ 1 \in Levels /\ 0 # 1
    BY DEF Levels
  <2>3. /\ manifest' \in [mem : LevelSets, disk : LevelSets]
        /\ manifest'.mem[0] = manifest.mem[0] \cup {e}
        /\ \A h \in Levels : h # 0 => manifest'.mem[h] = manifest.mem[h]
    BY <1>1, <1>2, <2>1, <2>2, AddEntry
  <2> QED  BY <2>2, <2>3
<1>4. Inputs' = Inputs \cup {e} /\ e \notin compaction.inputs
  BY <1>1, <1>2, <1>3 DEF Inputs
<1>5. Upper' = Upper \cup {e}
  BY <1>3, <1>4 DEF Upper, CompactAt
<1>6. Dated(Inputs', clock')
  <2>1. Dated(Inputs, clock')
    BY <1>1, DatedLater DEF LevelsOK
  <2>2. \A x \in Inputs : x.created # clock'
    BY <1>1, PastPaths
  <2> QED  BY <1>2, <1>4, <2>1, <2>2 DEF Dated
<1>7. LevelsOK'
  <2>1. Dated(manifest'.mem[1], clock')
    BY <1>1, <1>3, DatedLater DEF LevelsOK
  <2>2. \A x, y \in Inputs' : x.path = y.path => x = y
    BY <1>1, <1>2, <1>4 DEF LevelsOK
  <2>3. \A x \in Inputs' : x.path[1] = 0 /\ x.path[2] <= clock'
    <3>1. flush.path[2] \in Int
      BY <1>1 DEF Paths
    <3> QED  BY <1>1, <1>2, <1>4, <3>1, PastPaths
  <2>4. \A x \in manifest'.mem[1] : x.path[1] = 1 /\ x.path[2] <= clock'
    BY <1>1, <1>3, PastPaths
  <2> QED  BY <1>6, <2>1, <2>2, <2>3, <2>4 DEF LevelsOK
<1>8. CompactionOK'
  <2>1. compaction.pc \in {"merging", "written"} =>
          /\ compaction.inputs \subseteq manifest'.mem[0] /\ compaction.inputs # {}
          /\ \A x \in manifest'.mem[0] \ compaction.inputs, i \in compaction.inputs :
               x.created > i.created
    <3> SUFFICES ASSUME compaction.pc \in {"merging", "written"}
                 PROVE  /\ compaction.inputs \subseteq manifest'.mem[0] /\ compaction.inputs # {}
                        /\ \A x \in manifest'.mem[0] \ compaction.inputs, i \in compaction.inputs :
                             x.created > i.created
      OBVIOUS
    <3>1. \A i \in compaction.inputs : clock' > i.created
      BY <1>1, PastPaths DEF Inputs
    <3> QED  BY <1>2, <1>3, <3>1 DEF IInv, CompactionOK
  <2>2. CompactAt("written") =>
          /\ compaction.out[1] = 1 /\ compaction.out[2] <= clock'
          /\ compaction.out \in DOMAIN files
          /\ files[compaction.out] = MergeTables(compaction.inputs)
          /\ \A x \in manifest'.mem[1] : x.path # compaction.out
    <3>1. compaction.out[2] \in Int
      BY DEF IInv, Shapes, Compactions, Paths
    <3> QED  BY <1>1, <1>3, <3>1 DEF IInv, CompactionOK
  <2>3. manifest'.mem[0] \cap compaction.inputs = manifest.mem[0] \cap compaction.inputs
    BY <1>3, <1>4
  <2>4. MergeTables(compaction.inputs)' = MergeTables(compaction.inputs)
    BY DEF MergeTables
  <2> QED  BY <2>1, <2>2, <2>3, <2>4 DEF IInv, CompactionOK, CompactAt
<1>9. ASSUME NEW k
      PROVE  /\ k \in DOMAIN flush.items => OnDisk(k)' = flush.items[k]
             /\ k \notin DOMAIN flush.items => OnDisk(k)' = OnDisk(k)
  <2> DEFINE S == Upper'
             A == Upper
             lower == manifest.mem[1]
  <2>1. Dated(S, clock')
    <3>1. S \subseteq Inputs'
      BY DEF Upper, Inputs
    <3> QED  BY <1>6, <3>1 DEF Dated
  <2>2. S = A \cup {e} /\ \A a \in A : e.created > a.created
    <3>1. A \subseteq Inputs
      BY DEF Upper, Inputs
    <3> QED  BY <1>1, <1>2, <1>5, <3>1, PastPaths
  <2>3. OnDisk(k)' = Find(files, S, lower, k) /\ OnDisk(k) = Find(files, A, lower, k)
    BY <1>3 DEF OnDisk
  <2> HIDE DEF S, A, lower
  <2>4. /\ k \in DOMAIN files[e.path] => SearchLevel(files, S, k) = files[e.path][k]
        /\ k \notin DOMAIN files[e.path] => SearchLevel(files, S, k) = SearchLevel(files, A, k)
    BY <1>1, <1>2, <2>1, <2>2, SearchNewest
  <2>5. k \in DOMAIN flush.items => flush.items[k] # None
    BY <1>1, TableValue
  <2> QED  BY <1>1, <1>2, <2>3, <2>4, <2>5 DEF Find
<1> QED  BY <1>3, <1>7, <1>8, <1>9

\* add_sstable: from here on a search finds the buffer in the SSTables, too.
LEMMA FlushInstallInv ==
  ASSUME ClockAdvances, IInv, FlushInstall
  PROVE  IInv'
<1>1. clock' \in Int /\ clock' > clock
  BY PastPaths, TickAdvances DEF FlushInstall
<1>2. /\ LevelsOK' /\ CompactionOK'
      /\ manifest' \in [mem : LevelSets, disk : LevelSets]
      /\ \A k : /\ k \in DOMAIN flush.items => OnDisk(k)' = flush.items[k]
                /\ k \notin DOMAIN flush.items => OnDisk(k)' = OnDisk(k)
  BY <1>1, InstallUpper DEF FlushInstall
<1>3. /\ IsMem(mem) /\ flush.items \in Tables /\ flush.path \in Paths
      /\ mem.frozen # <<>> /\ Head(mem.frozen).data = flush.items
  BY DEF FlushInstall, FlushAt, IInv, Shapes, FlushOK
<1>4. flush' = [pc |-> "installed", by |-> flush.by, items |-> flush.items,
                off |-> flush.off, path |-> flush.path]
  BY DEF FlushInstall, IInv, Shapes
<1>5. UNCHANGED <<mem, writer, applied, files, compaction>>
  BY DEF FlushInstall
<1>6. FlushShape'
  BY <1>3, <1>4 DEF FlushShape
<1>7. FlushOK'
  <2>1. flush'.pc = "installed" /\ flush'.items = flush.items
    BY <1>4
  <2> QED  BY <1>2, <1>3, <1>5, <2>1 DEF FlushOK, FlushAt
<1>8. \A k \in Keys : MemGet(mem, k) = None => OnDisk(k)' = OnDisk(k)
  BY <1>2, <1>3, HeadFound
<1>9. FilesOK(files') /\ compaction' \in Compactions
  BY <1>5 DEF IInv, Shapes
<1> QED  BY <1>1, <1>2, <1>5, <1>6, <1>7, <1>8, <1>9, StoreFrame

\* The entry stays in memory; the buffer stays in the queue as well.
LEMMA FlushInstallFailsInv ==
  ASSUME ClockAdvances, IInv, FlushInstallFails
  PROVE  IInv'
<1>1. clock' \in Int /\ clock' > clock
  BY PastPaths, TickAdvances DEF FlushInstallFails
<1>2. /\ LevelsOK' /\ CompactionOK'
      /\ manifest' \in [mem : LevelSets, disk : LevelSets]
      /\ \A k : /\ k \in DOMAIN flush.items => OnDisk(k)' = flush.items[k]
                /\ k \notin DOMAIN flush.items => OnDisk(k)' = OnDisk(k)
  BY <1>1, InstallUpper DEF FlushInstallFails, SaveRaised, AddSSTable
<1>3. /\ IsMem(mem) /\ mem.frozen # <<>> /\ Head(mem.frozen).data = flush.items
  BY DEF FlushInstallFails, FlushAt, IInv, Shapes, FlushOK
<1>4. UNCHANGED <<mem, writer, applied, files, compaction>> /\ flush' = NoFlush
  BY DEF FlushInstallFails, Leave
<1>5. \A k \in Keys : MemGet(mem, k) = None => OnDisk(k)' = OnDisk(k)
  BY <1>2, <1>3, HeadFound
<1>6. FilesOK(files') /\ compaction' \in Compactions
  BY <1>4 DEF IInv, Shapes
<1> QED  BY <1>1, <1>2, <1>4, <1>5, <1>6, LeaveOK, StoreFrame

\* The second save, done or failed.
LEMMA FlushSaveInv ==
  ASSUME IInv, FlushSave \/ FlushSaveFails
  PROVE  IInv'
<1>1. /\ manifest' \in [mem : LevelSets, disk : LevelSets]
      /\ manifest'.mem = manifest.mem
  BY DEF FlushSave, FlushSaveFails, SaveRaised, Save, IInv, Shapes
<1>2. /\ UNCHANGED <<mem, writer, applied, files, clock, compaction>>
      /\ clock \in Int /\ compaction \in Compactions /\ FilesOK(files)
      /\ FlushAt("installed")
  BY DEF FlushSave, FlushSaveFails, IInv, Shapes
<1>3. /\ LevelsOK' /\ CompactionOK'
      /\ \A k : OnDisk(k)' = OnDisk(k)
      /\ Inputs' = Inputs
  <2>1. \A p : SameFile(p)
    BY <1>2 DEF SameFile, SameIn
  <2> QED  BY <1>1, <1>2, <2>1, FilesFrame
<1>4. CASE FlushSave
  <2>1. flush' = [pc |-> "saved", by |-> flush.by, items |-> flush.items,
                  off |-> flush.off, path |-> flush.path]
    BY <1>4 DEF FlushSave, IInv, Shapes
  <2>2. FlushShape'
    BY <2>1 DEF FlushShape, IInv, Shapes
  <2>3. FlushOK'
    <3>1. flush'.pc = "saved" /\ flush'.items = flush.items
      BY <2>1
    <3> QED  BY <1>2, <1>3, <3>1 DEF FlushOK, FlushAt, IInv
  <2> QED  BY <1>1, <1>2, <1>3, <2>2, <2>3, StoreFrame
<1>5. CASE FlushSaveFails
  <2>1. FlushShape' /\ FlushOK'
    BY <1>5, LeaveOK DEF FlushSaveFails, Leave
  <2> QED  BY <1>1, <1>2, <1>3, <2>1, StoreFrame
<1> QED  BY <1>4, <1>5

\* The buffer's data is found in the SSTables from here on.
LEMMA FlushClearInv ==
  ASSUME IInv, FlushClear
  PROVE  IInv'
<1>1. /\ IsMem(mem) /\ mem.frozen # <<>>
      /\ \A k \in DOMAIN Head(mem.frozen).data : OnDisk(k) = Head(mem.frozen).data[k]
  BY DEF FlushClear, FlushAt, IInv, Shapes, FlushOK
<1>2. /\ mem' = ClearFrozen(mem)
      /\ UNCHANGED <<writer, applied, manifest, files, clock, compaction>>
  BY DEF FlushClear, compactionVars
<1>3. /\ IsMem(mem')
      /\ \A x : \/ MemGet(mem', x) = MemGet(mem, x)
                \/ /\ MemGet(mem', x) = None
                   /\ x \in DOMAIN Head(mem.frozen).data
                   /\ MemGet(mem, x) = Head(mem.frozen).data[x]
  BY <1>1, <1>2, ClearMem
<1>4. flush' = [pc |-> "cleared", by |-> flush.by, items |-> flush.items,
                off |-> flush.off, path |-> flush.path]
  BY DEF FlushClear, IInv, Shapes
<1>5. /\ Upper' = Upper /\ Inputs' = Inputs
      /\ \A k : OnDisk(k)' = OnDisk(k)
      /\ MergeTables(compaction.inputs)' = MergeTables(compaction.inputs)
  BY <1>2 DEF Upper, Inputs, OnDisk, CompactAt, MergeTables
<1>6. Shapes'
  BY <1>2, <1>3, <1>4 DEF IInv, Shapes, WritersOK
<1>7. LevelsOK' /\ CompactionOK'
  BY <1>2, <1>5 DEF IInv, LevelsOK, CompactionOK, CompactAt
<1>8. FlushOK'
  <2>1. /\ flush'.pc = "cleared" /\ flush'.items = flush.items
        /\ \A k \in DOMAIN flush.items : OnDisk(k) = flush.items[k]
    BY <1>4 DEF FlushClear, FlushAt, IInv, FlushOK
  <2> QED  BY <1>5, <2>1 DEF FlushOK, FlushAt
<1>9. NothingLost'
  <2>1. ASSUME NEW k \in Keys
        PROVE  applied'[k] = IF MemGet(mem', k) # None THEN MemGet(mem', k) ELSE OnDisk(k)'
    <3>1. applied'[k] = IF MemGet(mem, k) # None THEN MemGet(mem, k) ELSE OnDisk(k)
      BY <1>2 DEF IInv, NothingLost
    <3>2. CASE MemGet(mem', k) = MemGet(mem, k)
      BY <1>5, <3>1, <3>2
    <3>3. CASE /\ MemGet(mem', k) = None
               /\ k \in DOMAIN Head(mem.frozen).data
               /\ MemGet(mem, k) = Head(mem.frozen).data[k]
      BY <1>1, <1>5, <3>1, <3>3
    <3> QED  BY <1>3, <3>2, <3>3
  <2> QED  BY <2>1 DEF NothingLost
<1> QED  BY <1>6, <1>7, <1>8, <1>9 DEF IInv

-----------------------------------------------------------------------------
(* Steps of the compaction thread *)

\* What is left to show of a step of the compaction thread.
LEMMA CompactFrame ==
  ASSUME IInv, UNCHANGED <<mem, writer, applied, flush>>,
         manifest' \in [mem : LevelSets, disk : LevelSets], FilesOK(files'),
         clock' \in Int, clock <= clock', compaction' \in Compactions,
         LevelsOK', CompactionOK', Inputs' \subseteq Inputs,
         FlushAt("written") => SameFile(flush.path),
         \A k \in Keys : OnDisk(k)' = OnDisk(k)
  PROVE  IInv'
<1>1. FlushShape'
  BY DEF IInv, Shapes, FlushShape
<1>2. FlushOK'
  <2>1. flush.pc \in {"taken", "written", "installed", "saved"} =>
          mem.frozen # <<>> /\ Head(mem.frozen).data = flush.items
    BY DEF IInv, FlushOK
  <2>2. FlushAt("written") =>
          /\ flush.path[1] = 0 /\ flush.path[2] <= clock'
          /\ flush.path \in DOMAIN files' /\ files'[flush.path] = flush.items
          /\ \A e \in Inputs' : e.path # flush.path
    <3> SUFFICES ASSUME FlushAt("written")
                 PROVE  /\ flush.path[1] = 0 /\ flush.path[2] <= clock'
                        /\ flush.path \in DOMAIN files' /\ files'[flush.path] = flush.items
                        /\ \A e \in Inputs' : e.path # flush.path
      OBVIOUS
    <3>1. flush.path[2] \in Int /\ clock \in Int
      BY DEF IInv, Shapes, Paths
    <3> QED  BY <3>1 DEF IInv, FlushOK, SameFile, SameIn
  <2>3. flush.pc \in {"installed", "saved", "cleared"} =>
          \A k \in DOMAIN flush.items : OnDisk(k)' = flush.items[k]
    BY TableValue DEF IInv, Shapes, FlushOK
  <2> QED  BY <2>1, <2>2, <2>3 DEF FlushOK, FlushAt
<1> QED  BY <1>1, <1>2, StoreFrame

\* What compact leaves when it is over.
LEMMA NoCompactionOK ==
  /\ NoCompaction \in Compactions
  /\ NoCompaction.pc = "idle" /\ NoCompaction.inputs = {}
BY DEF NoCompaction, Compactions, CompactionPCs, Paths, Levels

\* may_start_compaction
LEMMA FlushCompactInv ==
  ASSUME IInv, FlushCompact
  PROVE  IInv'
<1>1. /\ UNCHANGED <<mem, writer, applied, manifest, files, clock>>
      /\ flush' = NoFlush
      /\ clock \in Int
      /\ FilesOK(files) /\ manifest \in [mem : LevelSets, disk : LevelSets]
  BY DEF FlushCompact, Leave, IInv, Shapes
<1>2. CASE compaction' = compaction
  BY <1>1, <1>2, LeaveOK, FlushFrame
<1>3. CASE compaction' # compaction
  <2>1. /\ CompactAt("idle")
        /\ compaction' = [NoCompaction EXCEPT !.pc = "started"]
    BY <1>3 DEF FlushCompact, MayStartCompaction
  <2>2. compaction' \in Compactions /\ compaction'.pc = "started" /\ compaction'.inputs = {}
    BY <2>1 DEF NoCompaction, Compactions, CompactionPCs, Paths, Levels
  <2>3. Upper' = Upper
    BY <1>1, <2>1, <2>2 DEF Upper, CompactAt
  <2>4. LevelsOK'
    BY <1>1, <2>2, LevelsLater
  <2>5. CompactionOK'
    BY <2>2 DEF CompactionOK, CompactAt
  <2>6. \A k : OnDisk(k)' = OnDisk(k)
    BY <1>1, <2>3 DEF OnDisk
  <2> QED  BY <1>1, <2>2, <2>4, <2>5, <2>6, LeaveOK, StoreFrame
<1> QED  BY <1>2, <1>3

\* compact reads the list of level-0 SSTables.
LEMMA CompactSnapshotInv ==
  ASSUME IInv, CompactSnapshot, UNCHANGED engineVars
  PROVE  IInv'
<1>1. /\ UNCHANGED <<mem, writer, applied, flush, manifest, files, clock>>
      /\ clock \in Int /\ FilesOK(files) /\ compaction \in Compactions
      /\ manifest \in [mem : LevelSets, disk : LevelSets]
  BY DEF CompactSnapshot, engineVars, IInv, Shapes
<1>2. /\ compaction' \in Compactions
      /\ compaction'.pc \in {"idle", "merging"}
      /\ compaction'.inputs \subseteq manifest.mem[0]
      /\ compaction'.pc = "merging" =>
           compaction'.inputs = manifest.mem[0] /\ manifest.mem[0] # {}
  <2>1. CASE compaction' = NoCompaction
    BY <2>1, NoCompactionOK
  <2>2. CASE compaction' # NoCompaction
    <3> DEFINE w == [compaction EXCEPT !.pc = "merging"]
    <3>1. manifest.mem[0] \in SUBSET Entries /\ manifest.mem[0] # {}
      BY <1>1, <2>2 DEF CompactSnapshot, LevelSets, Levels
    <3>2. compaction' = [w EXCEPT !.inputs = manifest.mem[0]]
      BY <2>2 DEF CompactSnapshot
    <3>3. w \in Compactions /\ w.pc = "merging"
      BY <1>1 DEF Compactions, CompactionPCs
    <3> HIDE DEF w
    <3>4. /\ compaction' \in Compactions /\ compaction'.pc = "merging"
          /\ compaction'.inputs = manifest.mem[0]
      BY <3>1, <3>2, <3>3 DEF Compactions
    <3> QED  BY <3>1, <3>4
  <2> QED  BY <2>1, <2>2
<1>3. Inputs' \subseteq Inputs /\ compaction'.inputs \subseteq Inputs
  BY <1>1, <1>2 DEF Inputs
<1>4. Upper' = Upper
  BY <1>1, <1>2 DEF Upper, CompactAt, CompactSnapshot
<1>5. LevelsOK'
  BY <1>1, <1>3, LevelsLater
<1>6. CompactionOK'
  BY <1>1, <1>2 DEF CompactionOK, CompactAt
<1>7. \A k : OnDisk(k)' = OnDisk(k)
  BY <1>1, <1>4 DEF OnDisk
<1>8. FlushAt("written") => SameFile(flush.path)
  BY <1>1 DEF SameFile, SameIn
<1> QED  BY <1>1, <1>2, <1>3, <1>5, <1>6, <1>7, <1>8, CompactFrame

\* A step that leaves the inputs' files leaves what they merge to.
LEMMA SameMerge ==
  ASSUME NEW S, \A e \in S : SameFile(e.path)
  PROVE  [k \in {x \in Keys : FirstHit(files', S, x) # {}} |-> SearchLevel(files', S, k)] =
           MergeTables(S)
<1>1. \A k : /\ FirstHit(files', S, k) = FirstHit(files, S, k)
             /\ SearchLevel(files', S, k) = SearchLevel(files, S, k)
  BY SameSearch
<1> QED  BY <1>1 DEF MergeTables

\* compact writes the merged file: what a search of its inputs finds.
LEMMA CompactWriteInv ==
  ASSUME ClockAdvances, IInv, CompactWrite, UNCHANGED engineVars
  PROVE  IInv'
<1> DEFINE p == <<1, clock'>>
           t == MergeTables(compaction.inputs)
<1>1. /\ clock' \in Int /\ clock' > clock /\ clock \in Int
  BY PastPaths, TickAdvances DEF CompactWrite
<1>2. /\ UNCHANGED <<mem, writer, applied, flush, manifest>>
      /\ FilesOK(files) /\ compaction \in Compactions
      /\ manifest \in [mem : LevelSets, disk : LevelSets]
      /\ compaction.pc = "merging"
      /\ LevelsOK
  BY DEF CompactWrite, CompactAt, engineVars, IInv, Shapes
<1>3. t \in Tables
  <2> DEFINE S == compaction.inputs
  <2>1. Dated(S, clock)
    BY <1>2 DEF LevelsOK, Dated, Inputs
  <2> HIDE DEF S
  <2>2. MergeTables(S) \in Tables
    BY <1>1, <1>2, <2>1, MergeIs
  <2> QED  BY <2>2 DEF S
<1>4. /\ FilesOK(files') /\ p \in DOMAIN files' /\ files'[p] = t
      /\ \A q : q[2] \in Int /\ q[2] <= clock => SameFile(q)
  <2>1. files' = WriteFile(files, p, t)
    BY DEF CompactWrite
  <2> HIDE DEF t
  <2> QED  BY <1>1, <1>2, <1>3, <2>1, FreshFile DEF SameFile
<1>5. p \in Paths /\ p[1] = 1 /\ p[2] = clock'
  BY <1>1 DEF Paths, Levels
<1>6. /\ compaction' \in Compactions
      /\ compaction'.pc = "written" /\ compaction'.out = p
      /\ compaction'.inputs = compaction.inputs
  <2> DEFINE w == [compaction EXCEPT !.pc = "written"]
  <2>1. compaction' = [w EXCEPT !.out = p]
    BY DEF CompactWrite
  <2>2. w \in Compactions /\ w.pc = "written" /\ w.inputs = compaction.inputs
    BY <1>2 DEF Compactions, CompactionPCs
  <2> HIDE DEF w, p
  <2> QED  BY <1>5, <2>1, <2>2 DEF Compactions
<1> HIDE DEF p, t
<1>7. \A e \in Inputs \cup manifest.mem[1] : SameFile(e.path)
  BY <1>4, PastPaths
<1>8. Upper' = Upper /\ Inputs' = Inputs /\ Upper \subseteq Inputs
  BY <1>2, <1>6 DEF Upper, Inputs, CompactAt
<1>9. \A k : OnDisk(k)' = OnDisk(k)
  BY <1>2, <1>7, <1>8, OnDiskFrame
<1>10. LevelsOK'
  <2>1. compaction'.inputs \subseteq Inputs
    BY <1>6 DEF Inputs
  <2> QED  BY <1>1, <1>2, <2>1, LevelsLater
<1>11. MergeTables(compaction.inputs)' = t
  <2> DEFINE S == compaction.inputs
  <2>1. \A e \in S : SameFile(e.path)
    BY <1>7 DEF Inputs
  <2>2. MergeTables(compaction.inputs)' =
          [k \in {x \in Keys : FirstHit(files', S, x) # {}} |-> SearchLevel(files', S, k)]
    BY <1>6 DEF MergeTables
  <2> HIDE DEF S
  <2>3. MergeTables(compaction.inputs)' = MergeTables(S)
    BY <2>1, <2>2, SameMerge
  <2> QED  BY <2>3 DEF S, t
<1>12. CompactionOK'
  <2>1. \A e \in manifest'.mem[1] : e.path # p
    BY <1>1, <1>2, <1>5, PastPaths
  <2> QED  BY <1>1, <1>2, <1>4, <1>5, <1>6, <1>11, <2>1 DEF IInv, CompactionOK, CompactAt
<1>13. FlushAt("written") => SameFile(flush.path)
  BY <1>4 DEF IInv, Shapes, FlushOK, Paths
<1> QED  BY <1>1, <1>2, <1>4, <1>6, <1>8, <1>9, <1>10, <1>12, <1>13, CompactFrame

\* A merge that fails leaves everything as it was.
LEMMA CompactWriteFailsInv ==
  ASSUME ClockAdvances, IInv, CompactWriteFails, UNCHANGED engineVars
  PROVE  IInv'
<1> DEFINE p == <<1, clock'>>
<1>1. /\ clock' \in Int /\ clock' > clock /\ clock \in Int
  BY PastPaths, TickAdvances DEF CompactWriteFails
<1>2. /\ UNCHANGED <<mem, writer, applied, flush, manifest>>
      /\ FilesOK(files) /\ flush.items \in Tables
      /\ manifest \in [mem : LevelSets, disk : LevelSets]
      /\ compaction.pc = "merging" /\ compaction' = NoCompaction
  BY DEF CompactWriteFails, CompactAt, engineVars, IInv, Shapes
<1>3. /\ FilesOK(files')
      /\ \A q : q[2] \in Int /\ q[2] <= clock => SameFile(q)
  <2>1. files' = Unlinked(files, p)
    BY DEF CompactWriteFails
  <2> QED  BY <1>1, <1>2, <2>1, FreshFile DEF SameFile
<1>4. /\ Upper' = Upper /\ Inputs' \subseteq Inputs /\ Upper \subseteq Inputs
      /\ compaction'.inputs \subseteq Inputs
  BY <1>2, NoCompactionOK DEF Upper, Inputs, CompactAt
<1>5. \A k : OnDisk(k)' = OnDisk(k)
  <2>1. \A e \in Upper \cup manifest.mem[1] : SameFile(e.path)
    BY <1>3, <1>4, PastPaths
  <2> QED  BY <1>2, <1>4, <2>1, OnDiskFrame
<1>6. LevelsOK'
  BY <1>1, <1>2, <1>4, LevelsLater
<1>7. CompactionOK'
  BY <1>2, NoCompactionOK DEF CompactionOK, CompactAt
<1>8. FlushAt("written") => SameFile(flush.path)
  BY <1>3 DEF IInv, Shapes, FlushOK, Paths
<1> QED
  BY <1>1, <1>2, <1>3, <1>4, <1>5, <1>6, <1>7, <1>8, NoCompactionOK, CompactFrame

\* What the merged SSTable on level 1 holds, and what a search of that level
\* now finds.
LEMMA InstallLower ==
  ASSUME IInv, CompactAt("written"), clock' \in Int, clock' > clock,
         NEW m, m = AddSSTable(manifest, 1, [path |-> compaction.out, created |-> clock'])
           \/ m = AddSSTableUnsaved(manifest, 1, [path |-> compaction.out, created |-> clock'])
  PROVE  /\ m \in [mem : LevelSets, disk : LevelSets]
         /\ m.mem[0] = manifest.mem[0]
         /\ Dated(m.mem[1], clock')
         /\ \A e \in m.mem[1] : e.path[1] = 1 /\ e.path[2] <= clock'
         /\ Dated(Inputs, clock')
         /\ \A e \in Inputs : e.path[1] = 0 /\ e.path[2] <= clock'
         /\ \A k \in Keys :
              IF SearchLevel(files, compaction.inputs, k) # None
              THEN SearchLevel(files, m.mem[1], k) = SearchLevel(files, compaction.inputs, k)
              ELSE SearchLevel(files, m.mem[1], k) = SearchLevel(files, manifest.mem[1], k)
<1> DEFINE e == [path |-> compaction.out, created |-> clock']
           S == compaction.inputs
<1>1. /\ clock \in Int /\ FilesOK(files) /\ LevelsOK
      /\ compaction.out \in Paths /\ compaction.out[1] = 1 /\ compaction.out[2] <= clock
      /\ compaction.out \in DOMAIN files /\ files[compaction.out] = MergeTables(S)
      /\ manifest \in [mem : LevelSets, disk : LevelSets]
  BY DEF IInv, Shapes, CompactionOK, CompactAt, Compactions
<1>2. Dated(S, clock)
  BY <1>1 DEF LevelsOK, Dated, Inputs
<1>3. e \in Entries /\ e.path = compaction.out /\ e.created = clock'
  BY <1>1 DEF Entries
<1> HIDE DEF e, S
<1>4. /\ m \in [mem : LevelSets, disk : LevelSets]
      /\ m.mem[1] = manifest.mem[1] \cup {e}
      /\ m.mem[0] = manifest.mem[0]
  <2>1. m = AddSSTable(manifest, 1, e) \/ m = AddSSTableUnsaved(manifest, 1, e)
    BY DEF e
  <2>2. 0 \in Levels /\ 1 \in Levels /\ 0 # 1
    BY DEF Levels
  <2>3. /\ m \in [mem : LevelSets, disk : LevelSets]
        /\ m.mem[1] = manifest.mem[1] \cup {e}
        /\ \A h \in Levels : h # 1 => m.mem[h] = manifest.mem[h]
    BY <1>1, <1>3, <2>1, <2>2, AddEntry
  <2> QED  BY <2>2, <2>3
<1>5. Dated(m.mem[1], clock')
  <2>1. Dated(manifest.mem[1], clock')
    BY <1>1, DatedLater DEF LevelsOK
  <2>2. \A x \in manifest.mem[1] : x.created # clock'
    <3>1. \A x \in manifest.mem[1] : x.created \in Int /\ x.created <= clock
      BY <1>1 DEF LevelsOK, Dated, Entries
    <3> QED  BY <1>1, <3>1
  <2> QED  BY <1>3, <1>4, <2>1, <2>2 DEF Dated
<1>6. \A x \in m.mem[1] : x.path[1] = 1 /\ x.path[2] <= clock'
  <2>1. compaction.out[2] \in Int
    BY <1>1 DEF Paths
  <2> QED  BY <1>1, <1>3, <1>4, <2>1, PastPaths
<1>7. /\ Dated(Inputs, clock')
      /\ \A x \in Inputs : x.path[1] = 0 /\ x.path[2] <= clock'
  BY <1>1, DatedLater, PastPaths DEF LevelsOK
<1>8. ASSUME NEW k \in Keys
      PROVE  IF SearchLevel(files, S, k) # None
             THEN SearchLevel(files, m.mem[1], k) = SearchLevel(files, S, k)
             ELSE SearchLevel(files, m.mem[1], k) = SearchLevel(files, manifest.mem[1], k)
  <2> DEFINE L == m.mem[1]
             A == manifest.mem[1]
  <2>1. Dated(L, clock') /\ L = A \cup {e}
    BY <1>4, <1>5
  <2>2. \A a \in A : e.created > a.created
    <3>1. \A a \in A : a.created \in Int /\ a.created <= clock
      BY <1>1 DEF LevelsOK, Dated, Entries
    <3> QED  BY <1>1, <1>3, <3>1
  <2> HIDE DEF L, A
  <2>3. /\ k \in DOMAIN files[e.path] => SearchLevel(files, L, k) = files[e.path][k]
        /\ k \notin DOMAIN files[e.path] => SearchLevel(files, L, k) = SearchLevel(files, A, k)
    BY <1>1, <1>3, <2>1, <2>2, SearchNewest
  <2>4. /\ k \in DOMAIN MergeTables(S) <=> SearchLevel(files, S, k) # None
        /\ k \in DOMAIN MergeTables(S) => MergeTables(S)[k] = SearchLevel(files, S, k)
    BY <1>1, <1>2, MergeIs
  <2> QED  BY <1>1, <1>3, <2>3, <2>4 DEF L, A
<1> QED  BY <1>4, <1>5, <1>6, <1>7, <1>8 DEF S

\* From now on the merged copy counts, and its inputs no longer do.
LEMMA CompactInstallInv ==
  ASSUME ClockAdvances, IInv, CompactInstall, UNCHANGED engineVars
  PROVE  IInv'
<1>1. /\ clock' \in Int /\ clock' > clock /\ clock \in Int
  BY PastPaths, TickAdvances DEF CompactInstall
<1>2. /\ UNCHANGED <<mem, writer, applied, flush, files>>
      /\ FilesOK(files) /\ compaction \in Compactions
      /\ compaction.pc = "written"
      /\ compaction.inputs \subseteq manifest.mem[0] /\ compaction.inputs # {}
      /\ \A e \in manifest.mem[0] \ compaction.inputs, i \in compaction.inputs :
           e.created > i.created
      /\ LevelsOK
  BY DEF CompactInstall, CompactAt, engineVars, IInv, Shapes, CompactionOK
<1>3. /\ manifest' \in [mem : LevelSets, disk : LevelSets]
      /\ manifest'.mem[0] = manifest.mem[0]
      /\ Dated(manifest'.mem[1], clock')
      /\ \A e \in manifest'.mem[1] : e.path[1] = 1 /\ e.path[2] <= clock'
      /\ Dated(Inputs, clock')
      /\ \A e \in Inputs : e.path[1] = 0 /\ e.path[2] <= clock'
      /\ \A k \in Keys :
           IF SearchLevel(files, compaction.inputs, k) # None
           THEN SearchLevel(files, manifest'.mem[1], k) = SearchLevel(files, compaction.inputs, k)
           ELSE SearchLevel(files, manifest'.mem[1], k) = SearchLevel(files, manifest.mem[1], k)
  BY <1>1, InstallLower DEF CompactInstall
<1>4. /\ compaction' \in Compactions
      /\ compaction'.pc = "removing" /\ compaction'.todo = compaction.inputs
      /\ compaction'.inputs = compaction.inputs
  <2> DEFINE w == [compaction EXCEPT !.pc = "removing"]
  <2>1. compaction' = [w EXCEPT !.todo = compaction.inputs]
    BY DEF CompactInstall
  <2>2. w \in Compactions /\ w.pc = "removing" /\ w.inputs = compaction.inputs
    BY <1>2 DEF Compactions, CompactionPCs
  <2>3. compaction.inputs \in SUBSET Entries
    BY <1>2 DEF Compactions
  <2> HIDE DEF w
  <2> QED  BY <2>1, <2>2, <2>3 DEF Compactions
<1>5. Inputs' = Inputs
  BY <1>3, <1>4 DEF Inputs
<1>6. LevelsOK'
  BY <1>2, <1>3, <1>5 DEF LevelsOK
<1>7. CompactionOK'
  BY <1>2, <1>3, <1>4 DEF CompactionOK, CompactAt
<1>8. ASSUME NEW k \in Keys PROVE OnDisk(k)' = OnDisk(k)
  <2> DEFINE S == manifest.mem[0]
             A == compaction.inputs
             B == manifest.mem[0] \ compaction.inputs
             L == manifest.mem[1]
             M == manifest'.mem[1]
  <2>1. OnDisk(k) = Find(files, S, L, k)
    BY <1>2 DEF OnDisk, Upper, CompactAt
  <2>2. OnDisk(k)' = Find(files, B, M, k)
    BY <1>2, <1>3, <1>4 DEF OnDisk, Upper, CompactAt
  <2>3. S = A \cup B
    BY <1>2
  <2>4. \A a \in A, b \in B : b.created > a.created
    BY <1>2
  <2>5. Dated(S, clock) /\ FilesOK(files) /\ clock \in Int
    BY <1>1, <1>2 DEF LevelsOK, Dated, Inputs
  <2>6. IF SearchLevel(files, A, k) # None
        THEN SearchLevel(files, M, k) = SearchLevel(files, A, k)
        ELSE SearchLevel(files, M, k) = SearchLevel(files, L, k)
    BY <1>3
  <2> HIDE DEF S, A, B, L, M
  <2>7. /\ SearchLevel(files, B, k) # None =>
              SearchLevel(files, S, k) = SearchLevel(files, B, k)
        /\ SearchLevel(files, B, k) = None =>
              SearchLevel(files, S, k) = SearchLevel(files, A, k)
    BY <2>3, <2>4, <2>5, SearchUnion
  <2> QED  BY <2>1, <2>2, <2>6, <2>7 DEF Find
<1>9. FlushAt("written") => SameFile(flush.path)
  BY <1>2 DEF SameFile, SameIn
<1> QED  BY <1>1, <1>2, <1>3, <1>4, <1>5, <1>6, <1>7, <1>8, <1>9, CompactFrame

\* The merged copy is in memory, behind inputs that say the same.
LEMMA CompactInstallFailsInv ==
  ASSUME ClockAdvances, IInv, CompactInstallFails, UNCHANGED engineVars
  PROVE  IInv'
<1>1. /\ clock' \in Int /\ clock' > clock /\ clock \in Int
  BY PastPaths, TickAdvances DEF CompactInstallFails
<1>2. /\ UNCHANGED <<mem, writer, applied, flush, files>>
      /\ FilesOK(files)
      /\ compaction.pc = "written" /\ compaction' = NoCompaction
      /\ compaction.inputs \subseteq manifest.mem[0]
      /\ LevelsOK
  BY DEF CompactInstallFails, CompactAt, engineVars, IInv, Shapes, CompactionOK
<1>3. /\ manifest' \in [mem : LevelSets, disk : LevelSets]
      /\ manifest'.mem[0] = manifest.mem[0]
      /\ Dated(manifest'.mem[1], clock')
      /\ \A e \in manifest'.mem[1] : e.path[1] = 1 /\ e.path[2] <= clock'
      /\ Dated(Inputs, clock')
      /\ \A e \in Inputs : e.path[1] = 0 /\ e.path[2] <= clock'
      /\ \A k \in Keys :
           IF SearchLevel(files, compaction.inputs, k) # None
           THEN SearchLevel(files, manifest'.mem[1], k) = SearchLevel(files, compaction.inputs, k)
           ELSE SearchLevel(files, manifest'.mem[1], k) = SearchLevel(files, manifest.mem[1], k)
  BY <1>1, InstallLower DEF CompactInstallFails, SaveRaised, AddSSTable
<1>4. Inputs' \subseteq Inputs
  BY <1>2, <1>3, NoCompactionOK DEF Inputs
<1>5. LevelsOK'
  <2>1. Dated(Inputs', clock')
    BY <1>3, <1>4 DEF Dated
  <2> QED  BY <1>2, <1>3, <1>4, <2>1 DEF LevelsOK
<1>6. CompactionOK'
  BY <1>2, NoCompactionOK DEF CompactionOK, CompactAt
<1>7. ASSUME NEW k \in Keys PROVE OnDisk(k)' = OnDisk(k)
  <2> DEFINE S == manifest.mem[0]
             A == compaction.inputs
             L == manifest.mem[1]
             M == manifest'.mem[1]
  <2>1. OnDisk(k) = Find(files, S, L, k)
    BY <1>2 DEF OnDisk, Upper, CompactAt
  <2>2. OnDisk(k)' = Find(files, S, M, k)
    BY <1>2, <1>3, NoCompactionOK DEF OnDisk, Upper, CompactAt
  <2>3. Dated(S, clock) /\ Dated(A, clock) /\ A \subseteq S
    BY <1>2 DEF LevelsOK, Dated, Inputs
  <2>4. IF SearchLevel(files, A, k) # None
        THEN SearchLevel(files, M, k) = SearchLevel(files, A, k)
        ELSE SearchLevel(files, M, k) = SearchLevel(files, L, k)
    BY <1>3
  <2> HIDE DEF S, A, L, M
  <2>5. SearchLevel(files, S, k) = None <=> \A e \in S : ~Holds(files, e.path, k)
    BY <1>1, <1>2, <2>3, SearchLevelNone
  <2>6. SearchLevel(files, A, k) = None <=> \A e \in A : ~Holds(files, e.path, k)
    BY <1>1, <1>2, <2>3, SearchLevelNone
  <2> QED  BY <2>1, <2>2, <2>3, <2>4, <2>5, <2>6 DEF Find
<1>8. FlushAt("written") => SameFile(flush.path)
  BY <1>2 DEF SameFile, SameIn
<1> QED
  BY <1>1, <1>2, <1>3, <1>4, <1>5, <1>6, <1>7, <1>8, NoCompactionOK, CompactFrame

\* The input a loop of compact has come to is one of those it has left.
LEMMA ThisInputIs ==
  ASSUME IInv, compaction.pc \in {"removing", "deleting"}
  PROVE  /\ ThisInput \in compaction.todo
         /\ compaction.todo \subseteq compaction.inputs
         /\ ThisInput \in Inputs
<1> DEFINE T == compaction.todo
           S == compaction.inputs
<1>1. T \subseteq S /\ T # {}
  BY DEF IInv, CompactionOK, CompactAt
<1>2. Dated(S, clock) /\ clock \in Int
  BY DEF IInv, Shapes, LevelsOK, Dated, Inputs
<1> HIDE DEF T, S
<1>3. Newest(T) \in T
  BY <1>1, <1>2, NewestIsIn
<1> QED  BY <1>1, <1>3 DEF ThisInput, T, S, Inputs

\* An input leaves level 0, where it no longer counts.
LEMMA CompactRemoveInv ==
  ASSUME IInv, CompactRemove, UNCHANGED engineVars
  PROVE  IInv'
<1>1. /\ UNCHANGED <<mem, writer, applied, flush, files, clock>>
      /\ clock \in Int /\ FilesOK(files) /\ compaction \in Compactions
      /\ manifest \in [mem : LevelSets, disk : LevelSets]
      /\ compaction.pc = "removing"
      /\ manifest.mem[0] \cap compaction.inputs = compaction.todo
      /\ LevelsOK
  BY DEF CompactRemove, CompactAt, engineVars, IInv, Shapes, CompactionOK
<1>2. /\ ThisInput \in compaction.todo
      /\ compaction.todo \subseteq compaction.inputs
      /\ ThisInput \in Inputs
  BY <1>1, ThisInputIs
<1>3. /\ manifest' \in [mem : LevelSets, disk : LevelSets]
      /\ manifest'.mem[0] = manifest.mem[0] \ {ThisInput}
      /\ manifest'.mem[1] = manifest.mem[1]
  <2> DEFINE i == ThisInput
             p == i.path
  <2>1. /\ manifest' = RemoveSSTable(manifest, 0, p)
        /\ 0 \in Levels /\ 1 \in Levels /\ 0 # 1
    BY DEF CompactRemove, Levels
  <2>2. /\ manifest' \in [mem : LevelSets, disk : LevelSets]
        /\ manifest'.mem[0] = {e \in manifest.mem[0] : e.path # p}
        /\ \A h \in Levels : h # 0 => manifest'.mem[h] = manifest.mem[h]
    <3> HIDE DEF p
    <3> QED  BY <1>1, <2>1, RemoveEntry
  <2>3. \A e \in manifest.mem[0] : e.path = p <=> e = i
    BY <1>1, <1>2 DEF LevelsOK, Inputs
  <2> HIDE DEF i, p
  <2>4. {e \in manifest.mem[0] : e.path # p} = manifest.mem[0] \ {i}
    BY <2>3
  <2> QED  BY <2>1, <2>2, <2>4 DEF i
<1>4. \/ /\ compaction.todo = {ThisInput}
         /\ compaction'.pc = "deleting" /\ compaction'.todo = compaction.inputs
         /\ compaction'.inputs = compaction.inputs
         /\ compaction' \in Compactions
      \/ /\ compaction.todo # {ThisInput}
         /\ compaction'.pc = "removing" /\ compaction'.todo = compaction.todo \ {ThisInput}
         /\ compaction'.inputs = compaction.inputs
         /\ compaction' \in Compactions
  <2>1. CASE compaction.todo = {ThisInput}
    <3> DEFINE w == [compaction EXCEPT !.pc = "deleting"]
    <3>1. compaction' = [w EXCEPT !.todo = compaction.inputs]
      BY <2>1 DEF CompactRemove, NextInput
    <3>2. w \in Compactions /\ w.pc = "deleting" /\ w.inputs = compaction.inputs
      BY <1>1 DEF Compactions, CompactionPCs
    <3>3. compaction.inputs \in SUBSET Entries
      BY <1>1 DEF Compactions
    <3> HIDE DEF w
    <3>4. /\ compaction'.pc = "deleting" /\ compaction'.todo = compaction.inputs
          /\ compaction'.inputs = compaction.inputs
          /\ compaction' \in Compactions
      BY <3>1, <3>2, <3>3 DEF Compactions
    <3> QED  BY <2>1, <3>4
  <2>2. CASE compaction.todo # {ThisInput}
    <3> DEFINE rest == compaction.todo \ {ThisInput}
    <3>1. compaction' = [compaction EXCEPT !.todo = rest]
      BY <2>2 DEF CompactRemove, NextInput
    <3>2. rest \in SUBSET Entries
      BY <1>1 DEF Compactions
    <3> HIDE DEF rest
    <3>3. /\ compaction'.pc = "removing" /\ compaction'.todo = rest
          /\ compaction'.inputs = compaction.inputs
          /\ compaction' \in Compactions
      BY <1>1, <3>1, <3>2 DEF Compactions
    <3> QED  BY <2>2, <3>3 DEF rest
  <2> QED  BY <2>1, <2>2
<1> DEFINE i == ThisInput
<1>5. i = ThisInput
  OBVIOUS
<1> HIDE DEF i
<1>6. Upper' = Upper
  <2>1. Upper = manifest.mem[0] \ compaction.inputs
    BY <1>1 DEF Upper, CompactAt
  <2>2. CASE compaction'.pc = "deleting"
    <3>1. Upper' = manifest.mem[0] \ {i} /\ manifest.mem[0] \cap compaction.inputs = {i}
      BY <1>1, <1>3, <1>4, <1>5, <2>2 DEF Upper, CompactAt
    <3> QED  BY <2>1, <3>1
  <2>3. CASE compaction'.pc = "removing"
    <3>1. Upper' = (manifest.mem[0] \ {i}) \ compaction.inputs
      BY <1>3, <1>4, <1>5, <2>3 DEF Upper, CompactAt
    <3> QED  BY <1>2, <1>5, <2>1, <3>1
  <2> QED  BY <1>4, <2>2, <2>3
<1>7. Inputs' \subseteq Inputs
  BY <1>3, <1>4 DEF Inputs
<1>8. LevelsOK'
  <2>1. Dated(Inputs', clock')
    BY <1>1, <1>7 DEF LevelsOK, Dated
  <2> QED  BY <1>1, <1>3, <1>7, <2>1 DEF LevelsOK
<1>9. CompactionOK'
  <2>1. CASE compaction'.pc = "deleting"
    <3>1. manifest'.mem[0] \cap compaction.inputs = {} /\ compaction.inputs # {}
      BY <1>1, <1>2, <1>3, <1>4, <2>1
    <3> QED  BY <1>4, <2>1, <3>1 DEF CompactionOK, CompactAt
  <2>2. CASE compaction'.pc = "removing"
    <3>1. /\ manifest'.mem[0] \cap compaction.inputs = compaction.todo \ {i}
          /\ compaction.todo \ {i} # {}
      BY <1>1, <1>2, <1>3, <1>4, <1>5, <2>2
    <3> QED  BY <1>4, <1>5, <2>2, <3>1 DEF CompactionOK, CompactAt
  <2> QED  BY <1>4, <2>1, <2>2
<1>10. \A k : OnDisk(k)' = OnDisk(k)
  BY <1>1, <1>3, <1>6 DEF OnDisk
<1>11. FlushAt("written") => SameFile(flush.path)
  BY <1>1 DEF SameFile, SameIn
<1>12. compaction' \in Compactions
  BY <1>4
<1> QED
  BY <1>1, <1>3, <1>7, <1>8, <1>9, <1>10, <1>11, <1>12, CompactFrame

\* No entry names the file that is unlinked.
LEMMA CompactDeleteInv ==
  ASSUME IInv, CompactDelete \/ CompactDeleteFails, UNCHANGED engineVars
  PROVE  IInv'
<1> DEFINE i == ThisInput
<1>1. /\ UNCHANGED <<mem, writer, applied, flush, manifest, clock>>
      /\ clock \in Int /\ FilesOK(files) /\ compaction \in Compactions
      /\ manifest \in [mem : LevelSets, disk : LevelSets]
      /\ compaction.pc = "deleting"
      /\ manifest.mem[0] \cap compaction.inputs = {}
      /\ LevelsOK
      /\ files' = files \/ files' = Unlinked(files, i.path)
      /\ compaction' = IF compaction.todo = {i} THEN NoCompaction
                       ELSE [compaction EXCEPT !.todo = compaction.todo \ {i}]
  BY DEF CompactDelete, CompactDeleteFails, NextInput, CompactAt, engineVars,
         IInv, Shapes, CompactionOK
<1>2. /\ i \in compaction.todo
      /\ compaction.todo \subseteq compaction.inputs
      /\ i \in Inputs
  BY <1>1, ThisInputIs
<1> HIDE DEF i
<1>3. \A p : p # i.path => SameFile(p)
  BY <1>1 DEF Unlinked, SameFile, SameIn
<1>4. FilesOK(files')
  BY <1>1 DEF Unlinked, FilesOK
<1>5. /\ compaction' \in Compactions
      /\ compaction'.inputs \subseteq compaction.inputs
      /\ \/ compaction'.pc = "idle"
         \/ /\ compaction'.pc = "deleting" /\ compaction'.inputs = compaction.inputs
            /\ compaction'.todo = compaction.todo \ {i} /\ compaction'.todo # {}
  <2>1. CASE compaction.todo = {i}
    BY <1>1, <2>1, NoCompactionOK
  <2>2. CASE compaction.todo # {i}
    <3> DEFINE rest == compaction.todo \ {i}
    <3>1. rest \in SUBSET Entries /\ rest # {}
      BY <1>1, <1>2, <2>2 DEF Compactions
    <3>2. compaction' = [compaction EXCEPT !.todo = rest]
      BY <1>1, <2>2
    <3> HIDE DEF rest
    <3>3. /\ compaction' \in Compactions /\ compaction'.pc = "deleting"
          /\ compaction'.inputs = compaction.inputs /\ compaction'.todo = rest
      BY <1>1, <3>1, <3>2 DEF Compactions
    <3> QED  BY <3>1, <3>3 DEF rest
  <2> QED  BY <2>1, <2>2
<1>6. Upper' = Upper /\ Upper = manifest.mem[0]
  BY <1>1, <1>5 DEF Upper, CompactAt
<1>7. Inputs' \subseteq Inputs /\ compaction'.inputs \subseteq Inputs
  BY <1>1, <1>5 DEF Inputs
<1>8. LevelsOK'
  BY <1>1, <1>7, LevelsLater
<1>9. CompactionOK'
  BY <1>1, <1>2, <1>5 DEF CompactionOK, CompactAt
<1>10. \A k : OnDisk(k)' = OnDisk(k)
  <2>1. \A e \in manifest.mem[0] : e.path # i.path
    BY <1>1, <1>2 DEF LevelsOK, Inputs
  <2>2. \A e \in manifest.mem[1] : e.path # i.path
    BY <1>2, PastPaths
  <2>3. \A e \in Upper \cup manifest.mem[1] : SameFile(e.path)
    BY <1>3, <1>6, <2>1, <2>2
  <2>4. manifest'.mem[1] = manifest.mem[1]
    BY <1>1
  <2> QED  BY <1>6, <2>3, <2>4, OnDiskFrame
<1>11. FlushAt("written") => SameFile(flush.path)
  BY <1>2, <1>3 DEF IInv, FlushOK
<1> QED
  BY <1>1, <1>4, <1>5, <1>7, <1>8, <1>9, <1>10, <1>11, CompactFrame

-----------------------------------------------------------------------------
(* Every step, and the theorem *)

\* Every step of every flusher keeps the invariant.
LEMMA FlusherInv ==
  ASSUME ClockAdvances, IInv, Flusher
  PROVE  IInv'
<1>1. ASSUME NEW by, FlushNothing(by) PROVE IInv'
  BY <1>1, UntouchedInv DEF FlushNothing, compactionVars
<1>2. ASSUME NEW by, FlushTake(by) PROVE IInv'
  BY <1>2, FlushTakeInv
<1>3. ASSUME FlushStep PROVE IInv'
  BY <1>3, FlushWriteInv, FlushWriteFailsInv, FlushInstallInv, FlushInstallFailsInv,
     FlushSaveInv, FlushClearInv, FlushEndInv, FlushCompactInv DEF FlushStep
<1> QED  BY <1>1, <1>2, <1>3 DEF Flusher

\* So does every step of the compaction thread but a failed removal.
LEMMA CompactorInv ==
  ASSUME ClockAdvances, IInv, CompactionNext, UNCHANGED engineVars, ~CompactRemoveFails
  PROVE  IInv'
BY CompactSnapshotInv, CompactWriteInv, CompactWriteFailsInv, CompactInstallInv,
   CompactInstallFailsInv, CompactRemoveInv, CompactDeleteInv DEF CompactionNext

\* IInv is inductive.
LEMMA NextIInv ==
  ASSUME ClockAdvances, IInv, [Next]_vars, ~CompactRemoveFails
  PROVE  IInv'
<1>1. ASSUME NEW t \in Writers, WriterCalls(t) \/ WriterReturns(t) PROVE IInv'
  BY <1>1, WriterInv
<1>2. CASE Flusher
  BY <1>2, FlusherInv
<1>3. CASE FlushAllCall \/ FlushAllLoop
  BY <1>3, UntouchedInv DEF FlushAllCall, FlushAllLoop, compactionVars
<1>4. ASSUME NEW r \in Readers, ReaderStep(r) PROVE IInv'
  BY <1>4, UntouchedInv DEF ReaderStep, Get, GetSnapshot, GetProbe, GetRead, compactionVars
<1>5. CASE Compactor
  BY <1>5, CompactorInv DEF Compactor
<1>6. CASE UNCHANGED vars
  BY <1>6, UntouchedInv DEF vars, engineVars, compactionVars
<1> QED  BY <1>1, <1>2, <1>3, <1>4, <1>5, <1>6 DEF Next

\* And what a get finds follows from it.
LEMMA IInvIsEnough ==
  ASSUME IInv
  PROVE  ViewConsistent
<1> SUFFICES ASSUME ~CompactAt("removing"), NEW k \in Keys
             PROVE  View(k) = applied[k]
  BY DEF ViewConsistent, NeverStale
<1>1. Upper = manifest.mem[0]
  BY DEF Upper
<1>2. OnDisk(k) = SearchLevels(files, manifest.mem, k)
  BY <1>1 DEF OnDisk, Find, SearchLevels
<1> QED  BY <1>2 DEF IInv, NothingLost, View

\* In every run of the engine in which the clock advances and no save of the
\* manifest fails in the middle of compact's removals, whatever else fails, get
\* finds the last write of every key, except while compact takes its inputs out
\* of the manifest (compaction.py:138).
THEOREM ViewStaysConsistent ==
  ASSUME ClockAdvances
  PROVE  Spec /\ [][~CompactRemoveFails]_vars => []ViewConsistent
<1>1. Init => IInv
  BY InitIInv
<1>2. IInv /\ [Next]_vars /\ [~CompactRemoveFails]_vars => IInv'
  <2>1. ASSUME IInv, UNCHANGED vars PROVE IInv'
    BY <2>1, UntouchedInv DEF vars, engineVars, compactionVars
  <2> QED  BY <2>1, NextIInv
<1>3. IInv => ViewConsistent
  BY IInvIsEnough
<1> QED  BY <1>1, <1>2, <1>3, PTL DEF Spec

-----------------------------------------------------------------------------
(* Types: the second theorem needs no assumption about the clock *)

\* What a batch adds to the size is a number: a sum over the finite set of its
\* keys.
LEMMA BatchSizeType ==
  ASSUME NEW m \in MemTables, NEW pairs \in Seq(Pairs)
  PROVE  MapThenSumSet(LAMBDA k : SizeOf(BatchValue(pairs, k)) - HeldSize(m.data, k),
                       BatchKeys(pairs)) \in Int
<1> DEFINE D == BatchKeys(pairs)
           change(k) == SizeOf(BatchValue(pairs, k)) - HeldSize(m.data, k)
           Step(f) == [T \in SUBSET D |->
                         IF T = {} THEN 0
                         ELSE change(CHOOSE x \in T : TRUE) + f[T \ {CHOOSE x \in T : TRUE}]]
           iter == CHOOSE f : f = Step(f)
           sum == MapThenSumSet(LAMBDA k : SizeOf(BatchValue(pairs, k)) - HeldSize(m.data, k), D)
           c == [T \in SUBSET D |-> CHOOSE x \in T : TRUE]
           step == [x \in D \X Int |-> change(x[1]) + x[2]]
<1>1. sum = iter[D]
  BY DEF MapThenSumSet, MapThenFoldSet
<1>2. \A k \in D : change(k) \in Int
  <2> SUFFICES ASSUME NEW k \in D PROVE change(k) \in Int
    OBVIOUS
  <2>1. BatchValue(pairs, k) \in Stored
    BY BatchValueStored DEF Pairs
  <2>2. SizeOf(BatchValue(pairs, k)) \in Nat
    BY <2>1, SizeAssumption
  <2>3. HeldSize(m.data, k) \in Nat
    BY TableValue, SizeAssumption DEF HeldSize, MemTables
  <2> QED  BY <2>2, <2>3
<1>3. IsFiniteSet(D)
  <2> DEFINE n == Len(pairs)
             key == [i \in 1..n |-> pairs[i].key]
  <2>1. n \in Nat /\ DOMAIN pairs = 1..n
    BY LenProperties
  <2>2. IsFiniteSet(1..n)
    BY <2>1, FS_Interval
  <2>3. key \in Surjection(1..n, D)
    BY <2>1 DEF BatchKeys, Surjection
  <2> HIDE DEF D, n, key
  <2> QED  BY <2>2, <2>3, FS_Surjection
<1> HIDE DEF change, sum, D
<1>4. \A T \in SUBSET D : T # {} => c[T] \in T
  OBVIOUS
<1>5. 0 \in Int /\ step \in [D \X Int -> Int]
  BY <1>2
<1>6. PICK h \in [SUBSET D -> Int] : IsFold(h, D, c, 0, step)
  <2> DEFINE V == Int
             v == 0
  <2>1. v \in V /\ step \in [D \X V -> V]
    BY <1>5
  <2>2. \A T \in SUBSET D : T # {} => c[T] \in T
    BY <1>4
  <2>3. \E h \in [SUBSET D -> V] : IsFold(h, D, c, v, step)
    <3> HIDE DEF c, step, V, v
    <3> QED  BY <1>3, <2>1, <2>2, FoldExists
  <2> QED  BY <2>3
<1>7. h = Step(h)
  <2>1. ASSUME NEW T \in SUBSET D PROVE h[T] = Step(h)[T]
    <3>1. CASE T = {}
      BY <1>6, <3>1 DEF IsFold
    <3>2. CASE T # {}
      <4>1. h[T] = step[<<c[T], h[T \ {c[T]}]>>]
        BY <1>6, <3>2 DEF IsFold
      <4>2. c[T] \in D /\ h[T \ {c[T]}] \in Int /\ c[T] = CHOOSE x \in T : TRUE
        BY <1>4, <3>2
      <4>3. step[<<c[T], h[T \ {c[T]}]>>] = change(c[T]) + h[T \ {c[T]}]
        <5> HIDE DEF c
        <5> QED  BY <4>2
      <4> QED  BY <3>2, <4>1, <4>2, <4>3
    <3> QED  BY <3>1, <3>2
  <2>2. h = [T \in SUBSET D |-> h[T]] /\ Step(h) = [T \in SUBSET D |-> Step(h)[T]]
    OBVIOUS
  <2> HIDE DEF Step
  <2> QED  BY <2>1, <2>2
<1>8. iter = Step(iter)
  <2> HIDE DEF Step
  <2> QED  BY <1>7
<1> HIDE DEF iter
<1>9. iter[D] \in Int
  <2> DEFINE N == {n \in Nat : \A T \in SUBSET D : Cardinality(T) <= n => iter[T] \in Int}
  <2>0. \A T \in SUBSET D : IsFiniteSet(T) /\ Cardinality(T) \in Nat
    BY <1>3, FS_Subset, FS_CardinalityType
  <2>1. 0 \in N
    <3>1. ASSUME NEW T \in SUBSET D, Cardinality(T) <= 0 PROVE iter[T] \in Int
      <4>1. T = {}
        BY <2>0, <3>1, FS_EmptySet
      <4> QED  BY <1>8, <4>1
    <3> QED  BY <3>1
  <2>2. ASSUME NEW n \in Nat, n \in N PROVE n + 1 \in N
    <3>1. ASSUME NEW T \in SUBSET D, Cardinality(T) <= n + 1, T # {} PROVE iter[T] \in Int
      <4> DEFINE x == CHOOSE y \in T : TRUE
                 U == T \ {x}
      <4>1. x \in T /\ x \in D
        BY <3>1
      <4>2. iter[T] = change(x) + iter[U]
        BY <1>8, <3>1
      <4> HIDE DEF x
      <4>3. Cardinality(U) = Cardinality(T) - 1
        BY <2>0, <4>1, FS_RemoveElement
      <4>4. U \in SUBSET D /\ Cardinality(U) <= n
        BY <2>0, <3>1, <4>3
      <4>5. iter[U] \in Int
        BY <2>2, <4>4
      <4> QED  BY <1>2, <4>1, <4>2, <4>5
    <3>2. iter[{}] \in Int
      <4>1. {} \in SUBSET D
        OBVIOUS
      <4>2. iter[{}] = 0
        BY <1>8, <4>1
      <4> QED  BY <4>2
    <3>3. ASSUME NEW T \in SUBSET D, Cardinality(T) <= n + 1 PROVE iter[T] \in Int
      <4>1. CASE T = {}
        BY <3>2, <4>1
      <4>2. CASE T # {}
        BY <3>1, <3>3, <4>2
      <4> QED  BY <4>1, <4>2
    <3> HIDE DEF Step
    <3> QED  BY <3>3
  <2>3. Cardinality(D) \in N
    <3> HIDE DEF N
    <3> QED  BY <2>0, <2>1, <2>2, AllNaturals
  <2> QED  BY <2>0, <2>3
<1> QED  BY <1>1, <1>9 DEF sum, D

\* A MemTable of its type is one as the lookups want it.
LEMMA MemTableIs ==
  ASSUME NEW m \in MemTables
  PROVE  /\ IsMem(m)
         /\ m.data \in Tables /\ m.size \in Int /\ m.off \in Nat /\ m.frozen \in Seq(Buffers)
<1>1. /\ m = [data |-> m.data, size |-> m.size, off |-> m.off, frozen |-> m.frozen]
      /\ m.data \in Tables /\ m.size \in Int /\ m.off \in Nat /\ m.frozen \in Seq(Buffers)
  BY DEF MemTables
<1> DEFINE q == m.frozen
<1>2. q \in Seq({q[i] : i \in DOMAIN q})
  <2>1. q \in Seq(Buffers)
    BY <1>1
  <2> HIDE DEF q
  <2> QED  BY <2>1, SeqOfElements
<1>3. \A i \in DOMAIN q : q[i].data \in Tables
  <2>1. \A i \in DOMAIN q : q[i] \in Buffers
    BY <1>1
  <2> QED  BY <2>1 DEF Buffers
<1> QED  BY <1>1, <1>2, <1>3 DEF IsMem, IsQueue

\* The parts of a MemTable put together again.
LEMMA MemTableOf ==
  ASSUME NEW data \in Tables, NEW size \in Int, NEW off \in Nat, NEW frozen \in Seq(Buffers)
  PROVE  [data |-> data, size |-> size, off |-> off, frozen |-> frozen] \in MemTables
BY DEF MemTables

\* An empty table is a table.
LEMMA EmptyTableIs == EmptyTable \in Tables
BY TablesAre DEF EmptyTable

\* What a get finds in the MemTable is a stored value or nothing.
LEMMA MemGetType ==
  ASSUME NEW m \in MemTables, NEW k
  PROVE  MemGet(m, k) \in Stored \cup {None}
<1>1. IsMem(m) /\ m.data \in Tables
  BY MemTableIs
<1>2. SearchQueue(m.frozen, k) \in Stored \cup {None}
  <2>1. CASE NewestHolder(m.frozen, k) = {}
    BY <2>1 DEF SearchQueue
  <2>2. ASSUME NEW i \in NewestHolder(m.frozen, k)
        PROVE  SearchQueue(m.frozen, k) \in Stored \cup {None}
    <3>1. SearchQueue(m.frozen, k) = m.frozen[i].data[k]
      BY <1>1, SearchQueueHit DEF IsMem
    <3>2. i \in DOMAIN m.frozen /\ k \in DOMAIN m.frozen[i].data
      BY DEF NewestHolder
    <3>3. m.frozen[i].data \in Tables
      BY <1>1, <3>2 DEF IsMem, IsQueue
    <3> QED  BY <3>1, <3>2, <3>3, TableValue
  <2> QED  BY <2>1, <2>2
<1> QED  BY <1>1, <1>2, TableValue DEF MemGet

\* Every operation of the MemTable returns one.
LEMMA PutType ==
  ASSUME NEW m \in MemTables, NEW k \in Keys, NEW v \in Stored
  PROVE  PutUnlocked(m, k, v) \in MemTables
<1> DEFINE data == [x \in DOMAIN m.data \cup {k} |-> IF x = k THEN v ELSE m.data[x]]
           size == m.size - HeldSize(m.data, k) + SizeOf(v)
           n == PutUnlocked(m, k, v)
<1>1. n = [data |-> data, size |-> size, off |-> m.off, frozen |-> m.frozen]
  <2>1. n = [m EXCEPT !.size = size, !.data = data]
    BY DEF PutUnlocked
  <2>2. IsMem(m)
    BY MemTableIs
  <2> HIDE DEF n, size, data
  <2> QED  BY <2>1, <2>2, Refilled
<1>2. data \in Tables
  BY MemTableIs, TablesAre
<1>3. size \in Int
  <2>1. HeldSize(m.data, k) \in Nat /\ SizeOf(v) \in Nat
    BY MemTableIs, TableValue, SizeAssumption DEF HeldSize
  <2> QED  BY <2>1, MemTableIs
<1> HIDE DEF n, data, size
<1>4. n \in MemTables
  BY <1>1, <1>2, <1>3, MemTableIs, MemTableOf
<1> QED  BY <1>4 DEF n

LEMMA BatchType ==
  ASSUME NEW m \in MemTables, NEW pairs \in Seq(Pairs), NEW off \in Nat
  PROVE  BatchMem(m, pairs, off) \in MemTables
<1> DEFINE ks == BatchKeys(pairs)
           data == [x \in DOMAIN m.data \cup ks |->
                      IF x \in ks THEN BatchValue(pairs, x) ELSE m.data[x]]
           all == PutAllUnlocked(m, pairs)
           sum == MapThenSumSet(
                    LAMBDA k : SizeOf(BatchValue(pairs, k)) - HeldSize(m.data, k), ks)
           size == m.size + sum
           n == BatchMem(m, pairs, off)
<1>1. all = [data |-> data, size |-> size, off |-> m.off, frozen |-> m.frozen]
  <2>1. all = [m EXCEPT !.size = size, !.data = data]
    BY DEF PutAllUnlocked
  <2>2. IsMem(m)
    BY MemTableIs
  <2> HIDE DEF all, size, data
  <2> QED  BY <2>1, <2>2, Refilled
<1>2. data \in Tables
  <2>1. \A x \in ks : x \in Keys /\ BatchValue(pairs, x) \in Stored
    BY BatchValueStored DEF Pairs
  <2> HIDE DEF ks
  <2> QED  BY <2>1, MemTableIs, TablesAre
<1>3. size \in Int
  <2>1. sum \in Int
    BY BatchSizeType
  <2> HIDE DEF sum
  <2> QED  BY <2>1, MemTableIs
<1>4. n = [all EXCEPT !.off = off]
  BY DEF BatchMem
<1> HIDE DEF all, data, size, n
<1>5. n = [data |-> data, size |-> size, off |-> off, frozen |-> m.frozen]
  BY <1>1, <1>4
<1>6. n \in MemTables
  BY <1>2, <1>3, <1>5, MemTableIs, MemTableOf
<1> QED  BY <1>6 DEF n

LEMMA RaiseOffsetType ==
  ASSUME NEW m \in MemTables, NEW o \in Nat
  PROVE  RaiseOffset(m, o) \in MemTables
BY DEF RaiseOffset, MemTables

LEMMA RotateType ==
  ASSUME NEW m \in MemTables
  PROVE  RotateUnlocked(m) \in MemTables
<1> DEFINE b == [data |-> m.data, off |-> m.off]
<1>1. b \in Buffers
  BY MemTableIs DEF Buffers
<1> HIDE DEF b
<1>2. Append(m.frozen, b) \in Seq(Buffers)
  BY <1>1, MemTableIs
<1>3. RotateUnlocked(m) = [data |-> EmptyTable, size |-> 0, off |-> 0,
                           frozen |-> Append(m.frozen, b)]
  BY DEF RotateUnlocked, b
<1>4. 0 \in Int /\ 0 \in Nat /\ EmptyTable \in Tables
  BY EmptyTableIs
<1> DEFINE q == Append(m.frozen, b)
<1> HIDE DEF q
<1>5. [data |-> EmptyTable, size |-> 0, off |-> 0, frozen |-> q] \in MemTables
  BY <1>2, <1>4 DEF MemTables, q
<1> QED  BY <1>3, <1>5 DEF q

LEMMA ClearType ==
  ASSUME NEW m \in MemTables
  PROVE  ClearFrozen(m) \in MemTables
<1>1. CASE m.frozen = <<>>
  BY <1>1 DEF ClearFrozen
<1>2. CASE m.frozen # <<>>
  <2>1. Tail(m.frozen) \in Seq(Buffers)
    BY <1>2, MemTableIs
  <2>2. ClearFrozen(m) = [data |-> m.data, size |-> m.size, off |-> m.off,
                          frozen |-> Tail(m.frozen)]
    <3>1. IsMem(m)
      BY MemTableIs
    <3> QED  BY <1>2, <3>1 DEF ClearFrozen, IsMem
  <2> QED  BY <2>1, <2>2, MemTableIs, MemTableOf
<1> QED  BY <1>1, <1>2

\* What a flush takes is a table and an offset.
LEMMA FrozenType ==
  ASSUME NEW m \in MemTables
  PROVE  FrozenItems(m) \in Tables /\ FrozenOffset(m) \in Nat
<1>1. CASE m.frozen = <<>>
  BY <1>1, EmptyTableIs DEF FrozenItems, FrozenOffset
<1>2. CASE m.frozen # <<>>
  <2>1. Head(m.frozen) \in Buffers
    BY <1>2, MemTableIs
  <2> QED  BY <1>2, <2>1 DEF FrozenItems, FrozenOffset, Buffers
<1> QED  BY <1>1, <1>2

-----------------------------------------------------------------------------
(* The log's type *)

CellSet == [rec : Pairs, part : Nat]

WALs == [file : Seq(CellSet), handle : {"closed", "attached", "detached"},
         buffer : {<<>>}, pos : Nat]

\* The cells of a record, and of a batch.
LEMMA CellsType ==
  ASSUME NEW p \in Pairs
  PROVE  Cells(p) \in Seq(CellSet)
<1>1. RecordLen(p) \in Nat
  BY EngineAssumption
<1>2. \A i \in 1..RecordLen(p) : Cell(p, i) \in CellSet
  BY <1>1 DEF Cell, CellSet
<1> QED  BY <1>1, <1>2 DEF Cells

LEMMA BatchCellsType ==
  ASSUME NEW pairs \in Seq(Pairs)
  PROVE  BatchCells(pairs) \in Seq(CellSet)
<1> DEFINE seqs == [i \in DOMAIN pairs |-> Cells(pairs[i])]
           n == Len(pairs)
<1>1. n \in Nat /\ DOMAIN pairs = 1..n /\ \A i \in 1..n : Cells(pairs[i]) \in Seq(CellSet)
  BY LenProperties, ElementOfSeq, CellsType
<1>2. seqs = [i \in 1..n |-> Cells(pairs[i])]
  BY <1>1
<1> HIDE DEF seqs, n
<1>3. seqs \in Seq(Seq(CellSet))
  BY <1>1, <1>2
<1>4. BatchCells(pairs) = Concatenation(seqs)
  BY DEF BatchCells, seqs
<1> QED  BY <1>3, <1>4, ConcatenationType

\* Every operation of the log that does not raise returns one.
LEMMA OpenType ==
  ASSUME NEW w \in WALs
  PROVE  Open(w) \in WALs
<1>1. w.file \in Seq(CellSet) /\ Len(w.file) \in Nat
  BY DEF WALs
<1> QED  BY <1>1 DEF Open, WALs

LEMMA WriteCellsType ==
  ASSUME NEW w \in WALs, NEW cells \in Seq(CellSet)
  PROVE  WriteCells(w, cells) \in WALs
<1> DEFINE o == Open(w)
           all == ToWrite(w, cells)
<1>1. o \in WALs
  BY OpenType
<1>2. all = cells
  BY <1>1 DEF ToWrite, WALs
<1> HIDE DEF o, all
<1>3. /\ o.file \in Seq(CellSet) /\ Len(o.file) \in Nat /\ Len(cells) \in Nat
      /\ o.file \o cells \in Seq(CellSet) /\ o.pos \in Nat
  BY <1>1 DEF WALs
<1>4. CASE o.handle = "attached"
  <2>1. WriteCells(w, cells) = [o EXCEPT !.file = o.file \o cells, !.buffer = <<>>,
                                         !.pos = Len(o.file) + Len(cells)]
    BY <1>2, <1>4 DEF WriteCells, o, all
  <2> DEFINE file == o.file \o cells
             pos == Len(o.file) + Len(cells)
  <2>2. file \in Seq(CellSet) /\ pos \in Nat
    BY <1>3
  <2> HIDE DEF file, pos
  <2>3. WriteCells(w, cells) = [o EXCEPT !.file = file, !.buffer = <<>>, !.pos = pos]
    BY <2>1 DEF file, pos
  <2> QED  BY <1>1, <2>2, <2>3 DEF WALs
<1>5. CASE o.handle # "attached"
  <2> DEFINE pos == o.pos + Len(cells)
  <2>1. WriteCells(w, cells) = [o EXCEPT !.pos = pos] /\ pos \in Nat
    BY <1>3, <1>5 DEF WriteCells, o
  <2> HIDE DEF pos
  <2> QED  BY <1>1, <2>1 DEF WALs
<1> QED  BY <1>4, <1>5

LEMMA OffsetType ==
  ASSUME NEW w \in WALs
  PROVE  /\ NextOffset(w) \in Nat
         /\ \A pairs \in Seq(Pairs) : LastOffset(w, pairs) \in Nat
<1>1. NextOffset(w) \in Nat
  <2>1. Len(w.file) \in Nat /\ w.pos \in Nat
    BY DEF WALs
  <2> QED  BY <2>1 DEF NextOffset, Open, WALs
<1>2. ASSUME NEW pairs \in Seq(Pairs) PROVE LastOffset(w, pairs) \in Nat
  <2>1. CASE pairs = <<>>
    BY <1>1, <2>1 DEF LastOffset
  <2>2. CASE pairs # <<>>
    <3>1. Front(pairs) \in Seq(Pairs)
      BY <2>2 DEF Front
    <3>2. Len(BatchCells(Front(pairs))) \in Nat
      BY <3>1, BatchCellsType, LenProperties
    <3> QED  BY <1>1, <2>2, <3>2 DEF LastOffset
  <2> QED  BY <2>1, <2>2
<1> QED  BY <1>1, <1>2

LEMMA TruncateType ==
  ASSUME NEW w \in WALs, NEW off \in Nat
  PROVE  TruncateUpto(w, off) \in WALs
<1>1. w.file \in Seq(CellSet) /\ Len(w.file) \in Nat
  BY DEF WALs
<1>2. CASE off <= 0
  BY <1>2 DEF TruncateUpto
<1>3. CASE off > 0 /\ off >= Len(w.file)
  <2>1. TruncateUpto(w, off) = [w EXCEPT !.file = <<>>]
    BY <1>1, <1>3 DEF TruncateUpto
  <2>2. <<>> \in Seq(CellSet)
    BY EmptySeq
  <2> QED  BY <2>1, <2>2 DEF WALs
<1>4. CASE off > 0 /\ off < Len(w.file)
  <2> DEFINE file == SubSeq(w.file, off + 1, Len(w.file))
             handle == IF w.handle = "closed" THEN w.handle ELSE "detached"
  <2>1. file \in Seq(CellSet)
    BY <1>1, <1>4
  <2>2. TruncateUpto(w, off) = [w EXCEPT !.file = file, !.handle = handle]
    BY <1>1, <1>4 DEF TruncateUpto
  <2>3. handle \in {"closed", "attached", "detached"}
    BY DEF WALs
  <2> HIDE DEF file, handle
  <2> QED  BY <2>1, <2>2, <2>3 DEF WALs
<1> QED  BY <1>1, <1>2, <1>3, <1>4

-----------------------------------------------------------------------------
(* The manifest's type, and the files' *)

Manifests == [mem : LevelSets, disk : LevelSets]

\* Whatever adds, removes or saves returns a manifest.
LEMMA ManifestType ==
  ASSUME NEW m \in Manifests
  PROVE  /\ Save(m) \in Manifests
         /\ \A l \in Levels, e \in Entries : AddSSTableUnsaved(m, l, e) \in Manifests
         /\ \A path : \A l \in Levels : RemoveSSTableUnsaved(m, l, path) \in Manifests
<1>1. Save(m) \in Manifests
  BY DEF Save, Manifests
<1>2. ASSUME NEW l \in Levels, NEW S \in SUBSET Entries
      PROVE  [m EXCEPT !.mem[l] = S] \in Manifests
  BY DEF Manifests, LevelSets
<1>3. ASSUME NEW l \in Levels, NEW e \in Entries
      PROVE  AddSSTableUnsaved(m, l, e) \in Manifests
  <2> DEFINE S == m.mem[l] \cup {e}
  <2>1. S \in SUBSET Entries
    BY DEF Manifests, LevelSets
  <2>2. AddSSTableUnsaved(m, l, e) = [m EXCEPT !.mem[l] = S]
    BY DEF AddSSTableUnsaved, Manifests, LevelSets
  <2> HIDE DEF S
  <2> QED  BY <1>2, <2>1, <2>2
<1>4. ASSUME NEW l \in Levels, NEW path
      PROVE  RemoveSSTableUnsaved(m, l, path) \in Manifests
  <2> DEFINE S == {e \in m.mem[l] : e.path # path}
  <2>1. S \in SUBSET Entries
    BY DEF Manifests, LevelSets
  <2>2. RemoveSSTableUnsaved(m, l, path) = [m EXCEPT !.mem[l] = S]
    BY DEF RemoveSSTableUnsaved, Manifests, LevelSets
  <2> HIDE DEF S
  <2> QED  BY <1>2, <2>1, <2>2
<1> QED  BY <1>1, <1>3, <1>4

\* A save that raises leaves one too.
LEMMA SaveRaisedType ==
  ASSUME NEW m \in Manifests, NEW n \in SaveRaised(m)
  PROVE  n \in Manifests
BY ManifestType DEF SaveRaised

FilesTyped(fs) ==
  /\ fs = [p \in DOMAIN fs |-> fs[p]]
  /\ \A p \in DOMAIN fs : p \in Paths /\ fs[p] \in Tables

\* Writing and unlinking files.
LEMMA FilesType ==
  ASSUME NEW fs, FilesTyped(fs), NEW path
  PROVE  /\ FilesTyped(Unlinked(fs, path))
         /\ \A table \in Tables : path \in Paths => FilesTyped(WriteFile(fs, path, table))
BY DEF FilesTyped, Unlinked, WriteFile

\* A search of a level finds a stored value or nothing.
LEMMA SearchLevelType ==
  ASSUME NEW fs, FilesTyped(fs), NEW S, NEW k, FirstHit(fs, S, k) # {}
  PROVE  SearchLevel(fs, S, k) \in Stored
<1> DEFINE e == CHOOSE e \in FirstHit(fs, S, k) : TRUE
<1>1. e \in FirstHit(fs, S, k)
  OBVIOUS
<1>2. SearchLevel(fs, S, k) = fs[e.path][k]
  BY DEF SearchLevel
<1> HIDE DEF e
<1>3. e.path \in DOMAIN fs /\ k \in DOMAIN fs[e.path] /\ fs[e.path] \in Tables
  BY <1>1 DEF FirstHit, Holds, FilesTyped
<1> QED  BY <1>2, <1>3, TableValue

\* What compact merges is a table.
LEMMA MergeType ==
  ASSUME FilesTyped(files), NEW inputs
  PROVE  MergeTables(inputs) \in Tables
<1> DEFINE t == MergeTables(inputs)
<1>1. DOMAIN t \subseteq Keys /\ t = [k \in DOMAIN t |-> t[k]]
  BY DEF MergeTables
<1>2. \A k \in DOMAIN t : t[k] \in Stored
  BY SearchLevelType DEF MergeTables
<1> HIDE DEF t
<1>3. t \in Tables
  BY <1>1, <1>2, TablesAre
<1> QED  BY <1>3 DEF t

-----------------------------------------------------------------------------
(* The type invariant *)

CallLocals ==
  [pc : {"idle", "put", "spawn", "delete", "setOffset", "measuring", "batch"},
   pairs : Seq(Pairs), n : Nat, bytes : Int, off : Nat]

Flushes ==
  [pc : {"free", "taken", "written", "installed", "saved", "cleared", "truncated"},
   by : {"thread", "flushAll"}, items : Tables, off : Nat, path : Paths]

Searches ==
  [pc : {"idle", "missed", "probing", "found", "done", "raised"},
   key : Keys \cup {None}, todo : LevelSets,
   seen : SUBSET (Stored \cup {None}), result : Stored \cup {None}]

\* A put or a delete under way has its one pair.
WritersTyped ==
  /\ writer \in [Writers -> CallLocals]
  /\ \A t \in Writers : writer[t].pc \in {"put", "delete"} => Len(writer[t].pairs) = 1

MemoryTyped == mem \in MemTables /\ applied \in [Keys -> Stored \cup {None}]

ReadersTyped == reader \in [Readers -> Searches]

FlushTyped ==
  flush \in Flushes /\ flushAll \in {"idle", "looping", "flushing", "done"} /\ spawned \in Nat

DiskTyped ==
  /\ manifest \in Manifests
  /\ FilesTyped(files)
  /\ clock \in Int
  /\ compaction \in Compactions
  /\ failures \in Nat

\* TypeOK, and the lemmas' one addition.
TInv ==
  /\ MemoryTyped /\ wal \in WALs
  /\ WritersTyped /\ calls \in Nat
  /\ ReadersTyped
  /\ FlushTyped
  /\ DiskTyped

LEMMA TInvIsEnough == TInv => TypeOK
BY DEF TInv, MemoryTyped, WritersTyped, ReadersTyped, FlushTyped, DiskTyped, FilesTyped,
       CallLocals, Flushes, Searches, Manifests, WALs, CellSet, TypeOK

\* A new engine.
LEMMA InitTyped == Init => TInv
<1> SUFFICES ASSUME Init PROVE TInv
  OBVIOUS
<1>0. <<>> \in Seq(Buffers) /\ <<>> \in Seq(CellSet) /\ <<>> \in Seq(Pairs)
  BY EmptySeq
<1>1. MemoryTyped
  <2>1. mem = [data |-> EmptyTable, size |-> 0, off |-> 0, frozen |-> <<>>]
    BY DEF Init, NewMemTable
  <2>2. mem \in MemTables
    BY <1>0, <2>1, EmptyTableIs DEF MemTables
  <2> QED  BY <2>2 DEF Init, MemoryTyped
<1>2. wal \in WALs /\ calls \in Nat
  BY <1>0 DEF Init, EmptyWAL, WALs
<1>3. WritersTyped
  <2>1. IdleWriter \in CallLocals /\ IdleWriter.pc = "idle"
    BY <1>0 DEF IdleWriter, CallLocals
  <2> QED  BY <2>1 DEF Init, WritersTyped
<1>4. NoLevels \in LevelSets
  BY DEF NoLevels, LevelSets
<1>5. ReadersTyped
  <2>1. NotReading \in Searches
    BY <1>4 DEF NotReading, Searches
  <2> QED  BY <2>1 DEF Init, ReadersTyped
<1>6. FlushTyped
  BY EmptyTableIs DEF Init, FlushTyped, NoFlush, Flushes, Paths, Levels
<1>7. DiskTyped
  BY <1>4 DEF Init, DiskTyped, NewManifest, Manifests, FilesTyped, NoCompaction, Compactions,
              CompactionPCs, Paths, Levels
<1> QED  BY <1>1, <1>2, <1>3, <1>5, <1>6, <1>7 DEF TInv

\* A writer's locals.
LEMMA LocalsIs ==
  ASSUME NEW w \in CallLocals
  PROVE  /\ IsLocals(w)
         /\ w.pairs \in Seq(Pairs) /\ w.n \in Nat /\ w.bytes \in Int /\ w.off \in Nat
         /\ w.pc \in {"idle", "put", "spawn", "delete", "setOffset", "measuring", "batch"}
BY DEF CallLocals, IsLocals

LEMMA IdleType ==
  ASSUME NEW pc \in {"idle", "spawn"}
  PROVE  /\ [IdleWriter EXCEPT !.pc = pc] \in CallLocals
         /\ [IdleWriter EXCEPT !.pc = pc].pc = pc
<1>1. [IdleWriter EXCEPT !.pc = pc] = [pc |-> pc, pairs |-> <<>>, n |-> 0, bytes |-> 0, off |-> 0]
  BY DEF IdleWriter
<1>2. <<>> \in Seq(Pairs)
  BY EmptySeq
<1> DEFINE w == [IdleWriter EXCEPT !.pc = pc]
<1> HIDE DEF w
<1>3. w \in CallLocals /\ w.pc = pc
  <2>1. w = [pc |-> pc, pairs |-> <<>>, n |-> 0, bytes |-> 0, off |-> 0]
    BY <1>1 DEF w
  <2>2. w.pc = pc
    BY <2>1
  <2>3. pc \in {"idle", "put", "spawn", "delete", "setOffset", "measuring", "batch"}
    OBVIOUS
  <2> DEFINE none == <<>>
  <2>4. none \in Seq(Pairs) /\ w = [pc |-> pc, pairs |-> none, n |-> 0, bytes |-> 0, off |-> 0]
    BY <1>2, <2>1
  <2> HIDE DEF none
  <2>5. w \in CallLocals
    BY <2>3, <2>4 DEF CallLocals
  <2> QED  BY <2>2, <2>5
<1> QED  BY <1>3 DEF w

\* One writer moves.
LEMMA WriterStepTyped ==
  ASSUME WritersTyped, NEW t \in Writers, NEW w \in CallLocals,
         w.pc \in {"put", "delete"} => Len(w.pairs) = 1, writer' = [writer EXCEPT ![t] = w]
  PROVE  WritersTyped'
<1>1. writer' \in [Writers -> CallLocals]
  BY DEF WritersTyped
<1>2. \A u \in Writers : writer'[u] = IF u = t THEN w ELSE writer[u]
  BY DEF WritersTyped
<1> QED  BY <1>1, <1>2 DEF WritersTyped

\* A call that logs its record.
LEMMA LogTyped ==
  ASSUME WritersTyped, wal \in WALs, NEW t \in Writers, NEW pc \in {"put", "delete"},
         NEW p \in Pairs, Log(t, pc, p)
  PROVE  WritersTyped' /\ wal' \in WALs
<1> DEFINE w == [IdleWriter EXCEPT !.pc = pc, !.pairs = <<p>>, !.off = NextOffset(wal)]
<1>1. w = [pc |-> pc, pairs |-> <<p>>, n |-> 0, bytes |-> 0, off |-> NextOffset(wal)]
  <2>1. w = [pc |-> pc, pairs |-> <<p>>, n |-> IdleWriter.n, bytes |-> IdleWriter.bytes,
             off |-> NextOffset(wal)]
    <3>1. IsLocals(IdleWriter) /\ IdleWriter.n = IdleWriter.n
      BY IdleLocals
    <3> QED  BY <3>1, SetCall, ZenonT(30)
  <2> HIDE DEF w
  <2> QED  BY <2>1, IdleLocals
<1>2. writer' = [writer EXCEPT ![t] = w] /\ wal' = WriteCells(wal, Cells(p))
  BY DEF Log, Append1
<1>3. <<p>> \in Seq(Pairs) /\ Len(<<p>>) = 1
  OBVIOUS
<1> HIDE DEF w
<1>4. w \in CallLocals
  <2>1. NextOffset(wal) \in Nat
    BY OffsetType
  <2> QED  BY <1>1, <1>3, <2>1 DEF CallLocals
<1>5. w.pairs = <<p>>
  BY <1>1
<1>6. WritersTyped'
  BY <1>2, <1>3, <1>4, <1>5, WriterStepTyped
<1>7. Cells(p) \in Seq(CellSet)
  BY CellsType
<1> QED  BY <1>2, <1>6, <1>7, WriteCellsType

\* A write of pairs: what it leaves of the history and of the readers.
LEMMA ApplyTyped ==
  ASSUME MemoryTyped, ReadersTyped, NEW pairs \in Seq(Pairs), Apply(pairs)
  PROVE  applied' \in [Keys -> Stored \cup {None}] /\ ReadersTyped'
<1>1. \A k \in BatchKeys(pairs) : BatchValue(pairs, k) \in Stored
  BY BatchValueStored DEF Pairs
<1>2. applied' \in [Keys -> Stored \cup {None}]
  BY <1>1 DEF Apply, Applied, MemoryTyped
<1>3. ASSUME NEW r \in Readers PROVE Witnessed(pairs)[r] \in Searches
  <2>1. reader[r] \in Searches
    BY DEF ReadersTyped
  <2>2. CASE reader[r].pc \in {"missed", "probing", "found"} /\ reader[r].key \in BatchKeys(pairs)
    <3> DEFINE v == BatchValue(pairs, reader[r].key)
               seen == reader[r].seen \cup {v}
    <3>1. v \in Stored
      BY <1>1, <2>2
    <3>2. seen \in SUBSET (Stored \cup {None})
      BY <2>1, <3>1 DEF Searches
    <3>3. Witnessed(pairs)[r] = [reader[r] EXCEPT !.seen = seen]
      BY <2>2 DEF Witnessed
    <3> HIDE DEF seen
    <3> QED  BY <2>1, <3>2, <3>3 DEF Searches
  <2>3. CASE ~(reader[r].pc \in {"missed", "probing", "found"} /\ reader[r].key \in BatchKeys(pairs))
    BY <2>1, <2>3 DEF Witnessed
  <2> QED  BY <2>2, <2>3
<1>4. reader' = [r \in Readers |-> Witnessed(pairs)[r]]
  BY DEF Apply, Witnessed
<1>5. ReadersTyped'
  BY <1>3, <1>4 DEF ReadersTyped
<1> QED  BY <1>2, <1>5

\* What a pair adds to a batch's size is a number.
LEMMA PairSizeType ==
  ASSUME NEW m \in MemTables, NEW p \in Pairs
  PROVE  PairSize(m, p) \in Int
<1> DEFINE prev == MemGet(m, p.key)
<1>1. prev = None \/ prev \in Stored
  BY MemGetType
<1>2. SizeOf(p.value) \in Nat /\ (prev # None => SizeOf(prev) \in Nat)
  BY <1>1, SizeAssumption DEF Pairs
<1>3. Overhead \in Nat /\ KeyLen \in Nat
  BY EngineAssumption
<1> HIDE DEF prev
<1>4. PairSize(m, p) = SizeOf(p.value) + Overhead
                         + (IF prev = None \/ SizeOf(prev) = 0 THEN KeyLen ELSE -SizeOf(prev))
  BY DEF PairSize, prev
<1>5. (IF prev = None \/ SizeOf(prev) = 0 THEN KeyLen ELSE -SizeOf(prev)) \in Int
  BY <1>2, <1>3
<1> QED  BY <1>2, <1>3, <1>4, <1>5

-----------------------------------------------------------------------------
(* Every step keeps the types *)

LEMMA CallsTyped ==
  ASSUME TInv, NEW t \in Writers, WriterCalls(t)
  PROVE  TInv'
<1>0. WritersTyped /\ wal \in WALs /\ calls \in Nat
  BY DEF TInv
<1>1. /\ calls' = calls + 1
      /\ UNCHANGED <<mem, spawned, flush, flushAll, reader, applied, compactionVars>>
  BY DEF WriterCalls, Put, Delete, BatchPut, Call
<1>2. calls' \in Nat
  BY <1>0, <1>1
<1>3. WritersTyped' /\ wal' \in WALs
  <2>1. ASSUME NEW k \in Keys, NEW v \in Values, Put(t, k, v) PROVE WritersTyped' /\ wal' \in WALs
    <3> DEFINE p == [key |-> k, value |-> v]
    <3>1. p \in Pairs
      BY DEF Pairs, Stored
    <3>2. Log(t, "put", p)
      BY <2>1 DEF Put
    <3> HIDE DEF p
    <3> QED  BY <1>0, <3>1, <3>2, LogTyped
  <2>2. ASSUME NEW k \in Keys, Delete(t, k) PROVE WritersTyped' /\ wal' \in WALs
    <3> DEFINE p == [key |-> k, value |-> Tombstone]
    <3>1. p \in Pairs
      BY DEF Pairs, Stored
    <3>2. Log(t, "delete", p)
      BY <2>2 DEF Delete
    <3> HIDE DEF p
    <3> QED  BY <1>0, <3>1, <3>2, LogTyped
  <2>3. ASSUME NEW b \in Batches, BatchPut(t, b) PROVE WritersTyped' /\ wal' \in WALs
    <3> DEFINE w == [IdleWriter EXCEPT !.pc = "measuring", !.pairs = b]
    <3>1. b \in Seq(Pairs)
      <4>1. [key : Keys, value : Values] \subseteq Pairs
        BY DEF Pairs, Stored
      <4>2. b \in Seq([key : Keys, value : Values])
        BY EngineAssumption
      <4> DEFINE P == [key : Keys, value : Values]
      <4> HIDE DEF P
      <4>3. \A q \in Seq(P) : P \subseteq Pairs => q \in Seq(Pairs)
        OBVIOUS
      <4> QED  BY <4>1, <4>2, <4>3 DEF P
    <3>2. w = [pc |-> "measuring", pairs |-> b, n |-> 0, bytes |-> 0, off |-> 0]
      <4>1. w = [pc |-> "measuring", pairs |-> b, n |-> IdleWriter.n,
                 bytes |-> IdleWriter.bytes, off |-> IdleWriter.off]
        BY IdleLocals, SetPairs
      <4> HIDE DEF w
      <4> QED  BY <4>1, IdleLocals
    <3>3. writer' = [writer EXCEPT ![t] = w] /\ wal' = wal
      BY <2>3 DEF BatchPut
    <3> HIDE DEF w
    <3>4. w \in CallLocals /\ w.pc = "measuring"
      BY <3>1, <3>2 DEF CallLocals
    <3> QED  BY <1>0, <3>3, <3>4, WriterStepTyped
  <2> QED  BY <2>1, <2>2, <2>3 DEF WriterCalls
<1> QED
  BY <1>1, <1>2, <1>3
  DEF TInv, MemoryTyped, ReadersTyped, FlushTyped, DiskTyped, compactionVars

\* What the steps of a call have in common.
LEMMA ReturnsFrame ==
  ASSUME TInv, WritersTyped', MemoryTyped', ReadersTyped', wal' \in WALs,
         UNCHANGED <<flush, flushAll, calls, compactionVars>>, spawned' \in Nat
  PROVE  TInv'
BY DEF TInv, FlushTyped, DiskTyped, compactionVars

\* A call that writes nothing yet.
LEMMA WithinTyped ==
  ASSUME TInv, NEW t \in Writers, NEW w \in CallLocals, w.pc \notin {"put", "delete"},
         writer' = [writer EXCEPT ![t] = w], wal' \in WALs, spawned' \in Nat,
         UNCHANGED <<mem, flush, flushAll, reader, calls, applied, compactionVars>>
  PROVE  TInv'
<1>1. WritersTyped /\ MemoryTyped' /\ ReadersTyped'
  BY DEF TInv, MemoryTyped, ReadersTyped
<1>2. WritersTyped'
  BY <1>1, WriterStepTyped
<1> QED  BY <1>1, <1>2, ReturnsFrame

LEMMA PutApplyTyped ==
  ASSUME TInv, NEW t \in Writers, PutApply(t)
  PROVE  TInv'
<1> DEFINE p == writer[t].pairs[1]
           m == RaiseOffset(PutUnlocked(mem, p.key, p.value), writer[t].off)
           pc == IF IsFull(m) THEN "spawn" ELSE "idle"
           w == [IdleWriter EXCEPT !.pc = pc]
<1>0. WritersTyped /\ MemoryTyped /\ ReadersTyped /\ mem \in MemTables
  BY DEF TInv, MemoryTyped
<1>1. /\ writer[t].pairs \in Seq(Pairs) /\ Len(writer[t].pairs) = 1 /\ writer[t].off \in Nat
  BY <1>0, LocalsIs DEF WritersTyped, PutApply, WriterAt
<1>2. p \in Pairs /\ p.key \in Keys /\ p.value \in Stored
  <2>1. p \in Pairs
    BY <1>1
  <2> QED  BY <2>1 DEF Pairs
<1>3. /\ mem' = IF IsFull(m) THEN RotateUnlocked(m) ELSE m
      /\ writer' = [writer EXCEPT ![t] = w]
      /\ Apply(<<p>>)
      /\ UNCHANGED <<wal, spawned, flush, flushAll, calls, compactionVars>>
  BY DEF PutApply
<1>4. m \in MemTables
  BY <1>0, <1>1, <1>2, PutType, RaiseOffsetType
<1>5. w \in CallLocals /\ w.pc = pc /\ pc \in {"idle", "spawn"}
  BY IdleType
<1> HIDE DEF p, m, pc, w
<1>6. mem' \in MemTables
  BY <1>3, <1>4, RotateType
<1>7. <<p>> \in Seq(Pairs)
  BY <1>2
<1>8. applied' \in [Keys -> Stored \cup {None}] /\ ReadersTyped'
  BY <1>0, <1>3, <1>7, ApplyTyped
<1>9. WritersTyped'
  BY <1>0, <1>3, <1>5, WriterStepTyped
<1> QED
  BY <1>3, <1>6, <1>8, <1>9, ReturnsFrame DEF MemoryTyped, TInv, FlushTyped

LEMMA DeleteApplyTyped ==
  ASSUME TInv, NEW t \in Writers, DeleteApply(t)
  PROVE  TInv'
<1> DEFINE p == writer[t].pairs[1]
           w == [writer[t] EXCEPT !.pc = "setOffset"]
<1>0. WritersTyped /\ MemoryTyped /\ ReadersTyped /\ mem \in MemTables /\ writer[t] \in CallLocals
  BY DEF TInv, MemoryTyped, WritersTyped
<1>1. /\ writer[t].pairs \in Seq(Pairs) /\ Len(writer[t].pairs) = 1
  BY <1>0, LocalsIs DEF WritersTyped, DeleteApply, WriterAt
<1>2. p \in Pairs /\ p.key \in Keys
  <2>1. p \in Pairs
    BY <1>1
  <2> QED  BY <2>1 DEF Pairs
<1>3. /\ mem' = PutUnlocked(mem, p.key, Tombstone)
      /\ writer' = [writer EXCEPT ![t] = w]
      /\ Apply(writer[t].pairs)
      /\ UNCHANGED <<wal, spawned, flush, flushAll, calls, compactionVars>>
  BY DEF DeleteApply
<1>4. w \in CallLocals /\ w.pc = "setOffset"
  BY <1>0 DEF CallLocals
<1> HIDE DEF p, w
<1>5. mem' \in MemTables
  BY <1>0, <1>2, <1>3, PutType DEF Stored
<1>6. applied' \in [Keys -> Stored \cup {None}] /\ ReadersTyped'
  BY <1>0, <1>1, <1>3, ApplyTyped
<1>7. WritersTyped'
  BY <1>0, <1>3, <1>4, WriterStepTyped
<1> QED
  BY <1>3, <1>5, <1>6, <1>7, ReturnsFrame DEF MemoryTyped, TInv, FlushTyped

LEMMA DeleteSetOffsetTyped ==
  ASSUME TInv, NEW t \in Writers, DeleteSetOffset(t)
  PROVE  TInv'
<1>0. WritersTyped /\ MemoryTyped /\ mem \in MemTables /\ writer[t].off \in Nat
  BY LocalsIs DEF TInv, MemoryTyped, WritersTyped
<1>1. mem' \in MemTables
  BY <1>0, RaiseOffsetType DEF DeleteSetOffset
<1>2. IdleWriter \in CallLocals /\ IdleWriter.pc = "idle"
  BY EmptySeq DEF IdleWriter, CallLocals
<1>3. writer' = [writer EXCEPT ![t] = IdleWriter]
  BY DEF DeleteSetOffset
<1>4. WritersTyped'
  BY <1>0, <1>2, <1>3, WriterStepTyped
<1> QED
  BY <1>1, <1>4, ReturnsFrame DEF DeleteSetOffset, MemoryTyped, ReadersTyped, TInv, FlushTyped

LEMMA BatchApplyTyped ==
  ASSUME TInv, NEW t \in Writers, BatchApply(t)
  PROVE  TInv'
<1> DEFINE full == BatchWouldExceed(mem, writer[t].bytes)
           room == IF full THEN RotateUnlocked(mem) ELSE mem
           pc == IF full THEN "spawn" ELSE "idle"
           w == [IdleWriter EXCEPT !.pc = pc]
<1>0. /\ WritersTyped /\ MemoryTyped /\ ReadersTyped /\ mem \in MemTables
      /\ writer[t].pairs \in Seq(Pairs) /\ writer[t].off \in Nat
  BY LocalsIs DEF TInv, MemoryTyped, WritersTyped
<1>1. /\ mem' = BatchMem(room, writer[t].pairs, writer[t].off)
      /\ writer' = [writer EXCEPT ![t] = w]
      /\ Apply(writer[t].pairs)
      /\ UNCHANGED <<wal, spawned, flush, flushAll, calls, compactionVars>>
  BY DEF BatchApply, BatchMem
<1>2. room \in MemTables
  BY <1>0, RotateType
<1>3. w \in CallLocals /\ w.pc = pc /\ pc \in {"idle", "spawn"}
  BY IdleType
<1> HIDE DEF room, pc, w
<1>4. mem' \in MemTables
  BY <1>0, <1>1, <1>2, BatchType
<1>5. applied' \in [Keys -> Stored \cup {None}] /\ ReadersTyped'
  BY <1>0, <1>1, ApplyTyped
<1>6. WritersTyped'
  BY <1>0, <1>1, <1>3, WriterStepTyped
<1> QED
  BY <1>1, <1>4, <1>5, <1>6, ReturnsFrame DEF MemoryTyped, TInv, FlushTyped

LEMMA ReturnsTyped ==
  ASSUME TInv, NEW t \in Writers, WriterReturns(t)
  PROVE  TInv'
<1>0. /\ WritersTyped /\ mem \in MemTables /\ wal \in WALs /\ writer[t] \in CallLocals
      /\ spawned \in Nat
  BY DEF TInv, MemoryTyped, WritersTyped, FlushTyped
<1>1. IdleWriter \in CallLocals /\ IdleWriter.pc = "idle"
  BY EmptySeq DEF IdleWriter, CallLocals
<1>2. CASE SpawnFlush(t)
  <2>1. /\ writer' = [writer EXCEPT ![t] = IdleWriter] /\ spawned' = spawned + 1
        /\ UNCHANGED <<mem, wal, flush, flushAll, reader, calls, applied, compactionVars>>
    BY <1>2 DEF SpawnFlush
  <2>2. spawned' \in Nat /\ wal' \in WALs
    BY <1>0, <2>1
  <2> QED  BY <1>1, <2>1, <2>2, WithinTyped
<1>3. CASE BatchMeasure(t)
  <2> DEFINE n == writer[t].n + 1
             bytes == writer[t].bytes + PairSize(mem, writer[t].pairs[n])
             w == [writer[t] EXCEPT !.n = n, !.bytes = bytes]
  <2>1. writer[t].pairs \in Seq(Pairs) /\ writer[t].n \in Nat /\ writer[t].bytes \in Int
    BY <1>0, LocalsIs
  <2>2. n \in 1..Len(writer[t].pairs) /\ n \in Nat
    BY <1>3, <2>1 DEF BatchMeasure
  <2>3. writer[t].pairs[n] \in Pairs
    BY <2>1, <2>2, ElementOfSeq
  <2>4. bytes \in Int
    BY <1>0, <2>1, <2>3, PairSizeType
  <2>5. writer' = [writer EXCEPT ![t] = w]
    <3>1. writer' = [writer EXCEPT ![t].n = n, ![t].bytes = bytes]
      BY <1>3 DEF BatchMeasure
    <3> HIDE DEF n, bytes
    <3> QED  BY <1>0, <3>1 DEF WritersTyped, CallLocals
  <2> HIDE DEF n, bytes
  <2>6. w \in CallLocals /\ w.pc = writer[t].pc
    BY <1>0, <2>2, <2>4 DEF CallLocals
  <2> HIDE DEF w
  <2>7. writer[t].pc = "measuring"
    BY <1>3 DEF BatchMeasure, WriterAt
  <2> QED  BY <1>0, <1>3, <2>5, <2>6, <2>7, WithinTyped DEF BatchMeasure
<1>4. CASE BatchReject(t)
  BY <1>0, <1>1, <1>4, WithinTyped DEF BatchReject
<1>5. CASE BatchLog(t)
  <2> DEFINE off == LastOffset(wal, writer[t].pairs)
             w == [writer[t] EXCEPT !.pc = "batch", !.off = off]
  <2>1. writer[t].pairs \in Seq(Pairs)
    BY <1>0, LocalsIs
  <2>2. off \in Nat /\ BatchCells(writer[t].pairs) \in Seq(CellSet)
    BY <1>0, <2>1, OffsetType, BatchCellsType
  <2>3. wal' \in WALs
    <3>1. wal' \in {Open(wal), WriteCells(wal, BatchCells(writer[t].pairs))}
      BY <1>5 DEF BatchLog, AppendBatch
    <3>2. Open(wal) \in WALs
      BY <1>0, OpenType
    <3>3. WriteCells(wal, BatchCells(writer[t].pairs)) \in WALs
      BY <1>0, <2>2, WriteCellsType
    <3> QED  BY <3>1, <3>2, <3>3
  <2>4. writer' = [writer EXCEPT ![t] = w]
    <3>1. writer' = [writer EXCEPT ![t].pc = "batch", ![t].off = off]
      BY <1>5 DEF BatchLog
    <3> HIDE DEF off
    <3> QED  BY <1>0, <3>1 DEF WritersTyped, CallLocals
  <2> HIDE DEF off
  <2>5. w \in CallLocals /\ w.pc = "batch"
    BY <1>0, <2>2 DEF CallLocals
  <2> HIDE DEF w
  <2> QED  BY <1>0, <1>5, <2>3, <2>4, <2>5, WithinTyped DEF BatchLog
<1> QED
  BY <1>2, <1>3, <1>4, <1>5, PutApplyTyped, DeleteApplyTyped, DeleteSetOffsetTyped,
     BatchApplyTyped DEF WriterReturns

\* The time read is a number.
LEMMA TickType ==
  ASSUME clock \in Int, NEW now, Tick(now)
  PROVE  now \in Int /\ \A l \in Levels : <<l, now>> \in Paths
BY CompactionAssumption DEF Tick, Paths

\* flush gives up its lock.
LEMMA LeaveTyped ==
  ASSUME FlushTyped, Leave, spawned' = spawned
  PROVE  FlushTyped'
<1>1. NoFlush \in Flushes
  BY EmptyTableIs DEF NoFlush, Flushes, Paths, Levels
<1> QED  BY <1>1 DEF Leave, FlushTyped

\* A failure is counted.
LEMMA FailTyped ==
  ASSUME failures \in Nat, Fail
  PROVE  failures' \in Nat
BY DEF Fail

\* The steps of a flush, or of anyone, that leave the writers and the readers
\* alone.
LEMMA FlushFrameTyped ==
  ASSUME TInv, UNCHANGED <<writer, reader, calls, applied>>, mem' \in MemTables,
         wal' \in WALs, FlushTyped', DiskTyped'
  PROVE  TInv'
BY DEF TInv, MemoryTyped, WritersTyped, ReadersTyped

\* A step of flush sets where it is.
LEMMA FlushMovesTyped ==
  ASSUME FlushTyped,
         NEW pc \in {"free", "taken", "written", "installed", "saved", "cleared", "truncated"},
         flush' = [flush EXCEPT !.pc = pc], UNCHANGED <<spawned, flushAll>>
  PROVE  FlushTyped'
BY DEF FlushTyped, Flushes

LEMMA FlushStepTyped ==
  ASSUME TInv, FlushStep
  PROVE  TInv'
<1>0. /\ mem \in MemTables /\ wal \in WALs /\ FlushTyped /\ DiskTyped
      /\ manifest \in Manifests /\ FilesTyped(files) /\ clock \in Int
      /\ compaction \in Compactions /\ failures \in Nat
      /\ flush.items \in Tables /\ flush.off \in Nat /\ flush.path \in Paths
  BY DEF TInv, MemoryTyped, DiskTyped, FlushTyped, Flushes
<1>a. 0 \in Levels
  BY DEF Levels
<1>1. CASE FlushWrite
  <2> DEFINE path == <<0, clock'>>
  <2>1. clock' \in Int /\ path \in Paths
    BY <1>0, <1>1, <1>a, TickType DEF FlushWrite
  <2>2. /\ files' = WriteFile(files, path, flush.items)
        /\ flush' = [flush EXCEPT !.pc = "written", !.path = path]
        /\ UNCHANGED <<mem, wal, writer, spawned, flushAll, reader, calls, applied,
                       manifest, compaction, failures>>
    BY <1>1 DEF FlushWrite
  <2> HIDE DEF path
  <2>3. FilesTyped(files')
    BY <1>0, <2>1, <2>2, FilesType
  <2>4. DiskTyped'
    BY <1>0, <2>1, <2>2, <2>3 DEF DiskTyped
  <2>5. FlushTyped'
    BY <1>0, <2>1, <2>2 DEF FlushTyped, Flushes
  <2> QED  BY <1>0, <2>2, <2>4, <2>5, FlushFrameTyped
<1>2. CASE FlushWriteFails
  <2> DEFINE path == <<0, clock'>>
  <2>1. clock' \in Int /\ failures' \in Nat
    BY <1>0, <1>2, TickType, FailTyped DEF FlushWriteFails
  <2>2. /\ files' = Unlinked(files, path)
        /\ Leave
        /\ UNCHANGED <<mem, wal, writer, spawned, reader, calls, applied, manifest, compaction>>
    BY <1>2 DEF FlushWriteFails
  <2> HIDE DEF path
  <2>3. FilesTyped(files')
    BY <1>0, <2>2, FilesType
  <2>4. DiskTyped'
    BY <1>0, <2>1, <2>2, <2>3 DEF DiskTyped
  <2> QED  BY <1>0, <2>2, <2>4, LeaveTyped, FlushFrameTyped
<1> DEFINE entry == [path |-> flush.path, created |-> clock']
<1>3. CASE FlushInstall
  <2>1. clock' \in Int /\ entry \in Entries
    BY <1>0, <1>3, TickType DEF FlushInstall, Entries
  <2>2. /\ manifest' = Save(AddSSTableUnsaved(manifest, 0, entry))
        /\ flush' = [flush EXCEPT !.pc = "installed"]
        /\ UNCHANGED <<mem, wal, writer, spawned, flushAll, reader, calls, applied,
                       files, compaction, failures>>
    BY <1>3 DEF FlushInstall, AddSSTable
  <2> HIDE DEF entry
  <2>3. manifest' \in Manifests
    BY <1>0, <1>a, <2>1, <2>2, ManifestType
  <2>4. DiskTyped'
    BY <1>0, <2>1, <2>2, <2>3 DEF DiskTyped
  <2> QED  BY <1>0, <2>2, <2>4, FlushMovesTyped, FlushFrameTyped
<1>4. CASE FlushInstallFails
  <2>1. clock' \in Int /\ entry \in Entries /\ failures' \in Nat
    BY <1>0, <1>4, TickType, FailTyped DEF FlushInstallFails, Entries
  <2>2. /\ manifest' \in SaveRaised(AddSSTableUnsaved(manifest, 0, entry))
        /\ Leave
        /\ UNCHANGED <<mem, wal, writer, spawned, reader, calls, applied, files, compaction>>
    BY <1>4 DEF FlushInstallFails
  <2> HIDE DEF entry
  <2>3. manifest' \in Manifests
    BY <1>0, <1>a, <2>1, <2>2, ManifestType, SaveRaisedType
  <2>4. DiskTyped'
    BY <1>0, <2>1, <2>2, <2>3 DEF DiskTyped
  <2> QED  BY <1>0, <2>2, <2>4, LeaveTyped, FlushFrameTyped
<1>5. CASE FlushSave
  <2>1. DiskTyped'
    BY <1>0, <1>5, ManifestType DEF FlushSave, DiskTyped
  <2>2. FlushTyped'
    BY <1>0, <1>5, FlushMovesTyped DEF FlushSave
  <2> QED  BY <1>0, <1>5, <2>1, <2>2, FlushFrameTyped DEF FlushSave
<1>6. CASE FlushSaveFails
  <2>1. failures' \in Nat /\ manifest' \in Manifests
    BY <1>0, <1>6, FailTyped, SaveRaisedType DEF FlushSaveFails
  <2>2. DiskTyped'
    BY <1>0, <1>6, <2>1 DEF FlushSaveFails, DiskTyped
  <2>3. FlushTyped'
    BY <1>0, <1>6, LeaveTyped DEF FlushSaveFails
  <2> QED  BY <1>0, <1>6, <2>2, <2>3, FlushFrameTyped DEF FlushSaveFails
<1>7. CASE FlushClear
  <2>1. mem' \in MemTables
    BY <1>0, <1>7, ClearType DEF FlushClear
  <2>2. FlushTyped'
    BY <1>0, <1>7, FlushMovesTyped DEF FlushClear
  <2>3. DiskTyped'
    BY <1>0, <1>7 DEF FlushClear, DiskTyped, compactionVars
  <2> QED  BY <1>0, <1>7, <2>1, <2>2, <2>3, FlushFrameTyped DEF FlushClear
<1>8. CASE FlushTruncate
  <2>1. wal' \in WALs
    BY <1>0, <1>8, TruncateType DEF FlushTruncate
  <2>2. FlushTyped'
    BY <1>0, <1>8, FlushMovesTyped DEF FlushTruncate
  <2>3. DiskTyped'
    BY <1>0, <1>8 DEF FlushTruncate, DiskTyped, compactionVars
  <2> QED  BY <1>0, <1>8, <2>1, <2>2, <2>3, FlushFrameTyped DEF FlushTruncate
<1>9. CASE FlushTruncateFails
  <2>1. wal' \in WALs /\ failures' \in Nat
    BY <1>0, <1>9, TruncateType, FailTyped DEF FlushTruncateFails
  <2>2. FlushTyped'
    BY <1>0, <1>9, LeaveTyped DEF FlushTruncateFails
  <2>3. DiskTyped'
    BY <1>0, <1>9, <2>1 DEF FlushTruncateFails, DiskTyped
  <2> QED  BY <1>0, <1>9, <2>1, <2>2, <2>3, FlushFrameTyped DEF FlushTruncateFails
<1>10. CASE FlushCompact
  <2>1. [NoCompaction EXCEPT !.pc = "started"] \in Compactions
    BY DEF NoCompaction, Compactions, CompactionPCs, Paths, Levels
  <2>2. compaction' \in Compactions
    BY <1>0, <1>10, <2>1 DEF FlushCompact, MayStartCompaction
  <2>3. FlushTyped'
    BY <1>0, <1>10, LeaveTyped DEF FlushCompact
  <2>4. DiskTyped'
    BY <1>0, <1>10, <2>2 DEF FlushCompact, DiskTyped
  <2> QED  BY <1>0, <1>10, <2>3, <2>4, FlushFrameTyped DEF FlushCompact
<1> QED
  BY <1>1, <1>2, <1>3, <1>4, <1>5, <1>6, <1>7, <1>8, <1>9, <1>10 DEF FlushStep

LEMMA FlusherTyped ==
  ASSUME TInv, Flusher
  PROVE  TInv'
<1>0. mem \in MemTables /\ wal \in WALs /\ FlushTyped /\ spawned \in Nat /\ DiskTyped
  BY DEF TInv, MemoryTyped, FlushTyped
<1>1. ASSUME NEW by \in {"thread", "flushAll"}, FlushNothing(by) PROVE TInv'
  <2>1. spawned' \in Nat
    BY <1>0, <1>1 DEF FlushNothing, Enter
  <2>2. FlushTyped'
    BY <1>0, <1>1, <2>1 DEF FlushNothing, FlushTyped
  <2>3. DiskTyped'
    BY <1>0, <1>1 DEF FlushNothing, DiskTyped, compactionVars
  <2> QED  BY <1>0, <1>1, <2>2, <2>3, FlushFrameTyped DEF FlushNothing
<1>2. ASSUME NEW by \in {"thread", "flushAll"}, FlushTake(by) PROVE TInv'
  <2> DEFINE items == FrozenItems(mem)
             off == FrozenOffset(mem)
  <2>1. items \in Tables /\ off \in Nat
    BY <1>0, FrozenType
  <2>2. spawned' \in Nat
    BY <1>0, <1>2 DEF FlushTake, Enter
  <2>3. flush' = [NoFlush EXCEPT !.pc = "taken", !.by = by, !.items = items, !.off = off]
    BY <1>2 DEF FlushTake
  <2>4. NoFlush = [pc |-> "free", by |-> "thread", items |-> EmptyTable, off |-> 0,
                   path |-> <<0, 0>>]
    BY DEF NoFlush
  <2>5. <<0, 0>> \in Paths
    BY DEF Paths, Levels
  <2> HIDE DEF items, off
  <2>6. flush' = [pc |-> "taken", by |-> by, items |-> items, off |-> off, path |-> <<0, 0>>]
    BY <2>3, <2>4
  <2>7. flush' \in Flushes
    BY <2>1, <2>5, <2>6 DEF Flushes
  <2>8. FlushTyped'
    BY <1>0, <1>2, <2>2, <2>7 DEF FlushTake, FlushTyped
  <2>9. DiskTyped'
    BY <1>0, <1>2 DEF FlushTake, DiskTyped, compactionVars
  <2> QED  BY <1>0, <1>2, <2>8, <2>9, FlushFrameTyped DEF FlushTake
<1> QED  BY <1>1, <1>2, FlushStepTyped DEF Flusher

LEMMA FlushAllTyped ==
  ASSUME TInv, FlushAllCall \/ FlushAllLoop
  PROVE  TInv'
<1>0. mem \in MemTables /\ wal \in WALs /\ FlushTyped /\ DiskTyped
  BY DEF TInv, MemoryTyped
<1>1. UNCHANGED <<mem, wal, writer, spawned, flush, reader, calls, applied, compactionVars>>
  BY DEF FlushAllCall, FlushAllLoop
<1>2. FlushTyped'
  BY <1>0, <1>1 DEF FlushTyped, FlushAllCall, FlushAllLoop
<1>3. DiskTyped'
  BY <1>0, <1>1 DEF DiskTyped, compactionVars
<1> QED  BY <1>0, <1>1, <1>2, <1>3, FlushFrameTyped

\* One reader moves.
LEMMA ReaderMovesTyped ==
  ASSUME TInv, NEW r \in Readers, NEW s \in Searches, reader' = [reader EXCEPT ![r] = s],
         UNCHANGED <<mem, wal, writer, spawned, flush, flushAll, calls, applied, compactionVars>>
  PROVE  TInv'
<1>1. ReadersTyped'
  BY DEF TInv, ReadersTyped
<1> QED
  BY <1>1 DEF TInv, MemoryTyped, WritersTyped, FlushTyped, DiskTyped, compactionVars

LEMMA ReaderTyped ==
  ASSUME TInv, NEW r \in Readers, ReaderStep(r)
  PROVE  TInv'
<1>0. /\ mem \in MemTables /\ applied \in [Keys -> Stored \cup {None}]
      /\ reader[r] \in Searches /\ reader \in [Readers -> Searches]
      /\ manifest.mem \in LevelSets /\ FilesTyped(files)
  BY DEF TInv, MemoryTyped, ReadersTyped, DiskTyped, Manifests
<1>1. ASSUME NEW k \in Keys, Get(r, k) PROVE TInv'
  <2> DEFINE v == MemGet(mem, k)
             pc == IF v = None THEN "missed" ELSE "done"
             s == [NotReading EXCEPT !.key = k, !.seen = {applied[k]}, !.result = v, !.pc = pc]
  <2>1. v \in Stored \cup {None} /\ applied[k] \in Stored \cup {None} /\ pc \in {"missed", "done"}
    BY <1>0, MemGetType
  <2>2. reader' = [reader EXCEPT ![r] = s]
    BY <1>1 DEF Get
  <2>3. NoLevels \in LevelSets
    BY DEF NoLevels, LevelSets
  <2> HIDE DEF v, pc
  <2> DEFINE seen == {applied[k]}
             s1 == [NotReading EXCEPT !.key = k]
             s2 == [s1 EXCEPT !.seen = seen]
             s3 == [s2 EXCEPT !.result = v]
  <2>4. s1 = [pc |-> "idle", key |-> k, todo |-> NoLevels, seen |-> {}, result |-> None]
    BY DEF NotReading
  <2>5. s = [s3 EXCEPT !.pc = pc]
    OBVIOUS
  <2> HIDE DEF s, s1, seen
  <2>6. s2 = [pc |-> "idle", key |-> k, todo |-> NoLevels, seen |-> seen, result |-> None]
    BY <2>4
  <2> HIDE DEF s2
  <2>7. s3 = [pc |-> "idle", key |-> k, todo |-> NoLevels, seen |-> seen, result |-> v]
    BY <2>6
  <2> HIDE DEF s3
  <2>8. s = [pc |-> pc, key |-> k, todo |-> NoLevels, seen |-> seen, result |-> v]
    BY <2>5, <2>7
  <2>9. seen \in SUBSET (Stored \cup {None})
    BY <2>1 DEF seen
  <2> HIDE DEF s
  <2>10. s \in Searches
    BY <2>1, <2>3, <2>8, <2>9 DEF Searches
  <2> QED  BY <1>1, <2>2, <2>10, ReaderMovesTyped DEF Get
<1>2. CASE GetSnapshot(r)
  <2> DEFINE s == [reader[r] EXCEPT !.pc = "probing", !.todo = manifest.mem]
  <2>1. s \in Searches
    BY <1>0 DEF Searches
  <2>2. reader' = [reader EXCEPT ![r] = s]
    BY <1>0, <1>2 DEF GetSnapshot, Searches
  <2> HIDE DEF s
  <2> QED  BY <1>2, <2>1, <2>2, ReaderMovesTyped DEF GetSnapshot
<1>3. CASE GetProbe(r)
  <2> DEFINE l == ThisLevel(r)
             e == ThisEntry(r)
             past == [reader[r] EXCEPT !.todo[l] = @ \ {e}]
             s == IF reader[r].todo = NoLevels THEN [reader[r] EXCEPT !.pc = "done"]
                  ELSE IF Holds(files, e.path, reader[r].key)
                  THEN [reader[r] EXCEPT !.pc = "found"] ELSE past
  <2>1. l \in Levels
    BY DEF ThisLevel, Levels
  <2>2. reader' = [reader EXCEPT ![r] = s]
    BY <1>0, <1>3 DEF GetProbe
  <2> HIDE DEF l, e
  <2>3. past \in Searches
    BY <1>0, <2>1 DEF Searches, LevelSets
  <2>4. [reader[r] EXCEPT !.pc = "done"] \in Searches /\ [reader[r] EXCEPT !.pc = "found"] \in Searches
    BY <1>0 DEF Searches
  <2> HIDE DEF past
  <2>5. s \in Searches
    BY <2>3, <2>4
  <2> HIDE DEF s
  <2> QED  BY <1>3, <2>2, <2>5, ReaderMovesTyped DEF GetProbe
<1>4. CASE GetRead(r)
  <2> DEFINE path == ThisEntry(r).path
             key == reader[r].key
             v == files[path][key]
             s == IF Holds(files, path, key) THEN [reader[r] EXCEPT !.pc = "done", !.result = v]
                  ELSE [reader[r] EXCEPT !.pc = "raised"]
  <2>1. reader' = [reader EXCEPT ![r] = s]
    BY <1>0, <1>4 DEF GetRead
  <2> HIDE DEF path, key
  <2>2. Holds(files, path, key) => v \in Stored
    BY <1>0, TableValue DEF Holds, FilesTyped
  <2> HIDE DEF v
  <2>3. s \in Searches
    BY <1>0, <2>2 DEF Searches
  <2> HIDE DEF s
  <2> QED  BY <1>4, <2>1, <2>3, ReaderMovesTyped DEF GetRead
<1> QED  BY <1>1, <1>2, <1>3, <1>4 DEF ReaderStep

\* The loops over compact's inputs.
LEMMA NextInputTyped ==
  ASSUME compaction \in Compactions, NEW following \in Compactions, NextInput(following)
  PROVE  compaction' \in Compactions
BY DEF NextInput, Compactions

LEMMA CompactorTyped ==
  ASSUME TInv, Compactor
  PROVE  TInv'
<1>0. /\ manifest \in Manifests /\ FilesTyped(files) /\ clock \in Int
      /\ compaction \in Compactions /\ failures \in Nat
      /\ compaction.out \in Paths /\ compaction.inputs \in SUBSET Entries
  BY DEF TInv, DiskTyped, Compactions
<1>a. 0 \in Levels /\ 1 \in Levels
  BY DEF Levels
<1>b. NoCompaction \in Compactions
  BY DEF NoCompaction, Compactions, CompactionPCs, Paths, Levels
<1> DEFINE path == <<1, clock'>>
           entry == [path |-> compaction.out, created |-> clock']
<1>1. ASSUME CompactSnapshot PROVE DiskTyped'
  <2>1. manifest.mem[0] \in SUBSET Entries
    BY <1>0, <1>a DEF Manifests, LevelSets
  <2>2. compaction' \in Compactions
    BY <1>0, <1>1, <1>b, <2>1 DEF CompactSnapshot, Compactions, CompactionPCs
  <2>3. DiskTyped'
    BY <1>0, <1>1, <2>2 DEF CompactSnapshot, DiskTyped
  <2> QED  BY <2>3
<1>2. ASSUME CompactWrite PROVE DiskTyped'
  <2>1. clock' \in Int /\ path \in Paths
    BY <1>0, <1>2, <1>a, TickType DEF CompactWrite
  <2>2. /\ files' = WriteFile(files, path, MergeTables(compaction.inputs))
        /\ compaction' = [compaction EXCEPT !.pc = "written", !.out = path]
        /\ UNCHANGED <<manifest, failures>>
    BY <1>2 DEF CompactWrite
  <2> HIDE DEF path
  <2>3. FilesTyped(files')
    BY <1>0, <2>1, <2>2, FilesType, MergeType
  <2>4. compaction' \in Compactions
    BY <1>0, <2>1, <2>2 DEF Compactions, CompactionPCs
  <2> QED  BY <1>0, <2>1, <2>2, <2>3, <2>4 DEF DiskTyped
<1>3. ASSUME CompactWriteFails PROVE DiskTyped'
  <2>1. clock' \in Int /\ failures' \in Nat
    BY <1>0, <1>3, TickType, FailTyped DEF CompactWriteFails
  <2>2. files' = Unlinked(files, path) /\ compaction' = NoCompaction /\ manifest' = manifest
    BY <1>3 DEF CompactWriteFails
  <2> HIDE DEF path
  <2>3. FilesTyped(files')
    BY <1>0, <2>2, FilesType
  <2> QED  BY <1>0, <1>b, <2>1, <2>2, <2>3 DEF DiskTyped
<1>4. ASSUME CompactInstall PROVE DiskTyped'
  <2>1. clock' \in Int /\ entry \in Entries
    BY <1>0, <1>4, TickType DEF CompactInstall, Entries
  <2>2. /\ manifest' = Save(AddSSTableUnsaved(manifest, 1, entry))
        /\ compaction' = [compaction EXCEPT !.pc = "removing", !.todo = compaction.inputs]
        /\ UNCHANGED <<files, failures>>
    BY <1>4 DEF CompactInstall, AddSSTable
  <2> HIDE DEF entry
  <2>3. manifest' \in Manifests
    BY <1>0, <1>a, <2>1, <2>2, ManifestType
  <2>4. compaction' \in Compactions
    BY <1>0, <2>2 DEF Compactions, CompactionPCs
  <2> QED  BY <1>0, <2>1, <2>2, <2>3, <2>4 DEF DiskTyped
<1>5. ASSUME CompactInstallFails PROVE DiskTyped'
  <2>1. clock' \in Int /\ entry \in Entries /\ failures' \in Nat
    BY <1>0, <1>5, TickType, FailTyped DEF CompactInstallFails, Entries
  <2>2. /\ manifest' \in SaveRaised(AddSSTableUnsaved(manifest, 1, entry))
        /\ compaction' = NoCompaction /\ files' = files
    BY <1>5 DEF CompactInstallFails
  <2> HIDE DEF entry
  <2>3. manifest' \in Manifests
    BY <1>0, <1>a, <2>1, <2>2, ManifestType, SaveRaisedType
  <2> QED  BY <1>0, <1>b, <2>1, <2>2, <2>3 DEF DiskTyped
<1>6. ASSUME CompactRemove PROVE DiskTyped'
  <2>1. manifest' \in Manifests
    BY <1>0, <1>6, <1>a, ManifestType DEF CompactRemove, RemoveSSTable
  <2>2. [compaction EXCEPT !.pc = "deleting", !.todo = compaction.inputs] \in Compactions
    BY <1>0 DEF Compactions, CompactionPCs
  <2>3. compaction' \in Compactions
    BY <1>0, <1>6, <2>2, NextInputTyped DEF CompactRemove
  <2> QED  BY <1>0, <1>6, <2>1, <2>3 DEF CompactRemove, DiskTyped
<1>7. ASSUME CompactRemoveFails PROVE DiskTyped'
  <2>1. manifest' \in Manifests /\ failures' \in Nat
    BY <1>0, <1>7, <1>a, ManifestType, SaveRaisedType, FailTyped DEF CompactRemoveFails
  <2> QED  BY <1>0, <1>7, <1>b, <2>1 DEF CompactRemoveFails, DiskTyped
<1>8. ASSUME CompactDelete PROVE DiskTyped'
  <2>1. FilesTyped(files')
    BY <1>0, <1>8, FilesType DEF CompactDelete
  <2>2. compaction' \in Compactions
    BY <1>0, <1>8, <1>b, NextInputTyped DEF CompactDelete
  <2> QED  BY <1>0, <1>8, <2>1, <2>2 DEF CompactDelete, DiskTyped
<1>9. ASSUME CompactDeleteFails PROVE DiskTyped'
  <2>1. compaction' \in Compactions /\ failures' \in Nat
    BY <1>0, <1>9, <1>b, NextInputTyped, FailTyped DEF CompactDeleteFails
  <2> QED  BY <1>0, <1>9, <2>1 DEF CompactDeleteFails, DiskTyped
<1>10. DiskTyped'
  BY <1>1, <1>2, <1>3, <1>4, <1>5, <1>6, <1>7, <1>8, <1>9 DEF Compactor, CompactionNext
<1> QED
  BY <1>10 DEF Compactor, engineVars, TInv, MemoryTyped, WritersTyped, ReadersTyped, FlushTyped

\* TInv is inductive.
LEMMA NextTyped ==
  ASSUME TInv, [Next]_vars
  PROVE  TInv'
<1>1. CASE UNCHANGED vars
  BY <1>1 DEF vars, engineVars, compactionVars, TInv, MemoryTyped, WritersTyped, ReadersTyped,
              FlushTyped, DiskTyped
<1> QED
  BY <1>1, CallsTyped, ReturnsTyped, FlusherTyped, FlushAllTyped, ReaderTyped, CompactorTyped
  DEF Next

\* Whatever threads, batches, failures and readings of the clock, every part of
\* the engine's state is of its type, and a get and a flush are only ever at a
\* step of engine.get (engine.py:170) and engine.flush (engine.py:283).
THEOREM TypeCorrect == Spec => []TypeOK
BY InitTyped, NextTyped, TInvIsEnough, PTL DEF Spec
=============================================================================
