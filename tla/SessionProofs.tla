---------------------------- MODULE SessionProofs ----------------------------
(***************************************************************************)
(* What the client and the server of logvine promise through a connection,  *)
(* proved for any number of clients, tasks, connections, keys and values.   *)
(* The first part is about the operators of Operations: what a batch makes  *)
(* of a store, which rows a range has, and what its chunks together are.    *)
(***************************************************************************)
EXTENDS Session, FoldLemmas

-----------------------------------------------------------------------------
(* BatchPutOperation *)

Pairs == [key : StoreKeys, value : Values]

\* A store after the pairs of T, the last of each key.
After(s, pairs, T) ==
  [k \in StoreKeys |-> IF \E i \in T : pairs[i].key = k
                       THEN pairs[Max({i \in T : pairs[i].key = k})].value ELSE s[k]]

\* One pair of a batch more is one key more that has its value.
LEMMA AfterOne ==
  ASSUME NEW s \in Stores, NEW pairs \in Seq(Pairs),
         NEW T \in SUBSET DOMAIN pairs, T # {}
  PROVE  /\ Max(T) \in T
         /\ After(s, pairs, T) = [After(s, pairs, T \ {Max(T)}) EXCEPT
                                    ![pairs[Max(T)].key] = pairs[Max(T)].value]
<1> DEFINE n == Len(pairs)
           m == Max(T)
           U == T \ {m}
<1>1. n \in Nat /\ DOMAIN pairs = 1..n /\ \A i \in 1..n : pairs[i] \in Pairs
  OBVIOUS
<1>2. T \in SUBSET Int /\ n \in Int /\ \A x \in T : x <= n
  BY <1>1
<1>3. m \in T /\ \A y \in T : y <= m
  <2> HIDE DEF n
  <2> QED  BY <1>2, MaxIsLargest DEF m
<1> HIDE DEF m, n
<1>4. pairs[m].key \in StoreKeys
  BY <1>1, <1>3 DEF Pairs
<1> DEFINE R == [After(s, pairs, U) EXCEPT ![pairs[m].key] = pairs[m].value]
<1>5. ASSUME NEW k \in StoreKeys
      PROVE  After(s, pairs, T)[k] = R[k]
  <2> DEFINE K == {i \in T : pairs[i].key = k}
  <2>1. CASE pairs[m].key = k
    <3>1. m \in K /\ K \subseteq T /\ K \in SUBSET Int
      BY <1>2, <1>3, <2>1
    <3>2. Max(K) \in K /\ \A y \in K : y <= Max(K)
      <4> HIDE DEF K
      <4> QED  BY <1>1, <1>2, <3>1, MaxIsLargest
    <3>3. Max(K) = m
      <4> DEFINE x == Max(K)
      <4>1. x \in K /\ m <= x /\ x <= m /\ x \in Int /\ m \in Int
        BY <1>2, <1>3, <3>1, <3>2
      <4> HIDE DEF x
      <4> QED  BY <4>1 DEF x
    <3> QED  BY <1>4, <2>1, <3>1, <3>3 DEF After
  <2>2. CASE pairs[m].key # k
    <3>1. K = {i \in U : pairs[i].key = k}
      BY <2>2
    <3>2. (\E i \in T : pairs[i].key = k) <=> (\E i \in U : pairs[i].key = k)
      BY <2>2
    <3>3. After(s, pairs, T)[k] = After(s, pairs, U)[k]
      BY <3>1, <3>2 DEF After
    <3> QED  BY <2>2, <3>3 DEF After
  <2> QED  BY <2>1, <2>2
<1>6. DOMAIN R = StoreKeys /\ R = [k \in StoreKeys |-> R[k]]
  BY DEF After
<1>7. After(s, pairs, T) = [k \in StoreKeys |-> After(s, pairs, T)[k]]
  BY DEF After
<1>8. After(s, pairs, T) = R
  <2> HIDE DEF R
  <2> QED  BY <1>5, <1>6, <1>7
<1> QED  BY <1>3, <1>8 DEF m

\* A batch that is not refused leaves the last value of each of its keys.
LEMMA BatchPuts ==
  ASSUME NEW s \in Stores, NEW r, r.pairs \in Seq(Pairs), r.pairs # <<>>
  PROVE  BatchPutOperation(s, r) = Success(After(s, r.pairs, DOMAIN r.pairs))
<1> DEFINE p == r.pairs
           D == DOMAIN p
           n == Len(p)
           Step(h) == [T \in SUBSET D |->
                         IF T = {} THEN s
                         ELSE [h[T \ {Max(T)}] EXCEPT ![p[Max(T)].key] = p[Max(T)].value]]
           iter == CHOOSE h : h = Step(h)
           g == [T \in SUBSET D |-> After(s, p, T)]
<1>1. FoldLeft(LAMBDA acc, x : [acc EXCEPT ![x.key] = x.value], s, p) = iter[D]
  BY DEF FoldLeft, MapThenFoldSet
<1>2. g = Step(g)
  <2>1. ASSUME NEW T \in SUBSET D PROVE g[T] = Step(g)[T]
    <3>1. CASE T = {}
      BY <3>1 DEF After, Stores
    <3>2. CASE T # {}
      <4>1. /\ Max(T) \in T
            /\ After(s, p, T) = [After(s, p, T \ {Max(T)}) EXCEPT ![p[Max(T)].key] = p[Max(T)].value]
        BY <3>2, AfterOne
      <4> QED  BY <3>2, <4>1
    <3> QED  BY <3>1, <3>2
  <2> QED  BY <2>1
<1>3. iter = Step(iter)
  BY <1>2
<1>4. n \in Nat /\ D = 1..n
  BY DEF Pairs
<1> HIDE DEF iter, g
<1> DEFINE S == {m \in Nat : m <= n => iter[1..m] = After(s, p, 1..m)}
<1>5. 0 \in S
  <2>1. 1..0 = {} /\ {} \in SUBSET D
    OBVIOUS
  <2>2. iter[{}] = s
    BY <1>3, <2>1
  <2>3. After(s, p, {}) = s
    BY DEF After, Stores
  <2> QED  BY <2>1, <2>2, <2>3
<1>6. ASSUME NEW m \in Nat, m \in S PROVE m + 1 \in S
  <2> SUFFICES ASSUME m + 1 <= n PROVE iter[1..(m+1)] = After(s, p, 1..(m+1))
    OBVIOUS
  <2> DEFINE T == 1..(m+1)
  <2>1. T \in SUBSET D /\ T # {}
    BY <1>4
  <2>2. Max(T) = m + 1
    <3> DEFINE x == Max(T)
    <3>1. T \in SUBSET Int /\ m + 1 \in Int /\ m + 1 \in T /\ \A y \in T : y <= m + 1
      OBVIOUS
    <3>2. x \in T /\ \A y \in T : y <= x
      <4> HIDE DEF T
      <4> QED  BY <2>1, <3>1, MaxIsLargest
    <3> HIDE DEF x
    <3>3. x = m + 1
      BY <3>1, <3>2
    <3> QED  BY <3>3 DEF x
  <2>3. T \ {Max(T)} = 1..m
    BY <2>2
  <2>4. iter[1..m] = After(s, p, 1..m)
    BY <1>4, <1>6
  <2>5. iter[T] = [iter[T \ {Max(T)}] EXCEPT ![p[Max(T)].key] = p[Max(T)].value]
    BY <1>3, <2>1
  <2>6. After(s, p, T) = [After(s, p, T \ {Max(T)}) EXCEPT ![p[Max(T)].key] = p[Max(T)].value]
    <3>1. p \in Seq(Pairs) /\ T \in SUBSET DOMAIN p
      BY <2>1
    <3> HIDE DEF T, p
    <3> QED  BY <2>1, <3>1, AfterOne
  <2> QED  BY <2>3, <2>4, <2>5, <2>6
<1>7. n \in S
  <2> HIDE DEF S, n
  <2> QED  BY <1>4, <1>5, <1>6, AllNaturals
<1>8. iter[D] = After(s, p, D)
  BY <1>4, <1>7
<1> QED  BY <1>1, <1>8 DEF BatchPutOperation

\* A store after a batch is a store.
LEMMA AfterType ==
  ASSUME NEW s \in Stores, NEW pairs \in Seq(Pairs)
  PROVE  After(s, pairs, DOMAIN pairs) \in Stores
<1> DEFINE n == Len(pairs)
<1>1. n \in Nat /\ DOMAIN pairs = 1..n /\ \A i \in 1..n : pairs[i] \in Pairs
  OBVIOUS
<1>2. ASSUME NEW k \in StoreKeys, \E i \in DOMAIN pairs : pairs[i].key = k
      PROVE  pairs[Max({i \in DOMAIN pairs : pairs[i].key = k})].value \in Values
  <2> DEFINE K == {i \in DOMAIN pairs : pairs[i].key = k}
  <2>1. K \in SUBSET Int /\ K # {} /\ n \in Int /\ \A x \in K : x <= n
    BY <1>1, <1>2
  <2>2. Max(K) \in K
    <3> HIDE DEF K, n
    <3> QED  BY <2>1, MaxIsLargest
  <2> QED  BY <1>1, <2>2 DEF Pairs
<1> QED  BY <1>2 DEF After, Stores

-----------------------------------------------------------------------------
(* RowsOf *)

\* The keys of the range that have a value.
KeysIn(s, from, to) == {x \in StoreKeys : from <= x /\ x < to /\ s[x] # None}

Increasing(f) == \A i, j \in DOMAIN f : i < j => f[i] < f[j]

\* A finite set of naturals can be put in order.
LEMMA CanBeSorted ==
  ASSUME NEW S \in SUBSET Nat, IsFiniteSet(S), NEW c \in Nat, \A x \in S : x <= c
  PROVE  \E f \in [1..Cardinality(S) -> S] : Increasing(f)
<1> DEFINE Sortable(T) == \E f \in [1..Cardinality(T) -> T] : Increasing(f)
           N == {n \in Nat : \A T \in SUBSET S : Cardinality(T) = n => Sortable(T)}
<1>0. \A T \in SUBSET S : IsFiniteSet(T) /\ Cardinality(T) \in Nat
  BY FS_Subset, FS_CardinalityType
<1>1. 0 \in N
  <2> SUFFICES ASSUME NEW T \in SUBSET S, Cardinality(T) = 0 PROVE Sortable(T)
    OBVIOUS
  <2>1. <<>> \in [1..Cardinality(T) -> T] /\ Increasing(<<>>)
    BY DEF Increasing
  <2> QED  BY <2>1
<1>2. ASSUME NEW n \in Nat, n \in N PROVE n + 1 \in N
  <2> SUFFICES ASSUME NEW T \in SUBSET S, Cardinality(T) = n + 1 PROVE Sortable(T)
    OBVIOUS
  <2>1. T # {} /\ IsFiniteSet(T)
    BY <1>0, FS_EmptySet
  <2>2. T \in SUBSET Int /\ c \in Int /\ \A x \in T : x <= c
    OBVIOUS
  <2> DEFINE x == Max(T)
             U == T \ {x}
  <2>3. x \in T /\ \A y \in T : y <= x
    BY <2>1, <2>2, MaxIsLargest
  <2> HIDE DEF x
  <2>4. Cardinality(U) = n /\ U \in SUBSET S
    <3>1. Cardinality(T \ {x}) = Cardinality(T) - 1
      BY <2>1, <2>3, FS_RemoveElement
    <3>2. U \in SUBSET S
      OBVIOUS
    <3> HIDE DEF U
    <3>3. Cardinality(T) - 1 = n
      OBVIOUS
    <3> QED  BY <3>1, <3>2, <3>3 DEF U
  <2>5. PICK f \in [1..n -> U] : Increasing(f)
    BY <1>2, <2>4
  <2> DEFINE g == [i \in 1..(n + 1) |-> IF i <= n THEN f[i] ELSE x]
  <2>6. g \in [1..(n + 1) -> T]
    BY <2>3
  <2>7. Increasing(g)
    <3> SUFFICES ASSUME NEW i \in 1..(n + 1), NEW j \in 1..(n + 1), i < j PROVE g[i] < g[j]
      BY DEF Increasing
    <3>1. CASE j <= n
      BY <2>5, <3>1 DEF Increasing
    <3>2. CASE j = n + 1
      <4>1. f[i] \in U /\ f[i] \in Nat /\ x \in Nat
        <5>1. i \in 1..n
          BY <3>2
        <5>2. U \subseteq Nat /\ T \subseteq Nat
          OBVIOUS
        <5> HIDE DEF U
        <5> QED  BY <2>3, <2>5, <5>1, <5>2
      <4>2. f[i] <= x /\ f[i] # x
        BY <2>3, <4>1
      <4> QED  BY <3>2, <4>1, <4>2
    <3> QED  BY <3>1, <3>2
  <2> QED  BY <2>6, <2>7
<1>3. \A n \in Nat : n \in N
  <2> HIDE DEF N
  <2> QED  BY <1>1, <1>2, AllNaturals
<1>4. Sortable(S)
  <2>1. Cardinality(S) \in N
    <3> HIDE DEF N
    <3> QED  BY <1>0, <1>3
  <2> QED  BY <2>1
<1> QED  BY <1>4

\* The rows of a range: one for each key in it, in the order of the keys.
LEMMA RowsAreTheRange ==
  ASSUME NEW s \in Stores, NEW from \in Nat, NEW to \in Nat
  PROVE  /\ RowsOf(s, from, to) \in Seq(StoreKeys \X Values)
         /\ \A i, j \in DOMAIN RowsOf(s, from, to) :
              i < j => RowsOf(s, from, to)[i][1] < RowsOf(s, from, to)[j][1]
         /\ {RowsOf(s, from, to)[i] : i \in DOMAIN RowsOf(s, from, to)} =
              {<<k, s[k]>> : k \in KeysIn(s, from, to)}
<1> DEFINE K == KeysIn(s, from, to)
           R == {<<k, s[k]>> : k \in K}
           n == Cardinality(R)
           Sorted(q) == \A i, j \in DOMAIN q : i < j => q[i][1] < q[j][1]
<1>1. K \in SUBSET Nat /\ \A x \in K : x <= to
  <2>1. StoreKeys \subseteq Nat
    BY OperationsAssumption DEF StoreKeys, EmptyKey
  <2>2. \A x \in K : x \in Nat /\ x < to
    BY <2>1 DEF KeysIn
  <2> QED  BY <2>2
<1>2. IsFiniteSet(K)
  <2> HIDE DEF K
  <2> QED  BY <1>1, FS_BoundedSetOfNaturals
<1>3. R \in SUBSET (StoreKeys \X Values)
  BY DEF KeysIn, Stores
<1>4. IsFiniteSet(R) /\ Cardinality(K) = n /\ n \in Nat
  <2> DEFINE h == [k \in K |-> <<k, s[k]>>]
  <2>1. h \in Bijection(K, R)
    BY DEF Bijection, Injection, Surjection, IsInjective
  <2>2. ExistsBijection(K, R)
    BY <2>1 DEF ExistsBijection
  <2> HIDE DEF K, R
  <2> QED  BY <1>2, <2>2, FS_Bijection, FS_CardinalityType
<1>5. PICK f \in [1..n -> K] : Increasing(f)
  <2> HIDE DEF K, R
  <2> QED  BY <1>1, <1>2, <1>4, CanBeSorted
<1> DEFINE g == [i \in 1..n |-> <<f[i], s[f[i]]>>]
<1>6. g \in SetToSeqs(R) /\ Sorted(g)
  <2>1. g \in [1..n -> R]
    <3> HIDE DEF n, K
    <3> QED  BY <1>5
  <2>2. \A i, j \in 1..n : i < j => g[i][1] < g[j][1]
    <3> HIDE DEF n, K
    <3> QED  BY <1>5 DEF Increasing
  <2>3. \A i \in 1..n : g[i][1] \in Nat
    <3> HIDE DEF n
    <3> QED  BY <1>1, <1>5
  <2>4. \A i, j \in 1..n : i # j => g[i] # g[j]
    <3> TAKE i, j \in 1..n
    <3>1. i \in Nat /\ j \in Nat /\ g[i][1] \in Nat /\ g[j][1] \in Nat
      BY <1>4, <2>3
    <3> HIDE DEF g
    <3> QED  BY <2>2, <3>1
  <2> HIDE DEF g
  <2> QED  BY <2>1, <2>2, <2>4 DEF SetToSeqs
<1> DEFINE q == RowsOf(s, from, to)
<1>7. q \in SetToSeqs(R) /\ Sorted(q)
  <2>1. q = CHOOSE x \in SetToSeqs(R) : Sorted(x)
    BY DEF RowsOf, KeysIn
  <2> HIDE DEF g, R, q
  <2> QED  BY <1>6, <2>1
<1>8. q \in [1..n -> R] /\ \A i, j \in 1..n : i # j => q[i] # q[j]
  <2> HIDE DEF q, R
  <2> QED  BY <1>7 DEF SetToSeqs
<1>9. q \in Seq(StoreKeys \X Values)
  <2> HIDE DEF q, n
  <2>1. q \in [1..n -> StoreKeys \X Values]
    BY <1>3, <1>8
  <2> QED  BY <1>4, <2>1
<1>10. {q[i] : i \in DOMAIN q} = R
  <2> HIDE DEF R, q
  <2>1. q \in Injection(1..n, R)
    BY <1>8 DEF Injection, IsInjective
  <2>2. IsFiniteSet(1..n) /\ Cardinality(1..n) = n
    <3> HIDE DEF n
    <3> QED  BY <1>4, FS_Interval
  <2>3. q \in Surjection(1..n, R)
    BY <1>4, <2>1, <2>2, FS_Injection
  <2> QED  BY <1>8, <2>3 DEF Surjection
<1> QED  BY <1>7, <1>9, <1>10

-----------------------------------------------------------------------------
(* Chunks *)

Least(a, b) == IF a < b THEN a ELSE b

\* There are as many chunks as it takes, and none of them is empty.
LEMMA ChunkCount ==
  ASSUME NEW n \in Nat
  PROVE  LET m == (n + ChunkSize - 1) \div ChunkSize
         IN  m \in Nat /\ m * ChunkSize >= n /\ \A j \in Nat : j < m => j * ChunkSize < n
<1> DEFINE c == ChunkSize
           m == (n + c - 1) \div c
<1>1. c \in Nat /\ c > 0
  BY OperationsAssumption
<1> HIDE DEF c
<1>2. m \in Int /\ c * m <= n + c - 1 /\ n + c - 1 < c * (m + 1)
  <2> DEFINE a == n + c - 1
  <2>1. a \in Int
    BY <1>1
  <2>2. \A x \in Int : x \div c \in Int /\ c * (x \div c) <= x /\ x < c * ((x \div c) + 1)
    BY <1>1
  <2> HIDE DEF a
  <2>3. a \div c \in Int /\ c * (a \div c) <= a /\ a < c * ((a \div c) + 1)
    BY <2>1, <2>2
  <2> QED  BY <2>3 DEF a
<1> HIDE DEF m
<1>3. c * (m + 1) = c * m + c
  BY <1>1, <1>2
<1>4. c * m \in Int /\ c * m >= n
  BY <1>1, <1>2, <1>3
<1>5. m >= 0
  <2> SUFFICES ASSUME m <= -1 PROVE FALSE
    BY <1>2
  <2>1. c * (m + 1) <= 0
    BY <1>1, <1>2
  <2> QED  BY <1>1, <1>2, <2>1
<1>6. ASSUME NEW j \in Nat, j < m PROVE j * c < n
  <2>1. c * (j + 1) <= c * m
    BY <1>1, <1>2, <1>6
  <2>2. c * (j + 1) = j * c + c
    BY <1>1
  <2> QED  BY <1>1, <1>2, <2>1, <2>2
<1>7. m * c = c * m
  BY <1>1, <1>2
<1> QED  BY <1>2, <1>4, <1>5, <1>6, <1>7 DEF c, m

\* A chunk is part of the rows.
LEMMA ChunksAre ==
  ASSUME NEW S, NEW rows \in Seq(S)
  PROVE  /\ Chunks(rows) \in Seq([kind : {"chunk"}, rows : Seq(S)])
         /\ DOMAIN Chunks(rows) = 1..Len(Chunks(rows))
         /\ Len(Chunks(rows)) \in Nat
         /\ Len(Chunks(rows)) * ChunkSize >= Len(rows)
         /\ \A j \in Nat : j < Len(Chunks(rows)) =>
               /\ j * ChunkSize < Len(rows)
               /\ Chunks(rows)[j + 1].rows =
                    SubSeq(rows, j * ChunkSize + 1, Least((j + 1) * ChunkSize, Len(rows)))
<1> DEFINE n == Len(rows)
           m == (n + ChunkSize - 1) \div ChunkSize
           Chunk(i) == SubSeq(rows, (i - 1) * ChunkSize + 1, Least(i * ChunkSize, n))
<1>1. n \in Nat /\ rows \in [1..n -> S] /\ ChunkSize \in Nat
  BY OperationsAssumption
<1>2. m \in Nat /\ m * ChunkSize >= n /\ \A j \in Nat : j < m => j * ChunkSize < n
  <2> HIDE DEF n
  <2> QED  BY <1>1, ChunkCount
<1>3. Chunks(rows) = [i \in 1..m |-> [kind |-> "chunk", rows |-> Chunk(i)]]
  BY DEF Chunks, Answer, Least
<1>4. ASSUME NEW i \in 1..m PROVE Chunk(i) \in Seq(S)
  <2> DEFINE a == (i - 1) * ChunkSize + 1
             b == Least(i * ChunkSize, n)
  <2> HIDE DEF n, m
  <2>1. i \in Nat /\ i >= 1 /\ i - 1 \in Nat
    BY <1>2
  <2>2. (i - 1) * ChunkSize \in Nat /\ i * ChunkSize \in Nat
    BY <1>1, <2>1
  <2>3. a \in Nat /\ a >= 1 /\ b \in Nat /\ b <= n
    BY <1>1, <2>2 DEF Least
  <2> HIDE DEF a, b
  <2>4. \A x \in a..b : rows[x] \in S
    BY <1>1, <2>3
  <2>5. SubSeq(rows, a, b) \in Seq(S)
    BY <2>3, <2>4, SubSeqProperties
  <2> QED  BY <2>5 DEF a, b
<1> HIDE DEF n, m, Chunk
<1>5. /\ Chunks(rows) \in Seq([kind : {"chunk"}, rows : Seq(S)])
      /\ Len(Chunks(rows)) = m /\ DOMAIN Chunks(rows) = 1..m
  BY <1>2, <1>3, <1>4
<1>6. ASSUME NEW j \in Nat, j < m
      PROVE  Chunks(rows)[j + 1].rows = SubSeq(rows, j * ChunkSize + 1, Least((j + 1) * ChunkSize, n))
  <2>1. j + 1 \in 1..m /\ (j + 1) - 1 = j
    BY <1>2, <1>6
  <2>2. Chunks(rows)[j + 1].rows = Chunk(j + 1)
    BY <1>3, <2>1
  <2> QED  BY <2>1, <2>2 DEF Chunk
<1> QED  BY <1>2, <1>5, <1>6 DEF n

\* Taking one chunk more, and taking all of them.
LEMMA ChunkByChunk ==
  ASSUME NEW S, NEW rows \in Seq(S), NEW m \in Nat, m <= Len(Chunks(rows))
  PROVE  /\ SubSeq(rows, 1, Least(m * ChunkSize, Len(rows))) \in Seq(S)
         /\ m = Len(Chunks(rows)) => SubSeq(rows, 1, Least(m * ChunkSize, Len(rows))) = rows
         /\ m < Len(Chunks(rows)) =>
              SubSeq(rows, 1, Least(m * ChunkSize, Len(rows))) \o Chunks(rows)[m + 1].rows =
                SubSeq(rows, 1, Least((m + 1) * ChunkSize, Len(rows)))
<1> DEFINE n == Len(rows)
           a == m * ChunkSize
           b == (m + 1) * ChunkSize
<1>1. n \in Nat /\ rows \in [1..n -> S] /\ ChunkSize \in Nat /\ ChunkSize > 0
  BY OperationsAssumption
<1>2. a \in Nat /\ b \in Nat /\ a < b
  <2>1. a \in Nat /\ b = a + ChunkSize
    BY <1>1
  <2> QED  BY <1>1, <2>1
<1> HIDE DEF n, a, b
<1>3. SubSeq(rows, 1, Least(a, n)) \in Seq(S)
  <2>1. Least(a, n) \in Nat /\ Least(a, n) <= n
    BY <1>1, <1>2 DEF Least
  <2>2. \A x \in 1..Least(a, n) : rows[x] \in S
    BY <1>1, <2>1
  <2> QED  BY <2>1, <2>2, SubSeqProperties
<1>4. ASSUME m = Len(Chunks(rows)) PROVE SubSeq(rows, 1, Least(a, n)) = rows
  <2>1. a >= n
    BY <1>4, ChunksAre DEF n, a
  <2>2. Least(a, n) = n
    BY <1>1, <1>2, <2>1 DEF Least
  <2> QED  BY <2>2, SubSeqFull DEF n
<1>5. ASSUME m < Len(Chunks(rows))
      PROVE  SubSeq(rows, 1, Least(a, n)) \o Chunks(rows)[m + 1].rows = SubSeq(rows, 1, Least(b, n))
  <2>1. a < n /\ Chunks(rows)[m + 1].rows = SubSeq(rows, a + 1, Least(b, n))
    BY <1>5, ChunksAre DEF n, a, b
  <2>2. Least(a, n) = a
    BY <2>1 DEF Least
  <2> DEFINE e == Least(b, n)
  <2>3. e \in Nat /\ a <= e /\ e <= n
    BY <1>1, <1>2, <2>1 DEF Least
  <2> HIDE DEF e
  <2>4. SubSeq(rows, 1, a) \o SubSeq(rows, a + 1, e) = SubSeq(rows, 1, e)
    <3>1. a \in (1 - 1)..n /\ e \in a..n /\ 1 \in 1..(n + 1)
      BY <1>1, <1>2, <2>3
    <3> QED  BY <3>1, ConcatAdjacentSubSeq DEF n
  <2> QED  BY <2>1, <2>2, <2>4 DEF e
<1> QED  BY <1>3, <1>4, <1>5 DEF n, a, b

-----------------------------------------------------------------------------
(* The queue of _io_lock *)

\* t is in the queue q.
In(t, q) == \E i \in DOMAIN q : q[i] = t

Distinct(q) == \A i, j \in DOMAIN q : q[i] = q[j] => i = j

\* Who leaves a queue leaves the others in their order.
LEMMA LeavesQueue ==
  ASSUME NEW S, NEW q \in Seq(S), Distinct(q), NEW t, In(t, q)
  PROVE  /\ RemoveFirst(q, t) \in Seq(S)
         /\ Distinct(RemoveFirst(q, t))
         /\ \A u : In(u, RemoveFirst(q, t)) <=> u # t /\ In(u, q)
         /\ Head(q) # t => RemoveFirst(q, t) # <<>> /\ Head(RemoveFirst(q, t)) = Head(q)
<1>1. PICK i \in DOMAIN q : q[i] = t
  BY DEF In
<1>2. Len(q) \in Nat /\ DOMAIN q = 1..Len(q) /\ i \in 1..Len(q) /\ i \in Nat
  OBVIOUS
<1> DEFINE I == {j \in 1..Len(q) : q[j] = t}
           r == RemoveFirst(q, t)
           a == SubSeq(q, 1, i - 1)
           b == SubSeq(q, i + 1, Len(q))
<1>3. I = {i}
  BY <1>1, <1>2 DEF Distinct
<1>4. SelectInSeq(q, LAMBDA v : v = t) = i
  <2>1. SelectInSeq(q, LAMBDA v : v = t) = IF I # {} THEN Min(I) ELSE 0
    BY DEF SelectInSeq
  <2>2. Min({i}) = i
    BY <1>2 DEF Min
  <2> HIDE DEF I
  <2> QED  BY <1>3, <2>1, <2>2
<1>5. r = a \o b
  BY <1>1, <1>2, <1>4 DEF RemoveFirst, RemoveAt
<1>6. /\ a \in Seq(S) /\ b \in Seq(S)
      /\ Len(a) = i - 1 /\ Len(b) = Len(q) - i
      /\ \A j \in 1..(i - 1) : a[j] = q[j]
      /\ \A j \in 1..(Len(q) - i) : b[j] = q[j + i]
  BY <1>2
<1> HIDE DEF a, b, r, I
<1>7. /\ r \in Seq(S) /\ Len(r) = Len(q) - 1 /\ DOMAIN r = 1..(Len(q) - 1)
      /\ \A j \in 1..(Len(q) - 1) : r[j] = IF j < i THEN q[j] ELSE q[j + 1]
  <2>1. r \in Seq(S) /\ Len(r) = Len(a) + Len(b) /\ DOMAIN r = 1..Len(r)
    BY <1>5, <1>6
  <2>2. Len(r) = Len(q) - 1
    BY <1>2, <1>6, <2>1
  <2>3. ASSUME NEW j \in 1..(Len(q) - 1) PROVE r[j] = IF j < i THEN q[j] ELSE q[j + 1]
    <3>1. j \in 1..(Len(a) + Len(b))
      BY <1>2, <1>6
    <3>2. r[j] = IF j <= Len(a) THEN a[j] ELSE b[j - Len(a)]
      BY <1>5, <1>6, <3>1, ConcatProperties
    <3>3. CASE j < i
      BY <1>2, <1>6, <3>2, <3>3
    <3>4. CASE j >= i
      <4>1. j - Len(a) \in 1..(Len(q) - i) /\ (j - Len(a)) + i = j + 1 /\ ~ (j <= Len(a))
        BY <1>2, <1>6, <3>4
      <4> QED  BY <1>6, <3>2, <3>4, <4>1
    <3> QED  BY <1>2, <3>3, <3>4
  <2> QED  BY <2>1, <2>2, <2>3
<1>8. Distinct(r)
  <2> SUFFICES ASSUME NEW j \in 1..(Len(q) - 1), NEW h \in 1..(Len(q) - 1), r[j] = r[h]
               PROVE  j = h
    BY <1>7 DEF Distinct
  <2> DEFINE jj == IF j < i THEN j ELSE j + 1
             hh == IF h < i THEN h ELSE h + 1
  <2>1. jj \in DOMAIN q /\ hh \in DOMAIN q /\ r[j] = q[jj] /\ r[h] = q[hh]
    BY <1>2, <1>7
  <2>2. jj = hh
    BY <2>1 DEF Distinct
  <2> QED  BY <1>2, <2>2
<1>9. ASSUME NEW u PROVE In(u, r) <=> u # t /\ In(u, q)
  <2>1. ASSUME NEW j \in DOMAIN r, r[j] = u PROVE u # t /\ In(u, q)
    <3>1. r[j] = q[IF j < i THEN j ELSE j + 1] /\ (IF j < i THEN j ELSE j + 1) \in DOMAIN q
      BY <1>2, <1>7
    <3>2. (IF j < i THEN j ELSE j + 1) # i
      BY <1>2, <1>7
    <3> QED  BY <1>1, <2>1, <3>1, <3>2 DEF Distinct, In
  <2>2. ASSUME u # t, NEW j \in DOMAIN q, q[j] = u PROVE In(u, r)
    <3>1. j # i
      BY <1>1, <2>2
    <3>2. CASE j < i
      BY <1>2, <1>7, <2>2, <3>2 DEF In
    <3>3. CASE j > i
      <4> DEFINE h == j - 1
      <4>1. h \in DOMAIN r /\ ~ (h < i) /\ h + 1 = j
        BY <1>2, <1>7, <3>3
      <4>2. r[h] = q[j]
        BY <1>7, <4>1
      <4> QED  BY <2>2, <4>1, <4>2 DEF In
    <3> QED  BY <1>2, <3>1, <3>2, <3>3
  <2> QED  BY <2>1, <2>2 DEF In
<1>10. ASSUME Head(q) # t PROVE r # <<>> /\ Head(r) = Head(q)
  <2>1. i > 1 /\ Len(q) > 1
    BY <1>1, <1>2, <1>10
  <2> QED  BY <1>2, <1>7, <2>1
<1> QED  BY <1>7, <1>8, <1>9, <1>10 DEF r

-----------------------------------------------------------------------------
(* What a request comes to *)

Rows == Seq(StoreKeys \X Values)

Replies == [kind : Kinds, rows : Rows]

Writes == {"put", "delete", "batch_put"}

\* The store with a write's effect on it.
Overlay(s, e) == [k \in StoreKeys |-> IF k \in DOMAIN e THEN e[k] ELSE s[k]]

\* The version v has what request r writes.
Shows(v, r) == \A k \in DOMAIN Effect(r) : v[k] = Effect(r)[k]

\* The requests by their operation.
LEMMA RequestKinds ==
  ASSUME NEW r \in Requests
  PROVE  /\ r.op \in Writes \cup {"get", "read_key_range"}
         /\ r.op = "put" => r.key \in StoreKeys /\ r.value \in Values
         /\ r.op \in {"get", "delete"} => r.key \in StoreKeys
         /\ r.op = "batch_put" => r.pairs \in Seq(Pairs)
         /\ r.op = "read_key_range" => r.from \in Nat /\ r.to \in Nat
BY DEF Requests, Writes, Pairs

\* What a request writes is a partial store.
LEMMA EffectType ==
  ASSUME NEW r \in Requests
  PROVE  /\ DOMAIN Effect(r) \subseteq StoreKeys
         /\ Effect(r) \in [DOMAIN Effect(r) -> Values \cup {None}]
         /\ r.op \notin Writes => Effect(r) = [k \in {} |-> None]
<1>1. CASE r.op = "batch_put"
  <2> DEFINE p == r.pairs
             n == Len(p)
             D == {p[i].key : i \in DOMAIN p}
             L(k) == Max({i \in DOMAIN p : p[i].key = k})
  <2>1. p \in Seq(Pairs) /\ n \in Nat /\ DOMAIN p = 1..n /\ \A i \in 1..n : p[i] \in Pairs
    <3>1. p \in Seq(Pairs)
      BY <1>1, RequestKinds
    <3> HIDE DEF p
    <3> QED  BY <3>1
  <2>2. ASSUME NEW k \in D PROVE p[L(k)].value \in Values
    <3> DEFINE K == {i \in DOMAIN p : p[i].key = k}
    <3>1. K \in SUBSET Int /\ K # {} /\ n \in Int /\ \A x \in K : x <= n
      BY <2>1, <2>2
    <3>2. Max(K) \in K
      <4> HIDE DEF K, n
      <4> QED  BY <3>1, MaxIsLargest
    <3> QED  BY <2>1, <3>2 DEF Pairs
  <2>3. Effect(r) = [k \in D |-> p[L(k)].value]
    BY <1>1 DEF Effect
  <2>4. D \subseteq StoreKeys
    BY <2>1 DEF Pairs
  <2> HIDE DEF D, L, p
  <2> QED  BY <1>1, <2>2, <2>3, <2>4 DEF Writes
<1>2. CASE r.op # "batch_put"
  BY <1>2, RequestKinds DEF Effect, Writes
<1> QED  BY <1>1, <1>2

\* A write is refused, or it succeeds and the store has its effect.
LEMMA WriteServed ==
  ASSUME NEW s \in Stores, NEW r \in Requests, r.op \in Writes
  PROVE  \/ Served(s, r) = Refusal(s)
         \/ /\ Served(s, r) = Success(Overlay(s, Effect(r)))
            /\ Overlay(s, Effect(r)) \in Stores
            /\ Shows(Overlay(s, Effect(r)), r)
<1>1. Overlay(s, Effect(r)) \in Stores /\ Shows(Overlay(s, Effect(r)), r)
  BY EffectType DEF Overlay, Stores, Shows
<1>2. CASE r.op = "put" /\ r.key # EmptyKey
  <2>1. Served(s, r) = Success([s EXCEPT ![r.key] = r.value])
    BY <1>2 DEF Served, PutOperation
  <2>2. [s EXCEPT ![r.key] = r.value] = Overlay(s, Effect(r))
    BY <1>2, RequestKinds DEF Overlay, Effect, Stores
  <2> QED  BY <1>1, <2>1, <2>2
<1>3. CASE r.op = "delete" /\ r.key # EmptyKey
  <2>1. Served(s, r) = Success([s EXCEPT ![r.key] = None])
    BY <1>3 DEF Served, DeleteOperation
  <2>2. [s EXCEPT ![r.key] = None] = Overlay(s, Effect(r))
    BY <1>3, RequestKinds DEF Overlay, Effect, Stores
  <2> QED  BY <1>1, <2>1, <2>2
<1>4. CASE r.op = "batch_put" /\ r.pairs # <<>>
  <2>1. r.pairs \in Seq(Pairs)
    BY <1>4, RequestKinds
  <2>2. Served(s, r) = Success(After(s, r.pairs, DOMAIN r.pairs))
    BY <1>4, <2>1, BatchPuts DEF Served
  <2>3. Effect(r) = [k \in {r.pairs[i].key : i \in DOMAIN r.pairs} |->
                       r.pairs[Max({i \in DOMAIN r.pairs : r.pairs[i].key = k})].value]
    BY <1>4 DEF Effect
  <2>4. After(s, r.pairs, DOMAIN r.pairs) = Overlay(s, Effect(r))
    BY <2>3 DEF Overlay, After
  <2> QED  BY <1>1, <2>2, <2>4
<1>5. CASE (r.op \in {"put", "delete"} /\ r.key = EmptyKey) \/ (r.op = "batch_put" /\ r.pairs = <<>>)
  BY <1>5 DEF Served, PutOperation, DeleteOperation, BatchPutOperation
<1> QED  BY <1>2, <1>3, <1>4, <1>5 DEF Writes

\* A get changes nothing, and answers with the value or that there is none.
LEMMA GetServed ==
  ASSUME NEW s \in Stores, NEW r \in Requests, r.op = "get"
  PROVE  /\ Served(s, r).store = s
         /\ \/ Served(s, r) = Refusal(s)
            \/ /\ s[r.key] = None
               /\ Served(s, r) = Outcome(s, <<Answer("key_error", <<>>)>>)
            \/ /\ s[r.key] # None
               /\ Served(s, r) = Outcome(s, <<Answer("success", <<<<r.key, s[r.key]>>>>)>>)
BY DEF Served, GetOperation, Refusal, Outcome

\* A range changes nothing, and answers with its chunks and an end.
LEMMA RangeServed ==
  ASSUME NEW s \in Stores, NEW r \in Requests, r.op = "read_key_range"
  PROVE  /\ Served(s, r).store = s
         /\ \/ Served(s, r) = Refusal(s)
            \/ Served(s, r) = Outcome(s, Append(Chunks(RowsOf(s, r.from, r.to)), Answer("done", <<>>)))
BY DEF Served, ReadKeyRangeOperation, Refusal, Outcome

\* Whatever a request comes to, the store is a store, and there is an answer.
LEMMA ServedType ==
  ASSUME NEW s \in Stores, NEW r \in Requests
  PROVE  /\ Served(s, r).store \in Stores
         /\ Served(s, r).answers \in Seq(Replies) /\ Served(s, r).answers # <<>>
<1>0. <<>> \in Rows /\ Answer("error", <<>>) \in Replies /\ Answer("success", <<>>) \in Replies
      /\ Answer("key_error", <<>>) \in Replies /\ Answer("done", <<>>) \in Replies
  BY DEF Rows, Answer, Replies, Kinds
<1> HIDE DEF Replies
<1>1. /\ Refusal(s).store = s /\ Refusal(s).answers = <<Answer("error", <<>>)>>
      /\ Refusal(s).answers \in Seq(Replies) /\ Refusal(s).answers # <<>>
  BY <1>0 DEF Refusal, Outcome
<1>2. CASE r.op \in Writes
  <2>1. ASSUME NEW v \in Stores PROVE Success(v).store \in Stores /\ Success(v).answers \in Seq(Replies) /\ Success(v).answers # <<>>
    BY <1>0 DEF Success, Outcome
  <2> QED  BY <1>1, <1>2, <2>1, WriteServed
<1>3. CASE r.op = "get"
  <2>1. ASSUME s[r.key] # None PROVE Answer("success", <<<<r.key, s[r.key]>>>>) \in Replies
    <3>1. r.key \in StoreKeys /\ s[r.key] \in Values
      BY <1>3, <2>1, RequestKinds DEF Stores
    <3> QED  BY <3>1 DEF Answer, Replies, Rows, Kinds
  <2>2. ASSUME NEW a \in Replies PROVE Outcome(s, <<a>>).answers \in Seq(Replies) /\ Outcome(s, <<a>>).answers # <<>>
    BY DEF Outcome
  <2> QED  BY <1>0, <1>1, <1>3, <2>1, <2>2, GetServed
<1>4. CASE r.op = "read_key_range"
  <2> DEFINE c == Chunks(RowsOf(s, r.from, r.to))
  <2>1. RowsOf(s, r.from, r.to) \in Rows
    BY <1>4, RequestKinds, RowsAreTheRange DEF Rows
  <2>2. c \in Seq([kind : {"chunk"}, rows : Rows])
    BY <2>1, ChunksAre DEF Rows
  <2>3. c \in Seq(Replies)
    <3>1. [kind : {"chunk"}, rows : Rows] \subseteq Replies
      BY DEF Replies, Kinds
    <3> HIDE DEF c
    <3> QED  BY <2>2, <3>1, SeqMonotonic
  <2> HIDE DEF c
  <2>4. Append(c, Answer("done", <<>>)) \in Seq(Replies) /\ Append(c, Answer("done", <<>>)) # <<>>
    BY <1>0, <2>3, AppendProperties
  <2> DEFINE all == Append(c, Answer("done", <<>>))
  <2>5. all \in Seq(Replies) /\ all # <<>>
    BY <2>4
  <2>6. Served(s, r) = Refusal(s) \/ Served(s, r) = Outcome(s, all)
    BY <1>4, RangeServed DEF c
  <2> HIDE DEF all
  <2>7. Outcome(s, all).store = s /\ Outcome(s, all).answers = all
    BY DEF Outcome
  <2> HIDE DEF Replies
  <2>8. CASE Served(s, r) = Refusal(s)
    BY <1>1, <2>8
  <2>9. CASE Served(s, r) = Outcome(s, all)
    BY <2>5, <2>7, <2>9
  <2> QED  BY <2>6, <2>8, <2>9
<1> QED  BY <1>2, <1>3, <1>4, RequestKinds

\* When the engine raises, nothing is changed, no write is confirmed, and no
\* stream comes to its end.
LEMMA FailedType ==
  ASSUME NEW s \in Stores, NEW r \in Requests, NEW o \in Failed(s, r)
  PROVE  /\ o.store = s
         /\ o.answers \in Seq(Replies) /\ o.answers # <<>>
         /\ \A i \in DOMAIN o.answers :
              o.answers[i].kind \in IF r.op = "read_key_range"
                                   THEN {"error", "chunk", "terminated"} ELSE {"error"}
<1>0. Answer("error", <<>>) \in Replies /\ Answer("terminated", <<>>) \in Replies
      /\ Answer("error", <<>>).kind = "error" /\ Answer("terminated", <<>>).kind = "terminated"
  BY DEF Rows, Answer, Replies, Kinds
<1>1. CASE o = Refusal(s)
  <2>1. o.store = s /\ o.answers = <<Answer("error", <<>>)>>
    BY <1>1 DEF Refusal, Outcome
  <2> HIDE DEF Replies
  <2> QED  BY <1>0, <2>1
<1>2. CASE o # Refusal(s)
  <2> DEFINE c == Chunks(RowsOf(s, r.from, r.to))
             all == Append(c, Answer("done", <<>>))
             t == Answer("terminated", <<>>)
  <2>1. r.op = "read_key_range" /\ Served(s, r) = Outcome(s, all)
    BY <1>2, RangeServed DEF Failed
  <2>2. RowsOf(s, r.from, r.to) \in Rows
    BY <2>1, RequestKinds, RowsAreTheRange DEF Rows
  <2>3. /\ c \in Seq([kind : {"chunk"}, rows : Rows])
        /\ Len(c) \in Nat /\ DOMAIN c = 1..Len(c)
    BY <2>2, ChunksAre DEF Rows
  <2>4. PICK n \in 0..(Len(Outcome(s, all).answers) - 1) :
               o = [Outcome(s, all) EXCEPT !.answers = Append(SubSeq(Outcome(s, all).answers, 1, n), t)]
    BY <1>2, <2>1 DEF Failed
  <2> HIDE DEF c, t
  <2>5. Outcome(s, all).answers = all /\ Len(all) = Len(c) + 1
    BY <2>3 DEF Outcome
  <2>6. n \in 0..Len(c) /\ o.store = s /\ o.answers = Append(SubSeq(all, 1, n), t)
    BY <2>3, <2>4, <2>5 DEF Outcome
  <2>7. ASSUME NEW i \in 1..n PROVE all[i] \in Replies /\ all[i].kind = "chunk"
    <3>1. i \in 1..Len(c)
      BY <2>3, <2>6
    <3>2. all[i] = c[i]
      BY <2>3, <3>1
    <3>3. c[i] \in [kind : {"chunk"}, rows : Rows]
      BY <2>3, <3>1, ElementOfSeq
    <3>4. [kind : {"chunk"}, rows : Rows] \subseteq Replies
      BY DEF Replies, Kinds
    <3> HIDE DEF all
    <3> QED  BY <3>2, <3>3, <3>4
  <2> HIDE DEF all
  <2> DEFINE h == SubSeq(all, 1, n)
  <2>8. /\ h \in Seq(Replies) /\ Len(h) = n
        /\ \A i \in 1..n : h[i] = all[i]
    <3>1. n \in Nat /\ n \in Int /\ 1 \in Int
      BY <2>3, <2>6
    <3>2. h \in Seq(Replies) /\ Len(h) = (IF 1 <= n THEN n - 1 + 1 ELSE 0) /\ \A i \in 1..(n - 1 + 1) : h[i] = all[1 + i - 1]
      BY <2>7, <3>1, SubSeqProperties
    <3>3. \A i \in 1..n : 1 + i - 1 = i
      BY <3>1
    <3> HIDE DEF h
    <3> QED  BY <3>1, <3>2, <3>3
  <2> HIDE DEF h
  <2> DEFINE a == Append(h, t)
  <2>9. /\ a \in Seq(Replies) /\ a # <<>> /\ DOMAIN a = 1..(n + 1)
        /\ \A i \in 1..n : a[i] = h[i]
        /\ a[n + 1] = t
    <3> HIDE DEF Replies
    <3> QED  BY <1>0, <2>8 DEF t
  <2> HIDE DEF a
  <2>10. n \in Nat
    BY <2>3, <2>6
  <2>11. ASSUME NEW i \in DOMAIN a PROVE a[i].kind \in {"chunk", "terminated"}
    BY <1>0, <2>7, <2>8, <2>9, <2>10 DEF t
  <2>12. o.answers = a
    BY <2>6 DEF a, h
  <2> QED  BY <2>1, <2>6, <2>9, <2>11, <2>12
<1> QED  BY <1>1, <1>2

-----------------------------------------------------------------------------
(* The inductive invariant *)

\* A client's queue holds each of its calls under way, once; the one at the
\* head reads or yields, and those behind it wait.
Queued ==
  /\ \A t \in Tasks : task[t].pc \in Busy => In(t, lock[ClientOf[t]])
  /\ \A c \in Clients : Distinct(lock[c])
  /\ \A t \in Tasks : task[t].pc \in {"reading", "yielding"} => Head(lock[ClientOf[t]]) = t

\* A connection that is open at the client is its latest, or one to come.
Numbered ==
  /\ \A c \in Clients : gen[c] \in 1..MaxConnects[c] /\ (linked[c] => conn[Current(c)].client)
  /\ \A c \in Clients, g \in Nat : <<c, g>> \in Conns /\ g > gen[c] => conn[<<c, g>>] = NewConn
  /\ \A c \in Clients, g \in Nat :
       <<c, g>> \in Conns /\ conn[<<c, g>>].client => g > gen[c] \/ (g = gen[c] /\ linked[c])

\* What a client has closed carries nothing to it.
Gone ==
  \A cn \in Conns : ~conn[cn].client =>
    conn[cn].lines = <<>> /\ conn[cn].todo = <<>> /\ ~conn[cn].cut

\* The times of a call are times of the history.
Timed ==
  /\ versions # <<>>
  /\ \A t \in Tasks : /\ 1 <= task[t].since /\ task[t].since <= task[t].until
                      /\ task[t].until <= Len(versions)
                      /\ task[t].pc \in Busy => task[t].on \in 1..gen[ClientOf[t]]

\* A request is on one connection, in one place, and its call has been sent.
Once ==
  /\ \A cn, dn \in Conns : \A i \in DOMAIN conn[cn].requests, j \in DOMAIN conn[dn].requests :
       conn[cn].requests[i] = conn[dn].requests[j] => cn = dn /\ i = j
  /\ \A cn \in Conns : \A i \in DOMAIN conn[cn].requests :
       task[conn[cn].requests[i]].pc \notin {"idle", "waiting"}

\* Open at the client, and no call on it was cut short.
Clean(n) == n.client /\ ~n.cut

\* What a clean connection carries belongs to the call that reads it: its
\* request, or what is left of its answer.
Owned ==
  \A cn \in Conns : Clean(conn[cn]) =>
    /\ \A t \in Tasks : Owed(conn[cn], t) =>
         task[t].pc \in {"reading", "yielding"} /\ ConnOf(t) = cn
    /\ conn[cn].requests # <<>> =>
         /\ Len(conn[cn].requests) = 1 /\ conn[cn].lines = <<>> /\ conn[cn].todo = <<>>
         /\ task[Head(conn[cn].requests)].rows = <<>>

\* The versions current during the call k, when vs are the versions so far.
Seen(k, vs) ==
  {vs[i] : i \in k.since .. (IF k.pc = "returned" /\ k.clean THEN k.until ELSE Len(vs))}

WriteAnswer(k, D, q) ==
  \A i \in DOMAIN q :
    /\ q[i].kind \in {"success", "error"}
    /\ q[i].kind = "success" => \E v \in D : Shows(v, k.req)

GetAnswer(k, D, q) ==
  /\ k.rows = <<>>
  /\ \A i \in DOMAIN q :
       /\ q[i].kind \in {"success", "key_error", "error"}
       /\ q[i].kind = "success" =>
            \E v \in D : v[k.req.key] # None /\ q[i].rows = <<<<k.req.key, v[k.req.key]>>>>
       /\ q[i].kind = "key_error" => q[i].rows = <<>> /\ \E v \in D : v[k.req.key] = None

\* m chunks of the rows R have been taken, the others and the end are to come.
Streaming(R, m, rows, q) ==
  /\ rows = SubSeq(R, 1, Least(m * ChunkSize, Len(R)))
  /\ Len(q) + m = Len(Chunks(R)) + 1
  /\ \A i \in DOMAIN q :
       IF i < Len(q) THEN q[i].kind = "chunk" /\ q[i].rows = Chunks(R)[i + m].rows
       ELSE q[i].kind = "done" /\ q[i].rows = <<>>

RangeAnswer(k, D, q) ==
  \/ \A i \in DOMAIN q : q[i].kind # "done"
  \/ \E v \in D : LET R == RowsOf(v, k.req.from, k.req.to) IN
       \E m \in 0..Len(Chunks(R)) : Streaming(R, m, k.rows, q)

\* The lines q are what the call k is owed, when D are the versions current
\* during it.
AnswerOf(k, D, q) ==
  /\ k.req.op \in Writes => WriteAnswer(k, D, q)
  /\ k.req.op = "get" => GetAnswer(k, D, q)
  /\ k.req.op = "read_key_range" => RangeAnswer(k, D, q)

\* What is left of an answer is what the call is owed.
Answered ==
  \A t \in Tasks :
    task[t].pc \in {"reading", "yielding"} /\ Clean(conn[ConnOf(t)]) =>
      AnswerOf(task[t], Seen(task[t], versions), conn[ConnOf(t)].lines \o conn[ConnOf(t)].todo)

\* What a call that returned has got was true during it.
Result(k, vs) ==
  k.pc = "returned" /\ k.clean =>
    /\ k.req.op \in Writes => \E v \in Seen(k, vs) : Shows(v, k.req)
    /\ k.req.op = "get" =>
         \E v \in Seen(k, vs) : k.rows = IF v[k.req.key] = None THEN <<>>
                                        ELSE <<<<k.req.key, v[k.req.key]>>>>
    /\ k.req.op = "read_key_range" =>
         \E v \in Seen(k, vs) : k.rows = RowsOf(v, k.req.from, k.req.to)

Confirmed == \A t \in Tasks : Result(task[t], versions)

\* A task that has not called has no call, one that waits has got nothing yet,
\* and only a range yields.
Asked ==
  \A t \in Tasks : /\ task[t].pc = "idle" => task[t] = NoCall
                   /\ task[t].pc # "idle" => task[t].req \in Requests
                   /\ task[t].pc = "waiting" => task[t].rows = <<>>
                   /\ task[t].pc = "yielding" => task[t].req.op = "read_key_range"

-----------------------------------------------------------------------------
(* Types *)

PCs == {"idle"} \cup Busy \cup Ended

Reqs == {NoCall.req} \cup UNION {RequestsOf[t] : t \in Tasks}

Call(pc, req, on, rows, clean, since, until) ==
  [pc |-> pc, req |-> req, on |-> on, rows |-> rows, clean |-> clean,
   since |-> since, until |-> until]

CallType ==
  [pc : PCs, req : Reqs, on : Nat, rows : Rows, clean : BOOLEAN, since : Nat, until : Nat]

Connection(client, server, requests, todo, lines, cut) ==
  [client |-> client, server |-> server, requests |-> requests, todo |-> todo,
   lines |-> lines, cut |-> cut]

ConnType ==
  [client : BOOLEAN, server : BOOLEAN, requests : Seq(Tasks), todo : Seq(Lines),
   lines : Seq(Lines), cut : BOOLEAN]

\* Only calls under way are queued, by their own client.
QueueOf(c, q) == \A i \in DOMAIN q : ClientOf[q[i]] = c /\ task[q[i]].pc \in Busy

Typed ==
  /\ task \in [Tasks -> CallType]
  /\ lock \in [Clients -> Seq(Tasks)]
  /\ \A c \in Clients : QueueOf(c, lock[c])
  /\ linked \in [Clients -> BOOLEAN]
  /\ gen \in [Clients -> Nat]
  /\ conn \in [Conns -> ConnType]
  /\ versions \in Seq(Stores)
  /\ faults \in 0..MaxFaults

SInv ==
  /\ Typed /\ Asked /\ Queued /\ Numbered /\ Gone /\ Timed /\ Once
  /\ Owned /\ Answered /\ Confirmed

\* The invariant gives the type invariant.
LEMMA Typing ==
  Typed /\ Numbered => TypeOK
<1> SUFFICES ASSUME Typed, Numbered PROVE TypeOK
  OBVIOUS
<1>1. task \in [Tasks ->
       [pc : {"idle"} \cup Busy \cup Ended,
        req : {NoCall.req} \cup UNION {RequestsOf[t] : t \in Tasks},
        on : Nat, rows : Seq(StoreKeys \X Values), clean : BOOLEAN,
        since : Nat, until : Nat]]
  BY DEF Typed, CallType, PCs, Reqs, Rows
<1>2. conn \in [Conns ->
       [client : BOOLEAN, server : BOOLEAN, requests : Seq(Tasks), todo : Seq(Lines),
        lines : Seq(Lines), cut : BOOLEAN]]
  BY DEF Typed, ConnType
<1>3. \A c \in Clients : \A t \in ToSet(lock[c]) : ClientOf[t] = c /\ task[t].pc \in Busy
  BY DEF Typed, QueueOf, ToSet
<1>4. \A c \in Clients : gen[c] \in 0..MaxConnects[c]
  BY SessionAssumption DEF Numbered
<1> QED  BY <1>1, <1>2, <1>3, <1>4 DEF TypeOK, Typed

\* A call is the record of its parts.
LEMMA CallParts ==
  ASSUME NEW k \in CallType
  PROVE  k = Call(k.pc, k.req, k.on, k.rows, k.clean, k.since, k.until)
BY DEF CallType, Call

\* The ways in which the steps change a call.
Ending(k, pc, on, rows, clean, until) ==
  [k EXCEPT !.pc = pc, !.on = on, !.rows = rows, !.clean = clean, !.until = until]
Moving(k, pc, on) == [k EXCEPT !.pc = pc, !.on = on]
Taking(k, pc, rows) == [k EXCEPT !.pc = pc, !.rows = rows]
At(k, pc) == [k EXCEPT !.pc = pc]

\* What they make of its parts.
LEMMA CallChanged ==
  ASSUME NEW k \in CallType, NEW pc, NEW on, NEW rows, NEW clean, NEW until
  PROVE  /\ Ending(k, pc, on, rows, clean, until) = Call(pc, k.req, on, rows, clean, k.since, until)
         /\ Moving(k, pc, on) = Call(pc, k.req, on, k.rows, k.clean, k.since, k.until)
         /\ Taking(k, pc, rows) = Call(pc, k.req, k.on, rows, k.clean, k.since, k.until)
         /\ At(k, pc) = Call(pc, k.req, k.on, k.rows, k.clean, k.since, k.until)
<1> DEFINE b == k.req  c == k.on  d == k.rows  e == k.clean  f == k.since  g == k.until  a == k.pc
<1>0. k = Call(a, b, c, d, e, f, g)
  BY CallParts
<1> HIDE DEF a, b, c, d, e, f, g
<1> DEFINE k1 == [k EXCEPT !.pc = pc]
           k2 == [k1 EXCEPT !.on = on]
           k3 == [k2 EXCEPT !.rows = rows]
           k4 == [k3 EXCEPT !.clean = clean]
           k5 == [k4 EXCEPT !.until = until]
           h2 == [k1 EXCEPT !.rows = rows]
<1>1. k1 = Call(pc, b, c, d, e, f, g)
  BY <1>0 DEF Call
<1> HIDE DEF k1
<1>2. k2 = Call(pc, b, on, d, e, f, g) /\ h2 = Call(pc, b, c, rows, e, f, g)
  BY <1>1 DEF Call
<1> HIDE DEF k2
<1>3. k3 = Call(pc, b, on, rows, e, f, g)
  BY <1>2 DEF Call
<1> HIDE DEF k3
<1>4. k4 = Call(pc, b, on, rows, clean, f, g)
  BY <1>3 DEF Call
<1> HIDE DEF k4
<1>5. k5 = Call(pc, b, on, rows, clean, f, until)
  BY <1>4 DEF Call
<1>6. /\ Ending(k, pc, on, rows, clean, until) = k5
      /\ Moving(k, pc, on) = k2
      /\ Taking(k, pc, rows) = h2
      /\ At(k, pc) = k1
  BY <1>1, <1>2, <1>5 DEF k1, k2, k3, k4, Ending, Moving, Taking, At
<1> HIDE DEF k5, h2
<1> QED  BY <1>1, <1>2, <1>5, <1>6 DEF a, b, c, d, e, f, g

\* The parts of a call.
LEMMA CallFields ==
  ASSUME NEW a, NEW b, NEW c, NEW d, NEW e, NEW f, NEW g
  PROVE  /\ Call(a, b, c, d, e, f, g).pc = a /\ Call(a, b, c, d, e, f, g).req = b
         /\ Call(a, b, c, d, e, f, g).on = c /\ Call(a, b, c, d, e, f, g).rows = d
         /\ Call(a, b, c, d, e, f, g).clean = e /\ Call(a, b, c, d, e, f, g).since = f
         /\ Call(a, b, c, d, e, f, g).until = g
BY DEF Call

\* The parts of a connection.
LEMMA ConnFields ==
  ASSUME NEW a, NEW b, NEW c, NEW d, NEW e, NEW f
  PROVE  /\ Connection(a, b, c, d, e, f).client = a /\ Connection(a, b, c, d, e, f).server = b
         /\ Connection(a, b, c, d, e, f).requests = c /\ Connection(a, b, c, d, e, f).todo = d
         /\ Connection(a, b, c, d, e, f).lines = e /\ Connection(a, b, c, d, e, f).cut = f
BY DEF Connection

\* A connection with another part in one place.
LEMMA ConnChanged ==
  ASSUME NEW n \in ConnType, NEW x
  PROVE  /\ [n EXCEPT !.cut = x] = Connection(n.client, n.server, n.requests, n.todo, n.lines, x)
         /\ [n EXCEPT !.lines = x] = Connection(n.client, n.server, n.requests, n.todo, x, n.cut)
         /\ [n EXCEPT !.server = x] = Connection(n.client, x, n.requests, n.todo, n.lines, n.cut)
         /\ [n EXCEPT !.requests = x] = Connection(n.client, n.server, x, n.todo, n.lines, n.cut)
<1> DEFINE b == n.server  c == n.requests  d == n.todo  e == n.lines  f == n.cut  a == n.client
<1>1. n = Connection(a, b, c, d, e, f)
  BY DEF ConnType, Connection
<1> HIDE DEF a, b, c, d, e, f
<1>2. /\ [n EXCEPT !.cut = x] = Connection(a, b, c, d, e, x)
      /\ [n EXCEPT !.lines = x] = Connection(a, b, c, d, x, f)
      /\ [n EXCEPT !.server = x] = Connection(a, x, c, d, e, f)
      /\ [n EXCEPT !.requests = x] = Connection(a, b, x, d, e, f)
  BY <1>1 DEF Connection
<1> QED  BY <1>2 DEF a, b, c, d, e, f

\* A connection with several parts changed: its client has closed it, and its
\* server has answered.
Closing(n, no, e) == [n EXCEPT !.client = no, !.lines = e, !.todo = e, !.cut = no]

Answering(n, r, l, o) == [n EXCEPT !.requests = r, !.lines = l, !.todo = o]

\* What that makes of its parts.
LEMMA ConnRebuilt ==
  ASSUME NEW n \in ConnType, NEW no, NEW v, NEW r, NEW l, NEW o
  PROVE  /\ Closing(n, no, v) = Connection(no, n.server, n.requests, v, v, no)
         /\ Answering(n, r, l, o) = Connection(n.client, n.server, r, o, l, n.cut)
<1> DEFINE b == n.server  c == n.requests  d == n.todo  e == n.lines  f == n.cut  a == n.client
<1>1. n = Connection(a, b, c, d, e, f)
  BY DEF ConnType, Connection
<1> HIDE DEF a, b, c, d, e, f
<1> DEFINE n1 == [n EXCEPT !.client = no]
           n2 == [n1 EXCEPT !.lines = v]
           n3 == [n2 EXCEPT !.todo = v]
           n4 == [n3 EXCEPT !.cut = no]
           m1 == [n EXCEPT !.requests = r]
           m2 == [m1 EXCEPT !.lines = l]
           m3 == [m2 EXCEPT !.todo = o]
<1>2. n1 = Connection(no, b, c, d, e, f) /\ m1 = Connection(a, b, r, d, e, f)
  BY <1>1 DEF Connection
<1> HIDE DEF n1, m1
<1>3. n2 = Connection(no, b, c, d, v, f) /\ m2 = Connection(a, b, r, d, l, f)
  BY <1>2 DEF Connection
<1> HIDE DEF n2, m2
<1>4. n3 = Connection(no, b, c, v, v, f) /\ m3 = Connection(a, b, r, o, l, f)
  BY <1>3 DEF Connection
<1> HIDE DEF n3
<1>5. n4 = Connection(no, b, c, v, v, no)
  BY <1>4 DEF Connection
<1>6. Closing(n, no, v) = n4 /\ Answering(n, r, l, o) = m3
  BY <1>4, <1>5 DEF n1, n2, n3, m1, m2, Closing, Answering
<1> HIDE DEF n4, m3
<1> QED  BY <1>4, <1>5, <1>6 DEF a, b, c, d, e, f

-----------------------------------------------------------------------------
(* What a connection owes *)

\* Owed, by the places of a connection.
LEMMA OwedIs ==
  ASSUME NEW n \in ConnType, NEW t
  PROVE  Owed(n, t) <=> \/ \E i \in DOMAIN n.requests : n.requests[i] = t
                        \/ \E i \in DOMAIN n.todo : n.todo[i].of = t
                        \/ \E i \in DOMAIN n.lines : n.lines[i].of = t
<1> DEFINE a == n.todo  b == n.lines
<1>1. n.requests \in Seq(Tasks) /\ a \in Seq(Lines) /\ b \in Seq(Lines)
  BY DEF ConnType
<1> HIDE DEF a, b
<1>2. /\ Len(a) \in Nat /\ Len(b) \in Nat /\ DOMAIN a = 1..Len(a) /\ DOMAIN b = 1..Len(b)
      /\ DOMAIN (a \o b) = 1..(Len(a) + Len(b))
      /\ \A i \in 1..(Len(a) + Len(b)) : (a \o b)[i] = IF i <= Len(a) THEN a[i] ELSE b[i - Len(a)]
  BY <1>1
<1>3. ASSUME NEW i \in DOMAIN b PROVE \E j \in DOMAIN (a \o b) : (a \o b)[j] = b[i]
  <2> DEFINE j == Len(a) + i
  <2>1. j \in 1..(Len(a) + Len(b)) /\ ~ (j <= Len(a)) /\ j - Len(a) = i
    BY <1>2
  <2> HIDE DEF j
  <2> QED  BY <1>2, <2>1
<1>4. ASSUME NEW i \in DOMAIN a PROVE \E j \in DOMAIN (a \o b) : (a \o b)[j] = a[i]
  <2>1. i \in 1..(Len(a) + Len(b)) /\ i <= Len(a)
    BY <1>2
  <2> QED  BY <1>2, <2>1
<1>5. ASSUME NEW j \in DOMAIN (a \o b)
      PROVE  (\E i \in DOMAIN a : a[i] = (a \o b)[j]) \/ (\E i \in DOMAIN b : b[i] = (a \o b)[j])
  BY <1>2
<1>6. (\E l \in ToSet(a \o b) : l.of = t) <=>
        (\E i \in DOMAIN a : a[i].of = t) \/ (\E i \in DOMAIN b : b[i].of = t)
  <2>1. (\E l \in ToSet(a \o b) : l.of = t) <=> \E j \in DOMAIN (a \o b) : (a \o b)[j].of = t
    BY DEF ToSet
  <2> QED  BY <1>3, <1>4, <1>5, <2>1
<1>7. t \in ToSet(n.requests) <=> \E i \in DOMAIN n.requests : n.requests[i] = t
  BY DEF ToSet
<1>8. Owed(n, t) <=> t \in ToSet(n.requests) \/ \E l \in ToSet(a \o b) : l.of = t
  BY DEF Owed, a, b
<1> QED  BY <1>6, <1>7, <1>8 DEF a, b

\* What a connection owes does not depend on whether it is open or cut.
LEMMA OwedSame ==
  ASSUME NEW n \in ConnType, NEW m \in ConnType, NEW t,
         n.requests = m.requests, n.todo = m.todo, n.lines = m.lines
  PROVE  Owed(n, t) <=> Owed(m, t)
BY OwedIs

\* A connection that owes nobody anything is empty.
LEMMA NothingOwed ==
  ASSUME NEW n \in ConnType, \A u \in Tasks : ~Owed(n, u)
  PROVE  n.requests = <<>> /\ n.lines = <<>> /\ n.todo = <<>>
<1>1. n.requests \in Seq(Tasks) /\ n.todo \in Seq(Lines) /\ n.lines \in Seq(Lines)
  BY DEF ConnType
<1>2. n.requests = <<>>
  <2> SUFFICES ASSUME n.requests # <<>> PROVE FALSE
    OBVIOUS
  <2>1. 1 \in DOMAIN n.requests /\ n.requests[1] \in Tasks
    BY <1>1
  <2> QED  BY <2>1, OwedIs
<1>3. n.todo = <<>>
  <2> SUFFICES ASSUME n.todo # <<>> PROVE FALSE
    OBVIOUS
  <2>1. 1 \in DOMAIN n.todo /\ n.todo[1] \in Lines
    BY <1>1
  <2>2. n.todo[1].of \in Tasks
    BY <2>1 DEF Lines
  <2> QED  BY <2>1, <2>2, OwedIs
<1>4. n.lines = <<>>
  <2> SUFFICES ASSUME n.lines # <<>> PROVE FALSE
    OBVIOUS
  <2>1. 1 \in DOMAIN n.lines /\ n.lines[1] \in Lines
    BY <1>1
  <2>2. n.lines[1].of \in Tasks
    BY <2>1 DEF Lines
  <2> QED  BY <2>1, <2>2, OwedIs
<1> QED  BY <1>2, <1>3, <1>4

\* n is what m carries when some of its lines have been taken.
Remains(m, n) ==
  /\ n \in ConnType
  /\ n.client = m.client /\ n.server = m.server /\ n.cut = m.cut
  /\ n.requests = m.requests /\ n.todo = m.todo
  /\ m.lines = <<>> => n.lines = <<>>
  /\ \A u \in Tasks : Owed(n, u) => Owed(m, u)

\* A call under way has a connection, and only one of a client's calls reads.
LEMMA Reads ==
  ASSUME SInv, NEW t \in Tasks
  PROVE  /\ ClientOf[t] \in Clients
         /\ task[t].pc \in Busy => ConnOf(t) \in Conns /\ task[t].on \in 1..gen[ClientOf[t]]
         /\ \A u \in Tasks :
              /\ task[t].pc \in {"reading", "yielding"} /\ task[u].pc \in {"reading", "yielding"}
              /\ ClientOf[u] = ClientOf[t]
              => u = t
<1>1. ClientOf[t] \in Clients
  BY SessionAssumption
<1>2. ASSUME task[t].pc \in Busy PROVE ConnOf(t) \in Conns /\ task[t].on \in 1..gen[ClientOf[t]]
  <2> DEFINE c == ClientOf[t]  g == task[t].on
  <2>1. g \in 1..gen[c] /\ gen[c] \in 1..MaxConnects[c] /\ MaxConnects[c] \in Nat
    BY <1>1, <1>2, SessionAssumption DEF SInv, Timed, Numbered
  <2>2. g \in 1..MaxConnects[c]
    BY <2>1
  <2> HIDE DEF c, g
  <2>3. <<c, g>> \in {c} \X (1..MaxConnects[c])
    BY <2>2
  <2> QED  BY <1>1, <2>1, <2>3 DEF Conns, ConnOf, c, g
<1>3. \A u \in Tasks :
              /\ task[t].pc \in {"reading", "yielding"} /\ task[u].pc \in {"reading", "yielding"}
              /\ ClientOf[u] = ClientOf[t]
              => u = t
  BY DEF SInv, Queued
<1> QED  BY <1>1, <1>2, <1>3

-----------------------------------------------------------------------------
(* What the steps do, part by part *)

\* The call of t as it is when it has ended.
EndedCall(t, pc, rows, n) ==
  Call(pc, task[t].req, 0, rows, ~n.cut, task[t].since, Len(versions))

\* The connection a call of t leaves.
LeftBy(t, n) ==
  Connection(n.client, n.server, n.requests, n.todo, n.lines, n.client /\ (n.cut \/ Owed(n, t)))

\* What the end of a call does to the state: release of _io_lock, and a mark on
\* a connection that still owes the call something.
LEMMA EndsDoes ==
  ASSUME Typed, NEW t \in Tasks, NEW pc, NEW rows, NEW n \in ConnType, ConnOf(t) \in Conns,
         Ends(t, pc, rows, n)
  PROVE  /\ task' = [u \in Tasks |-> IF u = t THEN EndedCall(t, pc, rows, n) ELSE task[u]]
         /\ lock' = [lock EXCEPT ![ClientOf[t]] = RemoveFirst(lock[ClientOf[t]], t)]
         /\ conn' = [cn \in Conns |-> IF cn = ConnOf(t) THEN LeftBy(t, n) ELSE conn[cn]]
<1>1. task' = [u \in Tasks |-> IF u = t THEN EndedCall(t, pc, rows, n) ELSE task[u]]
  <2> DEFINE k == task[t]
             k5 == Ending(k, pc, 0, rows, ~n.cut, Len(versions))
  <2>1. task' = [task EXCEPT ![t] = k5]
    BY DEF Ends, Ending
  <2>2. k \in CallType
    BY DEF Typed
  <2> HIDE DEF k
  <2>3. k5 = Call(pc, k.req, 0, rows, ~n.cut, k.since, Len(versions))
    BY <2>2, CallChanged
  <2> HIDE DEF k5
  <2> QED  BY <2>1, <2>3 DEF Typed, EndedCall, k
<1>2. lock' = [lock EXCEPT ![ClientOf[t]] = RemoveFirst(lock[ClientOf[t]], t)]
  BY DEF Ends
<1>3. conn' = [cn \in Conns |-> IF cn = ConnOf(t) THEN LeftBy(t, n) ELSE conn[cn]]
  <2> DEFINE m == [n EXCEPT !.cut = n.client /\ (n.cut \/ Owed(n, t))]
  <2>1. conn' = [conn EXCEPT ![ConnOf(t)] = m]
    BY DEF Ends
  <2>2. m = LeftBy(t, n)
    BY ConnChanged DEF LeftBy
  <2> HIDE DEF m
  <2> QED  BY <2>1, <2>2 DEF Typed
<1> QED  BY <1>1, <1>2, <1>3

SetTask(t, k) == task' = [u \in Tasks |-> IF u = t THEN k ELSE task[u]]
SetLock(c, q) == lock' = [d \in Clients |-> IF d = c THEN q ELSE lock[d]]
SetConn(cn, n) == conn' = [dn \in Conns |-> IF dn = cn THEN n ELSE conn[dn]]

-----------------------------------------------------------------------------
(* The invariant is kept *)

\* A call ends.
LEMMA EndKeeps ==
  ASSUME SInv, NEW t \in Tasks, NEW pc \in Ended, NEW rows \in Rows, NEW n,
         task[t].pc \in Busy, Remains(conn[ConnOf(t)], n),
         n = conn[ConnOf(t)] \/ task[t].pc \in {"reading", "yielding"},
         SetTask(t, EndedCall(t, pc, rows, n)),
         SetLock(ClientOf[t], RemoveFirst(lock[ClientOf[t]], t)),
         SetConn(ConnOf(t), LeftBy(t, n)),
         Result(EndedCall(t, pc, rows, n), versions),
         UNCHANGED <<linked, gen, versions>>, faults' \in 0..MaxFaults
  PROVE  SInv'
<1> DEFINE k == EndedCall(t, pc, rows, n)
           w == LeftBy(t, n)
           c == ClientOf[t]
           cn == ConnOf(t)
           m == conn[cn]
           q == RemoveFirst(lock[c], t)
<1>1. /\ c \in Clients /\ cn \in Conns
      /\ \A u \in Tasks : task[t].pc \in {"reading", "yielding"} /\ task[u].pc \in {"reading", "yielding"}
                            /\ ClientOf[u] = c => u = t
  BY Reads
<1>2. /\ k \in CallType /\ k.pc = pc /\ k.req = task[t].req /\ k.since = task[t].since
      /\ k.until = Len(versions) /\ k.rows = rows
  <2>1. task[t] \in CallType /\ Len(versions) \in Nat
    BY DEF SInv, Typed
  <2>2. k = Call(pc, task[t].req, 0, rows, ~n.cut, task[t].since, Len(versions))
    BY DEF EndedCall
  <2>3. pc \in PCs
    BY DEF PCs
  <2> QED  BY <2>1, <2>2, <2>3 DEF CallType, Call
<1>3. /\ n \in ConnType /\ m \in ConnType
      /\ w \in ConnType /\ w.client = m.client /\ w.server = m.server /\ w.requests = m.requests
      /\ w.todo = m.todo /\ w.lines = n.lines /\ w.cut = (m.client /\ (m.cut \/ Owed(n, t)))
      /\ n.client = m.client
  <2>1. n \in ConnType /\ m \in ConnType
    BY <1>1 DEF SInv, Typed, Remains
  <2>2. w = Connection(n.client, n.server, n.requests, n.todo, n.lines, n.client /\ (n.cut \/ Owed(n, t)))
    BY DEF LeftBy
  <2>3. (n.client /\ (n.cut \/ Owed(n, t))) \in BOOLEAN
    OBVIOUS
  <2>4. w \in ConnType
    BY <2>1, <2>2, <2>3 DEF ConnType, Connection
  <2> QED  BY <2>1, <2>2, <2>4, ConnFields DEF Remains
<1>4. /\ q \in Seq(Tasks) /\ Distinct(q)
      /\ \A u : In(u, q) <=> u # t /\ In(u, lock[c])
      /\ Head(lock[c]) # t => Head(q) = Head(lock[c])
  <2>1. lock[c] \in Seq(Tasks) /\ Distinct(lock[c]) /\ In(t, lock[c])
    BY <1>1 DEF SInv, Typed, Queued
  <2> QED  BY <2>1, LeavesQueue
<1>5. /\ task' = [u \in Tasks |-> IF u = t THEN k ELSE task[u]]
      /\ lock' = [d \in Clients |-> IF d = c THEN q ELSE lock[d]]
      /\ conn' = [dn \in Conns |-> IF dn = cn THEN w ELSE conn[dn]]
  BY DEF SetTask, SetLock, SetConn
<1>6. \A u \in Tasks : ConnOf(u)' = IF u = t THEN <<c, k.on>> ELSE ConnOf(u)
  BY <1>5 DEF ConnOf
<1>7. \A u \in Tasks : (Owed(w, u) => Owed(m, u)) /\ (Owed(w, u) => Owed(n, u))
  <2>1. \A u \in Tasks : Owed(w, u) <=> Owed(n, u)
    BY <1>3, OwedSame DEF Remains
  <2> QED  BY <2>1 DEF Remains
<1> HIDE DEF k, w, c, cn, m, q
<1>8. Typed'
  <2>1. ASSUME NEW d \in Clients PROVE QueueOf(d, lock[d])'
    <3>1. CASE d = c
      <4>1. \A i \in DOMAIN q : q[i] # t /\ In(q[i], lock[c]) /\ q[i] \in Tasks
        <5>1. \A i \in DOMAIN q : In(q[i], q)
          BY DEF In
        <5>2. \A i \in DOMAIN q : q[i] \in Tasks
          BY <1>4
        <5> QED  BY <1>4, <5>1, <5>2
      <4>2. \A u : In(u, lock[c]) => ClientOf[u] = c /\ task[u].pc \in Busy
        BY <1>1 DEF SInv, Typed, QueueOf, In
      <4> QED  BY <1>1, <1>4, <1>5, <3>1, <4>1, <4>2 DEF QueueOf
    <3>2. CASE d # c
      <4>1. \A i \in DOMAIN lock[d] : lock[d][i] \in Tasks /\ ClientOf[lock[d][i]] = d /\ task[lock[d][i]].pc \in Busy
        BY DEF SInv, Typed, QueueOf
      <4>2. \A i \in DOMAIN lock[d] : lock[d][i] # t
        BY <3>2, <4>1 DEF c
      <4> QED  BY <1>5, <3>2, <4>1, <4>2 DEF QueueOf
    <3> QED  BY <3>1, <3>2
  <2>2. /\ task' \in [Tasks -> CallType] /\ lock' \in [Clients -> Seq(Tasks)]
        /\ conn' \in [Conns -> ConnType]
    BY <1>2, <1>3, <1>4, <1>5 DEF SInv, Typed
  <2> QED  BY <2>1, <2>2 DEF SInv, Typed
<1>9. Asked'
  <2>1. pc \notin {"idle", "waiting", "yielding"} /\ task[t].pc # "idle"
    BY DEF Ended, Busy
  <2> QED  BY <1>2, <1>5, <2>1 DEF SInv, Asked
<1>10. Queued'
  <2>1. pc \notin Busy /\ pc \notin {"reading", "yielding"}
    BY DEF Busy, Ended
  <2>2. ASSUME NEW u \in Tasks, task'[u].pc \in Busy PROVE In(u, lock'[ClientOf[u]])
    <3>1. u # t /\ ClientOf[u] \in Clients /\ In(u, lock[ClientOf[u]])
      BY <1>2, <1>5, <2>1, <2>2, SessionAssumption DEF SInv, Queued
    <3> QED  BY <1>4, <1>5, <3>1
  <2>3. \A d \in Clients : Distinct(lock'[d])
    BY <1>4, <1>5 DEF SInv, Queued
  <2>4. ASSUME NEW u \in Tasks, task'[u].pc \in {"reading", "yielding"} PROVE Head(lock'[ClientOf[u]]) = u
    <3>1. u # t /\ ClientOf[u] \in Clients /\ Head(lock[ClientOf[u]]) = u
      BY <1>2, <1>5, <2>1, <2>4, SessionAssumption DEF SInv, Queued
    <3> QED  BY <1>4, <1>5, <3>1
  <2> QED  BY <2>2, <2>3, <2>4 DEF Queued
<1>11. Numbered'
  <2>1. \A dn \in Conns : conn'[dn].client = conn[dn].client
    BY <1>3, <1>5 DEF m
  <2>2. ASSUME NEW d \in Clients PROVE gen[d] \in 1..MaxConnects[d] /\ (linked[d] => conn'[Current(d)].client)
    <3>1. Current(d) \in Conns
      <4>1. gen[d] \in 1..MaxConnects[d]
        BY DEF SInv, Numbered
      <4> QED  BY <4>1 DEF Conns, Current
    <3> QED  BY <2>1, <3>1 DEF SInv, Numbered
  <2>3. ASSUME NEW d \in Clients, NEW g \in Nat, <<d, g>> \in Conns, g > gen[d] PROVE conn'[<<d, g>>] = NewConn
    <3>1. conn[<<d, g>>] = NewConn
      BY <2>3 DEF SInv, Numbered
    <3>2. <<d, g>> # cn
      <4>1. task[t].on \in 1..gen[c]
        BY Reads DEF c
      <4>2. gen[d] \in Nat
        BY SessionAssumption DEF SInv, Numbered
      <4> QED  BY <2>3, <4>1, <4>2 DEF cn, ConnOf, c
    <3> QED  BY <1>5, <2>3, <3>1, <3>2
  <2>4. ASSUME NEW d \in Clients, NEW g \in Nat, <<d, g>> \in Conns, conn'[<<d, g>>].client
        PROVE  g > gen[d] \/ (g = gen[d] /\ linked[d])
    BY <2>1, <2>4 DEF SInv, Numbered
  <2> QED  BY <2>2, <2>3, <2>4 DEF Numbered, Current
<1>12. Gone'
  <2>1. m.lines = <<>> => n.lines = <<>>
    BY DEF Remains, m, cn
  <2> QED  BY <1>1, <1>3, <1>5, <2>1 DEF SInv, Gone, m
<1>13. Timed'
  <2>1. pc \notin Busy
    BY DEF Busy, Ended
  <2>2. 1 <= k.since /\ k.since <= k.until /\ k.until <= Len(versions)
    <3>1. Len(versions) \in Nat /\ task[t].since \in Nat /\ task[t].until \in Nat
      BY DEF SInv, Typed, CallType
    <3>2. 1 <= task[t].since /\ task[t].since <= task[t].until /\ task[t].until <= Len(versions)
      BY DEF SInv, Timed
    <3> QED  BY <1>2, <3>1, <3>2
  <2> QED  BY <1>2, <1>5, <2>1, <2>2 DEF SInv, Timed
<1>14. Once'
  <2>1. \A dn \in Conns : conn'[dn].requests = conn[dn].requests
    BY <1>3, <1>5 DEF m
  <2>2. \A u \in Tasks : task'[u].pc \in {"idle", "waiting"} => task[u].pc \in {"idle", "waiting"}
    BY <1>2, <1>5 DEF Ended
  <2>3. \A dn \in Conns : \A i \in DOMAIN conn[dn].requests : conn[dn].requests[i] \in Tasks
    BY DEF SInv, Typed, ConnType
  <2>4. \A dn \in Conns : \A i \in DOMAIN conn[dn].requests : task[conn[dn].requests[i]].pc \notin {"idle", "waiting"}
    BY DEF SInv, Once
  <2>5. \A dn \in Conns : \A i \in DOMAIN conn[dn].requests : task'[conn[dn].requests[i]].pc \notin {"idle", "waiting"}
    BY <2>2, <2>3, <2>4
  <2> QED  BY <2>1, <2>5 DEF SInv, Once
<1>15. Owned'
  <2> SUFFICES ASSUME NEW dn \in Conns, Clean(conn'[dn])
               PROVE  /\ \A u \in Tasks : Owed(conn'[dn], u) =>
                           task'[u].pc \in {"reading", "yielding"} /\ ConnOf(u)' = dn
                      /\ conn'[dn].requests # <<>> =>
                           /\ Len(conn'[dn].requests) = 1 /\ conn'[dn].lines = <<>> /\ conn'[dn].todo = <<>>
                           /\ task'[Head(conn'[dn].requests)].rows = <<>>
    BY DEF Owned
  <2>1. Clean(conn[dn]) /\ (dn = cn => ~Owed(n, t)) /\ (\A u \in Tasks : Owed(conn'[dn], u) => Owed(conn[dn], u))
    BY <1>3, <1>5, <1>7 DEF Clean, m
  <2>2. conn'[dn].requests = conn[dn].requests /\ conn'[dn].todo = conn[dn].todo
        /\ (conn[dn].lines = <<>> => conn'[dn].lines = <<>>)
    BY <1>3, <1>5 DEF m, Remains, cn
  <2>3. ~Owed(conn'[dn], t)
    <3>1. CASE dn = cn
      BY <1>5, <1>7, <2>1, <3>1
    <3>2. CASE dn # cn
      BY <2>1, <3>2 DEF SInv, Owned, cn
    <3> QED  BY <3>1, <3>2
  <2>4. ASSUME NEW u \in Tasks, Owed(conn'[dn], u)
        PROVE  task'[u].pc \in {"reading", "yielding"} /\ ConnOf(u)' = dn
    <3>1. u # t /\ Owed(conn[dn], u)
      BY <2>1, <2>3, <2>4
    <3>2. task[u].pc \in {"reading", "yielding"} /\ ConnOf(u) = dn
      BY <2>1, <3>1 DEF SInv, Owned
    <3> QED  BY <1>5, <1>6, <3>1, <3>2
  <2>5. ASSUME conn'[dn].requests # <<>>
        PROVE  /\ Len(conn'[dn].requests) = 1 /\ conn'[dn].lines = <<>> /\ conn'[dn].todo = <<>>
               /\ task'[Head(conn'[dn].requests)].rows = <<>>
    <3>1. /\ Len(conn[dn].requests) = 1 /\ conn[dn].lines = <<>> /\ conn[dn].todo = <<>>
          /\ task[Head(conn[dn].requests)].rows = <<>>
      BY <2>1, <2>2, <2>5 DEF SInv, Owned
    <3>2. Head(conn[dn].requests) \in Tasks /\ Owed(conn'[dn], Head(conn[dn].requests))
      <4>1. conn[dn].requests \in Seq(Tasks) /\ conn[dn].requests # <<>>
        BY <2>2, <2>5 DEF SInv, Typed, ConnType
      <4>2. 1 \in DOMAIN conn[dn].requests /\ Head(conn[dn].requests) = conn[dn].requests[1]
        BY <4>1
      <4>3. conn'[dn] \in ConnType
        BY <1>8 DEF Typed
      <4> QED  BY <2>2, <4>1, <4>2, <4>3, OwedIs
    <3>3. Head(conn[dn].requests) # t
      BY <2>3, <3>2
    <3> QED  BY <1>5, <2>2, <3>1, <3>2, <3>3
  <2> QED  BY <2>4, <2>5
<1>16. Answered'
  <2> SUFFICES ASSUME NEW u \in Tasks, task'[u].pc \in {"reading", "yielding"}, Clean(conn'[ConnOf(u)'])
               PROVE  AnswerOf(task'[u], Seen(task'[u], versions), conn'[ConnOf(u)'].lines \o conn'[ConnOf(u)'].todo)
    BY DEF Answered
  <2>1. pc \notin {"reading", "yielding"}
    BY DEF Ended
  <2>2. u # t /\ task'[u] = task[u] /\ ConnOf(u)' = ConnOf(u) /\ task[u].pc \in {"reading", "yielding"}
    BY <1>2, <1>5, <1>6, <2>1
  <2>3. ConnOf(u) \in Conns
    BY <2>2, Reads DEF Busy
  <2>4. /\ conn'[ConnOf(u)].lines = conn[ConnOf(u)].lines
        /\ conn'[ConnOf(u)].todo = conn[ConnOf(u)].todo
        /\ Clean(conn'[ConnOf(u)]) => Clean(conn[ConnOf(u)])
    <3>1. CASE ConnOf(u) = cn
      <4>1. ClientOf[u] = c
        BY <3>1 DEF cn, c, ConnOf
      <4>2. n = m
        BY <1>1, <2>2, <4>1 DEF m, cn
      <4> QED  BY <1>1, <1>3, <1>5, <3>1, <4>2 DEF Clean, m
    <3>2. CASE ConnOf(u) # cn
      BY <1>5, <2>3, <3>2
    <3> QED  BY <3>1, <3>2
  <2> QED  BY <2>2, <2>4 DEF SInv, Answered
<1>17. Confirmed'
  BY <1>5 DEF SInv, Confirmed, k
<1> QED  BY <1>8, <1>9, <1>10, <1>11, <1>12, <1>13, <1>14, <1>15, <1>16, <1>17 DEF SInv

\* Who joins a queue comes last.
LEMMA JoinsQueue ==
  ASSUME NEW S, NEW q \in Seq(S), Distinct(q), NEW t \in S, ~In(t, q)
  PROVE  /\ Append(q, t) \in Seq(S)
         /\ Distinct(Append(q, t))
         /\ \A u : In(u, Append(q, t)) <=> u = t \/ In(u, q)
         /\ q # <<>> => Head(Append(q, t)) = Head(q)
<1> DEFINE r == Append(q, t)
<1>1. /\ Len(q) \in Nat /\ DOMAIN q = 1..Len(q) /\ r \in Seq(S) /\ DOMAIN r = 1..(Len(q) + 1)
      /\ \A i \in 1..Len(q) : r[i] = q[i]
      /\ r[Len(q) + 1] = t
  OBVIOUS
<1> HIDE DEF r
<1>2. Distinct(r)
  <2> SUFFICES ASSUME NEW i \in 1..(Len(q) + 1), NEW j \in 1..(Len(q) + 1), r[i] = r[j]
               PROVE  i = j
    BY <1>1 DEF Distinct
  <2>1. \A h \in 1..Len(q) : r[h] # t
    BY <1>1 DEF In
  <2>2. CASE i \in 1..Len(q) /\ j \in 1..Len(q)
    BY <1>1, <2>2 DEF Distinct
  <2>3. CASE i = Len(q) + 1 \/ j = Len(q) + 1
    BY <1>1, <2>1, <2>3
  <2> QED  BY <1>1, <2>2, <2>3
<1>3. ASSUME NEW u PROVE In(u, r) <=> u = t \/ In(u, q)
  <2>1. ASSUME In(u, r) PROVE u = t \/ In(u, q)
    BY <1>1, <2>1 DEF In
  <2>2. ASSUME In(u, q) PROVE In(u, r)
    BY <1>1, <2>2 DEF In
  <2>3. In(t, r)
    BY <1>1 DEF In
  <2> QED  BY <2>1, <2>2, <2>3
<1>4. q # <<>> => Head(r) = Head(q)
  BY <1>1
<1> QED  BY <1>1, <1>2, <1>3, <1>4 DEF r

\* A call is begun that waits for the lock, or that raises at once.
LEMMA BeginKeeps ==
  ASSUME SInv, NEW t \in Tasks, task[t].pc = "idle",
         NEW k \in CallType, k.pc \in {"waiting", "raised"}, k.req \in Requests, k.rows = <<>>,
         k.on \in 1..gen[ClientOf[t]],
         1 <= k.since, k.since <= k.until, k.until <= Len(versions),
         SetTask(t, k),
         \/ k.pc = "raised" /\ lock' = lock
         \/ /\ k.pc = "waiting" /\ lock[ClientOf[t]] # <<>>
            /\ SetLock(ClientOf[t], Append(lock[ClientOf[t]], t)),
         UNCHANGED <<linked, gen, conn, versions, faults>>
  PROVE  SInv'
<1> DEFINE c == ClientOf[t]
           q == IF k.pc = "raised" THEN lock[c] ELSE Append(lock[c], t)
<1>1. c \in Clients
  BY Reads
<1>2. /\ q \in Seq(Tasks) /\ Distinct(q)
      /\ \A u : In(u, q) <=> In(u, lock[c]) \/ (u = t /\ k.pc = "waiting")
      /\ lock[c] # <<>> => Head(q) = Head(lock[c])
      /\ lock' = [d \in Clients |-> IF d = c THEN q ELSE lock[d]]
  <2>1. lock[c] \in Seq(Tasks) /\ Distinct(lock[c])
    BY <1>1 DEF SInv, Typed, Queued
  <2>2. ~In(t, lock[c])
    BY <1>1 DEF SInv, Typed, QueueOf, In, Busy
  <2>3. CASE k.pc = "raised"
    BY <2>1, <2>3 DEF SInv, Typed
  <2>4. CASE k.pc = "waiting"
    <3>1. q = Append(lock[c], t)
      BY <2>4
    <3> HIDE DEF q
    <3> QED  BY <2>1, <2>2, <2>4, <3>1, JoinsQueue DEF SetLock
  <2> QED  BY <2>3, <2>4
<1>3. task' = [u \in Tasks |-> IF u = t THEN k ELSE task[u]]
  BY DEF SetTask
<1> HIDE DEF q, c
<1>4. Typed'
  <2>1. ASSUME NEW d \in Clients PROVE QueueOf(d, lock[d])'
    <3>1. \A i \in DOMAIN lock'[d] : lock'[d][i] \in Tasks
      <4>1. lock'[d] \in Seq(Tasks)
        BY <1>2 DEF SInv, Typed
      <4> QED  BY <4>1
    <3>2. \A u \in Tasks : In(u, lock'[d]) => ClientOf[u] = d /\ task'[u].pc \in Busy
      <4>1. \A u \in Tasks : In(u, lock[d]) => u # t /\ ClientOf[u] = d /\ task[u].pc \in Busy
        BY DEF SInv, Typed, QueueOf, In, Busy
      <4>2. \A u \in Tasks : In(u, lock'[d]) => In(u, lock[d]) \/ (u = t /\ d = c /\ k.pc = "waiting")
        BY <1>2
      <4> QED  BY <1>3, <4>1, <4>2 DEF c, Busy
    <3>3. \A i \in DOMAIN lock'[d] : In(lock'[d][i], lock'[d])
      BY DEF In
    <3> QED  BY <3>1, <3>2, <3>3 DEF QueueOf
  <2>2. task' \in [Tasks -> CallType] /\ lock' \in [Clients -> Seq(Tasks)]
    BY <1>2, <1>3 DEF SInv, Typed
  <2> QED  BY <2>1, <2>2 DEF SInv, Typed
<1>5. Asked'
  BY <1>3 DEF SInv, Asked
<1>6. Queued'
  <2>1. ASSUME NEW u \in Tasks, task'[u].pc \in Busy PROVE In(u, lock'[ClientOf[u]])
    <3>1. ClientOf[u] \in Clients
      BY SessionAssumption
    <3>2. CASE u = t
      BY <1>2, <1>3, <2>1, <3>1, <3>2 DEF c, Busy
    <3>3. CASE u # t
      <4>1. In(u, lock[ClientOf[u]])
        BY <1>3, <2>1, <3>3 DEF SInv, Queued
      <4> QED  BY <1>2, <3>1, <4>1
    <3> QED  BY <3>2, <3>3
  <2>2. \A d \in Clients : Distinct(lock'[d])
    BY <1>2 DEF SInv, Queued
  <2>3. ASSUME NEW u \in Tasks, task'[u].pc \in {"reading", "yielding"} PROVE Head(lock'[ClientOf[u]]) = u
    <3>1. u # t /\ ClientOf[u] \in Clients /\ Head(lock[ClientOf[u]]) = u /\ In(u, lock[ClientOf[u]])
      BY <1>3, <2>3, SessionAssumption DEF SInv, Queued, Busy
    <3>2. lock[ClientOf[u]] # <<>>
      BY <3>1 DEF In
    <3> QED  BY <1>2, <3>1, <3>2
  <2> QED  BY <2>1, <2>2, <2>3 DEF Queued
<1>7. Numbered' /\ Gone'
  BY DEF SInv, Numbered, Gone, Current
<1>8. Timed'
  BY <1>3 DEF SInv, Timed
<1>9. ASSUME NEW cn \in Conns
      PROVE  /\ \A i \in DOMAIN conn[cn].requests : conn[cn].requests[i] \in Tasks \ {t}
             /\ Clean(conn[cn]) => ~Owed(conn[cn], t)
  <2>1. \A i \in DOMAIN conn[cn].requests : conn[cn].requests[i] \in Tasks
    BY DEF SInv, Typed, ConnType
  <2>2. \A i \in DOMAIN conn[cn].requests : conn[cn].requests[i] # t
    BY DEF SInv, Once
  <2> QED  BY <2>1, <2>2 DEF SInv, Owned
<1>10. Once'
  BY <1>3, <1>9 DEF SInv, Once
<1>11. \A u \in Tasks : u # t => ConnOf(u)' = ConnOf(u)
  BY <1>3 DEF ConnOf
<1>12. Owned'
  <2> SUFFICES ASSUME NEW dn \in Conns, Clean(conn[dn])
               PROVE  /\ \A u \in Tasks : Owed(conn[dn], u) =>
                           task'[u].pc \in {"reading", "yielding"} /\ ConnOf(u)' = dn
                      /\ conn[dn].requests # <<>> =>
                           /\ Len(conn[dn].requests) = 1 /\ conn[dn].lines = <<>> /\ conn[dn].todo = <<>>
                           /\ task'[Head(conn[dn].requests)].rows = <<>>
    BY DEF Owned
  <2>1. \A u \in Tasks : Owed(conn[dn], u) => u # t
    BY <1>9
  <2>2. conn[dn].requests # <<>> => Head(conn[dn].requests) \in Tasks \ {t}
    <3>1. conn[dn].requests \in Seq(Tasks)
      BY DEF SInv, Typed, ConnType
    <3>2. conn[dn].requests # <<>> => 1 \in DOMAIN conn[dn].requests /\ Head(conn[dn].requests) = conn[dn].requests[1]
      BY <3>1
    <3> QED  BY <1>9, <3>2
  <2> QED  BY <1>3, <1>11, <2>1, <2>2 DEF SInv, Owned
<1>13. Answered'
  <2> SUFFICES ASSUME NEW u \in Tasks, task'[u].pc \in {"reading", "yielding"}, Clean(conn[ConnOf(u)'])
               PROVE  AnswerOf(task'[u], Seen(task'[u], versions), conn[ConnOf(u)'].lines \o conn[ConnOf(u)'].todo)
    BY DEF Answered
  <2>1. u # t /\ task'[u] = task[u]
    BY <1>3
  <2> QED  BY <1>11, <2>1 DEF SInv, Answered
<1>14. Confirmed'
  <2>1. Result(k, versions)
    BY DEF Result
  <2> QED  BY <1>3, <2>1 DEF SInv, Confirmed
<1> QED  BY <1>4, <1>5, <1>6, <1>7, <1>8, <1>10, <1>12, <1>13, <1>14 DEF SInv

\* A request is sent over the client's latest connection, which carries
\* nothing unless a call on it was cut short.
LEMMA SendKeeps ==
  ASSUME SInv, NEW t \in Tasks, task[t].pc \in {"idle", "waiting"}, linked[ClientOf[t]],
         NEW k \in CallType, k.pc = "reading", k.req \in Requests, k.rows = <<>>,
         k.on = gen[ClientOf[t]],
         1 <= k.since, k.since <= k.until, k.until <= Len(versions),
         SetTask(t, k),
         \/ task[t].pc = "waiting" /\ Head(lock[ClientOf[t]]) = t /\ lock' = lock
         \/ /\ task[t].pc = "idle" /\ lock[ClientOf[t]] = <<>>
            /\ SetLock(ClientOf[t], <<t>>),
         NEW w \in ConnType,
         w.client = conn[Current(ClientOf[t])].client,
         w.requests = Append(conn[Current(ClientOf[t])].requests, t),
         w.todo = conn[Current(ClientOf[t])].todo, w.lines = conn[Current(ClientOf[t])].lines,
         w.cut = conn[Current(ClientOf[t])].cut,
         SetConn(Current(ClientOf[t]), w),
         UNCHANGED <<linked, gen, versions, faults>>
  PROVE  SInv'
<1> DEFINE c == ClientOf[t]
           cn == Current(c)
           m == conn[cn]
           q == IF task[t].pc = "waiting" THEN lock[c] ELSE <<t>>
<1>1. /\ c \in Clients /\ cn \in Conns /\ m \in ConnType /\ m.requests \in Seq(Tasks)
      /\ gen[c] \in Nat /\ gen[c] >= 1
  <2>1. c \in Clients /\ gen[c] \in 1..MaxConnects[c] /\ MaxConnects[c] \in Nat
    BY SessionAssumption, Reads DEF SInv, Numbered
  <2>2. cn \in Conns
    BY <2>1 DEF Conns, Current
  <2> QED  BY <2>1, <2>2 DEF SInv, Typed, ConnType
<1>2. /\ q \in Seq(Tasks) /\ Distinct(q) /\ Head(q) = t /\ In(t, q)
      /\ \A u : In(u, lock[c]) => In(u, q)
      /\ \A u : In(u, q) => u = t \/ In(u, lock[c])
      /\ lock' = [d \in Clients |-> IF d = c THEN q ELSE lock[d]]
  <2>1. lock[c] \in Seq(Tasks) /\ Distinct(lock[c])
    BY <1>1 DEF SInv, Typed, Queued
  <2>2. CASE task[t].pc = "waiting"
    <3>1. In(t, lock[c])
      BY <2>2 DEF SInv, Queued, Busy
    <3> QED  BY <2>1, <2>2, <3>1 DEF SInv, Typed
  <2>3. CASE task[t].pc = "idle"
    BY <2>3 DEF SetLock, In, Distinct
  <2> QED  BY <2>2, <2>3
<1>3. ASSUME NEW u \in Tasks, task[u].pc \in {"reading", "yielding"} PROVE ClientOf[u] # c
  <2>1. In(u, lock[ClientOf[u]]) /\ Head(lock[ClientOf[u]]) = u /\ u # t
    BY <1>3 DEF SInv, Queued, Busy
  <2>2. lock[ClientOf[u]] # <<>>
    BY <2>1 DEF In
  <2> QED  BY <2>1, <2>2
<1>4. /\ task' = [u \in Tasks |-> IF u = t THEN k ELSE task[u]]
      /\ conn' = [dn \in Conns |-> IF dn = cn THEN w ELSE conn[dn]]
  BY DEF SetTask, SetConn
<1>5. /\ w.client = m.client /\ w.todo = m.todo /\ w.lines = m.lines /\ w.cut = m.cut
      /\ w.requests = Append(m.requests, t)
      /\ Len(m.requests) \in Nat /\ DOMAIN m.requests = 1..Len(m.requests)
      /\ DOMAIN w.requests = 1..(Len(m.requests) + 1)
      /\ Len(w.requests) = Len(m.requests) + 1
      /\ \A i \in 1..Len(m.requests) : w.requests[i] = m.requests[i]
      /\ w.requests[Len(m.requests) + 1] = t
  <2>1. w.requests = Append(m.requests, t) /\ m.requests \in Seq(Tasks)
    BY <1>1
  <2> QED  BY <2>1
<1>6. \A u \in Tasks : ConnOf(u)' = IF u = t THEN cn ELSE ConnOf(u)
  BY <1>4 DEF ConnOf, Current
<1> HIDE DEF c, cn, m, q
<1>7. \A dn \in Conns : \A i \in DOMAIN conn[dn].requests :
        conn[dn].requests[i] \in Tasks /\ conn[dn].requests[i] # t
  BY DEF SInv, Typed, ConnType, Once
<1>8. ASSUME NEW dn \in Conns, Clean(conn[dn]) PROVE ~Owed(conn[dn], t)
  BY <1>8 DEF SInv, Owned
<1>9. ASSUME Clean(m) PROVE m.requests = <<>> /\ m.lines = <<>> /\ m.todo = <<>>
  <2>1. \A u \in Tasks : ~Owed(m, u)
    <3> SUFFICES ASSUME NEW u \in Tasks, Owed(m, u) PROVE FALSE
      OBVIOUS
    <3>1. task[u].pc \in {"reading", "yielding"} /\ ConnOf(u) = cn
      BY <1>1, <1>9 DEF SInv, Owned, m
    <3>2. ClientOf[u] = c
      BY <3>1 DEF ConnOf, cn, Current
    <3> QED  BY <1>3, <3>1, <3>2
  <2> QED  BY <1>1, <2>1, NothingOwed
<1>10. Typed'
  <2>1. ASSUME NEW d \in Clients PROVE QueueOf(d, lock[d])'
    <3>1. \A i \in DOMAIN lock'[d] : lock'[d][i] \in Tasks
      <4>1. lock'[d] \in Seq(Tasks)
        BY <1>2 DEF SInv, Typed
      <4> QED  BY <4>1
    <3>2. \A u \in Tasks : In(u, lock'[d]) => ClientOf[u] = d /\ task'[u].pc \in Busy
      <4>1. \A u \in Tasks : In(u, lock[d]) => ClientOf[u] = d /\ task[u].pc \in Busy
        BY DEF SInv, Typed, QueueOf, In, Busy
      <4>2. \A u \in Tasks : In(u, lock'[d]) => In(u, lock[d]) \/ (u = t /\ d = c)
        BY <1>2
      <4> QED  BY <1>4, <4>1, <4>2 DEF c, Busy
    <3>3. \A i \in DOMAIN lock'[d] : In(lock'[d][i], lock'[d])
      BY DEF In
    <3> QED  BY <3>1, <3>2, <3>3 DEF QueueOf
  <2>2. task' \in [Tasks -> CallType] /\ lock' \in [Clients -> Seq(Tasks)] /\ conn' \in [Conns -> ConnType]
    BY <1>2, <1>4 DEF SInv, Typed
  <2> QED  BY <2>1, <2>2 DEF SInv, Typed
<1>11. Asked'
  BY <1>4 DEF SInv, Asked
<1>12. Queued'
  <2>1. ASSUME NEW u \in Tasks, task'[u].pc \in Busy PROVE In(u, lock'[ClientOf[u]])
    <3>1. ClientOf[u] \in Clients
      BY SessionAssumption
    <3>2. CASE u = t
      BY <1>2, <3>1, <3>2 DEF c
    <3>3. CASE u # t
      <4>1. In(u, lock[ClientOf[u]])
        BY <1>4, <2>1, <3>3 DEF SInv, Queued
      <4> QED  BY <1>2, <3>1, <4>1
    <3> QED  BY <3>2, <3>3
  <2>2. \A d \in Clients : Distinct(lock'[d])
    BY <1>2 DEF SInv, Queued
  <2>3. ASSUME NEW u \in Tasks, task'[u].pc \in {"reading", "yielding"} PROVE Head(lock'[ClientOf[u]]) = u
    <3>1. ClientOf[u] \in Clients
      BY SessionAssumption
    <3>2. CASE u = t
      BY <1>2, <3>1, <3>2 DEF c
    <3>3. CASE u # t
      BY <1>2, <1>3, <1>4, <2>3, <3>1, <3>3 DEF SInv, Queued
    <3> QED  BY <3>2, <3>3
  <2> QED  BY <2>1, <2>2, <2>3 DEF Queued
<1>13. Numbered'
  <2>1. \A dn \in Conns : conn'[dn].client = conn[dn].client
    BY <1>4, <1>5 DEF m
  <2>2. ASSUME NEW d \in Clients PROVE gen[d] \in 1..MaxConnects[d] /\ (linked[d] => conn'[Current(d)].client)
    <3>1. Current(d) \in Conns
      <4>1. gen[d] \in 1..MaxConnects[d]
        BY DEF SInv, Numbered
      <4> QED  BY <4>1 DEF Conns, Current
    <3> QED  BY <2>1, <3>1 DEF SInv, Numbered
  <2>3. ASSUME NEW d \in Clients, NEW g \in Nat, <<d, g>> \in Conns, g > gen[d] PROVE conn'[<<d, g>>] = NewConn
    <3>1. conn[<<d, g>>] = NewConn
      BY <2>3 DEF SInv, Numbered
    <3>2. <<d, g>> # cn
      BY <1>1, <2>3 DEF cn, Current
    <3> QED  BY <1>4, <2>3, <3>1, <3>2
  <2>4. ASSUME NEW d \in Clients, NEW g \in Nat, <<d, g>> \in Conns, conn'[<<d, g>>].client
        PROVE  g > gen[d] \/ (g = gen[d] /\ linked[d])
    BY <2>1, <2>4 DEF SInv, Numbered
  <2> QED  BY <2>2, <2>3, <2>4 DEF Numbered, Current
<1>14. Gone'
  BY <1>1, <1>4, <1>5 DEF SInv, Gone, m
<1>15. Timed'
  BY <1>1, <1>4 DEF SInv, Timed, c
<1>16. Once'
  <2>0. ASSUME NEW a \in Conns, NEW i \in DOMAIN conn'[a].requests
        PROVE  \/ /\ conn'[a].requests[i] # t
                  /\ i \in DOMAIN conn[a].requests /\ conn'[a].requests[i] = conn[a].requests[i]
               \/ conn'[a].requests[i] = t /\ a = cn /\ i = Len(m.requests) + 1
    <3>1. CASE a = cn
      <4>1. conn'[a] = w /\ conn[a] = m
        BY <1>1, <1>4, <3>1 DEF m
      <4>2. i \in 1..(Len(m.requests) + 1)
        BY <1>5, <4>1
      <4>3. CASE i \in 1..Len(m.requests)
        <5>1. m.requests[i] # t
          BY <1>5, <1>7, <4>1, <4>3
        <5> QED  BY <1>5, <4>1, <4>3, <5>1
      <4>4. CASE i = Len(m.requests) + 1
        BY <1>5, <3>1, <4>1, <4>4
      <4> QED  BY <1>5, <4>2, <4>3, <4>4
    <3>2. CASE a # cn
      <4>1. conn'[a] = conn[a]
        BY <1>4, <3>2
      <4> QED  BY <1>7, <4>1
    <3> QED  BY <3>1, <3>2
  <2>1. ASSUME NEW a \in Conns, NEW b \in Conns, NEW i \in DOMAIN conn'[a].requests,
               NEW j \in DOMAIN conn'[b].requests, conn'[a].requests[i] = conn'[b].requests[j]
        PROVE  a = b /\ i = j
    <3>1. CASE conn'[a].requests[i] = t
      <4>1. a = cn /\ i = Len(m.requests) + 1
        BY <2>0, <3>1
      <4>2. b = cn /\ j = Len(m.requests) + 1
        BY <2>0, <2>1, <3>1
      <4> QED  BY <4>1, <4>2
    <3>2. CASE conn'[a].requests[i] # t
      <4>1. i \in DOMAIN conn[a].requests /\ conn'[a].requests[i] = conn[a].requests[i]
        BY <2>0, <3>2
      <4>2. j \in DOMAIN conn[b].requests /\ conn'[b].requests[j] = conn[b].requests[j]
        BY <2>0, <2>1, <3>2
      <4>3. conn[a].requests[i] = conn[b].requests[j]
        BY <2>1, <4>1, <4>2
      <4>4. \A x, y \in Conns : \A g \in DOMAIN conn[x].requests, h \in DOMAIN conn[y].requests :
              conn[x].requests[g] = conn[y].requests[h] => x = y /\ g = h
        BY DEF SInv, Once
      <4> HIDE DEF SInv
      <4> QED  BY <4>1, <4>2, <4>3, <4>4
    <3> QED  BY <3>1, <3>2
  <2>2. ASSUME NEW a \in Conns, NEW i \in DOMAIN conn'[a].requests
        PROVE  task'[conn'[a].requests[i]].pc \notin {"idle", "waiting"}
    <3>1. CASE conn'[a].requests[i] = t
      BY <1>4, <3>1
    <3>2. CASE conn'[a].requests[i] # t
      <4>1. i \in DOMAIN conn[a].requests /\ conn'[a].requests[i] = conn[a].requests[i]
        BY <2>0, <3>2
      <4> QED  BY <1>4, <1>7, <3>2, <4>1 DEF SInv, Once
    <3> QED  BY <3>1, <3>2
  <2> QED  BY <2>1, <2>2 DEF Once
<1>17. Owned'
  <2> SUFFICES ASSUME NEW dn \in Conns, Clean(conn'[dn])
               PROVE  /\ \A u \in Tasks : Owed(conn'[dn], u) =>
                           task'[u].pc \in {"reading", "yielding"} /\ ConnOf(u)' = dn
                      /\ conn'[dn].requests # <<>> =>
                           /\ Len(conn'[dn].requests) = 1 /\ conn'[dn].lines = <<>> /\ conn'[dn].todo = <<>>
                           /\ task'[Head(conn'[dn].requests)].rows = <<>>
    BY DEF Owned
  <2>1. CASE dn = cn
    <3>1. conn'[dn] = w /\ Clean(m)
      BY <1>1, <1>4, <1>5, <2>1 DEF Clean
    <3>2. w.requests = <<t>> /\ w.lines = <<>> /\ w.todo = <<>>
      <4>1. m.requests = <<>> /\ m.lines = <<>> /\ m.todo = <<>>
        BY <1>9, <3>1
      <4> QED  BY <1>5, <4>1
    <3>3. \A u \in Tasks : Owed(w, u) => u = t
      BY <3>2, OwedIs
    <3> QED  BY <1>4, <1>6, <2>1, <3>1, <3>2, <3>3
  <2>2. CASE dn # cn
    <3>1. conn'[dn] = conn[dn]
      BY <1>4, <2>2
    <3>2. \A u \in Tasks : Owed(conn[dn], u) => u # t
      BY <1>8, <3>1
    <3>3. conn[dn].requests # <<>> => Head(conn[dn].requests) \in Tasks \ {t}
      <4>1. conn[dn].requests \in Seq(Tasks)
        BY DEF SInv, Typed, ConnType
      <4>2. conn[dn].requests # <<>> => 1 \in DOMAIN conn[dn].requests /\ Head(conn[dn].requests) = conn[dn].requests[1]
        BY <4>1
      <4> QED  BY <1>7, <4>2
    <3> QED  BY <1>4, <1>6, <3>1, <3>2, <3>3 DEF SInv, Owned
  <2> QED  BY <2>1, <2>2
<1>18. Answered'
  <2> SUFFICES ASSUME NEW u \in Tasks, task'[u].pc \in {"reading", "yielding"}, Clean(conn'[ConnOf(u)'])
               PROVE  AnswerOf(task'[u], Seen(task'[u], versions), conn'[ConnOf(u)'].lines \o conn'[ConnOf(u)'].todo)
    BY DEF Answered
  <2>1. CASE u = t
    <3>1. conn'[ConnOf(u)'] = w /\ Clean(m)
      BY <1>1, <1>4, <1>5, <1>6, <2>1 DEF Clean
    <3>2. m.lines = <<>> /\ m.todo = <<>>
      BY <1>9, <3>1
    <3>3. w.lines \o w.todo = <<>>
      BY <1>5, <3>2
    <3>4. AnswerOf(k, Seen(k, versions), <<>>)
      BY DEF AnswerOf, WriteAnswer, GetAnswer, RangeAnswer
    <3> QED  BY <1>4, <2>1, <3>1, <3>3, <3>4
  <2>2. CASE u # t
    <3>1. task'[u] = task[u] /\ ConnOf(u)' = ConnOf(u) /\ task[u].pc \in {"reading", "yielding"}
      BY <1>4, <1>6, <2>2
    <3>2. ConnOf(u) \in Conns /\ ClientOf[u] # c
      BY <1>3, <3>1, Reads DEF Busy
    <3>3. ConnOf(u) # cn
      BY <3>2 DEF ConnOf, cn, Current
    <3>4. conn'[ConnOf(u)] = conn[ConnOf(u)]
      BY <1>4, <3>2, <3>3
    <3> QED  BY <3>1, <3>4 DEF SInv, Answered
  <2> QED  BY <2>1, <2>2
<1>19. Confirmed'
  <2>1. Result(k, versions)
    BY DEF Result
  <2> QED  BY <1>4, <2>1 DEF SInv, Confirmed
<1> QED  BY <1>10, <1>11, <1>12, <1>13, <1>14, <1>15, <1>16, <1>17, <1>18, <1>19 DEF SInv

\* The first of what has arrived and what is to come is the first that arrived.
LEMMA FirstLine ==
  ASSUME NEW S, NEW a \in Seq(S), NEW b \in Seq(S), a # <<>>
  PROVE  /\ a \o b \in Seq(S) /\ a \o b # <<>> /\ Head(a \o b) = Head(a)
         /\ Tail(a \o b) = Tail(a) \o b
<1> DEFINE q == a \o b
           r == Tail(a) \o b
<1>1. /\ Len(a) \in Nat /\ Len(b) \in Nat /\ Len(a) >= 1
      /\ q \in Seq(S) /\ Len(q) = Len(a) + Len(b)
      /\ Tail(a) \in Seq(S) /\ Len(Tail(a)) = Len(a) - 1
      /\ \A i \in 1..(Len(a) - 1) : Tail(a)[i] = a[i + 1]
      /\ r \in Seq(S) /\ Len(r) = Len(a) - 1 + Len(b)
  OBVIOUS
<1>2. /\ \A i \in 1..(Len(a) + Len(b)) : q[i] = IF i <= Len(a) THEN a[i] ELSE b[i - Len(a)]
      /\ \A i \in 1..(Len(a) - 1 + Len(b)) :
           r[i] = IF i <= Len(a) - 1 THEN Tail(a)[i] ELSE b[i - (Len(a) - 1)]
  BY <1>1, ConcatProperties
<1> HIDE DEF q, r
<1>3. q # <<>> /\ Head(q) = q[1] /\ Head(a) = a[1] /\ q[1] = a[1]
  BY <1>1, <1>2
<1>4. Tail(q) \in Seq(S) /\ Len(Tail(q)) = Len(a) + Len(b) - 1 /\ \A i \in 1..(Len(a) + Len(b) - 1) : Tail(q)[i] = q[i + 1]
  BY <1>1, <1>3
<1>5. \A i \in 1..(Len(a) + Len(b) - 1) : q[i + 1] = r[i]
  <2> TAKE i \in 1..(Len(a) + Len(b) - 1)
  <2>1. i + 1 \in 1..(Len(a) + Len(b)) /\ i \in 1..(Len(a) - 1 + Len(b))
    BY <1>1
  <2>2. CASE i <= Len(a) - 1
    BY <1>1, <1>2, <2>1, <2>2
  <2>3. CASE ~ (i <= Len(a) - 1)
    <3>1. ~ (i + 1 <= Len(a)) /\ (i + 1) - Len(a) = i - (Len(a) - 1)
      BY <1>1, <2>1, <2>3
    <3> QED  BY <1>2, <2>1, <2>3, <3>1
  <2> QED  BY <2>2, <2>3
<1>6. Tail(q) = r
  <2>1. Len(Tail(q)) = Len(r) /\ \A i \in 1..Len(r) : Tail(q)[i] = r[i]
    BY <1>1, <1>4, <1>5
  <2> DEFINE h == Tail(q)
  <2>2. h \in Seq(S)
    BY <1>4
  <2> HIDE DEF h
  <2>3. h = r
    BY <1>1, <2>1, <2>2, SeqEqual DEF h
  <2> QED  BY <2>3 DEF h
<1> QED  BY <1>1, <1>3, <1>6 DEF q, r

\* A chunk of a range is taken, or a line that is neither a chunk nor the end.
LEMMA RangeGoesOn ==
  ASSUME NEW k, NEW D \in SUBSET Stores, NEW q \in Seq(Lines), q # <<>>,
         k.req.from \in Nat, k.req.to \in Nat,
         RangeAnswer(k, D, q), Head(q).kind # "done", NEW j, j.req = k.req,
         j.rows = IF Head(q).kind = "chunk" THEN k.rows \o Head(q).rows ELSE k.rows
  PROVE  RangeAnswer(j, D, Tail(q))
<1> DEFINE r == Tail(q)
<1>1. /\ Len(q) \in Nat /\ Len(q) >= 1 /\ DOMAIN q = 1..Len(q) /\ Head(q) = q[1] /\ Len(r) = Len(q) - 1
      /\ DOMAIN r = 1..(Len(q) - 1) /\ \A i \in 1..(Len(q) - 1) : r[i] = q[i + 1]
  OBVIOUS
<1> HIDE DEF r
<1>2. CASE \A i \in DOMAIN q : q[i].kind # "done"
  <2>1. \A i \in DOMAIN r : r[i].kind # "done"
    BY <1>1, <1>2
  <2> QED  BY <2>1 DEF RangeAnswer, r
<1>3. ASSUME NEW v \in D, NEW m \in 0..Len(Chunks(RowsOf(v, k.req.from, k.req.to))),
             Streaming(RowsOf(v, k.req.from, k.req.to), m, k.rows, q)
      PROVE  RangeAnswer(j, D, r)
  <2> DEFINE R == RowsOf(v, k.req.from, k.req.to)
             n == Len(Chunks(R))
  <2>1. R \in Rows /\ Streaming(R, m, k.rows, q) /\ n \in Nat /\ m \in 0..n
    <3>1. R \in Rows
      BY RowsAreTheRange DEF Rows
    <3> HIDE DEF R
    <3>2. n \in Nat
      BY <3>1, ChunksAre DEF Rows
    <3> QED  BY <1>3, <3>1, <3>2 DEF R
  <2> HIDE DEF R
  <2>2. Len(q) > 1 /\ m < n
    <3>1. Len(q) # 1
      BY <1>1, <2>1 DEF Streaming
    <3> QED  BY <1>1, <2>1, <3>1 DEF Streaming
  <2>0. m \in Nat /\ m + 1 \in 0..n /\ Len(q) + m = n + 1
    BY <2>1, <2>2 DEF Streaming
  <2>3. q[1].kind = "chunk" /\ q[1].rows = Chunks(R)[1 + m].rows
    <3>1. 1 \in DOMAIN q /\ 1 < Len(q)
      BY <1>1, <2>2
    <3> QED  BY <2>1, <3>1 DEF Streaming
  <2>4. j.rows = SubSeq(R, 1, Least((m + 1) * ChunkSize, Len(R)))
    <3>1. m \in Nat /\ m < Len(Chunks(R)) /\ m <= Len(Chunks(R)) /\ 1 + m = m + 1
      BY <2>1, <2>2
    <3>2. SubSeq(R, 1, Least(m * ChunkSize, Len(R))) \o Chunks(R)[m + 1].rows = SubSeq(R, 1, Least((m + 1) * ChunkSize, Len(R)))
      BY <2>1, <3>1, ChunkByChunk DEF Rows
    <3>3. k.rows = SubSeq(R, 1, Least(m * ChunkSize, Len(R)))
      BY <2>1 DEF Streaming
    <3> QED  BY <1>1, <2>3, <3>1, <3>2, <3>3
  <2>5. Len(r) + (m + 1) = n + 1
    BY <1>1, <2>1 DEF Streaming
  <2>6. ASSUME NEW i \in DOMAIN r
        PROVE  IF i < Len(r) THEN r[i].kind = "chunk" /\ r[i].rows = Chunks(R)[i + (m + 1)].rows
               ELSE r[i].kind = "done" /\ r[i].rows = <<>>
    <3>1. i + 1 \in DOMAIN q /\ r[i] = q[i + 1] /\ (i + 1 < Len(q) <=> i < Len(r))
      BY <1>1
    <3>3. (i + 1) + m = i + (m + 1)
      BY <1>1, <2>0
    <3>2. IF i + 1 < Len(q) THEN q[i + 1].kind = "chunk" /\ q[i + 1].rows = Chunks(R)[(i + 1) + m].rows
          ELSE q[i + 1].kind = "done" /\ q[i + 1].rows = <<>>
      BY <2>1, <3>1 DEF Streaming
    <3> QED  BY <3>1, <3>2, <3>3
  <2>7. m + 1 \in 0..n /\ Streaming(R, m + 1, j.rows, r)
    BY <2>0, <2>4, <2>5, <2>6 DEF Streaming
  <2> QED  BY <1>3, <2>7 DEF RangeAnswer, R
<1> QED  BY <1>2, <1>3 DEF RangeAnswer, r

\* The end of a range is taken: the rows are those of the range.
LEMMA RangeEnds ==
  ASSUME NEW k, NEW D \in SUBSET Stores, NEW q \in Seq(Lines), q # <<>>,
         k.req.from \in Nat, k.req.to \in Nat,
         RangeAnswer(k, D, q), Head(q).kind = "done"
  PROVE  \E v \in D : k.rows \o Head(q).rows = RowsOf(v, k.req.from, k.req.to)
<1>1. Len(q) \in Nat /\ Len(q) >= 1 /\ DOMAIN q = 1..Len(q) /\ Head(q) = q[1]
  OBVIOUS
<1>2. PICK v \in D : \E m \in 0..Len(Chunks(RowsOf(v, k.req.from, k.req.to))) :
         Streaming(RowsOf(v, k.req.from, k.req.to), m, k.rows, q)
  BY <1>1 DEF RangeAnswer
<1> DEFINE R == RowsOf(v, k.req.from, k.req.to)
           n == Len(Chunks(R))
<1>3. PICK m \in 0..n : Streaming(R, m, k.rows, q)
  BY <1>2
<1>4. R \in Rows
  BY RowsAreTheRange DEF Rows
<1> HIDE DEF R
<1>5. n \in Nat
  BY <1>4, ChunksAre DEF Rows
<1>6. ~ (1 < Len(q)) /\ q[1].rows = <<>>
  BY <1>1, <1>3 DEF Streaming
<1>7. m = n /\ m \in Nat /\ m <= n
  BY <1>1, <1>3, <1>5, <1>6 DEF Streaming
<1>8. k.rows = R
  <2>1. k.rows = SubSeq(R, 1, Least(m * ChunkSize, Len(R)))
    BY <1>3 DEF Streaming
  <2> QED  BY <1>4, <1>7, <2>1, ChunkByChunk DEF Rows
<1>9. R \o <<>> = R
  BY <1>4 DEF Rows
<1> QED  BY <1>1, <1>6, <1>8, <1>9 DEF R

\* What a call has seen are versions of the store, and its past does not change.
LEMMA SeenType ==
  ASSUME NEW vs \in Seq(Stores), NEW k \in CallType, 1 <= k.since, k.until <= Len(vs)
  PROVE  Seen(k, vs) \in SUBSET Stores
<1>1. Len(vs) \in Nat /\ k.since \in Nat /\ k.until \in Nat
  BY DEF CallType
<1>2. ASSUME NEW i \in k.since .. (IF k.pc = "returned" /\ k.clean THEN k.until ELSE Len(vs))
      PROVE  vs[i] \in Stores
  <2>1. i \in 1..Len(vs)
    BY <1>1
  <2> QED  BY <2>1, ElementOfSeq
<1> QED  BY <1>2 DEF Seen

\* A new version is one more for the calls under way, and none for the others.
LEMMA SeenGrows ==
  ASSUME NEW vs \in Seq(Stores), NEW k \in CallType, 1 <= k.since, k.since <= k.until,
         k.until <= Len(vs), NEW s \in Stores
  PROVE  /\ Seen(k, vs) \subseteq Seen(k, Append(vs, s))
         /\ ~(k.pc = "returned" /\ k.clean) => Seen(k, Append(vs, s)) = Seen(k, vs) \cup {s}
         /\ k.pc = "returned" /\ k.clean => Seen(k, Append(vs, s)) = Seen(k, vs)
<1> DEFINE ws == Append(vs, s)  n == Len(vs)
<1>1. n \in Nat /\ Len(ws) = n + 1 /\ ws[n + 1] = s /\ (\A i \in 1..n : ws[i] = vs[i])
      /\ k.since \in Nat /\ k.until \in Nat /\ k.since <= n /\ k.until <= n
  BY DEF CallType
<1> HIDE DEF ws
<1>2. CASE k.pc = "returned" /\ k.clean
  <2>1. Seen(k, ws) = {ws[i] : i \in k.since .. k.until} /\ Seen(k, vs) = {vs[i] : i \in k.since .. k.until}
    BY <1>2 DEF Seen
  <2>2. \A i \in k.since .. k.until : i \in 1..n
    BY <1>1
  <2>3. \A i \in k.since .. k.until : ws[i] = vs[i]
    BY <1>1, <2>2
  <2>4. Seen(k, ws) = Seen(k, vs)
    BY <2>1, <2>3
  <2> QED  BY <1>2, <2>4 DEF ws
<1>3. CASE ~(k.pc = "returned" /\ k.clean)
  <2>1. Seen(k, ws) = {ws[i] : i \in k.since .. (n + 1)} /\ Seen(k, vs) = {vs[i] : i \in k.since .. n}
    BY <1>1, <1>3 DEF Seen
  <2>2. \A i \in k.since .. n : i \in k.since .. (n + 1) /\ ws[i] = vs[i]
    BY <1>1
  <2>3. n + 1 \in k.since .. (n + 1) /\ \A i \in k.since .. (n + 1) : i = n + 1 \/ i \in k.since .. n
    <3> HIDE DEF n
    <3>1. n + 1 \in k.since .. (n + 1)
      BY <1>1
    <3>2. ASSUME NEW i \in k.since .. (n + 1) PROVE i = n + 1 \/ i \in k.since .. n
      BY <1>1
    <3> QED  BY <3>1, <3>2
  <2>4. Seen(k, ws) = Seen(k, vs) \cup {s}
    BY <1>1, <2>1, <2>2, <2>3
  <2> QED  BY <1>3, <2>4 DEF ws
<1> QED  BY <1>2, <1>3

\* A range takes a line that is not its end, or goes on to read.
LEMMA TakeKeeps ==
  ASSUME SInv, NEW t \in Tasks, task[t].pc \in {"reading", "yielding"},
         task[t].req.op = "read_key_range",
         NEW n, Remains(conn[ConnOf(t)], n),
         NEW k \in CallType, k.pc \in {"reading", "yielding"}, k.req = task[t].req,
         k.since = task[t].since, k.until = task[t].until,
         k.on = task[t].on \/ (linked[ClientOf[t]] /\ k.on = gen[ClientOf[t]]),
         \/ n = conn[ConnOf(t)] /\ k.rows = task[t].rows
         \/ /\ conn[ConnOf(t)].lines # <<>> /\ n.lines = Tail(conn[ConnOf(t)].lines)
            /\ Head(conn[ConnOf(t)].lines).kind # "done"
            /\ k.rows = IF Head(conn[ConnOf(t)].lines).kind = "chunk"
                        THEN task[t].rows \o Head(conn[ConnOf(t)].lines).rows ELSE task[t].rows,
         SetTask(t, k), SetConn(ConnOf(t), n),
         UNCHANGED <<lock, linked, gen, versions, faults>>
  PROVE  SInv'
<1> DEFINE c == ClientOf[t]
           cn == ConnOf(t)
           m == conn[cn]
           kn == <<c, k.on>>
<1>1. /\ c \in Clients /\ cn \in Conns /\ m \in ConnType /\ n \in ConnType
      /\ task[t].on \in 1..gen[c] /\ gen[c] \in Nat /\ gen[c] \in 1..MaxConnects[c]
      /\ MaxConnects[c] \in Nat
      /\ n.client = m.client /\ n.cut = m.cut /\ n.requests = m.requests /\ n.todo = m.todo
      /\ m.lines = <<>> => n.lines = <<>>
      /\ \A u \in Tasks : Owed(n, u) => Owed(m, u)
  <2>1. c \in Clients /\ cn \in Conns /\ task[t].on \in 1..gen[c]
    BY Reads DEF Busy
  <2>2. gen[c] \in 1..MaxConnects[c] /\ MaxConnects[c] \in Nat
    BY <2>1, SessionAssumption DEF SInv, Numbered
  <2> QED  BY <2>1, <2>2 DEF Remains, SInv, Typed
<1>2. ASSUME NEW u \in Tasks, task[u].pc \in {"reading", "yielding"}, ClientOf[u] = c PROVE u = t
  BY <1>2, Reads
<1>3. /\ task' = [u \in Tasks |-> IF u = t THEN k ELSE task[u]]
      /\ conn' = [dn \in Conns |-> IF dn = cn THEN n ELSE conn[dn]]
  BY DEF SetTask, SetConn
<1>4. \A u \in Tasks : ConnOf(u)' = IF u = t THEN kn ELSE ConnOf(u)
  BY <1>3 DEF ConnOf
<1>5. kn \in Conns
  <2>1. k.on \in 1..MaxConnects[c]
    BY <1>1
  <2>2. kn \in {c} \X (1..MaxConnects[c])
    BY <2>1
  <2> QED  BY <1>1, <2>2 DEF Conns
<1>6. Clean(m) => kn = cn
  <2> SUFFICES ASSUME Clean(m) PROVE kn = cn
    OBVIOUS
  <2>1. cn = <<c, task[t].on>> /\ task[t].on \in Nat
    BY <1>1 DEF ConnOf
  <2>2. task[t].on > gen[c] \/ task[t].on = gen[c]
    BY <1>1, <2>1 DEF SInv, Numbered, Clean
  <2>3. task[t].on = gen[c]
    BY <1>1, <2>2
  <2> QED  BY <2>1, <2>3
<1>7. Seen(k, versions) = Seen(task[t], versions)
  BY DEF Seen
<1> HIDE DEF c, cn, m, kn
<1>8. Typed'
  <2>1. ASSUME NEW d \in Clients PROVE QueueOf(d, lock[d])'
    <3>1. \A u \in Tasks : task[u].pc \in Busy => task'[u].pc \in Busy
      BY <1>3 DEF Busy
    <3>2. \A i \in DOMAIN lock[d] : lock[d][i] \in Tasks /\ ClientOf[lock[d][i]] = d /\ task[lock[d][i]].pc \in Busy
      BY DEF SInv, Typed, QueueOf
    <3> QED  BY <3>1, <3>2 DEF QueueOf
  <2>2. task' \in [Tasks -> CallType] /\ conn' \in [Conns -> ConnType]
    BY <1>1, <1>3 DEF SInv, Typed
  <2> QED  BY <2>1, <2>2 DEF SInv, Typed
<1>9. Asked'
  BY <1>3 DEF SInv, Asked
<1>10. Queued'
  BY <1>3 DEF SInv, Queued, Busy
<1>11. Numbered'
  <2>1. \A dn \in Conns : conn'[dn].client = conn[dn].client
    BY <1>1, <1>3 DEF m
  <2>2. ASSUME NEW d \in Clients PROVE gen[d] \in 1..MaxConnects[d] /\ (linked[d] => conn'[Current(d)].client)
    <3>1. Current(d) \in Conns
      <4>1. gen[d] \in 1..MaxConnects[d]
        BY DEF SInv, Numbered
      <4> QED  BY <4>1 DEF Conns, Current
    <3> QED  BY <2>1, <3>1 DEF SInv, Numbered
  <2>3. ASSUME NEW d \in Clients, NEW g \in Nat, <<d, g>> \in Conns, g > gen[d] PROVE conn'[<<d, g>>] = NewConn
    <3>1. conn[<<d, g>>] = NewConn
      BY <2>3 DEF SInv, Numbered
    <3>2. <<d, g>> # cn
      BY <1>1, <2>3 DEF cn, ConnOf, c
    <3> QED  BY <1>3, <2>3, <3>1, <3>2
  <2>4. ASSUME NEW d \in Clients, NEW g \in Nat, <<d, g>> \in Conns, conn'[<<d, g>>].client
        PROVE  g > gen[d] \/ (g = gen[d] /\ linked[d])
    BY <2>1, <2>4 DEF SInv, Numbered
  <2> QED  BY <2>2, <2>3, <2>4 DEF Numbered, Current
<1>12. Gone'
  BY <1>1, <1>3 DEF SInv, Gone, m
<1>13. Timed'
  <2>1. k.on \in 1..gen[c]
    BY <1>1 DEF c
  <2> QED  BY <1>3, <2>1 DEF SInv, Timed, c
<1>14. Once'
  <2>1. \A dn \in Conns : conn'[dn].requests = conn[dn].requests
    BY <1>1, <1>3 DEF m
  <2>2. \A dn \in Conns : \A i \in DOMAIN conn[dn].requests :
          conn[dn].requests[i] \in Tasks /\ task[conn[dn].requests[i]].pc \notin {"idle", "waiting"}
    BY DEF SInv, Typed, ConnType, Once
  <2>3. \A dn \in Conns : \A i \in DOMAIN conn[dn].requests : task'[conn[dn].requests[i]].pc \notin {"idle", "waiting"}
    BY <1>3, <2>2
  <2> QED  BY <2>1, <2>3 DEF SInv, Once
<1>15. Owned'
  <2> SUFFICES ASSUME NEW dn \in Conns, Clean(conn'[dn])
               PROVE  /\ \A u \in Tasks : Owed(conn'[dn], u) =>
                           task'[u].pc \in {"reading", "yielding"} /\ ConnOf(u)' = dn
                      /\ conn'[dn].requests # <<>> =>
                           /\ Len(conn'[dn].requests) = 1 /\ conn'[dn].lines = <<>> /\ conn'[dn].todo = <<>>
                           /\ task'[Head(conn'[dn].requests)].rows = <<>>
    BY DEF Owned
  <2>1. /\ Clean(conn[dn]) /\ (\A u \in Tasks : Owed(conn'[dn], u) => Owed(conn[dn], u))
        /\ conn'[dn].requests = conn[dn].requests /\ conn'[dn].todo = conn[dn].todo
        /\ conn[dn].lines = <<>> => conn'[dn].lines = <<>>
        /\ dn = cn => kn = cn
    BY <1>1, <1>3, <1>6 DEF Clean, m
  <2>2. ASSUME NEW u \in Tasks, Owed(conn'[dn], u)
        PROVE  task'[u].pc \in {"reading", "yielding"} /\ ConnOf(u)' = dn
    <3>1. task[u].pc \in {"reading", "yielding"} /\ ConnOf(u) = dn
      BY <2>1, <2>2 DEF SInv, Owned
    <3> QED  BY <1>3, <1>4, <2>1, <3>1 DEF cn
  <2>3. ASSUME conn'[dn].requests # <<>>
        PROVE  /\ Len(conn'[dn].requests) = 1 /\ conn'[dn].lines = <<>> /\ conn'[dn].todo = <<>>
               /\ task'[Head(conn'[dn].requests)].rows = <<>>
    <3> DEFINE u == Head(conn[dn].requests)
    <3>1. /\ Len(conn[dn].requests) = 1 /\ conn[dn].lines = <<>> /\ conn[dn].todo = <<>>
          /\ task[u].rows = <<>>
      BY <2>1, <2>3 DEF SInv, Owned
    <3>2. u \in Tasks /\ Owed(conn[dn], u)
      <4>1. conn[dn].requests \in Seq(Tasks) /\ conn[dn].requests # <<>> /\ conn[dn] \in ConnType
        BY <2>1, <2>3 DEF SInv, Typed, ConnType
      <4>2. 1 \in DOMAIN conn[dn].requests /\ u = conn[dn].requests[1] /\ u \in Tasks
        BY <4>1
      <4> QED  BY <4>1, <4>2, OwedIs
    <3>3. u = t => dn = cn
      BY <2>1, <3>2 DEF SInv, Owned, cn
    <3>4. u = t => k.rows = <<>>
      BY <3>1, <3>3 DEF m, cn
    <3> HIDE DEF u
    <3>5. task'[u].rows = <<>>
      BY <1>3, <3>1, <3>2, <3>4
    <3> QED  BY <2>1, <3>1, <3>5 DEF u
  <2> QED  BY <2>2, <2>3
<1>16. Answered'
  <2> SUFFICES ASSUME NEW u \in Tasks, task'[u].pc \in {"reading", "yielding"}, Clean(conn'[ConnOf(u)'])
               PROVE  AnswerOf(task'[u], Seen(task'[u], versions), conn'[ConnOf(u)'].lines \o conn'[ConnOf(u)'].todo)
    BY DEF Answered
  <2>1. CASE u = t /\ kn = cn
    <3>1. conn'[ConnOf(u)'] = n /\ Clean(m) /\ task'[u] = k
      BY <1>1, <1>3, <1>4, <2>1 DEF Clean
    <3>2. RangeAnswer(task[t], Seen(task[t], versions), m.lines \o m.todo)
      BY <3>1 DEF SInv, Answered, AnswerOf, m, cn
    <3>3. RangeAnswer(k, Seen(k, versions), n.lines \o n.todo)
      <4>1. CASE n = m /\ k.rows = task[t].rows
        BY <1>7, <3>2, <4>1 DEF RangeAnswer
      <4>2. CASE /\ m.lines # <<>> /\ n.lines = Tail(m.lines)
                 /\ Head(m.lines).kind # "done"
                 /\ k.rows = IF Head(m.lines).kind = "chunk" THEN task[t].rows \o Head(m.lines).rows ELSE task[t].rows
        <5> DEFINE a == m.lines  b == m.todo  q == a \o b
        <5>1. a \in Seq(Lines) /\ b \in Seq(Lines) /\ a # <<>>
          BY <1>1, <4>2 DEF ConnType
        <5>2. q \in Seq(Lines) /\ q # <<>> /\ Head(q) = Head(a) /\ Tail(q) = Tail(a) \o b
          <6> HIDE DEF a, b
          <6> QED  BY <5>1, FirstLine
        <5>3. k.req.from \in Nat /\ k.req.to \in Nat
          BY RequestKinds DEF SInv, Asked
        <5>4. Seen(k, versions) \in SUBSET Stores
          BY <1>1, SeenType DEF SInv, Typed, Timed
        <5>5. n.lines \o n.todo = Tail(q)
          BY <1>1, <4>2, <5>2
        <5>6. RangeAnswer(task[t], Seen(k, versions), q)
          BY <1>7, <3>2
        <5>7. k.rows = IF Head(q).kind = "chunk" THEN task[t].rows \o Head(q).rows ELSE task[t].rows
          BY <4>2, <5>2
        <5>8. Head(q).kind # "done"
          BY <4>2, <5>2
        <5> HIDE DEF a, b, q
        <5>9. RangeAnswer(k, Seen(k, versions), Tail(q))
          BY <5>2, <5>3, <5>4, <5>6, <5>7, <5>8, RangeGoesOn
        <5> QED  BY <5>5, <5>9
      <4> QED  BY <4>1, <4>2 DEF m, cn
    <3> QED  BY <3>1, <3>3 DEF AnswerOf, Writes
  <2>2. CASE u = t /\ kn # cn
    <3>1. conn'[ConnOf(u)'] = conn[kn] /\ task'[u] = k /\ Clean(conn[kn])
      BY <1>3, <1>4, <1>5, <2>2
    <3>2. conn[kn] \in ConnType
      BY <1>5 DEF SInv, Typed
    <3>3. \A x \in Tasks : ~Owed(conn[kn], x)
      <4> SUFFICES ASSUME NEW x \in Tasks, Owed(conn[kn], x) PROVE FALSE
        OBVIOUS
      <4>1. task[x].pc \in {"reading", "yielding"} /\ ConnOf(x) = kn
        BY <1>5, <3>1 DEF SInv, Owned
      <4>2. x = t
        BY <1>2, <4>1 DEF ConnOf, kn, c
      <4> QED  BY <2>2, <4>1, <4>2 DEF cn
    <3>4. conn[kn].lines \o conn[kn].todo = <<>>
      <4>1. conn[kn].lines = <<>> /\ conn[kn].todo = <<>>
        BY <3>2, <3>3, NothingOwed
      <4> QED  BY <4>1
    <3>5. AnswerOf(k, Seen(k, versions), <<>>)
      BY DEF AnswerOf, RangeAnswer, Writes
    <3> QED  BY <3>1, <3>4, <3>5
  <2>3. CASE u # t
    <3>1. task'[u] = task[u] /\ ConnOf(u)' = ConnOf(u) /\ task[u].pc \in {"reading", "yielding"}
      BY <1>3, <1>4, <2>3
    <3>2. ConnOf(u) \in Conns /\ ClientOf[u] # c
      BY <1>2, <2>3, <3>1, Reads DEF Busy
    <3>3. ConnOf(u) # cn
      BY <3>2 DEF ConnOf, cn, c
    <3>4. conn'[ConnOf(u)] = conn[ConnOf(u)]
      BY <1>3, <3>2, <3>3
    <3> QED  BY <3>1, <3>4 DEF SInv, Answered
  <2> QED  BY <2>1, <2>2, <2>3
<1>17. Confirmed'
  <2>1. Result(k, versions)
    BY DEF Result
  <2> QED  BY <1>3, <2>1 DEF SInv, Confirmed
<1> QED  BY <1>8, <1>9, <1>10, <1>11, <1>12, <1>13, <1>14, <1>15, <1>16, <1>17 DEF SInv

\* What is owed to a call stays owed when the call has seen more.
LEMMA AnswerGrows ==
  ASSUME NEW k, NEW D, NEW E, D \subseteq E, NEW q, AnswerOf(k, D, q)
  PROVE  AnswerOf(k, E, q)
<1>1. WriteAnswer(k, D, q) => WriteAnswer(k, E, q)
  BY DEF WriteAnswer
<1>2. GetAnswer(k, D, q) => GetAnswer(k, E, q)
  BY DEF GetAnswer
<1>3. RangeAnswer(k, D, q) => RangeAnswer(k, E, q)
  BY DEF RangeAnswer
<1> QED  BY <1>1, <1>2, <1>3 DEF AnswerOf

\* A line goes out, or the server closes a connection.
LEMMA CarryKeeps ==
  ASSUME SInv, NEW cn \in Conns,
         conn[cn].requests # <<>> \/ conn[cn].todo # <<>> \/ ~conn[cn].client,
         NEW w \in ConnType,
         w.client = conn[cn].client, w.cut = conn[cn].cut, w.requests = conn[cn].requests,
         w.lines \o w.todo = conn[cn].lines \o conn[cn].todo,
         conn[cn].todo = <<>> => w.lines = conn[cn].lines /\ w.todo = conn[cn].todo,
         \A u \in Tasks : Owed(w, u) => Owed(conn[cn], u),
         SetConn(cn, w),
         UNCHANGED <<task, lock, linked, gen, versions>>, faults' \in 0..MaxFaults
  PROVE  SInv'
<1> DEFINE m == conn[cn]
<1>1. conn' = [dn \in Conns |-> IF dn = cn THEN w ELSE conn[dn]]
  BY DEF SetConn
<1>2. \A u \in Tasks : ConnOf(u)' = ConnOf(u)
  BY DEF ConnOf
<1>3. Typed'
  BY <1>1 DEF SInv, Typed, QueueOf
<1>4. Asked' /\ Queued' /\ Timed' /\ Confirmed'
  BY DEF SInv, Asked, Queued, Timed, Confirmed
<1>5. Numbered'
  <2>1. \A dn \in Conns : conn'[dn].client = conn[dn].client
    BY <1>1
  <2>2. ASSUME NEW d \in Clients PROVE gen[d] \in 1..MaxConnects[d] /\ (linked[d] => conn'[Current(d)].client)
    <3>1. Current(d) \in Conns
      <4>1. gen[d] \in 1..MaxConnects[d]
        BY DEF SInv, Numbered
      <4> QED  BY <4>1 DEF Conns, Current
    <3> QED  BY <2>1, <3>1 DEF SInv, Numbered
  <2>3. ASSUME NEW d \in Clients, NEW g \in Nat, <<d, g>> \in Conns, g > gen[d] PROVE conn'[<<d, g>>] = NewConn
    <3>1. conn[<<d, g>>] = NewConn
      BY <2>3 DEF SInv, Numbered
    <3>2. m # NewConn
      BY DEF NewConn
    <3> QED  BY <1>1, <2>3, <3>1, <3>2
  <2>4. ASSUME NEW d \in Clients, NEW g \in Nat, <<d, g>> \in Conns, conn'[<<d, g>>].client
        PROVE  g > gen[d] \/ (g = gen[d] /\ linked[d])
    BY <2>1, <2>4 DEF SInv, Numbered
  <2> QED  BY <2>2, <2>3, <2>4 DEF Numbered, Current
<1>6. Gone'
  BY <1>1 DEF SInv, Gone
<1>7. Once'
  <2>1. \A dn \in Conns : conn'[dn].requests = conn[dn].requests
    BY <1>1
  <2> QED  BY <2>1 DEF SInv, Once
<1>8. Owned'
  <2> SUFFICES ASSUME NEW dn \in Conns, Clean(conn'[dn])
               PROVE  /\ \A u \in Tasks : Owed(conn'[dn], u) =>
                           task[u].pc \in {"reading", "yielding"} /\ ConnOf(u) = dn
                      /\ conn'[dn].requests # <<>> =>
                           /\ Len(conn'[dn].requests) = 1 /\ conn'[dn].lines = <<>> /\ conn'[dn].todo = <<>>
                           /\ task[Head(conn'[dn].requests)].rows = <<>>
    BY <1>2 DEF Owned
  <2>1. /\ Clean(conn[dn]) /\ (\A u \in Tasks : Owed(conn'[dn], u) => Owed(conn[dn], u))
        /\ conn'[dn].requests = conn[dn].requests
        /\ conn[dn].todo = <<>> => conn'[dn].lines = conn[dn].lines /\ conn'[dn].todo = conn[dn].todo
    BY <1>1 DEF Clean
  <2>2. /\ \A u \in Tasks : Owed(conn[dn], u) => task[u].pc \in {"reading", "yielding"} /\ ConnOf(u) = dn
        /\ conn[dn].requests # <<>> =>
             /\ Len(conn[dn].requests) = 1 /\ conn[dn].lines = <<>> /\ conn[dn].todo = <<>>
             /\ task[Head(conn[dn].requests)].rows = <<>>
    BY <2>1 DEF SInv, Owned
  <2> QED  BY <2>1, <2>2
<1>9. Answered'
  <2> SUFFICES ASSUME NEW u \in Tasks, task[u].pc \in {"reading", "yielding"}, Clean(conn'[ConnOf(u)])
               PROVE  AnswerOf(task[u], Seen(task[u], versions), conn'[ConnOf(u)].lines \o conn'[ConnOf(u)].todo)
    BY <1>2 DEF Answered
  <2>1. ConnOf(u) \in Conns
    BY Reads DEF Busy
  <2>2. /\ Clean(conn[ConnOf(u)])
        /\ conn'[ConnOf(u)].lines \o conn'[ConnOf(u)].todo = conn[ConnOf(u)].lines \o conn[ConnOf(u)].todo
    BY <1>1, <2>1 DEF Clean
  <2> QED  BY <2>2 DEF SInv, Answered
<1> QED  BY <1>3, <1>4, <1>5, <1>6, <1>7, <1>8, <1>9 DEF SInv

\* The server takes the next request, makes the store s, and answers with the
\* lines a, which are what the call of the request is owed.
LEMMA ServeKeeps ==
  ASSUME SInv, NEW cn \in Conns, conn[cn].requests # <<>>, conn[cn].todo = <<>>,
         NEW s \in Stores,
         versions' = IF s = Store THEN versions ELSE Append(versions, s),
         NEW a \in Seq(Lines), a # <<>>,
         \A i \in DOMAIN a : a[i].of = Head(conn[cn].requests),
         \A k, D : k.req = task[Head(conn[cn].requests)].req /\ k.rows = <<>> /\ Store \in D /\ s \in D
                     => AnswerOf(k, D, a),
         NEW w \in ConnType,
         w.client = conn[cn].client, w.cut = conn[cn].cut, w.requests = Tail(conn[cn].requests),
         IF conn[cn].client THEN w.lines = Append(conn[cn].lines, Head(a)) /\ w.todo = Tail(a)
         ELSE w.lines = conn[cn].lines /\ w.todo = conn[cn].todo,
         SetConn(cn, w),
         UNCHANGED <<task, lock, linked, gen>>, faults' \in 0..MaxFaults
  PROVE  SInv'
<1> DEFINE m == conn[cn]
           t == Head(m.requests)
<1>1. conn' = [dn \in Conns |-> IF dn = cn THEN w ELSE conn[dn]]
  BY DEF SetConn
<1>2. \A u \in Tasks : ConnOf(u)' = ConnOf(u)
  BY DEF ConnOf
<1>3. /\ m \in ConnType /\ m.requests \in Seq(Tasks) /\ t \in Tasks /\ Len(m.requests) \in Nat
      /\ Len(m.requests) >= 1 /\ DOMAIN m.requests = 1..Len(m.requests)
      /\ DOMAIN w.requests = 1..(Len(m.requests) - 1)
      /\ \A i \in 1..(Len(m.requests) - 1) : w.requests[i] = m.requests[i + 1]
      /\ 1 \in DOMAIN m.requests /\ t = m.requests[1]
  <2>1. m \in ConnType /\ m.requests \in Seq(Tasks)
    BY DEF SInv, Typed, ConnType
  <2> QED  BY <2>1
<1>4. versions' \in Seq(Stores) /\ versions' # <<>> /\ Len(versions') \in Nat /\ Len(versions') >= Len(versions)
  BY DEF SInv, Typed, Timed
<1>5. ASSUME NEW u \in Tasks PROVE Seen(task[u], versions) \subseteq Seen(task[u], versions')
  <2>1. task[u] \in CallType /\ 1 <= task[u].since /\ task[u].since <= task[u].until /\ task[u].until <= Len(versions)
    BY DEF SInv, Typed, Timed
  <2> QED  BY <2>1, SeenGrows DEF SInv, Typed
<1>6. ASSUME NEW u \in Tasks, task[u].pc # "returned"
      PROVE  Store \in Seen(task[u], versions') /\ s \in Seen(task[u], versions')
  <2>1. task[u] \in CallType /\ 1 <= task[u].since /\ task[u].since <= task[u].until /\ task[u].until <= Len(versions)
    BY DEF SInv, Typed, Timed
  <2>2. Len(versions) \in task[u].since .. Len(versions) /\ Len(versions) \in Nat
    BY <2>1 DEF SInv, Typed, CallType
  <2>3. Store \in Seen(task[u], versions)
    BY <1>6, <2>2 DEF Seen, Store, Last
  <2>4. CASE s = Store
    BY <2>3, <2>4
  <2>5. CASE s # Store
    BY <1>6, <2>1, <2>3, <2>5, SeenGrows DEF SInv, Typed
  <2> QED  BY <2>4, <2>5
<1> HIDE DEF m, t
<1>7. Typed'
  BY <1>1, <1>4 DEF SInv, Typed, QueueOf
<1>8. Asked' /\ Queued'
  BY DEF SInv, Asked, Queued
<1>9. Timed'
  <2>1. \A u \in Tasks : task[u] \in CallType /\ task[u].until <= Len(versions)
    BY DEF SInv, Typed, Timed
  <2>2. Len(versions) \in Nat /\ \A u \in Tasks : task[u].until \in Nat
    BY <2>1 DEF SInv, Typed, CallType
  <2>3. \A u \in Tasks : task[u].until <= Len(versions')
    BY <1>4, <2>1, <2>2
  <2> QED  BY <1>4, <2>3 DEF SInv, Timed
<1>10. Numbered'
  <2>1. \A dn \in Conns : conn'[dn].client = conn[dn].client
    BY <1>1
  <2>2. ASSUME NEW d \in Clients PROVE gen[d] \in 1..MaxConnects[d] /\ (linked[d] => conn'[Current(d)].client)
    <3>1. Current(d) \in Conns
      <4>1. gen[d] \in 1..MaxConnects[d]
        BY DEF SInv, Numbered
      <4> QED  BY <4>1 DEF Conns, Current
    <3> QED  BY <2>1, <3>1 DEF SInv, Numbered
  <2>3. ASSUME NEW d \in Clients, NEW g \in Nat, <<d, g>> \in Conns, g > gen[d] PROVE conn'[<<d, g>>] = NewConn
    <3>1. conn[<<d, g>>] = NewConn
      BY <2>3 DEF SInv, Numbered
    <3>2. m # NewConn
      BY DEF NewConn, m
    <3> QED  BY <1>1, <2>3, <3>1, <3>2 DEF m
  <2>4. ASSUME NEW d \in Clients, NEW g \in Nat, <<d, g>> \in Conns, conn'[<<d, g>>].client
        PROVE  g > gen[d] \/ (g = gen[d] /\ linked[d])
    BY <2>1, <2>4 DEF SInv, Numbered
  <2> QED  BY <2>2, <2>3, <2>4 DEF Numbered, Current
<1>11. Gone'
  BY <1>1 DEF SInv, Gone
<1>12. Once'
  <2> DEFINE P(dn, i) == IF dn = cn THEN i + 1 ELSE i
  <2>1. ASSUME NEW dn \in Conns, NEW i \in DOMAIN conn'[dn].requests
        PROVE  P(dn, i) \in DOMAIN conn[dn].requests /\ conn'[dn].requests[i] = conn[dn].requests[P(dn, i)]
    <3>1. CASE dn = cn
      <4>0. i \in 1..(Len(m.requests) - 1)
        BY <1>1, <1>3, <3>1
      <4>1. i \in 1..(Len(m.requests) - 1) /\ w.requests[i] = m.requests[i + 1] /\ i + 1 \in 1..Len(m.requests)
        <5> DEFINE n == Len(m.requests)
        <5>1. n \in Nat /\ i \in 1..(n - 1)
          BY <1>3, <4>0
        <5>2. i + 1 \in 1..n
          <6> HIDE DEF n
          <6> QED  BY <5>1
        <5> QED  BY <1>3, <4>0, <5>2
      <4> QED  BY <1>1, <1>3, <3>1, <4>1 DEF m
    <3>2. CASE dn # cn
      BY <1>1, <3>2
    <3> QED  BY <3>1, <3>2
  <2>2. ASSUME NEW x \in Conns, NEW y \in Conns, NEW i \in DOMAIN conn'[x].requests,
               NEW j \in DOMAIN conn'[y].requests, conn'[x].requests[i] = conn'[y].requests[j]
        PROVE  x = y /\ i = j
    <3>1. x = y /\ P(x, i) = P(y, j)
      <4>1. conn[x].requests[P(x, i)] = conn[y].requests[P(y, j)] /\ P(x, i) \in DOMAIN conn[x].requests /\ P(y, j) \in DOMAIN conn[y].requests
        BY <2>1, <2>2
      <4>2. \A e, f \in Conns : \A g \in DOMAIN conn[e].requests, h \in DOMAIN conn[f].requests :
              conn[e].requests[g] = conn[f].requests[h] => e = f /\ g = h
        BY DEF SInv, Once
      <4> HIDE DEF P
      <4> QED  BY <4>1, <4>2
    <3>2. i \in Nat /\ j \in Nat
      <4>1. conn'[x].requests \in Seq(Tasks) /\ conn'[y].requests \in Seq(Tasks)
        BY <1>7 DEF Typed, ConnType
      <4> QED  BY <4>1
    <3> QED  BY <3>1, <3>2
  <2>3. ASSUME NEW x \in Conns, NEW i \in DOMAIN conn'[x].requests
        PROVE  task[conn'[x].requests[i]].pc \notin {"idle", "waiting"}
    BY <2>1 DEF SInv, Once
  <2> QED  BY <2>2, <2>3 DEF Once
<1>13. ASSUME Clean(m)
       PROVE  /\ m.requests = <<t>> /\ m.lines = <<>> /\ m.todo = <<>> /\ task[t].rows = <<>>
              /\ task[t].pc \in {"reading", "yielding"} /\ ConnOf(t) = cn
              /\ w.requests = <<>> /\ w.lines = <<Head(a)>> /\ w.todo = Tail(a)
  <2>1. Len(m.requests) = 1 /\ m.lines = <<>> /\ m.todo = <<>> /\ task[t].rows = <<>>
    BY <1>13 DEF SInv, Owned, m, t
  <2>2. m.requests = <<t>>
    BY <1>3, <2>1
  <2>3. Owed(m, t)
    BY <1>3, OwedIs
  <2>4. task[t].pc \in {"reading", "yielding"} /\ ConnOf(t) = cn
    BY <1>3, <1>13, <2>3 DEF SInv, Owned, m
  <2>5. w.requests = <<>> /\ w.lines = <<Head(a)>> /\ w.todo = Tail(a)
    <3>1. w.requests = Tail(m.requests) /\ w.lines = Append(m.lines, Head(a)) /\ w.todo = Tail(a)
      BY <1>13 DEF m, Clean
    <3>2. Tail(<<t>>) = <<>> /\ \A x : Append(<<>>, x) = <<x>>
      OBVIOUS
    <3> QED  BY <2>1, <2>2, <3>1, <3>2
  <2> QED  BY <2>1, <2>2, <2>4, <2>5
<1>14. /\ Head(a) \in Lines /\ Head(a) = a[1] /\ 1 \in DOMAIN a
       /\ Tail(a) \in Seq(Lines) /\ DOMAIN Tail(a) = 1..(Len(a) - 1)
       /\ Len(a) \in Nat /\ DOMAIN a = 1..Len(a)
       /\ \A i \in 1..(Len(a) - 1) : Tail(a)[i] = a[i + 1]
       /\ <<Head(a)>> \o Tail(a) = a
  OBVIOUS
<1>15. Owned'
  <2> SUFFICES ASSUME NEW dn \in Conns, Clean(conn'[dn])
               PROVE  /\ \A u \in Tasks : Owed(conn'[dn], u) =>
                           task[u].pc \in {"reading", "yielding"} /\ ConnOf(u) = dn
                      /\ conn'[dn].requests # <<>> =>
                           /\ Len(conn'[dn].requests) = 1 /\ conn'[dn].lines = <<>> /\ conn'[dn].todo = <<>>
                           /\ task[Head(conn'[dn].requests)].rows = <<>>
    BY <1>2 DEF Owned
  <2>1. CASE dn = cn
    <3>1. conn'[dn] = w /\ Clean(m)
      BY <1>1, <2>1 DEF Clean, m
    <3>2. ASSUME NEW u \in Tasks, Owed(w, u) PROVE u = t
      <4>1. \A i \in DOMAIN w.lines : w.lines[i].of = t
        BY <1>13, <1>14, <3>1 DEF t, m
      <4>2. \A i \in DOMAIN w.todo : w.todo[i].of = t
        <5>1. w.todo = Tail(a)
          BY <1>13, <3>1
        <5>2. \A i \in 1..(Len(a) - 1) : i + 1 \in DOMAIN a
          BY <1>14
        <5> QED  BY <1>14, <5>1, <5>2 DEF t, m
      <4>3. w.requests = <<>>
        BY <1>13, <3>1
      <4> QED  BY <3>2, <4>1, <4>2, <4>3, OwedIs
    <3> QED  BY <1>13, <2>1, <3>1, <3>2
  <2>2. CASE dn # cn
    <3>1. conn'[dn] = conn[dn]
      BY <1>1, <2>2
    <3> QED  BY <3>1 DEF SInv, Owned
  <2> QED  BY <2>1, <2>2
<1>16. Answered'
  <2> SUFFICES ASSUME NEW u \in Tasks, task[u].pc \in {"reading", "yielding"}, Clean(conn'[ConnOf(u)])
               PROVE  AnswerOf(task[u], Seen(task[u], versions'), conn'[ConnOf(u)].lines \o conn'[ConnOf(u)].todo)
    BY <1>2 DEF Answered
  <2>1. ConnOf(u) \in Conns
    BY Reads DEF Busy
  <2>2. CASE ConnOf(u) = cn
    <3>1. conn'[ConnOf(u)] = w /\ Clean(m)
      BY <1>1, <2>1, <2>2 DEF Clean, m
    <3>2. u = t
      <4>1. ClientOf[u] = ClientOf[t]
        BY <1>13, <2>2, <3>1 DEF ConnOf
      <4> QED  BY <1>3, <1>13, <3>1, <4>1, Reads
    <3>3. w.lines \o w.todo = a
      BY <1>13, <1>14, <3>1
    <3>4. Store \in Seen(task[u], versions') /\ s \in Seen(task[u], versions')
      BY <1>6
    <3>5. AnswerOf(task[u], Seen(task[u], versions'), a)
      BY <1>13, <3>1, <3>2, <3>4 DEF t, m
    <3> QED  BY <3>1, <3>3, <3>5
  <2>3. CASE ConnOf(u) # cn
    <3>1. conn'[ConnOf(u)] = conn[ConnOf(u)]
      BY <1>1, <2>1, <2>3
    <3>2. AnswerOf(task[u], Seen(task[u], versions), conn[ConnOf(u)].lines \o conn[ConnOf(u)].todo)
      BY <3>1 DEF SInv, Answered
    <3> QED  BY <1>5, <3>1, <3>2, AnswerGrows
  <2> QED  BY <2>2, <2>3
<1>17. Confirmed'
  <2> SUFFICES ASSUME NEW u \in Tasks PROVE Result(task[u], versions')
    BY DEF Confirmed
  <2> QED  BY <1>5 DEF SInv, Confirmed, Result
<1> QED  BY <1>7, <1>8, <1>9, <1>10, <1>11, <1>12, <1>15, <1>16, <1>17 DEF SInv

\* A client connects: its new connection is one that carries nothing yet.
LEMMA ConnectKeeps ==
  ASSUME SInv, NEW c \in Clients, Connect(c)
  PROVE  SInv'
<1>1. /\ gen' = [d \in Clients |-> IF d = c THEN gen[c] + 1 ELSE gen[d]]
      /\ linked' = [d \in Clients |-> IF d = c THEN TRUE ELSE linked[d]]
      /\ UNCHANGED <<task, lock, conn, versions, faults>> /\ ~linked[c] /\ gen[c] < MaxConnects[c]
  BY DEF Connect, SInv, Typed
<1>2. \A d \in Clients : gen[d] \in 1..MaxConnects[d] /\ MaxConnects[d] \in Nat /\ gen[d] \in Nat
  BY SessionAssumption DEF SInv, Numbered
<1>3. Typed'
  <2>1. gen[c] + 1 \in Nat
    BY <1>2
  <2>2. gen' \in [Clients -> Nat] /\ linked' \in [Clients -> BOOLEAN]
    BY <1>1, <1>2, <2>1 DEF SInv, Typed
  <2> QED  BY <1>1, <2>2 DEF SInv, Typed, QueueOf
<1>4. Asked' /\ Queued' /\ Gone' /\ Once' /\ Confirmed'
  BY <1>1 DEF SInv, Asked, Queued, Gone, Once, Confirmed
<1>5. Owned' /\ Answered'
  BY <1>1 DEF SInv, Owned, Answered, ConnOf
<1>6. Timed'
  <2>1. ASSUME NEW u \in Tasks, task[u].pc \in Busy PROVE task[u].on \in 1..gen'[ClientOf[u]]
    <3>1. task[u].on \in 1..gen[ClientOf[u]] /\ ClientOf[u] \in Clients
      BY <2>1, SessionAssumption DEF SInv, Timed
    <3> QED  BY <1>1, <1>2, <3>1
  <2> QED  BY <1>1, <2>1 DEF SInv, Timed
<1>7. Numbered'
  <2>1. ASSUME NEW d \in Clients PROVE gen'[d] \in 1..MaxConnects[d] /\ (linked'[d] => conn[<<d, gen'[d]>>].client)
    <3>1. CASE d = c
      <4>1. gen'[d] = gen[c] + 1 /\ gen[c] + 1 \in 1..MaxConnects[c]
        BY <1>1, <1>2, <3>1
      <4>2. <<c, gen[c] + 1>> \in Conns
        BY <4>1 DEF Conns
      <4>3. gen[c] + 1 \in Nat /\ gen[c] + 1 > gen[c]
        BY <1>2
      <4>4. conn[<<c, gen[c] + 1>>] = NewConn
        BY <4>2, <4>3 DEF SInv, Numbered
      <4> QED  BY <3>1, <4>1, <4>4 DEF NewConn
    <3>2. CASE d # c
      BY <1>1, <3>2 DEF SInv, Numbered, Current
    <3> QED  BY <3>1, <3>2
  <2>2. ASSUME NEW d \in Clients, NEW g \in Nat, <<d, g>> \in Conns, g > gen'[d] PROVE conn[<<d, g>>] = NewConn
    <3>1. g > gen[d]
      BY <1>1, <1>2, <2>2
    <3> QED  BY <2>2, <3>1 DEF SInv, Numbered
  <2>3. ASSUME NEW d \in Clients, NEW g \in Nat, <<d, g>> \in Conns, conn[<<d, g>>].client
        PROVE  g > gen'[d] \/ (g = gen'[d] /\ linked'[d])
    <3>1. g > gen[d] \/ (g = gen[d] /\ linked[d])
      BY <2>3 DEF SInv, Numbered
    <3> QED  BY <1>1, <1>2, <3>1
  <2>4. \A d \in Clients : Current(d)' = <<d, gen'[d]>>
    BY DEF Current
  <2> QED  BY <1>1, <2>1, <2>2, <2>3, <2>4 DEF Numbered
<1> QED  BY <1>3, <1>4, <1>5, <1>6, <1>7 DEF SInv

\* A client disconnects: nothing more comes to it over that connection.
LEMMA DisconnectKeeps ==
  ASSUME SInv, NEW c \in Clients, Disconnect(c)
  PROVE  SInv'
<1> DEFINE cn == Current(c)
           m == conn[cn]
           w == Connection(FALSE, m.server, m.requests, <<>>, <<>>, FALSE)
<1>1. cn \in Conns /\ m \in ConnType /\ linked[c]
  <2>1. gen[c] \in 1..MaxConnects[c]
    BY DEF SInv, Numbered
  <2>2. cn \in Conns
    BY <2>1 DEF Conns, Current
  <2> QED  BY <2>2 DEF SInv, Typed, Disconnect
<1>2. /\ conn' = [dn \in Conns |-> IF dn = cn THEN w ELSE conn[dn]]
      /\ linked' = [d \in Clients |-> IF d = c THEN FALSE ELSE linked[d]]
      /\ UNCHANGED <<task, lock, gen, versions>> /\ faults' \in 0..MaxFaults
  <2>1. linked' = [linked EXCEPT ![c] = FALSE] /\ UNCHANGED <<task, lock, gen, versions>>
    BY DEF Disconnect
  <2>2. faults' \in 0..MaxFaults
    BY SessionAssumption DEF Disconnect, Fault, SInv, Typed
  <2>3. conn' = [conn EXCEPT ![cn].client = FALSE, ![cn].lines = <<>>, ![cn].todo = <<>>, ![cn].cut = FALSE]
    BY DEF Disconnect
  <2>4. conn' = [conn EXCEPT ![cn] = w]
    <3> DEFINE k == Closing(m, FALSE, <<>>)
    <3>1. conn' = [conn EXCEPT ![cn] = k]
      BY <2>3 DEF Closing
    <3>2. k = w
      <4> HIDE DEF m
      <4> QED  BY <1>1, ConnRebuilt
    <3> HIDE DEF k, w
    <3> QED  BY <3>1, <3>2
  <2> HIDE DEF w, cn
  <2> QED  BY <2>1, <2>2, <2>4 DEF SInv, Typed
<1>3. w \in ConnType /\ ~w.client /\ w.lines = <<>> /\ w.todo = <<>> /\ w.requests = m.requests /\ ~w.cut
  BY <1>1 DEF ConnType, Connection
<1> HIDE DEF w, m, cn
<1>4. Typed'
  BY <1>2, <1>3 DEF SInv, Typed, QueueOf
<1>5. Asked' /\ Queued' /\ Timed' /\ Confirmed'
  BY <1>2 DEF SInv, Asked, Queued, Timed, Confirmed
<1>6. Gone'
  BY <1>2, <1>3 DEF SInv, Gone
<1>7. Once'
  <2>1. \A dn \in Conns : conn'[dn].requests = conn[dn].requests
    BY <1>2, <1>3 DEF m
  <2> QED  BY <1>2, <2>1 DEF SInv, Once
<1>8. Numbered'
  <2>1. ASSUME NEW d \in Clients PROVE gen[d] \in 1..MaxConnects[d] /\ (linked'[d] => conn'[Current(d)].client)
    <3>1. Current(d) \in Conns
      <4>1. gen[d] \in 1..MaxConnects[d]
        BY DEF SInv, Numbered
      <4> QED  BY <4>1 DEF Conns, Current
    <3>2. d # c => Current(d) # cn
      BY DEF Current, cn
    <3> QED  BY <1>2, <3>1, <3>2 DEF SInv, Numbered
  <2>2. ASSUME NEW d \in Clients, NEW g \in Nat, <<d, g>> \in Conns, g > gen[d] PROVE conn'[<<d, g>>] = NewConn
    <3>1. conn[<<d, g>>] = NewConn
      BY <2>2 DEF SInv, Numbered
    <3>2. <<d, g>> # cn
      <4>1. gen[d] \in Nat
        BY DEF SInv, Typed
      <4> QED  BY <2>2, <4>1 DEF cn, Current
    <3> QED  BY <1>2, <2>2, <3>1, <3>2
  <2>3. ASSUME NEW d \in Clients, NEW g \in Nat, <<d, g>> \in Conns, conn'[<<d, g>>].client
        PROVE  g > gen[d] \/ (g = gen[d] /\ linked'[d])
    <3>1. <<d, g>> # cn /\ conn[<<d, g>>].client
      BY <1>2, <1>3, <2>3
    <3>2. g > gen[d] \/ (g = gen[d] /\ linked[d])
      BY <2>3, <3>1 DEF SInv, Numbered
    <3>3. g = gen[d] => d # c
      BY <3>1 DEF cn, Current
    <3> QED  BY <1>2, <3>2, <3>3
  <2> QED  BY <1>2, <2>1, <2>2, <2>3 DEF Numbered, Current
<1>9. \A u \in Tasks : ConnOf(u)' = ConnOf(u)
  BY <1>2 DEF ConnOf
<1>10. \A dn \in Conns : Clean(conn'[dn]) => conn'[dn] = conn[dn]
  BY <1>2, <1>3 DEF Clean
<1>11. Owned'
  BY <1>2, <1>9, <1>10 DEF SInv, Owned
<1>12. Answered'
  <2> SUFFICES ASSUME NEW u \in Tasks, task[u].pc \in {"reading", "yielding"}, Clean(conn'[ConnOf(u)])
               PROVE  AnswerOf(task[u], Seen(task[u], versions), conn'[ConnOf(u)].lines \o conn'[ConnOf(u)].todo)
    BY <1>2, <1>9 DEF Answered
  <2>1. ConnOf(u) \in Conns
    BY Reads DEF Busy
  <2> QED  BY <1>10, <2>1 DEF SInv, Answered
<1> QED  BY <1>4, <1>5, <1>6, <1>7, <1>8, <1>11, <1>12 DEF SInv

\* Init.
LEMMA InitHolds ==
  Init => SInv
<1> SUFFICES ASSUME Init PROVE SInv
  OBVIOUS
<1>0. NoCall.req \in Reqs /\ NewConn \in ConnType
  <2>1. NoCall.req \in Reqs
    BY DEF Reqs
  <2>2. \A S : <<>> \in Seq(S)
    OBVIOUS
  <2> QED  BY <2>1, <2>2 DEF NewConn, ConnType
<1>1. NoCall = Call("idle", NoCall.req, 0, <<>>, TRUE, 1, 1)
  BY DEF NoCall, Call
<1>2. NoCall \in CallType
  <2>1. "idle" \in PCs /\ <<>> \in Rows
    BY DEF PCs, Rows
  <2> DEFINE r == NoCall.req
  <2>2. r \in Reqs /\ NoCall = Call("idle", r, 0, <<>>, TRUE, 1, 1)
    BY <1>0, <1>1
  <2> HIDE DEF r
  <2>3. Call("idle", r, 0, <<>>, TRUE, 1, 1) \in CallType
    BY <2>1, <2>2 DEF CallType, Call
  <2> QED  BY <2>2, <2>3
<1>3. /\ task = [t \in Tasks |-> NoCall] /\ lock = [c \in Clients |-> <<>>]
      /\ linked = [c \in Clients |-> TRUE] /\ gen = [c \in Clients |-> 1]
      /\ conn = [cn \in Conns |-> NewConn] /\ faults = 0
      /\ versions = <<[k \in StoreKeys |-> None]>>
  BY DEF Init
<1>4. versions \in Seq(Stores) /\ versions # <<>> /\ Len(versions) = 1
  <2>1. [k \in StoreKeys |-> None] \in Stores
    BY DEF Stores
  <2> QED  BY <1>3, <2>1
<1>5. /\ NoCall.pc = "idle" /\ NoCall.since = 1 /\ NoCall.until = 1
      /\ NewConn.client /\ ~NewConn.cut /\ NewConn.requests = <<>> /\ NewConn.lines = <<>> /\ NewConn.todo = <<>>
  BY DEF NoCall, NewConn
<1>6. \A t \in Tasks : ClientOf[t] \in Clients
  BY SessionAssumption
<1>7. \A c \in Clients : 1 \in 1..MaxConnects[c] /\ MaxConnects[c] \in Nat
  BY SessionAssumption
<1> HIDE DEF NoCall, NewConn
<1>8. Typed
  BY <1>0, <1>2, <1>3, <1>4, SessionAssumption DEF Typed, QueueOf
<1>9. Asked /\ Queued
  BY <1>3, <1>5, <1>6 DEF Asked, Queued, Busy, Distinct
<1>10. Numbered
  <2>1. \A c \in Clients : <<c, 1>> \in Conns
    BY <1>7 DEF Conns
  <2>2. \A c \in Clients : gen[c] = 1 /\ Current(c) = <<c, 1>>
    BY <1>3 DEF Current
  <2>3. \A c \in Clients, g \in Nat : <<c, g>> \in Conns => g \in Nat /\ g >= 1
    <3>1. \A c \in Clients, g \in Nat : <<c, g>> \in Conns => g \in 1..MaxConnects[c]
      BY DEF Conns
    <3> QED  BY <1>7, <3>1
  <2> QED  BY <1>3, <1>5, <1>7, <2>1, <2>2, <2>3 DEF Numbered
<1>11. Gone /\ Timed /\ Once
  BY <1>3, <1>4, <1>5 DEF Gone, Timed, Once, Busy
<1>12. Owned
  <2>1. \A t \in Tasks : ~Owed(NewConn, t)
    BY <1>0, <1>5, OwedIs
  <2> QED  BY <1>3, <1>5, <2>1 DEF Owned
<1>13. Answered /\ Confirmed
  BY <1>3, <1>5 DEF Answered, Confirmed, Result
<1> QED  BY <1>8, <1>9, <1>10, <1>11, <1>12, <1>13 DEF SInv

-----------------------------------------------------------------------------
(* What the server answers *)

\* The lines that answer t, when its request comes to the outcome o.
LinesFor(t, o) ==
  [i \in DOMAIN o.answers |->
     [of |-> t, kind |-> o.answers[i].kind, rows |-> o.answers[i].rows]]

\* They are lines, as many as the answers of the outcome.
LEMMA LinesType ==
  ASSUME NEW t \in Tasks, NEW o, o.answers \in Seq(Replies), o.answers # <<>>
  PROVE  /\ LinesFor(t, o) \in Seq(Lines) /\ LinesFor(t, o) # <<>>
         /\ Len(LinesFor(t, o)) = Len(o.answers) /\ DOMAIN LinesFor(t, o) = DOMAIN o.answers
         /\ \A i \in DOMAIN o.answers : LinesFor(t, o)[i].of = t
               /\ LinesFor(t, o)[i].kind = o.answers[i].kind /\ LinesFor(t, o)[i].rows = o.answers[i].rows
<1> DEFINE q == o.answers
           a == [i \in DOMAIN q |-> [of |-> t, kind |-> q[i].kind, rows |-> q[i].rows]]
<1>1. q \in Seq(Replies) /\ Len(q) \in Nat /\ DOMAIN q = 1..Len(q) /\ Len(q) # 0
  OBVIOUS
<1>2. LinesFor(t, o) = a
  BY DEF LinesFor
<1> HIDE DEF q, Replies
<1>3. ASSUME NEW i \in DOMAIN q PROVE [of |-> t, kind |-> q[i].kind, rows |-> q[i].rows] \in Lines
  <2>1. q[i] \in Replies
    BY <1>1, <1>3, ElementOfSeq
  <2> QED  BY <2>1 DEF Replies, Lines, Rows
<1>4. a \in [1..Len(q) -> Lines]
  BY <1>1, <1>3
<1>5. a \in Seq(Lines) /\ Len(a) = Len(q) /\ DOMAIN a = DOMAIN q
  <2> HIDE DEF a
  <2> QED  BY <1>1, <1>4, SeqDef
<1>6. a # <<>>
  BY <1>1, <1>5
<1>7. \A i \in DOMAIN q : a[i].of = t /\ a[i].kind = q[i].kind /\ a[i].rows = q[i].rows
  OBVIOUS
<1> HIDE DEF a
<1> QED  BY <1>2, <1>5, <1>6, <1>7 DEF q

\* The lines are what the call of the request is owed.
LEMMA AnswersServe ==
  ASSUME NEW s \in Stores, NEW r \in Requests, NEW o, o = Served(s, r) \/ o \in Failed(s, r),
         NEW t \in Tasks
  PROVE  /\ o.store \in Stores
         /\ LinesFor(t, o) \in Seq(Lines) /\ LinesFor(t, o) # <<>>
         /\ \A i \in DOMAIN LinesFor(t, o) : LinesFor(t, o)[i].of = t
         /\ \A k, D : k.req = r /\ k.rows = <<>> /\ s \in D /\ o.store \in D
                        => AnswerOf(k, D, LinesFor(t, o))
<1> DEFINE a == LinesFor(t, o)
<1>1. o.store \in Stores /\ o.answers \in Seq(Replies) /\ o.answers # <<>>
  <2>1. CASE o = Served(s, r)
    BY <2>1, ServedType
  <2>2. CASE o \in Failed(s, r)
    BY <2>2, FailedType
  <2> QED  BY <2>1, <2>2
<1>2. /\ a \in Seq(Lines) /\ a # <<>> /\ Len(a) = Len(o.answers) /\ DOMAIN a = DOMAIN o.answers
      /\ \A i \in DOMAIN a : /\ a[i].of = t
                             /\ a[i].kind = o.answers[i].kind /\ a[i].rows = o.answers[i].rows
  <2> HIDE DEF Replies
  <2> QED  BY <1>1, LinesType
<1> HIDE DEF a
<1> SUFFICES ASSUME NEW k, NEW D, k.req = r, k.rows = <<>>, s \in D, o.store \in D
             PROVE  AnswerOf(k, D, a)
  BY <1>1, <1>2 DEF a
<1>3. ASSUME NEW kind, NEW rows, o.answers = <<Answer(kind, rows)>>
      PROVE  \A i \in DOMAIN a : a[i].kind = kind /\ a[i].rows = rows
  BY <1>2, <1>3 DEF Answer
<1>4. CASE \A i \in DOMAIN a : a[i].kind = "error"
  BY <1>4 DEF AnswerOf, WriteAnswer, GetAnswer, RangeAnswer
<1>5. CASE o = Refusal(s)
  <2>1. o.answers = <<Answer("error", <<>>)>>
    BY <1>5 DEF Refusal, Outcome
  <2>2. \A i \in DOMAIN a : a[i].kind = "error"
    BY <1>3, <2>1
  <2> QED  BY <1>4, <2>2
<1>6. CASE o \in Failed(s, r)
  <2>1. \A i \in DOMAIN a : a[i].kind \in IF r.op = "read_key_range"
                                          THEN {"error", "chunk", "terminated"} ELSE {"error"}
    BY <1>2, <1>6, FailedType
  <2>2. CASE r.op = "read_key_range"
    BY <2>1, <2>2 DEF AnswerOf, RangeAnswer, Writes
  <2> QED  BY <1>4, <2>1, <2>2
<1>7. CASE o = Served(s, r) /\ o # Refusal(s) /\ r.op \in Writes
  <2>1. o = Success(o.store) /\ Shows(o.store, r)
    BY <1>7, WriteServed DEF Success, Outcome
  <2>2. o.answers = <<Answer("success", <<>>)>>
    BY <2>1 DEF Success, Outcome
  <2>3. \A i \in DOMAIN a : a[i].kind = "success"
    BY <1>3, <2>2
  <2> QED  BY <1>7, <2>1, <2>3 DEF AnswerOf, WriteAnswer, Writes
<1>8. CASE o = Served(s, r) /\ o # Refusal(s) /\ r.op = "get"
  <2>1. CASE s[r.key] = None /\ o = Outcome(s, <<Answer("key_error", <<>>)>>)
    <3>1. o.answers = <<Answer("key_error", <<>>)>>
      BY <2>1 DEF Outcome
    <3>2. \A i \in DOMAIN a : a[i].kind = "key_error" /\ a[i].rows = <<>>
      BY <1>3, <3>1
    <3> QED  BY <1>8, <2>1, <3>2 DEF AnswerOf, GetAnswer, Writes
  <2>2. CASE s[r.key] # None /\ o = Outcome(s, <<Answer("success", <<<<r.key, s[r.key]>>>>)>>)
    <3> DEFINE rows == <<<<r.key, s[r.key]>>>>
    <3>1. o.answers = <<Answer("success", rows)>>
      BY <2>2 DEF Outcome
    <3> HIDE DEF rows
    <3>2. \A i \in DOMAIN a : a[i].kind = "success" /\ a[i].rows = rows
      BY <1>3, <3>1
    <3> QED  BY <1>8, <2>2, <3>2 DEF AnswerOf, GetAnswer, Writes, rows
  <2> QED  BY <1>8, <2>1, <2>2, GetServed
<1>9. CASE o = Served(s, r) /\ o # Refusal(s) /\ r.op = "read_key_range"
  <2> DEFINE R == RowsOf(s, r.from, r.to)
             c == Chunks(R)
  <2>1. r.from \in Nat /\ r.to \in Nat
    BY <1>9, RequestKinds
  <2>2. R \in Rows
    BY <2>1, RowsAreTheRange DEF Rows
  <2>3. o.answers = Append(c, Answer("done", <<>>))
    BY <1>9, RangeServed DEF Outcome
  <2> HIDE DEF R
  <2>4. /\ c \in Seq([kind : {"chunk"}, rows : Rows]) /\ Len(c) \in Nat /\ DOMAIN c = 1..Len(c)
    BY <2>2, ChunksAre DEF Rows
  <2> HIDE DEF c
  <2>5. \A i \in 1..Len(c) : c[i].kind = "chunk"
    <3> TAKE i \in 1..Len(c)
    <3>1. c[i] \in [kind : {"chunk"}, rows : Rows]
      BY <2>4, ElementOfSeq
    <3> QED  BY <3>1
  <2>6. /\ Len(a) = Len(c) + 1 /\ DOMAIN a = 1..(Len(c) + 1)
        /\ \A i \in 1..Len(c) : a[i].kind = "chunk" /\ a[i].rows = c[i].rows
        /\ a[Len(c) + 1].kind = "done" /\ a[Len(c) + 1].rows = <<>>
    <3> DEFINE q == Append(c, Answer("done", <<>>))  n == Len(c)
    <3>1. /\ Len(q) = n + 1 /\ DOMAIN q = 1..(n + 1) /\ n \in Nat
          /\ \A i \in 1..n : q[i] = c[i]
          /\ q[n + 1] = Answer("done", <<>>)
      BY <2>4
    <3>2. q = o.answers
      BY <2>3
    <3> HIDE DEF q, n
    <3>3. \A i \in 1..n : i \in 1..(n + 1)
      BY <3>1
    <3>4. n + 1 \in 1..(n + 1)
      BY <3>1
    <3>5. Answer("done", <<>>).kind = "done" /\ Answer("done", <<>>).rows = <<>>
      BY DEF Answer
    <3>6. \A i \in 1..n : a[i].kind = "chunk" /\ a[i].rows = c[i].rows
      BY <1>2, <2>5, <3>1, <3>2, <3>3 DEF n
    <3>7. a[n + 1].kind = "done" /\ a[n + 1].rows = <<>>
      BY <1>2, <3>1, <3>2, <3>4, <3>5
    <3> QED  BY <1>2, <3>1, <3>2, <3>6, <3>7 DEF n
  <2>7. Streaming(R, 0, k.rows, a)
    <3>1. k.rows = SubSeq(R, 1, Least(0 * ChunkSize, Len(R)))
      <4>1. Len(R) \in Nat /\ 0 * ChunkSize = 0
        BY <2>2, OperationsAssumption DEF Rows
      <4>2. Least(0, Len(R)) = 0
        BY <4>1 DEF Least
      <4>3. SubSeq(R, 1, 0) = <<>>
        BY <2>2 DEF Rows
      <4> QED  BY <4>1, <4>2, <4>3
    <3>2. \A i \in 1..(Len(c) + 1) : (i < Len(c) + 1 => i \in 1..Len(c)) /\ (~ (i < Len(c) + 1) => i = Len(c) + 1) /\ i + 0 = i
      BY <2>4
    <3>3. \A i \in DOMAIN a : IF i < Len(a) THEN a[i].kind = "chunk" /\ a[i].rows = c[i + 0].rows
                              ELSE a[i].kind = "done" /\ a[i].rows = <<>>
      BY <2>6, <3>2
    <3>4. Len(a) + 0 = Len(c) + 1
      BY <2>4, <2>6
    <3> QED  BY <3>1, <3>3, <3>4 DEF Streaming, c
  <2>8. 0 \in 0..Len(c)
    BY <2>4
  <2>9. RangeAnswer(k, D, a)
    BY <2>7, <2>8 DEF RangeAnswer, R, c
  <2> QED  BY <1>9, <2>9 DEF AnswerOf, Writes
<1> QED  BY <1>5, <1>6, <1>7, <1>8, <1>9, RequestKinds

-----------------------------------------------------------------------------
(* Every step keeps the invariant *)

\* What a connection carries when a line has been taken, or cut off.
LEMMA RemainsItself ==
  ASSUME NEW m \in ConnType
  PROVE  Remains(m, m)
BY DEF Remains

\* Some of its lines are gone.
LEMMA RemainsFewer ==
  ASSUME NEW m \in ConnType, NEW l \in Seq(Lines), m.lines = <<>> => l = <<>>,
         \A i \in DOMAIN l : \E j \in DOMAIN m.lines : l[i].of = m.lines[j].of
  PROVE  /\ Remains(m, [m EXCEPT !.lines = l])
         /\ [m EXCEPT !.lines = l].lines = l
<1> DEFINE n == [m EXCEPT !.lines = l]
<1>1. n = Connection(m.client, m.server, m.requests, m.todo, l, m.cut)
  BY ConnChanged
<1> HIDE DEF n
<1>2. /\ n.client = m.client /\ n.server = m.server /\ n.requests = m.requests
      /\ n.todo = m.todo /\ n.lines = l /\ n.cut = m.cut
  BY <1>1, ConnFields
<1>3. n \in ConnType
  BY <1>1 DEF ConnType, Connection
<1>4. \A u \in Tasks : Owed(n, u) => Owed(m, u)
  BY <1>2, <1>3, OwedIs
<1>5. Remains(m, n)
  BY <1>2, <1>3, <1>4 DEF Remains
<1> QED  BY <1>2, <1>5 DEF n

\* The parts of the lines of a connection.
LEMMA TailOf ==
  ASSUME NEW l \in Seq(Lines), l # <<>>
  PROVE  /\ Head(l) \in Lines /\ Head(l) = l[1] /\ 1 \in DOMAIN l
         /\ Tail(l) \in Seq(Lines)
         /\ \A i \in DOMAIN Tail(l) : i + 1 \in DOMAIN l /\ Tail(l)[i] = l[i + 1]
<1>1. Len(l) \in Nat /\ DOMAIN l = 1..Len(l) /\ Len(l) >= 1
  OBVIOUS
<1>2. Tail(l) \in Seq(Lines) /\ Len(Tail(l)) = Len(l) - 1 /\ DOMAIN Tail(l) = 1..(Len(l) - 1)
      /\ \A i \in 1..(Len(l) - 1) : Tail(l)[i] = l[i + 1]
  OBVIOUS
<1>3. \A i \in 1..(Len(l) - 1) : i + 1 \in 1..Len(l)
  BY <1>1
<1>4. Head(l) \in Lines /\ Head(l) = l[1]
  OBVIOUS
<1> QED  BY <1>1, <1>2, <1>3, <1>4

\* However a call ends.
LEMMA EndsKeeps ==
  ASSUME SInv, NEW t \in Tasks, NEW pc \in Ended, NEW rows \in Rows, NEW n,
         task[t].pc \in Busy, Remains(conn[ConnOf(t)], n),
         n = conn[ConnOf(t)] \/ task[t].pc \in {"reading", "yielding"},
         Ends(t, pc, rows, n),
         pc = "returned" => Result(EndedCall(t, pc, rows, n), versions),
         UNCHANGED <<linked, gen, versions>>, faults' \in 0..MaxFaults
  PROVE  SInv'
<1>1. n \in ConnType /\ ConnOf(t) \in Conns /\ ClientOf[t] \in Clients /\ Typed
  BY Reads DEF Remains, SInv
<1>2. /\ SetTask(t, EndedCall(t, pc, rows, n)) /\ SetConn(ConnOf(t), LeftBy(t, n))
      /\ lock' = [lock EXCEPT ![ClientOf[t]] = RemoveFirst(lock[ClientOf[t]], t)]
  BY <1>1, EndsDoes DEF SetTask, SetConn
<1>3. SetLock(ClientOf[t], RemoveFirst(lock[ClientOf[t]], t))
  BY <1>1, <1>2 DEF SetLock, Typed
<1>4. EndedCall(t, pc, rows, n).pc = pc
  BY CallFields DEF EndedCall
<1>5. Result(EndedCall(t, pc, rows, n), versions)
  BY <1>4 DEF Result
<1> QED  BY <1>2, <1>3, <1>5, EndKeeps

\* A call raises.
LEMMA RaisesKeeps ==
  ASSUME SInv, NEW t \in Tasks, NEW n, task[t].pc \in Busy, Remains(conn[ConnOf(t)], n),
         n = conn[ConnOf(t)] \/ task[t].pc \in {"reading", "yielding"},
         Raises(t, n), UNCHANGED <<linked, gen, versions>>, faults' \in 0..MaxFaults
  PROVE  SInv'
<1>1. Ends(t, "raised", <<>>, n) /\ "raised" \in Ended /\ "raised" # "returned"
  BY DEF Raises, Ended
<1>2. <<>> \in Rows
  BY DEF Rows
<1> QED  BY <1>1, <1>2, EndsKeeps

\* A fault counts.
LEMMA FaultCounts ==
  ASSUME SInv, Fault
  PROVE  faults' \in 0..MaxFaults
BY SessionAssumption DEF SInv, Typed, Fault

\* What a call is when it is begun.
LEMMA BegunIs ==
  ASSUME NEW t, NEW r
  PROVE  Begun(t, r) = Call("idle", r, gen[ClientOf[t]], <<>>, TRUE, Len(versions), Len(versions))
<1> DEFINE on == gen[ClientOf[t]]  now == Len(versions)  no == [op |-> "none"]
           yes == TRUE  one == 1  zero == 0  none == <<>>  idle == "idle"
           k == Call(idle, no, zero, none, yes, one, one)
           k1 == [k EXCEPT !.req = r]
           k2 == [k1 EXCEPT !.on = on]
           k3 == [k2 EXCEPT !.since = now]
           k4 == [k3 EXCEPT !.until = now]
<1>1. Begun(t, r) = k4
  BY DEF Begun, NoCall, Call
<1> HIDE DEF on, now, no, yes, one, zero, none, idle
<1>2. k1 = Call(idle, r, zero, none, yes, one, one)
  BY DEF Call
<1> HIDE DEF k1
<1>3. k2 = Call(idle, r, on, none, yes, one, one)
  BY <1>2 DEF Call
<1> HIDE DEF k2
<1>4. k3 = Call(idle, r, on, none, yes, now, one)
  BY <1>3 DEF Call
<1> HIDE DEF k3
<1>5. k4 = Call(idle, r, on, none, yes, now, now)
  BY <1>4 DEF Call
<1> HIDE DEF k4
<1> QED  BY <1>1, <1>5 DEF on, now, yes, none, idle

\* Its parts, and their types.
LEMMA BegunType ==
  ASSUME SInv, NEW t \in Tasks, NEW r \in RequestsOf[t]
  PROVE  /\ Begun(t, r) \in CallType /\ r \in Requests
         /\ Begun(t, r).req = r /\ Begun(t, r).on = gen[ClientOf[t]] /\ Begun(t, r).rows = <<>>
         /\ Begun(t, r).since = Len(versions) /\ Begun(t, r).until = Len(versions)
         /\ Len(versions) \in Nat /\ Len(versions) >= 1
         /\ gen[ClientOf[t]] \in 1..gen[ClientOf[t]]
<1>1. /\ gen[ClientOf[t]] \in Nat /\ gen[ClientOf[t]] >= 1
      /\ Len(versions) \in Nat /\ Len(versions) >= 1 /\ ClientOf[t] \in Clients
  <2>1. ClientOf[t] \in Clients
    BY SessionAssumption
  <2>2. gen[ClientOf[t]] \in 1..MaxConnects[ClientOf[t]]
    BY <2>1 DEF SInv, Numbered
  <2> QED  BY <2>1, <2>2 DEF SInv, Typed, Timed
<1>2. r \in Requests /\ r \in Reqs
  BY SessionAssumption DEF Reqs
<1>3. "idle" \in PCs /\ <<>> \in Rows
  BY DEF PCs, Rows
<1> DEFINE on == gen[ClientOf[t]]  now == Len(versions)
           yes == TRUE  none == <<>>
<1>4. Begun(t, r) = Call("idle", r, on, none, yes, now, now)
  BY BegunIs
<1>5. on \in Nat /\ now \in Nat /\ yes \in BOOLEAN /\ none \in Rows
  BY <1>1, <1>3
<1> HIDE DEF on, now, yes, none
<1>6. Begun(t, r) \in CallType
  BY <1>2, <1>3, <1>4, <1>5 DEF CallType, Call
<1>7. /\ Begun(t, r).req = r /\ Begun(t, r).on = on /\ Begun(t, r).rows = none
      /\ Begun(t, r).since = now /\ Begun(t, r).until = now
  BY <1>4, CallFields
<1> QED  BY <1>1, <1>2, <1>6, <1>7 DEF on, now, none

\* A call with another step, and perhaps another connection or other rows.
LEMMA CallMoves ==
  ASSUME NEW k \in CallType, NEW pc \in PCs, NEW on \in Nat
  PROVE  /\ Moving(k, pc, on) \in CallType
         /\ Moving(k, pc, on).pc = pc /\ Moving(k, pc, on).on = on /\ Moving(k, pc, on).rows = k.rows
         /\ Moving(k, pc, on).req = k.req /\ Moving(k, pc, on).since = k.since /\ Moving(k, pc, on).until = k.until
<1> DEFINE b == k.req  c == k.on  d == k.rows  e == k.clean  f == k.since  g == k.until
           x == Moving(k, pc, on)
<1>1. x = Call(pc, b, on, d, e, f, g)
  BY CallChanged
<1>2. b \in Reqs /\ c \in Nat /\ d \in Rows /\ e \in BOOLEAN /\ f \in Nat /\ g \in Nat
  BY DEF CallType
<1> HIDE DEF b, c, d, e, f, g, x
<1>3. x \in CallType
  BY <1>1, <1>2 DEF CallType, Call
<1>4. /\ x.pc = pc /\ x.on = on /\ x.rows = d
      /\ x.req = b /\ x.since = f /\ x.until = g
  BY <1>1, CallFields
<1> QED  BY <1>3, <1>4 DEF b, c, d, f, g, x

\* A call with another step and other rows.
LEMMA CallTakes ==
  ASSUME NEW k \in CallType, NEW pc \in PCs, NEW rows \in Rows
  PROVE  /\ Taking(k, pc, rows) \in CallType
         /\ Taking(k, pc, rows).pc = pc /\ Taking(k, pc, rows).on = k.on /\ Taking(k, pc, rows).rows = rows
         /\ Taking(k, pc, rows).req = k.req /\ Taking(k, pc, rows).since = k.since /\ Taking(k, pc, rows).until = k.until
<1> DEFINE b == k.req  c == k.on  d == k.rows  e == k.clean  f == k.since  g == k.until
           x == Taking(k, pc, rows)
<1>1. x = Call(pc, b, c, rows, e, f, g)
  BY CallChanged
<1>2. b \in Reqs /\ c \in Nat /\ d \in Rows /\ e \in BOOLEAN /\ f \in Nat /\ g \in Nat
  BY DEF CallType
<1> HIDE DEF b, c, d, e, f, g, x
<1>3. x \in CallType
  BY <1>1, <1>2 DEF CallType, Call
<1>4. /\ x.pc = pc /\ x.on = c /\ x.rows = rows
      /\ x.req = b /\ x.since = f /\ x.until = g
  BY <1>1, CallFields
<1> QED  BY <1>3, <1>4 DEF b, c, d, f, g, x

\* A call with another step.
LEMMA CallAt ==
  ASSUME NEW k \in CallType, NEW pc \in PCs
  PROVE  /\ At(k, pc) \in CallType
         /\ At(k, pc).pc = pc /\ At(k, pc).on = k.on /\ At(k, pc).rows = k.rows
         /\ At(k, pc).req = k.req /\ At(k, pc).since = k.since /\ At(k, pc).until = k.until
<1> DEFINE b == k.req  c == k.on  d == k.rows  e == k.clean  f == k.since  g == k.until
           x == At(k, pc)
<1>1. x = Call(pc, b, c, d, e, f, g)
  BY CallChanged
<1>2. b \in Reqs /\ c \in Nat /\ d \in Rows /\ e \in BOOLEAN /\ f \in Nat /\ g \in Nat
  BY DEF CallType
<1> HIDE DEF b, c, d, e, f, g, x
<1>3. x \in CallType
  BY <1>1, <1>2 DEF CallType, Call
<1>4. /\ x.pc = pc /\ x.on = c /\ x.rows = d
      /\ x.req = b /\ x.since = f /\ x.until = g
  BY <1>1, CallFields
<1> QED  BY <1>3, <1>4 DEF b, c, d, f, g, x

\* A call of a client that is not connected raises (client.py).
LEMMA CallRaisesKeeps ==
  ASSUME SInv, NEW t \in Tasks, NEW r \in RequestsOf[t], CallRaises(t, r)
  PROVE  SInv'
<1> DEFINE k == At(Begun(t, r), "raised")
<1>1. /\ task' = [task EXCEPT ![t] = k] /\ task[t].pc = "idle"
      /\ UNCHANGED <<lock, linked, gen, conn, versions, faults>>
  BY DEF CallRaises, At, TaskAt
<1>2. SetTask(t, k)
  BY <1>1 DEF SetTask, SInv, Typed
<1>3. "raised" \in PCs
  BY DEF PCs, Ended
<1>4. /\ k \in CallType /\ k.pc = "raised" /\ k.req \in Requests /\ k.rows = <<>>
      /\ k.on \in 1..gen[ClientOf[t]] /\ 1 <= k.since /\ k.since <= k.until /\ k.until <= Len(versions)
  <2> DEFINE b == Begun(t, r)
  <2>1. /\ b \in CallType /\ b.req \in Requests /\ b.rows = <<>>
        /\ b.on \in 1..gen[ClientOf[t]] /\ 1 <= b.since /\ b.since <= b.until /\ b.until <= Len(versions)
    BY BegunType
  <2> HIDE DEF b
  <2> QED  BY <1>3, <2>1, CallAt DEF b
<1> HIDE DEF k
<1> QED  BY <1>1, <1>2, <1>4, BeginKeeps

\* A call finds _io_lock taken and waits for it.
LEMMA CallWaitsKeeps ==
  ASSUME SInv, NEW t \in Tasks, NEW r \in RequestsOf[t], CallWaits(t, r)
  PROVE  SInv'
<1> DEFINE k == At(Begun(t, r), "waiting")
<1>1. /\ task' = [task EXCEPT ![t] = k] /\ task[t].pc = "idle" /\ lock[ClientOf[t]] # <<>>
      /\ lock' = [lock EXCEPT ![ClientOf[t]] = Append(lock[ClientOf[t]], t)]
      /\ UNCHANGED <<linked, gen, conn, versions, faults>>
  BY DEF CallWaits, At, TaskAt
<1>2. SetTask(t, k) /\ SetLock(ClientOf[t], Append(lock[ClientOf[t]], t))
  BY <1>1 DEF SetTask, SetLock, SInv, Typed
<1>3. "waiting" \in PCs
  BY DEF PCs, Busy
<1>4. /\ k \in CallType /\ k.pc = "waiting" /\ k.req \in Requests /\ k.rows = <<>>
      /\ k.on \in 1..gen[ClientOf[t]] /\ 1 <= k.since /\ k.since <= k.until /\ k.until <= Len(versions)
  <2> DEFINE b == Begun(t, r)
  <2>1. /\ b \in CallType /\ b.req \in Requests /\ b.rows = <<>>
        /\ b.on \in 1..gen[ClientOf[t]] /\ 1 <= b.since /\ b.since <= b.until /\ b.until <= Len(versions)
    BY BegunType
  <2> HIDE DEF b
  <2> QED  BY <1>3, <2>1, CallAt DEF b
<1> HIDE DEF k
<1> QED  BY <1>1, <1>2, <1>4, BeginKeeps

\* What sending a request does to the state.
LEMMA SendsDoes ==
  ASSUME SInv, NEW t \in Tasks, NEW k, Sends(t, k)
  PROVE  /\ SetTask(t, Moving(k, "reading", gen[ClientOf[t]]))
         /\ \E w \in ConnType :
              /\ w.client = conn[Current(ClientOf[t])].client
              /\ w.requests = Append(conn[Current(ClientOf[t])].requests, t)
              /\ w.todo = conn[Current(ClientOf[t])].todo /\ w.lines = conn[Current(ClientOf[t])].lines
              /\ w.cut = conn[Current(ClientOf[t])].cut
              /\ SetConn(Current(ClientOf[t]), w)
<1> DEFINE cn == Current(ClientOf[t])
           m == conn[cn]
           w == [m EXCEPT !.requests = Append(m.requests, t)]
<1>1. cn \in Conns /\ m \in ConnType
  <2>1. ClientOf[t] \in Clients
    BY SessionAssumption
  <2>2. gen[ClientOf[t]] \in 1..MaxConnects[ClientOf[t]]
    BY <2>1 DEF SInv, Numbered
  <2>3. cn \in Conns
    BY <2>1, <2>2 DEF Conns, Current
  <2> QED  BY <2>3 DEF SInv, Typed
<1>2. task' = [task EXCEPT ![t] = Moving(k, "reading", gen[ClientOf[t]])]
  BY DEF Sends, Moving
<1>3. SetTask(t, Moving(k, "reading", gen[ClientOf[t]]))
  BY <1>2 DEF SetTask, SInv, Typed
<1>4. conn' = [conn EXCEPT ![cn] = w]
  BY DEF Sends
<1> HIDE DEF cn
<1> DEFINE x == Append(m.requests, t)
<1>5. w = Connection(m.client, m.server, x, m.todo, m.lines, m.cut)
  BY <1>1, ConnChanged
<1> HIDE DEF m, w, x
<1>6. /\ w.client = m.client /\ w.requests = x /\ w.todo = m.todo
      /\ w.lines = m.lines /\ w.cut = m.cut
  BY <1>5, ConnFields
<1>7. w \in ConnType
  <2>1. Append(m.requests, t) \in Seq(Tasks)
    BY <1>1, AppendProperties DEF ConnType
  <2> QED  BY <1>1, <1>5, <2>1 DEF ConnType, Connection, x
<1>8. SetConn(cn, w)
  BY <1>4 DEF SetConn, SInv, Typed
<1> QED  BY <1>3, <1>6, <1>7, <1>8 DEF m, cn, x

\* A call finds _io_lock free and sends its request.
LEMMA CallSendsKeeps ==
  ASSUME SInv, NEW t \in Tasks, NEW r \in RequestsOf[t], CallSends(t, r)
  PROVE  SInv'
<1> DEFINE k == Moving(Begun(t, r), "reading", gen[ClientOf[t]])
<1>1. /\ task[t].pc = "idle" /\ linked[ClientOf[t]] /\ lock[ClientOf[t]] = <<>>
      /\ lock' = [lock EXCEPT ![ClientOf[t]] = <<t>>] /\ Sends(t, Begun(t, r))
      /\ UNCHANGED <<linked, gen, versions, faults>>
  BY DEF CallSends, TaskAt
<1>2. SetLock(ClientOf[t], <<t>>)
  BY <1>1 DEF SetLock, SInv, Typed
<1>3. "reading" \in PCs
  BY DEF PCs, Busy
<1>4. /\ k \in CallType /\ k.pc = "reading" /\ k.req \in Requests /\ k.rows = <<>>
      /\ k.on = gen[ClientOf[t]] /\ 1 <= k.since /\ k.since <= k.until /\ k.until <= Len(versions)
  <2>1. gen[ClientOf[t]] \in Nat
    BY SessionAssumption DEF SInv, Typed
  <2> DEFINE b == Begun(t, r)  on == gen[ClientOf[t]]
  <2>2. /\ b \in CallType /\ b.req \in Requests /\ b.rows = <<>> /\ on \in Nat
        /\ 1 <= b.since /\ b.since <= b.until /\ b.until <= Len(versions)
    BY <2>1, BegunType
  <2> HIDE DEF b, on
  <2>3. /\ Moving(b, "reading", on) \in CallType
        /\ Moving(b, "reading", on).pc = "reading" /\ Moving(b, "reading", on).on = on
        /\ Moving(b, "reading", on).rows = b.rows /\ Moving(b, "reading", on).req = b.req
        /\ Moving(b, "reading", on).since = b.since /\ Moving(b, "reading", on).until = b.until
    BY <1>3, <2>2, CallMoves
  <2> QED  BY <2>2, <2>3 DEF b, on
<1>5. SetTask(t, k)
  BY <1>1, SendsDoes
<1> HIDE DEF k
<1>6. PICK w \in ConnType :
              /\ w.client = conn[Current(ClientOf[t])].client
              /\ w.requests = Append(conn[Current(ClientOf[t])].requests, t)
              /\ w.todo = conn[Current(ClientOf[t])].todo /\ w.lines = conn[Current(ClientOf[t])].lines
              /\ w.cut = conn[Current(ClientOf[t])].cut
              /\ SetConn(Current(ClientOf[t]), w)
  BY <1>1, SendsDoes
<1> QED  BY <1>1, <1>2, <1>4, <1>5, <1>6, SendKeeps

\* A call that waited gets _io_lock, and sends its request or raises.
LEMMA GetsLockKeeps ==
  ASSUME SInv, NEW t \in Tasks, GetsLock(t)
  PROVE  SInv'
<1>1. /\ task[t].pc = "waiting" /\ Head(lock[ClientOf[t]]) = t /\ UNCHANGED <<linked, gen, versions, faults>>
      /\ task[t].pc \in Busy
  BY DEF GetsLock, TaskAt, Busy
<1>2. CASE linked[ClientOf[t]]
  <2> DEFINE k == Moving(task[t], "reading", gen[ClientOf[t]])
  <2>1. Sends(t, task[t]) /\ lock' = lock
    BY <1>2 DEF GetsLock
  <2>2. "reading" \in PCs
    BY DEF PCs, Busy
  <2>3. /\ k \in CallType /\ k.pc = "reading" /\ k.req \in Requests /\ k.rows = <<>>
        /\ k.on = gen[ClientOf[t]] /\ 1 <= k.since /\ k.since <= k.until /\ k.until <= Len(versions)
    <3>1. gen[ClientOf[t]] \in Nat
      BY SessionAssumption DEF SInv, Typed
    <3>2. /\ task[t] \in CallType /\ task[t].req \in Requests /\ task[t].rows = <<>>
          /\ 1 <= task[t].since /\ task[t].since <= task[t].until /\ task[t].until <= Len(versions)
      BY <1>1 DEF SInv, Typed, Asked, Timed
    <3> DEFINE b == task[t]  on == gen[ClientOf[t]]
    <3>3. on \in Nat /\ b \in CallType
      BY <3>1, <3>2
    <3> HIDE DEF b, on
    <3>4. /\ Moving(b, "reading", on) \in CallType
          /\ Moving(b, "reading", on).pc = "reading" /\ Moving(b, "reading", on).on = on
          /\ Moving(b, "reading", on).rows = b.rows /\ Moving(b, "reading", on).req = b.req
          /\ Moving(b, "reading", on).since = b.since /\ Moving(b, "reading", on).until = b.until
      BY <2>2, <3>3, CallMoves
    <3> QED  BY <3>2, <3>4 DEF b, on
  <2>4. SetTask(t, k)
    BY <2>1, SendsDoes
  <2> HIDE DEF k
  <2>5. PICK w \in ConnType :
              /\ w.client = conn[Current(ClientOf[t])].client
              /\ w.requests = Append(conn[Current(ClientOf[t])].requests, t)
              /\ w.todo = conn[Current(ClientOf[t])].todo /\ w.lines = conn[Current(ClientOf[t])].lines
              /\ w.cut = conn[Current(ClientOf[t])].cut
              /\ SetConn(Current(ClientOf[t]), w)
    BY <2>1, SendsDoes
  <2> QED  BY <1>1, <1>2, <2>1, <2>3, <2>4, <2>5, SendKeeps
<1>3. CASE ~linked[ClientOf[t]]
  <2>1. Raises(t, conn[ConnOf(t)])
    BY <1>3 DEF GetsLock
  <2>2. Remains(conn[ConnOf(t)], conn[ConnOf(t)])
    BY <1>1, Reads, RemainsItself DEF SInv, Typed
  <2>3. faults' \in 0..MaxFaults
    BY <1>1 DEF SInv, Typed
  <2> QED  BY <1>1, <2>1, <2>2, <2>3, RaisesKeeps
<1> QED  BY <1>2, <1>3

\* A range reads the connection that its client has now.
LEMMA ReadsOnKeeps ==
  ASSUME SInv, NEW t \in Tasks, task[t].pc \in {"reading", "yielding"},
         task[t].req.op = "read_key_range", NEW n, Remains(conn[ConnOf(t)], n),
         \/ n = conn[ConnOf(t)]
         \/ /\ conn[ConnOf(t)].lines # <<>> /\ n.lines = Tail(conn[ConnOf(t)].lines)
            /\ Head(conn[ConnOf(t)].lines).kind \notin {"chunk", "done"},
         ReadsOn(t, n), UNCHANGED <<linked, gen, versions, faults>>
  PROVE  SInv'
<1>1. CASE linked[ClientOf[t]]
  <2> DEFINE b == task[t]  on == gen[ClientOf[t]]  k == Moving(b, "reading", on)
  <2>1. /\ task' = [task EXCEPT ![t] = k]
        /\ conn' = [conn EXCEPT ![ConnOf(t)] = n] /\ lock' = lock
    BY <1>1 DEF ReadsOn, Moving
  <2>2. SetTask(t, k) /\ SetConn(ConnOf(t), n)
    BY <2>1 DEF SetTask, SetConn, SInv, Typed
  <2>3. b \in CallType /\ on \in Nat /\ "reading" \in PCs
    BY SessionAssumption DEF SInv, Typed, PCs, Busy
  <2> HIDE DEF b, on
  <2>4. /\ k \in CallType
        /\ k.pc = "reading" /\ k.on = on /\ k.rows = b.rows /\ k.req = b.req
        /\ k.since = b.since /\ k.until = b.until
    BY <2>3, CallMoves
  <2> HIDE DEF k
  <2>5. k.pc \in {"reading", "yielding"} /\ k.req = task[t].req /\ k.since = task[t].since
        /\ k.until = task[t].until /\ k.rows = task[t].rows /\ k.on = gen[ClientOf[t]]
    BY <2>4 DEF b, on
  <2>6. UNCHANGED <<lock, linked, gen, versions, faults>>
    BY <2>1
  <2>7. \/ n = conn[ConnOf(t)] /\ k.rows = task[t].rows
        \/ /\ conn[ConnOf(t)].lines # <<>> /\ n.lines = Tail(conn[ConnOf(t)].lines)
           /\ Head(conn[ConnOf(t)].lines).kind # "done"
           /\ k.rows = IF Head(conn[ConnOf(t)].lines).kind = "chunk"
                       THEN task[t].rows \o Head(conn[ConnOf(t)].lines).rows ELSE task[t].rows
    BY <2>5
  <2> QED  BY <1>1, <2>2, <2>4, <2>5, <2>6, <2>7, TakeKeeps
<1>2. CASE ~linked[ClientOf[t]]
  <2>1. Raises(t, n)
    BY <1>2 DEF ReadsOn
  <2> QED  BY <2>1, RaisesKeeps DEF SInv, Typed, Busy
<1> QED  BY <1>1, <1>2

\* What a call takes for its answer was true during it.
LEMMA ReturnsTrue ==
  ASSUME SInv, NEW t \in Tasks, task[t].pc = "reading", conn[ConnOf(t)].lines # <<>>,
         NEW n, Remains(conn[ConnOf(t)], n),
         Returns(task[t].req.op, Head(conn[ConnOf(t)].lines).kind)
  PROVE  Result(EndedCall(t, "returned", task[t].rows \o Head(conn[ConnOf(t)].lines).rows, n), versions)
<1> DEFINE m == conn[ConnOf(t)]
           line == Head(m.lines)
           rows == task[t].rows \o line.rows
           k == EndedCall(t, "returned", rows, n)
           D == Seen(k, versions)
           q == m.lines \o m.todo
           r == task[t].req
           b == task[t]
<1>1. /\ ConnOf(t) \in Conns /\ m \in ConnType /\ n.client = m.client /\ n.cut = m.cut
      /\ m.lines \in Seq(Lines) /\ m.todo \in Seq(Lines) /\ m.lines # <<>>
  <2>1. ConnOf(t) \in Conns
    BY Reads DEF Busy
  <2>2. m \in ConnType
    BY <2>1 DEF SInv, Typed
  <2> QED  BY <2>1, <2>2 DEF Remains, ConnType
<1>2. /\ k.pc = "returned" /\ k.req = r /\ k.rows = rows /\ k.clean = ~n.cut
      /\ k.since = b.since /\ k.until = Len(versions)
  <2> DEFINE c == ~n.cut  u == Len(versions)
  <2>1. k = Call("returned", r, 0, rows, c, b.since, u)
    BY DEF EndedCall
  <2> HIDE DEF c, u, k, rows, b, r
  <2>2. k.pc = "returned" /\ k.req = r /\ k.rows = rows /\ k.clean = c /\ k.since = b.since /\ k.until = u
    BY <2>1, CallFields
  <2> QED  BY <2>2 DEF c, u
<1>3. D = Seen(b, versions) /\ D \in SUBSET Stores
  <2>1. D = Seen(b, versions)
    BY <1>2 DEF Seen
  <2>2. b \in CallType /\ 1 <= b.since /\ b.until <= Len(versions)
    BY DEF SInv, Typed, Timed
  <2>3. Seen(b, versions) \in SUBSET Stores
    BY <2>2, SeenType DEF SInv, Typed
  <2> QED  BY <2>1, <2>3
<1>4. r \in Requests /\ Returns(r.op, line.kind)
  BY DEF SInv, Asked
<1> SUFFICES ASSUME k.clean
             PROVE  /\ r.op \in Writes => \E v \in D : Shows(v, r)
                    /\ r.op = "get" =>
                         \E v \in D : rows = IF v[r.key] = None THEN <<>> ELSE <<<<r.key, v[r.key]>>>>
                    /\ r.op = "read_key_range" => \E v \in D : rows = RowsOf(v, r.from, r.to)
  <2> HIDE DEF k, D, rows, r
  <2> QED  BY <1>2 DEF Result, k, D, rows, r
<1>5. Clean(m)
  BY <1>1, <1>2 DEF SInv, Gone, Clean
<1>6. AnswerOf(b, D, q)
  BY <1>3, <1>5 DEF SInv, Answered
<1> HIDE DEF m, D, k
<1>7. q \in Seq(Lines) /\ q # <<>> /\ Head(q) = line
  <2> DEFINE a == m.lines  c == m.todo
  <2>1. a \in Seq(Lines) /\ c \in Seq(Lines) /\ a # <<>>
    BY <1>1
  <2> HIDE DEF a, c
  <2>2. a \o c \in Seq(Lines) /\ a \o c # <<>> /\ Head(a \o c) = Head(a)
    BY <2>1, FirstLine
  <2> QED  BY <2>2 DEF a, c
<1> HIDE DEF q, line
<1>8. 1 \in DOMAIN q /\ q[1] = line /\ line \in Lines
  BY <1>7, TailOf
<1>9. ASSUME r.op \in Writes PROVE \E v \in D : Shows(v, r)
  <2>1. WriteAnswer(b, D, q)
    BY <1>6, <1>9 DEF AnswerOf
  <2>2. line.kind = "success"
    BY <1>4, <1>8, <1>9, <2>1 DEF WriteAnswer, Returns, Writes
  <2> QED  BY <1>8, <2>1, <2>2 DEF WriteAnswer
<1>10. ASSUME r.op = "get"
       PROVE  \E v \in D : rows = IF v[r.key] = None THEN <<>> ELSE <<<<r.key, v[r.key]>>>>
  <2>1. GetAnswer(b, D, q)
    BY <1>6, <1>10 DEF AnswerOf
  <2>2. line.kind \in {"success", "key_error"} /\ b.rows = <<>>
    BY <1>4, <1>8, <1>10, <2>1 DEF GetAnswer, Returns
  <2>3. rows = line.rows
    <3>1. line.rows \in Seq(StoreKeys \X Values)
      BY <1>8 DEF Lines
    <3>2. \A x \in Seq(StoreKeys \X Values) : <<>> \o x = x
      OBVIOUS
    <3> QED  BY <2>2, <3>1, <3>2
  <2> HIDE DEF rows
  <2> QED  BY <1>8, <2>1, <2>2, <2>3 DEF GetAnswer
<1>11. ASSUME r.op = "read_key_range" PROVE \E v \in D : rows = RowsOf(v, r.from, r.to)
  <2>1. RangeAnswer(b, D, q) /\ line.kind = "done"
    BY <1>4, <1>6, <1>11 DEF AnswerOf, Returns
  <2>2. r.from \in Nat /\ r.to \in Nat
    BY <1>4, <1>11, RequestKinds
  <2> QED  BY <1>3, <1>7, <2>1, <2>2, RangeEnds
<1> QED  BY <1>9, <1>10, <1>11

\* What a connection carries when its first line has been taken.
LEMMA LineTaken ==
  ASSUME SInv, NEW t \in Tasks, task[t].pc \in Busy, conn[ConnOf(t)].lines # <<>>
  PROVE  /\ Remains(conn[ConnOf(t)], [conn[ConnOf(t)] EXCEPT !.lines = Tail(conn[ConnOf(t)].lines)])
         /\ [conn[ConnOf(t)] EXCEPT !.lines = Tail(conn[ConnOf(t)].lines)].lines
              = Tail(conn[ConnOf(t)].lines)
<1> DEFINE m == conn[ConnOf(t)]
<1>1. m \in ConnType /\ m.lines # <<>>
  BY Reads DEF SInv, Typed
<1> HIDE DEF m
<1>2. m.lines \in Seq(Lines)
  BY <1>1 DEF ConnType
<1> DEFINE l == Tail(m.lines)
<1>3. l \in Seq(Lines) /\ (m.lines = <<>> => l = <<>>)
      /\ \A i \in DOMAIN l : \E j \in DOMAIN m.lines : l[i].of = m.lines[j].of
  BY <1>1, <1>2, TailOf
<1> HIDE DEF l
<1>4. Remains(m, [m EXCEPT !.lines = l]) /\ [m EXCEPT !.lines = l].lines = l
  BY <1>1, <1>3, RemainsFewer
<1> QED  BY <1>4 DEF l, m

\* A line is taken, and the call returns, yields a row, reads on or raises.
LEMMA ReceiveKeeps ==
  ASSUME SInv, NEW t \in Tasks, Receive(t)
  PROVE  SInv'
<1> DEFINE m == conn[ConnOf(t)]
           line == Head(m.lines)
           op == task[t].req.op
           rest == [m EXCEPT !.lines = Tail(m.lines)]
           rows == task[t].rows \o line.rows
<1>1. task[t].pc = "reading" /\ m.lines # <<>> /\ UNCHANGED <<linked, gen, versions, faults>>
      /\ task[t].pc \in Busy /\ task[t].pc \in {"reading", "yielding"}
  BY DEF Receive, TaskAt, Busy
<1>2. m \in ConnType /\ faults' \in 0..MaxFaults
  BY <1>1, Reads DEF SInv, Typed
<1>3. Remains(m, rest) /\ rest.lines = Tail(m.lines)
  BY <1>1, LineTaken
<1>4. rows \in Rows
  <2>1. line \in Lines
    BY <1>1, <1>2, TailOf DEF ConnType
  <2>2. task[t].rows \in Rows /\ line.rows \in Rows
    BY <2>1 DEF SInv, Typed, CallType, Lines, Rows
  <2> HIDE DEF line
  <2> QED  BY <2>2 DEF Rows
<1>5. CASE Returns(op, line.kind)
  <2>1. ~Yields(op, line.kind) /\ ~PassesOver(op, line.kind)
    BY <1>5 DEF Returns, Yields, PassesOver
  <2>4. Ends(t, "returned", rows, rest)
    BY <1>5, <2>1 DEF Receive
  <2>2. Result(EndedCall(t, "returned", rows, rest), versions)
    <3> HIDE DEF rest
    <3> QED  BY <1>1, <1>3, <1>5, ReturnsTrue
  <2>3. "returned" \in Ended
    BY DEF Ended
  <2> HIDE DEF rest, rows, m
  <2> QED  BY <1>1, <1>2, <1>3, <1>4, <2>4, <2>2, <2>3, EndsKeeps DEF m
<1>6. CASE ~Returns(op, line.kind) /\ Yields(op, line.kind)
  <2> DEFINE k == Taking(task[t], "yielding", rows)
  <2>1. /\ task' = [task EXCEPT ![t].pc = "yielding", ![t].rows = rows]
        /\ conn' = [conn EXCEPT ![ConnOf(t)] = rest] /\ lock' = lock
    <3>1. ~PassesOver(op, line.kind)
      BY <1>6 DEF Yields, PassesOver
    <3> QED  BY <1>6, <3>1 DEF Receive
  <2>2. task' = [task EXCEPT ![t] = k]
    BY <2>1 DEF Taking
  <2> HIDE DEF rest, rows, m, line
  <2>3. SetTask(t, k) /\ SetConn(ConnOf(t), rest)
    <3> HIDE DEF k
    <3> QED  BY <2>1, <2>2 DEF SetTask, SetConn, SInv, Typed
  <2>4. task[t] \in CallType /\ "yielding" \in PCs
    BY DEF SInv, Typed, PCs, Busy
  <2>5. /\ k \in CallType /\ k.pc = "yielding" /\ k.on = task[t].on /\ k.rows = rows
        /\ k.req = task[t].req /\ k.since = task[t].since /\ k.until = task[t].until
    BY <1>4, <2>4, CallTakes
  <2> HIDE DEF k
  <2>6. op = "read_key_range" /\ line.kind = "chunk"
    BY <1>6 DEF Yields
  <2>7. /\ m.lines # <<>> /\ rest.lines = Tail(m.lines)
        /\ Head(m.lines).kind # "done"
        /\ k.rows = IF Head(m.lines).kind = "chunk" THEN task[t].rows \o Head(m.lines).rows ELSE task[t].rows
    BY <1>1, <1>3, <2>5, <2>6 DEF line, rows
  <2>8. k.pc \in {"reading", "yielding"} /\ UNCHANGED <<lock, linked, gen, versions, faults>>
    BY <1>1, <2>1, <2>5
  <2> QED  BY <1>1, <1>3, <2>3, <2>5, <2>6, <2>7, <2>8, TakeKeeps DEF m
<1>7. CASE ~Returns(op, line.kind) /\ ~Yields(op, line.kind) /\ PassesOver(op, line.kind)
  <2>1. ReadsOn(t, rest)
    BY <1>7 DEF Receive
  <2>2. op = "read_key_range" /\ line.kind \notin {"chunk", "done"}
    BY <1>7 DEF PassesOver
  <2> HIDE DEF rest
  <2> QED  BY <1>1, <1>3, <2>1, <2>2, ReadsOnKeeps
<1>8. CASE ~Returns(op, line.kind) /\ ~Yields(op, line.kind) /\ ~PassesOver(op, line.kind)
  <2>1. Raises(t, rest)
    BY <1>8 DEF Receive
  <2> HIDE DEF rest
  <2> QED  BY <1>1, <1>2, <1>3, <2>1, RaisesKeeps
<1> QED  BY <1>5, <1>6, <1>7, <1>8

\* The head of one sequence moved to the end of another.
LEMMA MoveOver ==
  ASSUME NEW S, NEW a \in Seq(S), NEW b \in Seq(S), b # <<>>
  PROVE  /\ Append(a, Head(b)) \in Seq(S) /\ Tail(b) \in Seq(S)
         /\ Append(a, Head(b)) \o Tail(b) = a \o b
         /\ \A i \in DOMAIN Append(a, Head(b)) :
              (i \in DOMAIN a /\ Append(a, Head(b))[i] = a[i]) \/ Append(a, Head(b))[i] = b[1]
         /\ 1 \in DOMAIN b /\ \A i \in DOMAIN Tail(b) : i + 1 \in DOMAIN b /\ Tail(b)[i] = b[i + 1]
<1> DEFINE h == Head(b)  r == Tail(b)  c == Append(a, h)
<1>1. /\ Len(b) \in Nat /\ Len(b) >= 1 /\ DOMAIN b = 1..Len(b) /\ h = b[1] /\ h \in S
      /\ r \in Seq(S) /\ Len(r) = Len(b) - 1 /\ DOMAIN r = 1..(Len(b) - 1)
      /\ \A i \in 1..(Len(b) - 1) : r[i] = b[i + 1]
  OBVIOUS
<1> HIDE DEF h, r
<1>2. /\ Len(a) \in Nat /\ DOMAIN a = 1..Len(a) /\ c \in Seq(S) /\ Len(c) = Len(a) + 1
      /\ DOMAIN c = 1..(Len(a) + 1) /\ c[Len(a) + 1] = h /\ \A i \in 1..Len(a) : c[i] = a[i]
  BY <1>1, AppendProperties
<1> HIDE DEF c
<1> DEFINE x == c \o r  y == a \o b
<1>3. /\ x \in Seq(S) /\ Len(x) = Len(a) + Len(b)
      /\ \A i \in 1..Len(x) : x[i] = IF i <= Len(a) + 1 THEN c[i] ELSE r[i - (Len(a) + 1)]
  <2>1. /\ c \o r \in Seq(S) /\ Len(c \o r) = Len(c) + Len(r)
        /\ \A i \in 1..(Len(c) + Len(r)) : (c \o r)[i] = IF i <= Len(c) THEN c[i] ELSE r[i - Len(c)]
    BY <1>1, <1>2, ConcatProperties
  <2>2. Len(c) + Len(r) = Len(a) + Len(b)
    BY <1>1, <1>2
  <2> QED  BY <1>2, <2>1, <2>2
<1>4. /\ y \in Seq(S) /\ Len(y) = Len(a) + Len(b)
      /\ \A i \in 1..Len(y) : y[i] = IF i <= Len(a) THEN a[i] ELSE b[i - Len(a)]
  BY <1>1, <1>2, ConcatProperties
<1> HIDE DEF x, y
<1>5. ASSUME NEW i \in 1..Len(x) PROVE x[i] = y[i]
  <2>1. i \in Nat /\ i >= 1 /\ i <= Len(a) + Len(b) /\ i \in 1..Len(y)
    BY <1>1, <1>2, <1>3, <1>4
  <2>2. CASE i <= Len(a)
    BY <1>1, <1>2, <1>3, <1>4, <2>1, <2>2
  <2>3. CASE i = Len(a) + 1
    <3>1. x[i] = h
      BY <1>2, <1>3, <2>3
    <3>2. y[i] = b[i - Len(a)] /\ i - Len(a) = 1
      BY <1>2, <1>4, <2>1, <2>3
    <3> QED  BY <1>1, <3>1, <3>2
  <2>4. CASE i > Len(a) + 1
    <3> DEFINE j == i - (Len(a) + 1)
    <3>1. x[i] = r[j] /\ j \in 1..(Len(b) - 1) /\ j + 1 = i - Len(a)
      BY <1>1, <1>2, <1>3, <2>1, <2>4
    <3>2. y[i] = b[i - Len(a)]
      BY <1>2, <1>4, <2>1, <2>4
    <3> HIDE DEF j
    <3> QED  BY <1>1, <3>1, <3>2
  <2> QED  BY <1>2, <2>1, <2>2, <2>3, <2>4
<1>6. x = y
  BY <1>3, <1>4, <1>5, SeqEqual
<1>7. \A i \in DOMAIN c : (i \in DOMAIN a /\ c[i] = a[i]) \/ c[i] = b[1]
  BY <1>1, <1>2
<1>8. 1 \in DOMAIN b /\ \A i \in DOMAIN r : i + 1 \in DOMAIN b /\ r[i] = b[i + 1]
  BY <1>1
<1> QED  BY <1>1, <1>2, <1>6, <1>7, <1>8 DEF c, h, r, x, y

\* A line over the limit of readline: its reader raises, and what is left of
\* the line is still owed to whom the line answered.
LEMMA TooLongLeaves ==
  ASSUME SInv, NEW t \in Tasks, ReceiveTooLong(t)
  PROVE  \E n : Remains(conn[ConnOf(t)], n) /\ Raises(t, n)
<1> DEFINE m == conn[ConnOf(t)]
           left == [Head(m.lines) EXCEPT !.kind = "garbage", !.rows = <<>>]
<1>1. task[t].pc \in Busy /\ m.lines # <<>>
  BY DEF ReceiveTooLong, TaskAt, Busy
<1>2. PICK rest \in {<<>>, <<left>>} : Raises(t, [m EXCEPT !.lines = rest \o Tail(m.lines)])
  BY DEF ReceiveTooLong
<1>3. m \in ConnType
  BY <1>1, Reads DEF SInv, Typed
<1> DEFINE a == m.lines
<1>4. a \in Seq(Lines) /\ a # <<>>
  BY <1>1, <1>3 DEF ConnType
<1> DEFINE b == Tail(a)  h == Head(a)
<1> HIDE DEF a
<1>5. /\ h \in Lines /\ h = a[1] /\ 1 \in DOMAIN a /\ b \in Seq(Lines)
      /\ \A i \in DOMAIN b : i + 1 \in DOMAIN a /\ b[i] = a[i + 1]
  BY <1>4, TailOf
<1>6. left \in Lines /\ left.of = h.of
  <2>1. left = [h EXCEPT !.kind = "garbage", !.rows = <<>>]
    BY DEF a
  <2> HIDE DEF left, h
  <2>2. left = [of |-> h.of, kind |-> "garbage", rows |-> <<>>]
    BY <1>5, <2>1 DEF Lines
  <2>3. <<>> \in Seq(StoreKeys \X Values) /\ h.of \in Tasks
    BY <1>5 DEF Lines
  <2> QED  BY <2>2, <2>3 DEF Lines
<1> DEFINE l == rest \o b
<1>7. l \in Seq(Lines) /\ \A i \in DOMAIN l : \E j \in DOMAIN a : l[i].of = a[j].of
  <2> HIDE DEF left, b, h
  <2>1. CASE rest = <<>>
    <3>1. l = b
      BY <1>5, <2>1
    <3> HIDE DEF l
    <3> QED  BY <1>5, <3>1
  <2>2. CASE rest = <<left>>
    <3>1. <<left>> \in Seq(Lines) /\ Len(<<left>>) = 1 /\ <<left>>[1] = left
      BY <1>6
    <3> DEFINE one == <<left>>
    <3>2. one \in Seq(Lines) /\ Len(one) = 1 /\ one[1] = left /\ l = one \o b
      BY <2>2, <3>1
    <3> HIDE DEF one, l
    <3>3. l \in Seq(Lines) /\ Len(l) = 1 + Len(b) /\ Len(b) \in Nat
          /\ \A i \in 1..Len(l) : l[i] = IF i <= 1 THEN one[i] ELSE b[i - 1]
      <4>1. Len(b) \in Nat /\ b \in Seq(Lines)
        BY <1>5, LenProperties
      <4> HIDE DEF b
      <4>2. /\ one \o b \in Seq(Lines) /\ Len(one \o b) = Len(one) + Len(b)
            /\ \A i \in 1..(Len(one) + Len(b)) :
                 (one \o b)[i] = IF i <= Len(one) THEN one[i] ELSE b[i - Len(one)]
        BY <3>2, <4>1, ConcatProperties
      <4> QED  BY <3>2, <4>1, <4>2
    <3>4. ASSUME NEW i \in DOMAIN l PROVE \E j \in DOMAIN a : l[i].of = a[j].of
      <4>1. i \in 1..Len(l) /\ DOMAIN b = 1..Len(b)
        BY <1>5, <3>3
      <4>2. CASE i <= 1
        <5>1. i = 1 /\ l[i] = left
          BY <3>2, <3>3, <4>1, <4>2
        <5> QED  BY <1>5, <1>6, <5>1
      <4>3. CASE ~(i <= 1)
        <5> DEFINE x == i - 1
        <5>1. x \in DOMAIN b /\ l[i] = b[x]
          BY <3>3, <4>1, <4>3
        <5> HIDE DEF x
        <5> QED  BY <1>5, <5>1
      <4> QED  BY <4>2, <4>3
    <3> QED  BY <3>3, <3>4
  <2> QED  BY <1>2, <2>1, <2>2
<1>8. Raises(t, [m EXCEPT !.lines = l])
  BY <1>2 DEF a
<1> HIDE DEF l, m
<1>9. Remains(m, [m EXCEPT !.lines = l])
  BY <1>3, <1>4, <1>7, RemainsFewer DEF a
<1> DEFINE n == [m EXCEPT !.lines = l]
<1>10. Raises(t, n) /\ Remains(m, n)
  BY <1>8, <1>9
<1> HIDE DEF n
<1> QED  BY <1>10 DEF m

\* Its reader raises.
LEMMA ReceiveTooLongKeeps ==
  ASSUME SInv, NEW t \in Tasks, ReceiveTooLong(t)
  PROVE  SInv'
<1>1. /\ task[t].pc \in Busy /\ task[t].pc \in {"reading", "yielding"}
      /\ faults' \in 0..MaxFaults /\ UNCHANGED <<linked, gen, versions>>
  BY FaultCounts DEF ReceiveTooLong, TaskAt, Busy
<1>2. PICK n : Remains(conn[ConnOf(t)], n) /\ Raises(t, n)
  BY TooLongLeaves
<1> QED  BY <1>1, <1>2, RaisesKeeps

\* The consumer of a range asks for the next row.
LEMMA PullKeeps ==
  ASSUME SInv, NEW t \in Tasks, Pull(t)
  PROVE  SInv'
<1>1. /\ task[t].pc = "yielding" /\ task[t].pc \in Busy /\ task[t].pc \in {"reading", "yielding"}
      /\ ReadsOn(t, conn[ConnOf(t)]) /\ UNCHANGED <<linked, gen, versions, faults>>
  BY DEF Pull, TaskAt, Busy
<1>2. task[t].req.op = "read_key_range"
  BY <1>1 DEF SInv, Asked
<1>3. Remains(conn[ConnOf(t)], conn[ConnOf(t)])
  BY <1>1, Reads, RemainsItself DEF SInv, Typed
<1> QED  BY <1>1, <1>2, <1>3, ReadsOnKeeps

\* The connection has ended under its reader.
LEMMA EndOfFileKeeps ==
  ASSUME SInv, NEW t \in Tasks, EndOfFile(t)
  PROVE  SInv'
<1>1. /\ task[t].pc \in Busy /\ Raises(t, conn[ConnOf(t)]) /\ UNCHANGED <<linked, gen, versions, faults>>
  BY DEF EndOfFile, TaskAt, Busy
<1>2. Remains(conn[ConnOf(t)], conn[ConnOf(t)])
  BY <1>1, Reads, RemainsItself DEF SInv, Typed
<1>3. faults' \in 0..MaxFaults
  BY <1>1 DEF SInv, Typed
<1> QED  BY <1>1, <1>2, <1>3, RaisesKeeps

\* A call is cancelled where it waits, reads or yields.
LEMMA CancelKeeps ==
  ASSUME SInv, NEW t \in Tasks, Cancel(t)
  PROVE  SInv'
<1>1. /\ task[t].pc \in Busy /\ Ends(t, "cancelled", <<>>, conn[ConnOf(t)])
      /\ UNCHANGED <<linked, gen, versions>> /\ faults' \in 0..MaxFaults
  BY FaultCounts DEF Cancel
<1>2. Remains(conn[ConnOf(t)], conn[ConnOf(t)])
  BY <1>1, Reads, RemainsItself DEF SInv, Typed
<1>3. "cancelled" \in Ended /\ "cancelled" # "returned" /\ <<>> \in Rows
  BY DEF Ended, Rows
<1> QED  BY <1>1, <1>2, <1>3, EndsKeeps

\* A request that can be served is one that its task has made.
LEMMA Requested ==
  ASSUME SInv, NEW cn \in Conns, CanServe(cn)
  PROVE  /\ conn[cn] \in ConnType /\ conn[cn].server /\ conn[cn].todo = <<>> /\ conn[cn].requests # <<>>
         /\ Head(conn[cn].requests) \in Tasks /\ Request(cn) \in Requests /\ Store \in Stores
<1>1. conn[cn] \in ConnType /\ conn[cn].server /\ conn[cn].todo = <<>> /\ conn[cn].requests # <<>>
  BY DEF SInv, Typed, CanServe
<1> DEFINE q == conn[cn].requests
<1>2. q \in Seq(Tasks) /\ q # <<>>
  BY <1>1 DEF ConnType
<1> HIDE DEF q
<1>3. 1 \in DOMAIN q /\ Head(q) = q[1] /\ q[1] \in Tasks
  BY <1>2
<1>4. task[q[1]].pc \notin {"idle", "waiting"}
  BY <1>3 DEF SInv, Once, q
<1>5. task[q[1]].req \in Requests
  BY <1>3, <1>4 DEF SInv, Asked
<1>6. Store \in Stores
  <2>1. versions \in Seq(Stores) /\ versions # <<>>
    BY DEF SInv, Typed, Timed
  <2>2. Len(versions) \in DOMAIN versions
    BY <2>1
  <2> QED  BY <2>1, <2>2, ElementOfSeq DEF Store, Last
<1> QED  BY <1>1, <1>3, <1>5, <1>6 DEF Request, q

\* An answer, as the server gives it.
LEMMA AnswersDoes ==
  ASSUME SInv, NEW cn \in Conns, CanServe(cn), NEW o,
         o = Served(Store, Request(cn)) \/ o \in Failed(Store, Request(cn)), Answers(cn, o)
  PROVE  /\ versions' = IF o.store = Store THEN versions ELSE Append(versions, o.store)
         /\ o.store \in Stores
         /\ \E w \in ConnType :
              /\ w.client = conn[cn].client /\ w.cut = conn[cn].cut
              /\ w.requests = Tail(conn[cn].requests)
              /\ IF conn[cn].client
                 THEN /\ w.lines = Append(conn[cn].lines, Head(LinesFor(Head(conn[cn].requests), o)))
                      /\ w.todo = Tail(LinesFor(Head(conn[cn].requests), o))
                 ELSE w.lines = conn[cn].lines /\ w.todo = conn[cn].todo
              /\ SetConn(cn, w)
<1> DEFINE m == conn[cn]
           t == Head(m.requests)
           r == Request(cn)
           s == o.store
           a == LinesFor(t, o)
<1>1. /\ m \in ConnType /\ m.requests # <<>> /\ m.todo = <<>> /\ t \in Tasks /\ r \in Requests
      /\ Store \in Stores /\ r = task[t].req
  BY Requested DEF Request
<1> HIDE DEF r, t
<1>2. /\ s \in Stores /\ a \in Seq(Lines) /\ a # <<>> /\ \A i \in DOMAIN a : a[i].of = t
      /\ \A k, D : k.req = r /\ k.rows = <<>> /\ Store \in D /\ s \in D => AnswerOf(k, D, a)
  BY <1>1, AnswersServe DEF r
<1> DEFINE x == Tail(m.requests)
           y == IF m.client THEN Append(m.lines, Head(a)) ELSE m.lines
           z == IF m.client THEN Tail(a) ELSE m.todo
           w == IF m.client THEN Answering(m, x, y, z) ELSE [m EXCEPT !.requests = x]
<1>3. versions' = IF s = Store THEN versions ELSE Append(versions, s)
  BY DEF Answers
<1>4. conn' = [conn EXCEPT ![cn] = w]
  <2>1. conn' = IF m.client
                THEN [conn EXCEPT ![cn].requests = Tail(m.requests),
                                  ![cn].lines = Append(m.lines, Head(a)),
                                  ![cn].todo = Tail(a)]
                ELSE [conn EXCEPT ![cn].requests = Tail(m.requests)]
    BY DEF Answers, LinesFor, t
  <2>2. CASE m.client
    <3>1. conn' = [conn EXCEPT ![cn].requests = x, ![cn].lines = y, ![cn].todo = z]
      BY <2>1, <2>2
    <3> HIDE DEF x, y, z
    <3>2. conn' = [conn EXCEPT ![cn] = Answering(m, x, y, z)]
      BY <3>1 DEF Answering
    <3>3. w = Answering(m, x, y, z)
      BY <2>2
    <3> HIDE DEF w
    <3> QED  BY <3>2, <3>3
  <2>3. CASE ~m.client
    BY <2>1, <2>3
  <2> QED  BY <2>2, <2>3
<1>5. w = Connection(m.client, m.server, x, z, y, m.cut)
  <2>1. CASE m.client
    <3> HIDE DEF x, y, z, m
    <3>1. Answering(m, x, y, z) = Connection(m.client, m.server, x, z, y, m.cut)
      BY <1>1, ConnRebuilt
    <3> QED  BY <2>1, <3>1
  <2>2. CASE ~m.client
    <3>1. y = m.lines /\ z = m.todo
      BY <2>2
    <3> HIDE DEF x, y, z, m
    <3>2. [m EXCEPT !.requests = x] = Connection(m.client, m.server, x, m.todo, m.lines, m.cut)
      BY <1>1, ConnChanged
    <3> QED  BY <2>2, <3>1, <3>2
  <2> QED  BY <2>1, <2>2
<1>6. x \in Seq(Tasks) /\ y \in Seq(Lines) /\ z \in Seq(Lines)
  <2> DEFINE b == m.requests  e == m.lines
  <2>1. b \in Seq(Tasks) /\ b # <<>> /\ e \in Seq(Lines)
    BY <1>1 DEF ConnType
  <2> HIDE DEF b, e, a
  <2>2. Tail(b) \in Seq(Tasks) /\ Head(a) \in Lines /\ Tail(a) \in Seq(Lines)
    BY <1>2, <2>1, TailOf
  <2>3. Append(e, Head(a)) \in Seq(Lines)
    BY <2>1, <2>2, AppendProperties
  <2> QED  BY <1>1, <2>1, <2>2, <2>3 DEF b, e
<1> HIDE DEF w
<1>7. w \in ConnType
  BY <1>1, <1>5, <1>6 DEF ConnType, Connection
<1>8. /\ w.client = m.client /\ w.cut = m.cut /\ w.requests = x /\ w.lines = y /\ w.todo = z
  <2> HIDE DEF x, y, z, m
  <2> QED  BY <1>5, ConnFields
<1>9. SetConn(cn, w)
  BY <1>4 DEF SetConn, SInv, Typed
<1>10. /\ w.requests = Tail(m.requests)
       /\ IF m.client THEN w.lines = Append(m.lines, Head(a)) /\ w.todo = Tail(a)
          ELSE w.lines = m.lines /\ w.todo = m.todo
  BY <1>8
<1> HIDE DEF w, x, y, z
<1> QED  BY <1>2, <1>3, <1>7, <1>8, <1>9, <1>10 DEF t

\* The answer is what the call is owed, so the invariant is kept.
LEMMA AnswersKeeps ==
  ASSUME SInv, NEW cn \in Conns, CanServe(cn), NEW o,
         o = Served(Store, Request(cn)) \/ o \in Failed(Store, Request(cn)),
         Answers(cn, o), UNCHANGED <<task, lock, linked, gen>>, faults' \in 0..MaxFaults
  PROVE  SInv'
<1> DEFINE m == conn[cn]
           t == Head(m.requests)
           r == Request(cn)
           s == o.store
           a == LinesFor(t, o)
<1>1. /\ m \in ConnType /\ m.requests # <<>> /\ m.todo = <<>> /\ t \in Tasks /\ r \in Requests
      /\ Store \in Stores /\ r = task[t].req
  BY Requested DEF Request
<1>2. /\ versions' = IF s = Store THEN versions ELSE Append(versions, s)
      /\ \E w \in ConnType :
           /\ w.client = m.client /\ w.cut = m.cut /\ w.requests = Tail(m.requests)
           /\ IF m.client THEN w.lines = Append(m.lines, Head(a)) /\ w.todo = Tail(a)
              ELSE w.lines = m.lines /\ w.todo = m.todo
           /\ SetConn(cn, w)
  BY AnswersDoes
<1> HIDE DEF r, t
<1>3. /\ s \in Stores /\ a \in Seq(Lines) /\ a # <<>> /\ \A i \in DOMAIN a : a[i].of = t
      /\ \A k, D : k.req = r /\ k.rows = <<>> /\ Store \in D /\ s \in D => AnswerOf(k, D, a)
  BY <1>1, AnswersServe DEF r
<1> HIDE DEF a, s
<1> QED  BY <1>1, <1>2, <1>3, ServeKeeps DEF t

\* handle_request, when all goes well and when the engine raises.
LEMMA ServesKeep ==
  ASSUME SInv, NEW cn \in Conns, Serve(cn) \/ ServeFails(cn)
  PROVE  SInv'
<1>1. CASE Serve(cn)
  <2> DEFINE o == Served(Store, Request(cn))
  <2>1. CanServe(cn) /\ Answers(cn, o) /\ UNCHANGED <<task, lock, linked, gen, faults>>
    BY <1>1 DEF Serve
  <2>2. faults' \in 0..MaxFaults
    BY <2>1 DEF SInv, Typed
  <2>3. o = Served(Store, Request(cn))
    OBVIOUS
  <2> HIDE DEF o
  <2> QED  BY <2>1, <2>2, <2>3, AnswersKeeps
<1>2. CASE ServeFails(cn)
  <2>1. CanServe(cn) /\ faults' \in 0..MaxFaults /\ UNCHANGED <<task, lock, linked, gen>>
    BY <1>2, FaultCounts DEF ServeFails
  <2>2. PICK o \in Failed(Store, Request(cn)) : Answers(cn, o)
    BY <1>2 DEF ServeFails
  <2> QED  BY <2>1, <2>2, AnswersKeeps
<1> QED  BY <1>1, <1>2

\* The next line of a stream is sent.
LEMMA StreamKeeps ==
  ASSUME SInv, NEW cn \in Conns, Stream(cn)
  PROVE  SInv'
<1> DEFINE m == conn[cn]
           x == m.requests
           y == Append(m.lines, Head(m.todo))
           z == Tail(m.todo)
           w == Answering(m, x, y, z)
<1>1. m \in ConnType /\ m.todo # <<>> /\ UNCHANGED <<task, lock, linked, gen, versions, faults>>
  BY DEF SInv, Typed, Stream
<1>2. conn' = [conn EXCEPT ![cn] = w]
  <2> DEFINE k == [m EXCEPT !.lines = y]
             v == [k EXCEPT !.todo = z]
  <2>1. conn' = [conn EXCEPT ![cn].lines = y, ![cn].todo = z]
    BY DEF Stream
  <2>2. conn' = [conn EXCEPT ![cn] = v]
    <3> HIDE DEF y, z
    <3> QED  BY <2>1
  <2>3. v = Connection(m.client, m.server, x, z, y, m.cut)
    <3> HIDE DEF m, y, z
    <3>1. k = Connection(m.client, m.server, m.requests, m.todo, y, m.cut)
      BY <1>1, ConnChanged
    <3> HIDE DEF k
    <3> QED  BY <3>1 DEF Connection
  <2>4. w = Connection(m.client, m.server, x, z, y, m.cut)
    <3> HIDE DEF m, x, y, z
    <3> QED  BY <1>1, ConnRebuilt
  <2> HIDE DEF v, w, m
  <2> QED  BY <2>2, <2>3, <2>4
<1>3. w = Connection(m.client, m.server, x, z, y, m.cut)
  <2> HIDE DEF m, x, y, z
  <2> QED  BY <1>1, ConnRebuilt
<1> DEFINE a == m.lines  b == m.todo
<1>4. a \in Seq(Lines) /\ b \in Seq(Lines) /\ b # <<>> /\ x \in Seq(Tasks)
  BY <1>1 DEF ConnType
<1> HIDE DEF a, b
<1>5. /\ Append(a, Head(b)) \in Seq(Lines) /\ Tail(b) \in Seq(Lines)
      /\ Append(a, Head(b)) \o Tail(b) = a \o b
      /\ \A i \in DOMAIN Append(a, Head(b)) :
           (i \in DOMAIN a /\ Append(a, Head(b))[i] = a[i]) \/ Append(a, Head(b))[i] = b[1]
      /\ 1 \in DOMAIN b /\ \A i \in DOMAIN Tail(b) : i + 1 \in DOMAIN b /\ Tail(b)[i] = b[i + 1]
  BY <1>4, MoveOver
<1>6. y \in Seq(Lines) /\ z \in Seq(Lines) /\ y \o z = m.lines \o m.todo
  BY <1>5 DEF a, b
<1>7. w \in ConnType
  <2> HIDE DEF w, y, z, m
  <2> QED  BY <1>1, <1>3, <1>4, <1>6 DEF ConnType, Connection
<1>8. /\ w.client = m.client /\ w.cut = m.cut /\ w.requests = x /\ w.lines = y /\ w.todo = z
  <2> HIDE DEF w, x, y, z, m
  <2> QED  BY <1>3, ConnFields
<1> HIDE DEF w
<1>9. ASSUME NEW u \in Tasks, Owed(w, u) PROVE Owed(m, u)
  <2>1. \/ \E i \in DOMAIN x : x[i] = u
        \/ \E i \in DOMAIN z : z[i].of = u
        \/ \E i \in DOMAIN y : y[i].of = u
    <3> HIDE DEF x, y, z, m
    <3> QED  BY <1>7, <1>8, <1>9, OwedIs
  <2>2. \/ \E i \in DOMAIN m.requests : m.requests[i] = u
        \/ \E i \in DOMAIN b : b[i].of = u
        \/ \E i \in DOMAIN a : a[i].of = u
    <3>1. CASE \E i \in DOMAIN z : z[i].of = u
      BY <1>5, <3>1 DEF b
    <3>2. CASE \E i \in DOMAIN y : y[i].of = u
      <4> PICK i \in DOMAIN y : y[i].of = u
        BY <3>2
      <4>1. (i \in DOMAIN a /\ y[i] = a[i]) \/ y[i] = b[1]
        BY <1>5 DEF a, b
      <4> QED  BY <1>5, <4>1
    <3> QED  BY <2>1, <3>1, <3>2
  <2> HIDE DEF m
  <2> QED  BY <1>1, <2>2, OwedIs DEF a, b
<1>10. SetConn(cn, w)
  BY <1>2 DEF SetConn, SInv, Typed
<1>11. w.lines \o w.todo = m.lines \o m.todo
  BY <1>6, <1>8
<1>12. faults' \in 0..MaxFaults
  BY <1>1 DEF SInv, Typed
<1> HIDE DEF y, z
<1> QED  BY <1>1, <1>7, <1>8, <1>9, <1>10, <1>11, <1>12, CarryKeeps

\* The server closes a connection: one whose request is too long, or one its
\* client has left.
LEMMA ClosesKeep ==
  ASSUME SInv, NEW cn \in Conns, Reject(cn) \/ HangUp(cn)
  PROVE  SInv'
<1> DEFINE m == conn[cn]
           no == FALSE
           w == [m EXCEPT !.server = no]
<1>1. /\ m \in ConnType
      /\ \/ m.requests # <<>>
         \/ m.todo # <<>>
         \/ ~m.client
      /\ UNCHANGED <<task, lock, linked, gen, versions>> /\ faults' \in 0..MaxFaults
  <2>1. m \in ConnType /\ faults \in 0..MaxFaults
    BY DEF SInv, Typed
  <2>2. CASE Reject(cn)
    BY <2>1, <2>2, FaultCounts DEF Reject, CanServe
  <2>3. CASE HangUp(cn)
    BY <2>1, <2>3 DEF HangUp
  <2> QED  BY <2>2, <2>3
<1>2. conn' = [conn EXCEPT ![cn] = w]
  BY DEF Reject, HangUp, Closes
<1>3. SetConn(cn, w)
  <2> HIDE DEF w
  <2> QED  BY <1>2 DEF SetConn, SInv, Typed
<1>4. m \in ConnType
  BY DEF SInv, Typed
<1> HIDE DEF m, no
<1>5. w = Connection(m.client, no, m.requests, m.todo, m.lines, m.cut)
  BY <1>4, ConnChanged
<1> HIDE DEF w
<1>6. /\ w.client = m.client /\ w.cut = m.cut /\ w.requests = m.requests /\ w.lines = m.lines /\ w.todo = m.todo
  BY <1>5, ConnFields
<1>7. w \in ConnType
  BY <1>4, <1>5 DEF ConnType, Connection, no
<1>8. \A u \in Tasks : Owed(w, u) => Owed(m, u)
  BY <1>4, <1>6, <1>7, OwedSame
<1>9. w.lines \o w.todo = m.lines \o m.todo
  BY <1>6
<1> QED  BY <1>1, <1>3, <1>6, <1>7, <1>8, <1>9, CarryKeeps DEF m

\* Every step keeps the invariant.
LEMMA NextKeeps ==
  SInv /\ [Next]_vars => SInv'
<1> SUFFICES ASSUME SInv, [Next]_vars PROVE SInv'
  OBVIOUS
<1>1. CASE \E c \in Clients : Connect(c) \/ Disconnect(c)
  BY <1>1, ConnectKeeps, DisconnectKeeps
<1>2. CASE \E t \in Tasks : Calls(t) \/ ClientStep(t) \/ Cancel(t)
  <2> PICK t \in Tasks : Calls(t) \/ ClientStep(t) \/ Cancel(t)
    BY <1>2
  <2>1. CASE Calls(t)
    BY <2>1, CallRaisesKeeps, CallSendsKeeps, CallWaitsKeeps DEF Calls
  <2>2. CASE ClientStep(t)
    BY <2>2, GetsLockKeeps, ReceiveKeeps, ReceiveTooLongKeeps, PullKeeps, EndOfFileKeeps
    DEF ClientStep
  <2>3. CASE Cancel(t)
    BY <2>3, CancelKeeps
  <2> QED  BY <2>1, <2>2, <2>3
<1>3. CASE \E cn \in Conns : ServerStep(cn)
  BY <1>3, ServesKeep, StreamKeeps, ClosesKeep DEF ServerStep
<1>4. CASE UNCHANGED vars
  BY <1>4 DEF vars, SInv, Typed, QueueOf, Asked, Queued, Numbered, Current, Gone, Timed, Once, Owned, Clean,
              Owed, ConnOf, Answered, Confirmed
<1> QED  BY <1>1, <1>2, <1>3, <1>4 DEF Next

-----------------------------------------------------------------------------
(* The theorems *)

\* The invariant holds of every state a run reaches.
LEMMA Reached == Spec => []SInv
BY InitHolds, NextKeeps, PTL DEF Spec

\* Every part of the state is of its type, the lock's queue holds calls under
\* way of its own client, and no client opens more connections than it may.
THEOREM TypeCorrect == Spec => []TypeOK
<1>1. SInv => TypeOK
  BY Typing DEF SInv
<1> QED  BY Reached, <1>1, PTL

\* The versions during a call, by both names.
LEMMA DuringIs ==
  ASSUME SInv, NEW t \in Tasks
  PROVE  During(t) = Seen(task[t], versions) /\ During(t) # {}
<1>1. During(t) = Seen(task[t], versions)
  BY DEF During, Seen, TaskAt
<1>2. /\ task[t].since \in Nat /\ task[t].until \in Nat /\ Len(versions) \in Nat
      /\ task[t].since <= task[t].until /\ task[t].until <= Len(versions)
  BY DEF SInv, Typed, Timed, CallType
<1> DEFINE last == IF TaskAt(t, "returned") /\ task[t].clean THEN task[t].until ELSE Len(versions)
<1>3. task[t].since \in task[t].since .. last
  BY <1>2
<1>4. versions[task[t].since] \in During(t)
  BY <1>3 DEF During
<1> QED  BY <1>1, <1>4

\* Whatever other calls are cancelled, refused or cut off, and whatever the
\* engine raises: a put, delete or batch_put that returned "success" (client.py)
\* over a connection on which no call was cut short has taken effect between
\* its call and its return.
THEOREM AcknowledgedWritesHold == Spec => []AcknowledgedWritesTookEffect
<1>1. ASSUME SInv PROVE AcknowledgedWritesTookEffect
  <2> SUFFICES ASSUME NEW t \in Tasks, TaskAt(t, "returned"), task[t].clean
               PROVE  \E s \in During(t) : Shows(s, task[t].req)
    BY DEF AcknowledgedWritesTookEffect, Shows
  <2>1. task[t].pc = "returned" /\ task[t].req \in Requests /\ Result(task[t], versions)
    BY <1>1 DEF TaskAt, SInv, Asked, Confirmed
  <2>2. CASE task[t].req.op \in Writes
    BY <1>1, <2>1, <2>2, DuringIs DEF Result
  <2>3. CASE task[t].req.op \notin Writes
    <3>1. DOMAIN Effect(task[t].req) = {}
      BY <2>1, <2>3, EffectType
    <3> QED  BY <1>1, <3>1, DuringIs DEF Shows
  <2> QED  BY <2>2, <2>3
<1> QED  BY Reached, <1>1, PTL

\* _read_key_range streams its rows in chunks and _io_lock is held while its
\* consumer works; what a range that ended normally has yielded are all the
\* rows, in order, of one version of the store during the call.
THEOREM RangesAreSnapshotsHold == Spec => []RangesAreSnapshots
<1>1. ASSUME SInv PROVE RangesAreSnapshots
  <2> SUFFICES ASSUME NEW t \in Tasks, TaskAt(t, "returned"), task[t].clean,
                      task[t].req.op = "read_key_range"
               PROVE  \E s \in During(t) : task[t].rows = RowsOf(s, task[t].req.from, task[t].req.to)
    BY DEF RangesAreSnapshots
  <2>1. task[t].pc = "returned" /\ Result(task[t], versions)
    BY <1>1 DEF TaskAt, SInv, Confirmed
  <2> QED  BY <1>1, <2>1, DuringIs DEF Result
<1> QED  BY Reached, <1>1, PTL

-----------------------------------------------------------------------------
(* The refinement: what KVStore sees of the state *)

AbsStore == Store

AbsPending == [t \in Tasks |-> Pending(t)]

AbsReading == [t \in Tasks |-> Reading(t)]

\* The request of t is on one of the connections cs.
Asking(t, cs) == \E cn \in Conns : In(t, cs[cn].requests)

\* What a call is to write, and Reading of it, by its locals.
PendingIn(k, asking) == IF k.pc = "waiting" \/ asking THEN Effect(k.req) ELSE KV!NoEffect

\* A call that writes something may fail.
WriteOf(e) == [effect |-> e, mayFail |-> DOMAIN e # {}]

ReadingOf(k, vs) ==
  IF k.req.op # "get"
  THEN [pc |-> "idle", key |-> None, seen |-> {}, result |-> None]
  ELSE IF k.pc = "returned" /\ k.clean
  THEN [pc |-> "done", key |-> k.req.key, seen |-> {v[k.req.key] : v \in Seen(k, vs)},
        result |-> IF k.rows # <<>> THEN k.rows[1][2] ELSE None]
  ELSE [pc |-> "busy", key |-> k.req.key, seen |-> {v[k.req.key] : v \in Seen(k, vs)},
        result |-> None]

\* What the store sees, by the locals of the calls, before a step and after it.
LEMMA AbsIs ==
  /\ AbsStore = Store /\ AbsStore' = Last(versions')
  /\ AbsPending = [t \in Tasks |-> WriteOf(PendingIn(task[t], Asking(t, conn)))]
  /\ AbsPending' = [t \in Tasks |-> WriteOf(PendingIn(task'[t], Asking(t, conn')))]
  /\ AbsReading = [t \in Tasks |-> ReadingOf(task[t], versions)]
  /\ AbsReading' = [t \in Tasks |-> ReadingOf(task'[t], versions')]
<1>1. Effect([op |-> "none"]) = KV!NoEffect
  BY DEF Effect, KV!NoEffect
<1>2. ASSUME NEW t \in Tasks PROVE Pending(t) = WriteOf(PendingIn(task[t], Asking(t, conn)))
  <2>1. (\E cn \in Conns : t \in ToSet(conn[cn].requests)) <=> Asking(t, conn)
    BY DEF Asking, In, ToSet
  <2> QED  BY <1>1, <2>1 DEF Pending, WriteOf, PendingIn, TaskAt
<1>3. ASSUME NEW t \in Tasks PROVE Pending(t)' = WriteOf(PendingIn(task'[t], Asking(t, conn')))
  <2>1. (\E cn \in Conns : t \in ToSet(conn'[cn].requests)) <=> Asking(t, conn')
    BY DEF Asking, In, ToSet
  <2> QED  BY <1>1, <2>1 DEF Pending, WriteOf, PendingIn, TaskAt
<1>4. ASSUME NEW t \in Tasks PROVE Reading(t) = ReadingOf(task[t], versions)
  <2>1. During(t) = Seen(task[t], versions)
    BY DEF During, Seen, TaskAt
  <2> QED  BY <2>1 DEF Reading, ReadingOf, TaskAt
<1>5. ASSUME NEW t \in Tasks PROVE Reading(t)' = ReadingOf(task'[t], versions')
  <2>1. During(t)' = Seen(task'[t], versions')
    BY DEF During, Seen, TaskAt
  <2> QED  BY <2>1 DEF Reading, ReadingOf, TaskAt
<1> QED  BY <1>2, <1>3, <1>4, <1>5 DEF AbsStore, AbsPending, AbsReading, Store

\* Nothing is pending of a call that writes nothing, and only of such a one.
LEMMA NothingToWrite == WriteOf(KV!NoEffect) = KV!NoWrite
<1>1. (DOMAIN KV!NoEffect # {}) = FALSE
  BY DEF KV!NoEffect
<1> QED  BY <1>1 DEF WriteOf, KV!NoWrite

LEMMA EmptyEffect ==
  ASSUME NEW r, DOMAIN Effect(r) = {}
  PROVE  Effect(r) = KV!NoEffect
<1>1. CASE r.op = "put" \/ (r.op # "put" /\ r.op = "delete")
  BY <1>1 DEF Effect
<1>2. CASE r.op \notin {"put", "delete"} /\ r.op = "batch_put"
  <2> DEFINE D == {r.pairs[i].key : i \in DOMAIN r.pairs}
             F(k) == r.pairs[Max({i \in DOMAIN r.pairs : r.pairs[i].key = k})].value
  <2>1. Effect(r) = [k \in D |-> F(k)]
    BY <1>2 DEF Effect
  <2> HIDE DEF D, F
  <2>2. D = {}
    BY <2>1
  <2> QED  BY <2>1, <2>2 DEF KV!NoEffect
<1>3. CASE r.op \notin {"put", "delete", "batch_put"}
  BY <1>3 DEF Effect, KV!NoEffect
<1> QED  BY <1>1, <1>2, <1>3

\* The steps of the store, one by one.
LEMMA StoreCalls ==
  ASSUME NEW t \in Tasks, NEW effect \in KV!Effects, AbsPending[t] = KV!NoWrite,
         AbsPending' = [AbsPending EXCEPT ![t] = WriteOf(effect)],
         AbsStore' = AbsStore, AbsReading' = AbsReading
  PROVE  KV!Next
<1>1. KV!Call(t, WriteOf(effect))
  BY DEF KV!Call, AbsStore, AbsPending, AbsReading
<1>2. WriteOf(effect) \in KV!Writes
  <2>1. (DOMAIN effect # {}) \in BOOLEAN
    OBVIOUS
  <2> QED  BY <2>1 DEF WriteOf, KV!Writes
<1> QED  BY <1>1, <1>2 DEF KV!Next

\* Nothing is seen.
LEMMA StoreStutters ==
  ASSUME AbsStore' = AbsStore, AbsPending' = AbsPending, AbsReading' = AbsReading
  PROVE  UNCHANGED KV!vars
BY DEF KV!vars, AbsStore, AbsPending, AbsReading

\* A call is given up: that is seen of one that was to write something.
LEMMA StoreRefuses ==
  ASSUME NEW t \in Tasks, AbsPending' = [AbsPending EXCEPT ![t] = KV!NoWrite],
         NEW r, NEW e, e = Effect(r) \/ e = KV!NoEffect, AbsPending[t] = WriteOf(e),
         AbsStore' = AbsStore, AbsReading' = AbsReading
  PROVE  KV!Next \/ UNCHANGED KV!vars
<1>1. CASE DOMAIN e = {}
  <2>1. e = KV!NoEffect
    BY <1>1, EmptyEffect
  <2>2. AbsPending[t] = KV!NoWrite
    BY <2>1, NothingToWrite
  <2>3. AbsPending = [u \in Tasks |-> AbsPending[u]]
    BY AbsIs
  <2>4. AbsPending' = AbsPending
    BY <2>2, <2>3
  <2> QED  BY <2>4, StoreStutters
<1>2. CASE DOMAIN e # {}
  <2>1. AbsPending[t].mayFail
    <3>1. (DOMAIN e # {}) = TRUE
      BY <1>2
    <3>2. WriteOf(e) = [effect |-> e, mayFail |-> TRUE]
      BY <3>1 DEF WriteOf
    <3> QED  BY <3>2
  <2>2. KV!Refuse(t)
    BY <2>1 DEF KV!Refuse, AbsStore, AbsPending, AbsReading
  <2> QED  BY <2>2 DEF KV!Next
<1> QED  BY <1>1, <1>2

\* A write takes effect.
LEMMA StoreTakesEffect ==
  ASSUME NEW t \in Tasks, AbsPending' = [AbsPending EXCEPT ![t] = KV!NoWrite],
         NEW effect, effect = AbsPending[t].effect,
         AbsStore' = [k \in StoreKeys |-> IF k \in DOMAIN effect THEN effect[k] ELSE AbsStore[k]],
         AbsReading' = [u \in Tasks |->
           IF AbsReading[u].pc = "busy" /\ AbsReading[u].key \in DOMAIN effect
           THEN [AbsReading[u] EXCEPT !.seen = @ \cup {effect[AbsReading[u].key]}]
           ELSE AbsReading[u]]
  PROVE  KV!Next
<1>1. KV!TakeEffect(t)
  BY DEF KV!TakeEffect, AbsStore, AbsPending, AbsReading
<1> QED  BY <1>1 DEF KV!Next

\* A get is called.
LEMMA StoreGets ==
  ASSUME NEW t \in Tasks, NEW k \in StoreKeys, AbsReading[t].pc = "idle",
         AbsReading' = [AbsReading EXCEPT ![t] =
           [pc |-> "busy", key |-> k, seen |-> {AbsStore[k]}, result |-> None]],
         AbsStore' = AbsStore, AbsPending' = AbsPending
  PROVE  KV!Next
<1> DEFINE v == AbsStore[k]
           f == [KV!Idle EXCEPT !.pc = "busy"]
           a == [f EXCEPT !.key = k]
           b == [a EXCEPT !.seen = {v}]
<1>1. f = [pc |-> "busy", key |-> None, seen |-> {}, result |-> None]
  BY DEF KV!Idle
<1>2. a = [pc |-> "busy", key |-> k, seen |-> {}, result |-> None]
  <2> HIDE DEF f
  <2> QED  BY <1>1
<1>3. b = [pc |-> "busy", key |-> k, seen |-> {v}, result |-> None]
  <2> HIDE DEF a, v
  <2> QED  BY <1>2
<1>4. KV!Get(t, k)
  BY <1>3 DEF KV!Get, AbsStore, AbsPending, AbsReading
<1> QED  BY <1>4 DEF KV!Next

\* A get returns a value that it has seen.
LEMMA StoreReturns ==
  ASSUME NEW t \in Tasks, AbsReading[t].pc = "busy", NEW v \in AbsReading[t].seen,
         AbsReading' = [AbsReading EXCEPT ![t].pc = "done", ![t].result = v],
         AbsStore' = AbsStore, AbsPending' = AbsPending
  PROVE  KV!Next
<1>1. KV!Return(t)
  BY DEF KV!Return, AbsStore, AbsPending, AbsReading
<1> QED  BY <1>1 DEF KV!Next

-----------------------------------------------------------------------------
(* The refinement: every step is one of the store, or is not seen *)

\* Nothing moves but the call t.
OthersStay(t) ==
  /\ versions' = versions
  /\ \A u \in Tasks : u # t => task'[u] = task[u] /\ (Asking(u, conn') <=> Asking(u, conn))

\* The requests stay where they are.
RequestsStay == \A cn \in Conns : conn'[cn].requests = conn[cn].requests

\* So each task is asking for what it was.
LEMMA AskingStays ==
  ASSUME RequestsStay, NEW u
  PROVE  Asking(u, conn') <=> Asking(u, conn)
BY DEF Asking, RequestsStay

\* What the store sees when one call moves.
LEMMA OneMoves ==
  ASSUME NEW t \in Tasks, OthersStay(t)
  PROVE  /\ AbsStore' = AbsStore
         /\ AbsPending' = [AbsPending EXCEPT ![t] = WriteOf(PendingIn(task'[t], Asking(t, conn')))]
         /\ AbsReading' = [AbsReading EXCEPT ![t] = ReadingOf(task'[t], versions)]
<1>1. AbsStore' = AbsStore
  BY AbsIs DEF OthersStay, Store
<1>2. ASSUME NEW u \in Tasks, u # t
      PROVE  /\ PendingIn(task'[u], Asking(u, conn')) = PendingIn(task[u], Asking(u, conn))
             /\ ReadingOf(task'[u], versions') = ReadingOf(task[u], versions)
  <2>1. /\ task'[u] = task[u] /\ versions' = versions
        /\ Asking(u, conn') <=> Asking(u, conn)
    BY <1>2 DEF OthersStay
  <2> QED  BY <2>1 DEF PendingIn
<1>3. versions' = versions
  BY DEF OthersStay
<1> QED  BY <1>1, <1>2, <1>3, AbsIs

\* Neither a call nor a request moves.
LEMMA NothingSeen ==
  ASSUME task' = task, versions' = versions, RequestsStay
  PROVE  UNCHANGED KV!vars
<1>1. \A u \in Tasks : PendingIn(task'[u], Asking(u, conn')) = PendingIn(task[u], Asking(u, conn))
  BY AskingStays DEF PendingIn
<1> QED  BY <1>1, AbsIs, StoreStutters DEF Store

\* A request that is on a connection is that of a call which has been sent.
LEMMA AskingIsSent ==
  ASSUME SInv, NEW t, Asking(t, conn)
  PROVE  task[t].pc \notin {"idle", "waiting"}
BY DEF Asking, In, SInv, Once

\* A write writes some keys, and the other requests none.
LEMMA EffectSeen ==
  ASSUME NEW r \in Requests
  PROVE  Effect(r) \in KV!Effects /\ (r.op \notin Writes => Effect(r) = KV!NoEffect)
<1>1. /\ DOMAIN Effect(r) \in SUBSET StoreKeys
      /\ Effect(r) \in [DOMAIN Effect(r) -> Values \cup {None}]
  BY EffectType
<1>2. Effect(r) \in KV!Effects
  <2> DEFINE D == DOMAIN Effect(r)
  <2> HIDE DEF D
  <2>1. D \in SUBSET StoreKeys /\ Effect(r) \in [D -> Values \cup {None}]
    BY <1>1 DEF D
  <2> QED  BY <2>1 DEF KV!Effects
<1> QED  BY <1>2, EffectType DEF KV!NoEffect

\* The start of a call: a get is one of the store, a write is called, or raises
\* at once and is not seen; a range is never seen.
LEMMA CallRefines ==
  ASSUME SInv, NEW t \in Tasks, OthersStay(t), task[t].pc = "idle", NEW r \in Requests,
         task'[t].req = r, task'[t].pc # "returned", task'[t].since = Len(versions)
  PROVE  KV!Next \/ UNCHANGED KV!vars
<1> DEFINE k == task'[t]
           p == PendingIn(k, Asking(t, conn'))
           x == ReadingOf(k, versions)
<1>1. /\ AbsStore' = AbsStore
      /\ AbsPending' = [AbsPending EXCEPT ![t] = WriteOf(p)]
      /\ AbsReading' = [AbsReading EXCEPT ![t] = x]
  BY OneMoves
<1>2. AbsPending[t] = KV!NoWrite /\ AbsReading[t].pc = "idle"
      /\ AbsReading[t] = [pc |-> "idle", key |-> None, seen |-> {}, result |-> None]
  <2>1. task[t] = NoCall /\ ~Asking(t, conn)
    BY AskingIsSent DEF SInv, Asked
  <2>2. task[t].req.op # "get"
    BY <2>1 DEF NoCall
  <2>3. AbsReading[t] = ReadingOf(task[t], versions) /\ AbsPending[t] = WriteOf(PendingIn(task[t], Asking(t, conn)))
    BY AbsIs
  <2>4. ReadingOf(task[t], versions) = [pc |-> "idle", key |-> None, seen |-> {}, result |-> None]
    BY <2>2 DEF ReadingOf
  <2>5. PendingIn(task[t], Asking(t, conn)) = KV!NoEffect
    BY <2>1 DEF PendingIn
  <2> QED  BY <2>3, <2>4, <2>5, NothingToWrite
<1>3. AbsPending = [AbsPending EXCEPT ![t] = WriteOf(KV!NoEffect)]
  BY <1>2, AbsIs, NothingToWrite
<1>4. AbsReading = [AbsReading EXCEPT ![t] = [pc |-> "idle", key |-> None, seen |-> {}, result |-> None]]
  BY <1>2, AbsIs
<1>5. p = Effect(r) \/ p = KV!NoEffect
  BY DEF PendingIn
<1>6. CASE r.op = "get"
  <2>1. p = KV!NoEffect
    BY <1>5, <1>6, EffectSeen DEF Writes
  <2>2. r.key \in StoreKeys
    BY <1>6, RequestKinds
  <2>3. Seen(k, versions) = {Store}
    <3>1. Len(versions) \in Nat
      BY DEF SInv, Typed
    <3>2. Seen(k, versions) = {versions[i] : i \in Len(versions) .. Len(versions)}
      BY DEF Seen
    <3>3. Len(versions) .. Len(versions) = {Len(versions)}
      BY <3>1
    <3> QED  BY <3>2, <3>3 DEF Store, Last
  <2>4. x = [pc |-> "busy", key |-> r.key, seen |-> {AbsStore[r.key]}, result |-> None]
    <3>1. {v[r.key] : v \in Seen(k, versions)} = {AbsStore[r.key]}
      BY <2>3, AbsIs
    <3> QED  BY <1>6, <3>1 DEF ReadingOf
  <2> HIDE DEF p, x
  <2>5. AbsPending' = AbsPending
    BY <1>1, <1>3, <2>1
  <2>6. AbsReading' = [AbsReading EXCEPT ![t] = [pc |-> "busy", key |-> r.key, seen |-> {AbsStore[r.key]}, result |-> None]]
    BY <1>1, <2>4
  <2>7. KV!Next
    BY <1>1, <1>2, <2>2, <2>5, <2>6, StoreGets
  <2> QED  BY <2>7
<1>7. CASE r.op # "get"
  <2>1. x = [pc |-> "idle", key |-> None, seen |-> {}, result |-> None]
    BY <1>7 DEF ReadingOf
  <2> HIDE DEF p, x
  <2>2. AbsReading' = AbsReading
    BY <1>1, <1>4, <2>1
  <2>3. CASE p = KV!NoEffect
    <3>1. AbsPending' = AbsPending
      BY <1>1, <1>3, <2>3
    <3> QED  BY <1>1, <2>2, <3>1, StoreStutters
  <2>4. CASE p = Effect(r)
    <3>1. p \in KV!Effects
      BY <2>4, EffectSeen
    <3>2. KV!Next
      BY <1>1, <1>2, <2>2, <3>1, StoreCalls
    <3> QED  BY <3>2
  <2> QED  BY <1>5, <2>3, <2>4
<1> QED  BY <1>6, <1>7

\* A call under way moves on, or ends: one that was waiting gives its write up,
\* a get that has its answer returns, and nothing else is seen.
Moves(t) ==
  /\ OthersStay(t) /\ task[t].pc \in Busy
  /\ task'[t].req = task[t].req /\ task'[t].since = task[t].since
  /\ task'[t].pc = "returned" => task[t].pc # "waiting" /\ task'[t].until = Len(versions)
  /\ \/ PendingIn(task'[t], Asking(t, conn')) = PendingIn(task[t], Asking(t, conn))
     \/ PendingIn(task'[t], Asking(t, conn')) = KV!NoEffect /\ task'[t].pc # "returned"

\* Such a step is one of the store, or is not seen.
LEMMA MoveRefines ==
  ASSUME SInv, SInv', NEW t \in Tasks, Moves(t)
  PROVE  KV!Next \/ UNCHANGED KV!vars
<1> DEFINE k == task'[t]
           old == task[t]
           p == PendingIn(k, Asking(t, conn'))
           x == ReadingOf(k, versions)
           y == ReadingOf(old, versions)
           D == Seen(old, versions)
<1>1. /\ AbsStore' = AbsStore
      /\ AbsPending' = [AbsPending EXCEPT ![t] = WriteOf(p)]
      /\ AbsReading' = [AbsReading EXCEPT ![t] = x]
  BY OneMoves DEF Moves
<1>2. /\ k.req = old.req /\ k.since = old.since /\ old.pc # "returned"
      /\ k.pc = "returned" => k.until = Len(versions)
      /\ p = PendingIn(old, Asking(t, conn)) \/ (p = KV!NoEffect /\ k.pc # "returned")
  BY DEF Moves, Busy
<1>3. Seen(k, versions) = D
  BY <1>2 DEF Seen
<1>4. /\ AbsPending = [AbsPending EXCEPT ![t] = WriteOf(PendingIn(old, Asking(t, conn)))]
      /\ AbsPending[t] = WriteOf(PendingIn(old, Asking(t, conn)))
      /\ AbsReading = [AbsReading EXCEPT ![t] = y] /\ AbsReading[t] = y
  BY AbsIs
<1>5. CASE k.req.op = "get" /\ k.pc = "returned" /\ k.clean
  <2>1. Result(k, versions)
    <3>1. versions' = versions
      BY DEF Moves, OthersStay
    <3> QED  BY <3>1 DEF SInv, Confirmed
  <2>2. PICK v \in D : k.rows = IF v[k.req.key] = None THEN <<>> ELSE <<<<k.req.key, v[k.req.key]>>>>
    BY <1>3, <1>5, <2>1 DEF Result
  <2> DEFINE w == v[k.req.key]
  <2>3. (IF k.rows # <<>> THEN k.rows[1][2] ELSE None) = w
    BY <2>2
  <2>4. y = [pc |-> "busy", key |-> k.req.key, seen |-> {u[k.req.key] : u \in D}, result |-> None]
    BY <1>2, <1>5 DEF ReadingOf
  <2>5. x = [pc |-> "done", key |-> k.req.key, seen |-> {u[k.req.key] : u \in D}, result |-> w]
    BY <1>3, <1>5, <2>3 DEF ReadingOf
  <2>6. w \in {u[k.req.key] : u \in D}
    OBVIOUS
  <2>7. p = PendingIn(old, Asking(t, conn))
    BY <1>2, <1>5
  <2> DEFINE S == {u[k.req.key] : u \in D}  key == k.req.key
  <2>8. /\ y = [pc |-> "busy", key |-> key, seen |-> S, result |-> None]
        /\ x = [pc |-> "done", key |-> key, seen |-> S, result |-> w] /\ w \in S
    BY <2>4, <2>5, <2>6
  <2> HIDE DEF S, key, x, y, p, w
  <2>9. AbsReading' = [AbsReading EXCEPT ![t].pc = "done", ![t].result = w]
    <3> DEFINE y1 == [y EXCEPT !.pc = "done"]
               y2 == [y1 EXCEPT !.result = w]
    <3>1. y1 = [pc |-> "done", key |-> key, seen |-> S, result |-> None]
      BY <2>8
    <3>2. y2 = x
      <4> HIDE DEF y1
      <4> QED  BY <2>8, <3>1
    <3>3. [AbsReading EXCEPT ![t].pc = "done", ![t].result = w] = [AbsReading EXCEPT ![t] = y2]
      BY <1>4
    <3> HIDE DEF y2
    <3> QED  BY <1>1, <3>2, <3>3
  <2>10. AbsPending' = AbsPending
    BY <1>1, <1>4, <2>7
  <2>11. AbsReading[t].pc = "busy" /\ w \in AbsReading[t].seen
    BY <1>4, <2>8
  <2>12. KV!Next
    BY <1>1, <2>9, <2>10, <2>11, StoreReturns
  <2> QED  BY <2>12
<1>6. CASE ~(k.req.op = "get" /\ k.pc = "returned" /\ k.clean)
  <2>1. x = y
    BY <1>2, <1>3, <1>6 DEF ReadingOf
  <2> HIDE DEF x, y, p
  <2>2. AbsReading' = AbsReading
    BY <1>1, <1>4, <2>1
  <2>3. CASE p = PendingIn(old, Asking(t, conn))
    <3>1. AbsPending' = AbsPending
      BY <1>1, <1>4, <2>3
    <3> QED  BY <1>1, <2>2, <3>1, StoreStutters
  <2>4. CASE p = KV!NoEffect
    <3> DEFINE e == PendingIn(old, Asking(t, conn))
    <3>1. e = Effect(old.req) \/ e = KV!NoEffect
      BY DEF PendingIn
    <3>2. AbsPending' = [AbsPending EXCEPT ![t] = KV!NoWrite] /\ AbsPending[t] = WriteOf(e)
      BY <1>1, <1>4, <2>4, NothingToWrite
    <3> HIDE DEF e, old
    <3> QED  BY <1>1, <2>2, <3>1, <3>2, StoreRefuses
  <2> QED  BY <1>2, <2>3, <2>4
<1> QED  BY <1>5, <1>6

\* A call under way, with its requests where they are.
LEMMA QuietMoves ==
  ASSUME SInv, NEW t \in Tasks, task[t].pc \in Busy, NEW k, SetTask(t, k), RequestsStay,
         versions' = versions, k.req = task[t].req, k.since = task[t].since, k.pc # "waiting",
         k.pc = "returned" => task[t].pc # "waiting" /\ k.until = Len(versions)
  PROVE  Moves(t)
<1>1. task'[t] = k /\ \A u \in Tasks : u # t => task'[u] = task[u]
  BY DEF SetTask
<1>2. \A u \in Tasks : Asking(u, conn') <=> Asking(u, conn)
  BY AskingStays
<1>3. OthersStay(t)
  BY <1>1, <1>2 DEF OthersStay
<1>4. \/ PendingIn(task'[t], Asking(t, conn')) = PendingIn(task[t], Asking(t, conn))
      \/ PendingIn(task'[t], Asking(t, conn')) = KV!NoEffect /\ task'[t].pc # "returned"
  <2>1. CASE task[t].pc = "waiting"
    <3>1. ~Asking(t, conn')
      BY <1>2, <2>1, AskingIsSent
    <3> QED  BY <1>1, <2>1, <3>1 DEF PendingIn
  <2>2. CASE task[t].pc # "waiting"
    BY <1>1, <1>2, <2>2 DEF PendingIn
  <2> QED  BY <2>1, <2>2
<1> QED  BY <1>1, <1>3, <1>4 DEF Moves

\* A call ends, however it does.
LEMMA EndMoves ==
  ASSUME SInv, NEW t \in Tasks, task[t].pc \in Busy, NEW n, Remains(conn[ConnOf(t)], n),
         NEW pc \in Ended, pc = "returned" => task[t].pc # "waiting", NEW rows,
         Ends(t, pc, rows, n), versions' = versions
  PROVE  Moves(t)
<1> DEFINE k == EndedCall(t, pc, rows, n)  w == LeftBy(t, n)
<1>1. n \in ConnType /\ ConnOf(t) \in Conns /\ Typed /\ n.requests = conn[ConnOf(t)].requests
  BY Reads DEF SInv, Remains
<1>2. /\ task' = [u \in Tasks |-> IF u = t THEN k ELSE task[u]]
      /\ conn' = [cn \in Conns |-> IF cn = ConnOf(t) THEN w ELSE conn[cn]]
  BY <1>1, EndsDoes
<1>3. w.requests = n.requests
  <2> DEFINE x == n.client /\ (n.cut \/ Owed(n, t))
  <2>1. w = Connection(n.client, n.server, n.requests, n.todo, n.lines, x)
    BY DEF LeftBy
  <2> HIDE DEF w, x
  <2> QED  BY <2>1, ConnFields
<1>4. /\ k.pc = pc /\ k.req = task[t].req /\ k.since = task[t].since /\ k.until = Len(versions)
  <2> DEFINE x == ~n.cut  a == task[t].req  b == task[t].since  u == Len(versions)
  <2>1. k = Call(pc, a, 0, rows, x, b, u)
    BY DEF EndedCall
  <2> HIDE DEF k, x, a, b, u
  <2>2. k.pc = pc /\ k.req = a /\ k.since = b /\ k.until = u
    BY <2>1, CallFields
  <2> QED  BY <2>2 DEF a, b, u
<1>5. pc # "waiting"
  BY DEF Ended
<1> HIDE DEF k, w
<1>6. RequestsStay
  BY <1>1, <1>2, <1>3 DEF RequestsStay
<1>7. SetTask(t, k)
  BY <1>2 DEF SetTask
<1> QED  BY <1>4, <1>5, <1>6, <1>7, QuietMoves

\* A range reads on, or finds that its client has disconnected.
LEMMA ReadsOnMoves ==
  ASSUME SInv, NEW t \in Tasks, task[t].pc \in {"reading", "yielding"}, NEW n,
         Remains(conn[ConnOf(t)], n), ReadsOn(t, n), versions' = versions
  PROVE  Moves(t)
<1>0. task[t].pc \in Busy
  BY DEF Busy
<1>1. CASE linked[ClientOf[t]]
  <2> DEFINE b == task[t]  on == gen[ClientOf[t]]  k == Moving(b, "reading", on)
  <2>1. /\ task' = [task EXCEPT ![t] = k]
        /\ conn' = [conn EXCEPT ![ConnOf(t)] = n]
    BY <1>1 DEF ReadsOn, Moving
  <2>2. SetTask(t, k)
    BY <2>1 DEF SetTask, SInv, Typed
  <2>3. RequestsStay
    BY <2>1 DEF RequestsStay, SInv, Typed, Remains
  <2>4. b \in CallType /\ on \in Nat /\ "reading" \in PCs
    BY SessionAssumption DEF SInv, Typed, PCs, Busy
  <2> HIDE DEF b, on
  <2>5. k.pc = "reading" /\ k.req = b.req /\ k.since = b.since
    BY <2>4, CallMoves
  <2> HIDE DEF k
  <2>6. k.req = task[t].req /\ k.since = task[t].since /\ k.pc # "waiting" /\ k.pc # "returned"
    BY <2>5 DEF b
  <2> QED  BY <1>0, <2>2, <2>3, <2>6, QuietMoves
<1>2. CASE ~linked[ClientOf[t]]
  <2>1. Ends(t, "raised", <<>>, n) /\ "raised" \in Ended /\ "raised" # "returned"
    BY <1>2 DEF ReadsOn, Raises, Ended
  <2> QED  BY <1>0, <2>1, EndMoves
<1> QED  BY <1>1, <1>2

\* A call takes a line, whatever it makes of it.
LEMMA ReceiveMoves ==
  ASSUME SInv, NEW t \in Tasks, Receive(t)
  PROVE  Moves(t)
<1> DEFINE m == conn[ConnOf(t)]
           line == Head(m.lines)
           op == task[t].req.op
           rest == [m EXCEPT !.lines = Tail(m.lines)]
           rows == task[t].rows \o line.rows
<1>1. task[t].pc = "reading" /\ m.lines # <<>> /\ versions' = versions
      /\ task[t].pc \in Busy /\ task[t].pc \in {"reading", "yielding"}
  BY DEF Receive, TaskAt, Busy
<1>2. Remains(m, rest)
  BY <1>1, LineTaken
<1>3. CASE Returns(op, line.kind)
  <2>1. ~Yields(op, line.kind) /\ ~PassesOver(op, line.kind)
    BY <1>3 DEF Returns, Yields, PassesOver
  <2>2. Ends(t, "returned", rows, rest)
    BY <1>3, <2>1 DEF Receive
  <2>3. "returned" \in Ended
    BY DEF Ended
  <2> HIDE DEF rest, rows
  <2> QED  BY <1>1, <1>2, <2>2, <2>3, EndMoves
<1>4. CASE ~Returns(op, line.kind) /\ Yields(op, line.kind)
  <2> DEFINE b == task[t]  k == Taking(b, "yielding", rows)
  <2>1. /\ task' = [task EXCEPT ![t].pc = "yielding", ![t].rows = rows]
        /\ conn' = [conn EXCEPT ![ConnOf(t)] = rest]
    <3>1. ~PassesOver(op, line.kind)
      BY <1>4 DEF Yields, PassesOver
    <3> QED  BY <1>4, <3>1 DEF Receive
  <2>2. task' = [task EXCEPT ![t] = k]
    BY <2>1 DEF Taking
  <2> HIDE DEF rest, rows, line
  <2>3. SetTask(t, k)
    <3> HIDE DEF k
    <3> QED  BY <2>2 DEF SetTask, SInv, Typed
  <2>4. RequestsStay
    BY <1>2, <2>1 DEF RequestsStay, SInv, Typed, Remains
  <2>5. b \in CallType
    BY DEF SInv, Typed
  <2> HIDE DEF b
  <2>6. k = Call("yielding", b.req, b.on, rows, b.clean, b.since, b.until)
    BY <2>5, CallChanged
  <2> DEFINE r == b.req  on == b.on  c == b.clean  f == b.since  g == b.until
  <2>7. k = Call("yielding", r, on, rows, c, f, g)
    BY <2>6
  <2> HIDE DEF k, r, on, c, f, g
  <2>8. k.pc = "yielding" /\ k.req = r /\ k.since = f
    BY <2>7, CallFields
  <2>9. k.req = task[t].req /\ k.since = task[t].since /\ k.pc # "waiting" /\ k.pc # "returned"
    BY <2>8 DEF r, f, b
  <2> QED  BY <1>1, <2>3, <2>4, <2>9, QuietMoves
<1>5. CASE ~Returns(op, line.kind) /\ ~Yields(op, line.kind) /\ PassesOver(op, line.kind)
  <2>1. ReadsOn(t, rest)
    BY <1>5 DEF Receive
  <2> HIDE DEF rest
  <2> QED  BY <1>1, <1>2, <2>1, ReadsOnMoves
<1>6. CASE ~Returns(op, line.kind) /\ ~Yields(op, line.kind) /\ ~PassesOver(op, line.kind)
  <2>1. Ends(t, "raised", <<>>, rest) /\ "raised" \in Ended /\ "raised" # "returned"
    BY <1>6 DEF Receive, Raises, Ended
  <2> HIDE DEF rest
  <2> QED  BY <1>1, <1>2, <2>1, EndMoves
<1> QED  BY <1>3, <1>4, <1>5, <1>6

\* The other steps of a call under way that leave the requests where they are.
LEMMA OtherMoves ==
  ASSUME SInv, NEW t \in Tasks,
         \/ ReceiveTooLong(t) \/ Pull(t) \/ EndOfFile(t) \/ Cancel(t)
         \/ GetsLock(t) /\ ~linked[ClientOf[t]]
  PROVE  Moves(t)
<1> DEFINE m == conn[ConnOf(t)]
<1>0. "raised" \in Ended /\ "cancelled" \in Ended /\ "raised" # "returned" /\ "cancelled" # "returned"
  BY DEF Ended
<1>1. task[t].pc \in Busy => Remains(m, m)
  BY Reads, RemainsItself DEF SInv, Typed
<1>2. CASE ReceiveTooLong(t)
  <2>1. task[t].pc \in Busy /\ versions' = versions
    BY <1>2 DEF ReceiveTooLong, TaskAt, Busy
  <2>2. PICK n : Remains(m, n) /\ Raises(t, n)
    BY <1>2, TooLongLeaves
  <2> HIDE DEF m
  <2> QED  BY <1>0, <2>1, <2>2, EndMoves DEF m, Raises
<1>3. CASE Pull(t)
  <2>1. /\ task[t].pc \in Busy /\ task[t].pc \in {"reading", "yielding"}
        /\ versions' = versions /\ ReadsOn(t, m)
    BY <1>3 DEF Pull, TaskAt, Busy
  <2> QED  BY <1>1, <2>1, ReadsOnMoves
<1>4. CASE EndOfFile(t)
  <2>1. task[t].pc \in Busy /\ versions' = versions /\ Ends(t, "raised", <<>>, m)
    BY <1>4 DEF EndOfFile, TaskAt, Busy, Raises
  <2> QED  BY <1>0, <1>1, <2>1, EndMoves
<1>5. CASE Cancel(t)
  <2>1. task[t].pc \in Busy /\ versions' = versions /\ Ends(t, "cancelled", <<>>, m)
    BY <1>5 DEF Cancel
  <2> QED  BY <1>0, <1>1, <2>1, EndMoves
<1>6. CASE GetsLock(t) /\ ~linked[ClientOf[t]]
  <2>1. task[t].pc \in Busy /\ versions' = versions /\ Ends(t, "raised", <<>>, m)
    BY <1>6 DEF GetsLock, TaskAt, Busy, Raises
  <2> QED  BY <1>0, <1>1, <2>1, EndMoves
<1> QED  BY <1>2, <1>3, <1>4, <1>5, <1>6

\* A request is sent: it is asked for over one connection more.
LEMMA SendAsks ==
  ASSUME SInv, NEW t \in Tasks, NEW k, Sends(t, k), versions' = versions
  PROVE  /\ OthersStay(t) /\ Asking(t, conn')
         /\ task'[t] = Moving(k, "reading", gen[ClientOf[t]])
<1> DEFINE cn == Current(ClientOf[t])  q == conn[cn].requests
<1>1. cn \in Conns
  <2>1. ClientOf[t] \in Clients
    BY SessionAssumption
  <2>2. gen[ClientOf[t]] \in 1..MaxConnects[ClientOf[t]]
    BY <2>1 DEF SInv, Numbered
  <2> QED  BY <2>1, <2>2 DEF Conns, Current
<1>2. q \in Seq(Tasks)
  BY <1>1 DEF SInv, Typed, ConnType
<1>3. SetTask(t, Moving(k, "reading", gen[ClientOf[t]]))
  BY SendsDoes
<1>4. PICK w \in ConnType : w.requests = Append(q, t) /\ SetConn(cn, w)
  BY SendsDoes
<1> HIDE DEF cn
<1>5. /\ Len(q) \in Nat /\ DOMAIN q = 1..Len(q) /\ DOMAIN Append(q, t) = 1..(Len(q) + 1)
      /\ Append(q, t)[Len(q) + 1] = t /\ \A i \in 1..Len(q) : Append(q, t)[i] = q[i]
  BY <1>2
<1> HIDE DEF q
<1>6. /\ conn'[cn].requests = Append(q, t)
      /\ \A dn \in Conns : dn # cn => conn'[dn].requests = conn[dn].requests
  BY <1>1, <1>4 DEF SetConn
<1>7. In(t, Append(q, t))
  BY <1>5 DEF In
<1>8. \A u : u # t => (In(u, Append(q, t)) <=> In(u, q))
  BY <1>5 DEF In
<1>9. Asking(t, conn')
  BY <1>1, <1>6, <1>7 DEF Asking
<1>10. ASSUME NEW u, u # t PROVE Asking(u, conn') <=> Asking(u, conn)
  BY <1>1, <1>6, <1>8, <1>10 DEF Asking, q
<1>11. /\ task'[t] = Moving(k, "reading", gen[ClientOf[t]])
       /\ \A u \in Tasks : u # t => task'[u] = task[u]
  BY <1>3 DEF SetTask
<1> QED  BY <1>9, <1>10, <1>11 DEF OthersStay

\* The calls.
LEMMA CallsRefine ==
  ASSUME SInv, NEW t \in Tasks, Calls(t)
  PROVE  KV!Next \/ UNCHANGED KV!vars
<1> PICK r \in RequestsOf[t] : CallRaises(t, r) \/ CallSends(t, r) \/ CallWaits(t, r)
  BY DEF Calls
<1> DEFINE b == Begun(t, r)
<1>1. /\ b \in CallType /\ r \in Requests /\ b.req = r /\ b.since = Len(versions)
  BY BegunType
<1>2. task[t].pc = "idle" /\ versions' = versions
  BY DEF CallRaises, CallSends, CallWaits, TaskAt
<1>3. "raised" \in PCs /\ "waiting" \in PCs /\ "reading" \in PCs
  BY DEF PCs, Busy, Ended
<1>4. ASSUME CallRaises(t, r) \/ CallWaits(t, r)
      PROVE  /\ task'[t] = At(b, "raised") \/ task'[t] = At(b, "waiting")
             /\ OthersStay(t)
  <2>1. /\ task' = [task EXCEPT ![t] = At(b, "raised")] \/ task' = [task EXCEPT ![t] = At(b, "waiting")]
        /\ conn' = conn
    BY <1>4 DEF CallRaises, CallWaits, At
  <2> HIDE DEF b
  <2>2. /\ task'[t] = At(b, "raised") \/ task'[t] = At(b, "waiting")
        /\ \A u \in Tasks : u # t => task'[u] = task[u]
    BY <2>1 DEF SInv, Typed
  <2> QED  BY <1>2, <2>1, <2>2 DEF OthersStay
<1>5. ASSUME CallSends(t, r)
      PROVE  task'[t] = Moving(b, "reading", gen[ClientOf[t]]) /\ OthersStay(t)
  <2>1. Sends(t, b)
    BY <1>5 DEF CallSends
  <2> HIDE DEF b
  <2> QED  BY <1>2, <2>1, SendAsks
<1> HIDE DEF b
<1>6. gen[ClientOf[t]] \in Nat
  BY SessionAssumption DEF SInv, Typed
<1> DEFINE on == gen[ClientOf[t]]
<1> HIDE DEF on
<1>7. on \in Nat /\ (CallSends(t, r) => task'[t] = Moving(b, "reading", on) /\ OthersStay(t))
  BY <1>5, <1>6 DEF on
<1>8. OthersStay(t) /\ task'[t].req = r /\ task'[t].since = Len(versions) /\ task'[t].pc # "returned"
  <2>1. CASE CallRaises(t, r) \/ CallWaits(t, r)
    <3>1. /\ At(b, "raised").req = b.req /\ At(b, "raised").since = b.since /\ At(b, "raised").pc = "raised"
      BY <1>1, <1>3, CallAt
    <3>2. /\ At(b, "waiting").req = b.req /\ At(b, "waiting").since = b.since /\ At(b, "waiting").pc = "waiting"
      BY <1>1, <1>3, CallAt
    <3> QED  BY <1>1, <1>4, <2>1, <3>1, <3>2
  <2>2. CASE CallSends(t, r)
    <3>1. /\ Moving(b, "reading", on).req = b.req /\ Moving(b, "reading", on).since = b.since
          /\ Moving(b, "reading", on).pc = "reading"
      <4>1. b \in CallType /\ on \in Nat /\ "reading" \in PCs
        BY <1>1, <1>3, <1>7
      <4> QED  BY <4>1, CallMoves
    <3> QED  BY <1>1, <1>7, <2>2, <3>1
  <2> QED  BY <2>1, <2>2
<1> QED  BY <1>1, <1>2, <1>8, CallRefines

\* The lock is got: the request is sent that was to be sent.
LEMMA GetsLockRefines ==
  ASSUME SInv, SInv', NEW t \in Tasks, GetsLock(t)
  PROVE  KV!Next \/ UNCHANGED KV!vars
<1>1. CASE linked[ClientOf[t]]
  <2> DEFINE b == task[t]  on == gen[ClientOf[t]]  k == Moving(b, "reading", on)
  <2>1. Sends(t, b) /\ versions' = versions /\ b.pc = "waiting"
    BY <1>1 DEF GetsLock, TaskAt
  <2>2. OthersStay(t) /\ Asking(t, conn') /\ task'[t] = k
    BY <2>1, SendAsks
  <2>3. b \in CallType /\ on \in Nat /\ "reading" \in PCs
    BY SessionAssumption DEF SInv, Typed, PCs, Busy
  <2> HIDE DEF b, on
  <2>4. k.pc = "reading" /\ k.req = b.req /\ k.since = b.since
    BY <2>3, CallMoves
  <2> HIDE DEF k
  <2>5. PendingIn(k, Asking(t, conn')) = PendingIn(b, Asking(t, conn))
    BY <2>1, <2>2, <2>4 DEF PendingIn
  <2>6. Moves(t)
    BY <2>1, <2>2, <2>4, <2>5 DEF Moves, Busy, b
  <2> QED  BY <2>6, MoveRefines
<1>2. CASE ~linked[ClientOf[t]]
  BY <1>2, OtherMoves, MoveRefines
<1> QED  BY <1>1, <1>2

\* The request that is served is on no connection any more, and the others are
\* where they were.
LEMMA ServedLeaves ==
  ASSUME SInv, NEW cn \in Conns, CanServe(cn), NEW w, w.requests = Tail(conn[cn].requests),
         SetConn(cn, w)
  PROVE  /\ Asking(Head(conn[cn].requests), conn)
         /\ ~Asking(Head(conn[cn].requests), conn')
         /\ \A u : u # Head(conn[cn].requests) => (Asking(u, conn') <=> Asking(u, conn))
<1> DEFINE q == conn[cn].requests  t == Head(q)  r == Tail(q)
<1>1. q \in Seq(Tasks) /\ q # <<>>
  BY Requested DEF ConnType
<1>2. /\ Len(q) \in Nat /\ Len(q) >= 1 /\ DOMAIN q = 1..Len(q) /\ t = q[1]
      /\ DOMAIN r = 1..(Len(q) - 1) /\ \A i \in 1..(Len(q) - 1) : r[i] = q[i + 1]
  <2> HIDE DEF q
  <2> QED  BY <1>1
<1>3. /\ conn'[cn].requests = r
      /\ \A dn \in Conns : dn # cn => conn'[dn].requests = conn[dn].requests
  BY DEF SetConn
<1>4. /\ \A i, j \in DOMAIN q : q[i] = q[j] => i = j
      /\ \A dn \in Conns : \A j \in DOMAIN conn[dn].requests :
           \A i \in DOMAIN q : q[i] = conn[dn].requests[j] => cn = dn
  BY DEF SInv, Once
<1> HIDE DEF q, t, r
<1>5. In(t, q)
  BY <1>2 DEF In
<1>6. ~In(t, r)
  <2> SUFFICES ASSUME NEW i \in DOMAIN r, r[i] = t PROVE FALSE
    BY DEF In
  <2>1. i + 1 \in DOMAIN q /\ 1 \in DOMAIN q /\ q[i + 1] = q[1] /\ i + 1 # 1
    BY <1>2
  <2> QED  BY <1>4, <2>1
<1>7. \A dn \in Conns : dn # cn => ~In(t, conn[dn].requests)
  BY <1>2, <1>4 DEF In
<1>8. ASSUME NEW u, u # t PROVE In(u, r) <=> In(u, q)
  <2>1. ASSUME In(u, r) PROVE In(u, q)
    <3> PICK i \in DOMAIN r : r[i] = u
      BY <2>1 DEF In
    <3>1. i + 1 \in DOMAIN q /\ q[i + 1] = u
      BY <1>2
    <3> QED  BY <3>1 DEF In
  <2>2. ASSUME In(u, q) PROVE In(u, r)
    <3> PICK i \in DOMAIN q : q[i] = u
      BY <2>2 DEF In
    <3> DEFINE j == i - 1
    <3>1. j \in DOMAIN r /\ r[j] = u
      BY <1>2, <1>8
    <3> HIDE DEF j
    <3> QED  BY <3>1 DEF In
  <2> QED  BY <2>1, <2>2
<1>9. Asking(t, conn)
  BY <1>5 DEF Asking, q
<1>10. ~Asking(t, conn')
  BY <1>3, <1>6, <1>7 DEF Asking
<1>11. ASSUME NEW u, u # t PROVE Asking(u, conn') <=> Asking(u, conn)
  BY <1>3, <1>8, <1>11 DEF Asking, q
<1> QED  BY <1>9, <1>10, <1>11 DEF t, q

\* What the store sees of the readers when a version is added that has the
\* effect e: those who are busy have seen one value more of their key.
LEMMA ReadersSee ==
  ASSUME SInv, NEW s \in Stores, NEW e, s = Overlay(Store, e), NEW u \in Tasks
  PROVE  ReadingOf(task[u], Append(versions, s)) =
           IF ReadingOf(task[u], versions).pc = "busy" /\ ReadingOf(task[u], versions).key \in DOMAIN e
           THEN [ReadingOf(task[u], versions) EXCEPT !.seen = @ \cup {e[ReadingOf(task[u], versions).key]}]
           ELSE ReadingOf(task[u], versions)
<1> DEFINE k == task[u]
           D == Seen(k, versions)
           x == ReadingOf(k, versions)
           y == ReadingOf(k, Append(versions, s))
<1> SUFFICES y = IF x.pc = "busy" /\ x.key \in DOMAIN e
                 THEN [x EXCEPT !.seen = @ \cup {e[x.key]}] ELSE x
  OBVIOUS
<1>1. k \in CallType /\ 1 <= k.since /\ k.since <= k.until /\ k.until <= Len(versions) /\ versions \in Seq(Stores)
  BY DEF SInv, Typed, Timed
<1>2. CASE k.req.op # "get"
  <2>1. x.pc = "idle" /\ y = x
    BY <1>2 DEF ReadingOf
  <2> HIDE DEF x, y
  <2> QED  BY <2>1
<1>3. CASE k.req.op = "get" /\ k.pc = "returned" /\ k.clean
  <2>1. Seen(k, Append(versions, s)) = D
    <3>1. /\ Len(versions) \in Nat /\ k.since \in Nat /\ k.until \in Nat
      BY <1>1 DEF CallType
    <3>2. \A i \in k.since .. k.until : Append(versions, s)[i] = versions[i]
      BY <1>1, <3>1, AppendProperties
    <3> QED  BY <1>3, <3>2 DEF Seen
  <2>2. x.pc = "done" /\ y = x
    BY <1>3, <2>1 DEF ReadingOf
  <2> HIDE DEF x, y
  <2> QED  BY <2>2
<1>4. CASE k.req.op = "get" /\ ~(k.pc = "returned" /\ k.clean)
  <2> DEFINE key == k.req.key
             S == {v[key] : v \in D}
             T == {v[key] : v \in Seen(k, Append(versions, s))}
  <2>1. Seen(k, Append(versions, s)) = D \cup {s}
    BY <1>1, <1>4, SeenGrows
  <2>2. T = S \cup {s[key]}
    BY <2>1
  <2>3. key \in StoreKeys
    <3>1. k.pc # "idle"
      BY <1>4 DEF SInv, Asked, NoCall
    <3>2. k.req \in Requests
      BY <3>1 DEF SInv, Asked
    <3> QED  BY <1>4, <3>2, RequestKinds
  <2>4. Store[key] \in S
    <3>1. Len(versions) \in k.since .. Len(versions)
      BY <1>1 DEF CallType
    <3>2. versions[Len(versions)] \in D
      BY <1>4, <3>1 DEF Seen
    <3> QED  BY <3>2 DEF Store, Last
  <2>5. s[key] = IF key \in DOMAIN e THEN e[key] ELSE Store[key]
    BY <2>3 DEF Overlay
  <2>6. x = [pc |-> "busy", key |-> key, seen |-> S, result |-> None]
    BY <1>4 DEF ReadingOf
  <2>7. y = [pc |-> "busy", key |-> key, seen |-> T, result |-> None]
    BY <1>4 DEF ReadingOf
  <2> HIDE DEF S, T, key, x, y, D
  <2>8. T = IF key \in DOMAIN e THEN S \cup {e[key]} ELSE S
    BY <2>2, <2>4, <2>5
  <2>9. x.pc = "busy" /\ x.key = key /\ x.seen = S
    BY <2>6
  <2> DEFINE R == S \cup {e[key]}
  <2>10. [x EXCEPT !.seen = x.seen \cup {e[x.key]}] = [pc |-> "busy", key |-> key, seen |-> R, result |-> None]
    <3>1. x.seen \cup {e[x.key]} = R
      BY <2>9
    <3> HIDE DEF R
    <3> QED  BY <2>6, <3>1
  <2> QED  BY <2>6, <2>7, <2>8, <2>9, <2>10
<1> QED  BY <1>2, <1>3, <1>4

\* A request is served: a write that succeeds takes effect, and everything else
\* the server answers gives up what was pending.
LEMMA ServeRefines ==
  ASSUME SInv, NEW cn \in Conns, CanServe(cn), NEW o,
         o = Served(Store, Request(cn)) \/ o \in Failed(Store, Request(cn)),
         Answers(cn, o), task' = task
  PROVE  KV!Next \/ UNCHANGED KV!vars
<1> DEFINE t == Head(conn[cn].requests)
           r == Request(cn)
           s == o.store
           e == Effect(r)
<1>1. t \in Tasks /\ r \in Requests /\ Store \in Stores /\ r = task[t].req
  BY Requested DEF Request
<1>2. versions' = (IF s = Store THEN versions ELSE Append(versions, s)) /\ s \in Stores
  BY AnswersDoes
<1>3. PICK w \in ConnType : w.requests = Tail(conn[cn].requests) /\ SetConn(cn, w)
  BY AnswersDoes
<1>4. /\ Asking(t, conn) /\ ~Asking(t, conn')
      /\ \A u : u # t => (Asking(u, conn') <=> Asking(u, conn))
  BY <1>3, ServedLeaves
<1>5. task[t].pc # "waiting"
  BY <1>4, AskingIsSent
<1>6. s # Store => e = Effect(r) /\ s = Overlay(Store, e)
  <2>1. ASSUME s # Store PROVE s = Overlay(Store, Effect(r))
    <3>1. o = Served(Store, r)
      BY <1>1, <2>1, FailedType
    <3>2. r.op \in Writes
      BY <1>1, <2>1, <3>1, RequestKinds, GetServed, RangeServed
    <3>3. Served(Store, r) = Refusal(Store) \/ Served(Store, r) = Success(Overlay(Store, Effect(r)))
      BY <1>1, <3>2, WriteServed
    <3>4. Refusal(Store).store = Store /\ Success(Overlay(Store, Effect(r))).store = Overlay(Store, Effect(r))
      BY DEF Refusal, Success, Outcome
    <3> QED  BY <2>1, <3>1, <3>3, <3>4
  <2> QED  BY <2>1
<1> HIDE DEF t, r, s
<1>7. AbsPending' = [AbsPending EXCEPT ![t] = KV!NoWrite] /\ AbsPending[t] = WriteOf(e)
  <2>1. \A u \in Tasks : u # t => PendingIn(task'[u], Asking(u, conn')) = PendingIn(task[u], Asking(u, conn))
    BY <1>4 DEF PendingIn
  <2>2. PendingIn(task'[t], Asking(t, conn')) = KV!NoEffect /\ PendingIn(task[t], Asking(t, conn)) = e
    BY <1>1, <1>4, <1>5 DEF PendingIn
  <2> HIDE DEF e
  <2> QED  BY <1>1, <2>1, <2>2, AbsIs, NothingToWrite
<1>8. CASE s = Store
  <2>1. versions' = versions
    BY <1>2, <1>8
  <2>2. AbsStore' = AbsStore /\ AbsReading' = AbsReading
    BY <2>1, AbsIs DEF Store
  <2> QED  BY <1>1, <1>7, <2>2, StoreRefuses
<1>9. CASE s # Store
  <2>1. versions' = Append(versions, s) /\ s = Overlay(Store, e)
    BY <1>2, <1>6, <1>9
  <2>2. AbsStore' = s
    <3>1. versions \in Seq(Stores)
      BY DEF SInv, Typed
    <3>2. Last(Append(versions, s)) = s
      BY <1>2, <3>1, AppendProperties DEF Last
    <3> QED  BY <2>1, <3>2, AbsIs
  <2> HIDE DEF e
  <2>3. AbsStore' = [k \in StoreKeys |-> IF k \in DOMAIN e THEN e[k] ELSE AbsStore[k]]
    BY <2>1, <2>2, AbsIs DEF Overlay
  <2>4. ASSUME NEW u \in Tasks
        PROVE  AbsReading'[u] = IF AbsReading[u].pc = "busy" /\ AbsReading[u].key \in DOMAIN e
                                THEN [AbsReading[u] EXCEPT !.seen = @ \cup {e[AbsReading[u].key]}]
                                ELSE AbsReading[u]
    <3>1. AbsReading[u] = ReadingOf(task[u], versions) /\ AbsReading'[u] = ReadingOf(task[u], Append(versions, s))
      BY <2>1, AbsIs
    <3> QED  BY <1>2, <2>1, <3>1, ReadersSee
  <2>5. AbsReading' = [u \in Tasks |->
           IF AbsReading[u].pc = "busy" /\ AbsReading[u].key \in DOMAIN e
           THEN [AbsReading[u] EXCEPT !.seen = @ \cup {e[AbsReading[u].key]}]
           ELSE AbsReading[u]]
    <3>1. AbsReading' = [u \in Tasks |-> AbsReading'[u]]
      BY AbsIs
    <3> QED  BY <2>4, <3>1
  <2>6. e = AbsPending[t].effect
    BY <1>7 DEF WriteOf
  <2>7. KV!Next
    BY <1>1, <1>7, <2>3, <2>5, <2>6, StoreTakesEffect
  <2> QED  BY <2>7
<1> QED  BY <1>8, <1>9

\* Every step of clients and servers.
LEMMA NextRefines ==
  ASSUME SInv, SInv', [Next]_vars
  PROVE  [KV!Next]_(KV!vars)
<1> SUFFICES KV!Next \/ UNCHANGED KV!vars
  OBVIOUS
<1>1. CASE \E c \in Clients : Connect(c) \/ Disconnect(c)
  <2>1. task' = task /\ versions' = versions
    BY <1>1 DEF Connect, Disconnect
  <2>2. RequestsStay
    <3>1. CASE \E c \in Clients : Connect(c)
      BY <3>1 DEF Connect, RequestsStay
    <3>2. CASE \E c \in Clients : Disconnect(c)
      <4> PICK c \in Clients : Disconnect(c)
        BY <3>2
      <4> DEFINE no == FALSE  e == <<>>  w == Closing(conn[Current(c)], no, e)
      <4>1. conn' = [conn EXCEPT ![Current(c)] = w]
        BY DEF Disconnect, Closing
      <4>2. conn \in [Conns -> ConnType]
        BY DEF SInv, Typed
      <4> HIDE DEF no, e
      <4>3. ASSUME Current(c) \in Conns PROVE w.requests = conn[Current(c)].requests
        <5> DEFINE m == conn[Current(c)]  b == m.server  d == m.requests
        <5>1. m \in ConnType
          BY <4>2, <4>3
        <5> HIDE DEF m
        <5>2. Closing(m, no, e) = Connection(no, b, d, e, e, no)
          BY <5>1, ConnRebuilt
        <5> HIDE DEF b, d
        <5>3. Closing(m, no, e).requests = d
          BY <5>2, ConnFields
        <5> QED  BY <5>3 DEF d, m
      <4> HIDE DEF w
      <4> QED  BY <4>1, <4>2, <4>3 DEF RequestsStay
    <3> QED  BY <1>1, <3>1, <3>2
  <2> QED  BY <2>1, <2>2, NothingSeen
<1>2. CASE \E t \in Tasks : Calls(t) \/ ClientStep(t) \/ Cancel(t)
  <2> PICK t \in Tasks : Calls(t) \/ ClientStep(t) \/ Cancel(t)
    BY <1>2
  <2>1. CASE Calls(t)
    BY <2>1, CallsRefine
  <2>2. CASE GetsLock(t)
    BY <2>2, GetsLockRefines
  <2>3. CASE Receive(t) \/ ReceiveTooLong(t) \/ Pull(t) \/ EndOfFile(t) \/ Cancel(t)
    <3>1. Moves(t)
      BY <2>3, ReceiveMoves, OtherMoves
    <3> QED  BY <3>1, MoveRefines
  <2> QED  BY <2>1, <2>2, <2>3 DEF ClientStep
<1>3. CASE \E cn \in Conns : ServerStep(cn)
  <2> PICK cn \in Conns : ServerStep(cn)
    BY <1>3
  <2>1. CASE Serve(cn)
    <3> DEFINE o == Served(Store, Request(cn))
    <3>1. CanServe(cn) /\ Answers(cn, o) /\ task' = task /\ o = Served(Store, Request(cn))
      BY <2>1 DEF Serve
    <3> HIDE DEF o
    <3> QED  BY <3>1, ServeRefines
  <2>2. CASE ServeFails(cn)
    <3>1. CanServe(cn) /\ task' = task
      BY <2>2 DEF ServeFails
    <3>2. PICK o \in Failed(Store, Request(cn)) : Answers(cn, o)
      BY <2>2 DEF ServeFails
    <3> QED  BY <3>1, <3>2, ServeRefines
  <2>3. CASE Stream(cn) \/ Reject(cn) \/ HangUp(cn)
    <3>1. task' = task /\ versions' = versions
      BY <2>3 DEF Stream, Reject, HangUp
    <3>2. RequestsStay
      <4> DEFINE m == conn[cn]  x == Append(m.lines, Head(m.todo))  y == Tail(m.todo)  no == FALSE
                 w == [m EXCEPT !.server = no]
                 k == [m EXCEPT !.lines = x]
                 v == [k EXCEPT !.todo = y]
      <4>1. conn' = [conn EXCEPT ![cn] = v] \/ conn' = [conn EXCEPT ![cn] = w]
        <5>1. CASE Stream(cn)
          BY <5>1 DEF Stream
        <5>2. CASE Reject(cn) \/ HangUp(cn)
          BY <5>2 DEF Reject, HangUp, Closes
        <5> QED  BY <2>3, <5>1, <5>2
      <4>2. m \in ConnType /\ conn \in [Conns -> ConnType]
        BY DEF SInv, Typed
      <4>3. w.requests = m.requests /\ v.requests = m.requests
        <5> HIDE DEF m, x, y, no
        <5>1. /\ w = Connection(m.client, no, m.requests, m.todo, m.lines, m.cut)
              /\ k = Connection(m.client, m.server, m.requests, m.todo, x, m.cut)
          BY <4>2, ConnChanged
        <5> HIDE DEF k, w
        <5>2. v.requests = k.requests
          BY <5>1 DEF Connection
        <5> HIDE DEF v
        <5> QED  BY <5>1, <5>2, ConnFields
      <4> HIDE DEF v, w
      <4> QED  BY <4>1, <4>2, <4>3 DEF RequestsStay
    <3> QED  BY <3>1, <3>2, NothingSeen
  <2> QED  BY <2>1, <2>2, <2>3 DEF ServerStep
<1>4. CASE UNCHANGED vars
  <2>1. task' = task /\ versions' = versions /\ RequestsStay
    BY <1>4 DEF vars, RequestsStay
  <2> QED  BY <2>1, NothingSeen
<1> QED  BY <1>1, <1>2, <1>3, <1>4 DEF Next

\* Connected clients and an empty store are what KVStore begins with.
LEMMA InitRefines == Init => KV!Init
<1> SUFFICES ASSUME Init PROVE KV!Init
  OBVIOUS
<1>1. AbsStore = [k \in StoreKeys |-> None]
  BY DEF AbsStore, Store, Init, Last
<1>2. \A t \in Tasks : task[t] = NoCall /\ ~Asking(t, conn)
  BY DEF Init, Asking, In, NewConn
<1>3. ASSUME NEW t \in Tasks PROVE AbsPending[t] = KV!NoWrite /\ AbsReading[t] = KV!Idle
  <2>1. PendingIn(NoCall, FALSE) = KV!NoEffect /\ ReadingOf(NoCall, versions) = KV!Idle
    BY DEF PendingIn, ReadingOf, NoCall, KV!Idle
  <2>2. PendingIn(task[t], Asking(t, conn)) = KV!NoEffect /\ ReadingOf(task[t], versions) = KV!Idle
    BY <1>2, <2>1 DEF PendingIn
  <2> QED  BY <2>2, AbsIs, NothingToWrite
<1>4. AbsPending = [t \in Tasks |-> KV!NoWrite] /\ AbsReading = [t \in Tasks |-> KV!Idle]
  BY <1>3, AbsIs
<1> QED  BY <1>1, <1>4 DEF KV!Init, AbsStore, AbsPending, AbsReading

\* Through client, connections and server the store is the one KVStore
\* describes, whatever is cancelled, cut off, refused or answered late: a write
\* takes effect at one moment between its call and its return, or never, a
\* batch as a whole, and a get that returns over a connection on which no call
\* was cut short returns a value that was current during it.
THEOREM SessionIsAStore == Spec => ImplementsKVStore
<1>1. SInv /\ SInv' /\ [Next]_vars => [KV!Next]_(KV!vars)
  BY NextRefines
<1> QED  BY Reached, InitRefines, <1>1, PTL DEF Spec, ImplementsKVStore, KV!Spec
=============================================================================
