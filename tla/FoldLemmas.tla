----------------------------- MODULE FoldLemmas -----------------------------
(***************************************************************************)
(* What the proofs need of numbers, finite sets and the folds of the       *)
(* community modules, none of which the provers know: induction on Nat     *)
(* stated for a set of numbers, the largest element of a set, and that a   *)
(* fold's recursion has a solution, which its CHOOSE is therefore one of.  *)
(* Then what the two theories of the log share: chains of whole records,   *)
(* and what replay's recursion lists of a file. Last, strict orders: the   *)
(* first element of a finite set, and that a set has one enumeration in the*)
(* order, which a CHOOSE of one is therefore the only one.                 *)
(***************************************************************************)
EXTENDS WALFile, TLAPS, FiniteSetTheorems, SequenceTheorems

\* A set of integers with an upper bound has its Max, and a number whose
\* predecessors all have a property that is handed on has it too: both are
\* the well-foundedness of < on Nat.
LEMMA MaxIsLargest ==
  ASSUME NEW S \in SUBSET Int, S # {}, NEW c \in Int, \A x \in S : x <= c
  PROVE  Max(S) \in S /\ \A y \in S : y <= Max(S)
<1> DEFINE T == {c - x : x \in S}
<1>1. T \subseteq Nat
  <2>1. \A x \in S : c - x \in Nat
    OBVIOUS
  <2> QED  BY <2>1
<1>2. T # {}
  OBVIOUS
<1>3. PICK d \in T : \A e \in T : ~ (<<e, d>> \in OpToRel(<, Nat))
  <2>1. IsWellFoundedOn(OpToRel(<, Nat), Nat)
    BY NatLessThanWellFounded
  <2> HIDE DEF T
  <2> QED  BY <1>1, <1>2, <2>1, WFMin
<1>4. \A e \in T : ~ (e < d)
  <2> HIDE DEF T
  <2> QED  BY <1>1, <1>3 DEF OpToRel
<1>5. PICK x \in S : d = c - x
  OBVIOUS
<1>6. ASSUME NEW y \in S PROVE x >= y
  <2>1. ~ (c - y < c - x)
    BY <1>4, <1>5
  <2> QED  BY <2>1
<1>7. Max(S) \in S /\ \A y \in S : Max(S) >= y
  BY <1>6 DEF Max
<1>8. \A y \in S : y <= Max(S)
  BY <1>7
<1> QED  BY <1>7, <1>8

\* The numbers that are in S, when 0 is and every successor of a member is.
LEMMA AllNaturals ==
  ASSUME NEW S, 0 \in S, \A n \in Nat : n \in S => n + 1 \in S
  PROVE  \A n \in Nat : n \in S
<1> DEFINE T == {n \in Nat : n \notin S}
<1> SUFFICES ASSUME T # {} PROVE FALSE
  OBVIOUS
<1>1. PICK n \in T : \A m \in T : ~ (<<m, n>> \in OpToRel(<, Nat))
  <2>1. IsWellFoundedOn(OpToRel(<, Nat), Nat) /\ T \subseteq Nat
    BY NatLessThanWellFounded
  <2> HIDE DEF T
  <2> QED  BY <2>1, WFMin
<1>2. n \in Nat /\ n # 0
  OBVIOUS
<1>3. n - 1 \in Nat /\ n - 1 \notin T
  <2>1. n - 1 \in Nat /\ n - 1 < n
    BY <1>2
  <2>2. \A m \in T : m \in Nat
    OBVIOUS
  <2>3. n \in T
    OBVIOUS
  <2> HIDE DEF T
  <2>4. \A m \in T : ~ (m < n)
    BY <1>1, <1>2, <2>2 DEF OpToRel
  <2> QED  BY <2>1, <2>4
<1>4. n - 1 \in S /\ (n - 1) + 1 = n
  BY <1>2, <1>3
<1>5. n \in S
  <2> DEFINE m == n - 1
  <2>1. m \in Nat /\ m \in S /\ m + 1 = n
    BY <1>3, <1>4
  <2> HIDE DEF m
  <2> QED  BY <2>1
<1> QED  BY <1>5

-----------------------------------------------------------------------------
(* Folds *)

\* h is a fold over S, which takes the elements in the order c chooses them.
IsFold(h, S, c, v, step) ==
  \A T \in SUBSET S : h[T] = IF T = {} THEN v ELSE step[<<c[T], h[T \ {c[T]}]>>]

\* The recursion of a fold over a finite set has a solution.
LEMMA FoldExists ==
  ASSUME NEW S, IsFiniteSet(S), NEW c, \A T \in SUBSET S : T # {} => c[T] \in T,
         NEW V, NEW v \in V, NEW step \in [S \X V -> V]
  PROVE  \E h \in [SUBSET S -> V] : IsFold(h, S, c, v, step)
<1> DEFINE Small(n) == {T \in SUBSET S : Cardinality(T) <= n}
           Good(h, n) == \A T \in Small(n) :
                           h[T] = IF T = {} THEN v ELSE step[<<c[T], h[T \ {c[T]}]>>]
           N == {n \in Nat : \E h \in [SUBSET S -> V] : Good(h, n)}
<1>0. \A T \in SUBSET S : IsFiniteSet(T) /\ Cardinality(T) \in Nat
  BY FS_Subset, FS_CardinalityType
<1>1. 0 \in N
  <2> DEFINE h == [T \in SUBSET S |-> v]
  <2>1. h \in [SUBSET S -> V]
    OBVIOUS
  <2>2. \A T \in Small(0) : T = {}
    BY <1>0, FS_EmptySet
  <2>3. Good(h, 0)
    BY <2>2
  <2> QED  BY <2>1, <2>3
<1>2. ASSUME NEW n \in Nat, n \in N PROVE n + 1 \in N
  <2>1. PICK h \in [SUBSET S -> V] : Good(h, n)
    BY <1>2
  <2> DEFINE g == [T \in SUBSET S |->
                     IF T = {} THEN v
                     ELSE IF Cardinality(T) <= n THEN h[T]
                     ELSE step[<<c[T], h[T \ {c[T]}]>>]]
  <2>2. g \in [SUBSET S -> V]
    <3>1. ASSUME NEW T \in SUBSET S, T # {} PROVE step[<<c[T], h[T \ {c[T]}]>>] \in V
      <4>1. c[T] \in S /\ h[T \ {c[T]}] \in V
        BY <3>1
      <4> QED  BY <4>1
    <3> QED  BY <3>1
  <2>3. ASSUME NEW T \in Small(n + 1), T # {}
        PROVE  g[T \ {c[T]}] = h[T \ {c[T]}]
    <3> DEFINE U == T \ {c[T]}
    <3>1. U \in SUBSET S /\ Cardinality(U) <= n
      <4>1. IsFiniteSet(T) /\ c[T] \in T /\ Cardinality(T) <= n + 1
        BY <1>0, <2>3
      <4>2. Cardinality(T \ {c[T]}) = Cardinality(T) - 1
        <5> DEFINE x == c[T]
        <5>1. x \in T /\ IsFiniteSet(T)
          BY <4>1
        <5> HIDE DEF x, g, U
        <5>2. Cardinality(T \ {x}) = Cardinality(T) - 1
          BY <5>1, FS_RemoveElement
        <5> QED  BY <5>2 DEF x
      <4>3. Cardinality(T) \in Nat /\ Cardinality(U) \in Nat
        BY <1>0
      <4> QED  BY <4>1, <4>2, <4>3
    <3> HIDE DEF U
    <3>2. U \in Small(n)
      BY <3>1
    <3>3. U = {} => h[U] = v
      BY <2>1, <3>2
    <3> QED  BY <3>1, <3>3 DEF U
  <2>4. ASSUME NEW T \in Small(n + 1)
        PROVE  g[T] = IF T = {} THEN v ELSE step[<<c[T], g[T \ {c[T]}]>>]
    <3>1. CASE T = {}
      BY <3>1
    <3>2. CASE T # {} /\ Cardinality(T) <= n
      <4>1. g[T] = h[T] /\ T \in Small(n)
        BY <3>2
      <4>2. h[T] = step[<<c[T], h[T \ {c[T]}]>>]
        BY <2>1, <3>2, <4>1
      <4> QED  BY <2>3, <3>2, <4>1, <4>2
    <3>3. CASE T # {} /\ ~(Cardinality(T) <= n)
      <4>1. g[T] = step[<<c[T], h[T \ {c[T]}]>>]
        BY <3>3
      <4> QED  BY <2>3, <3>3, <4>1
    <3> QED  BY <3>1, <3>2, <3>3
  <2>5. Good(g, n + 1)
    <3> HIDE DEF g
    <3> QED  BY <2>4
  <2> HIDE DEF g, Good
  <2> QED  BY <2>2, <2>5
<1>3. Cardinality(S) \in N
  <2> HIDE DEF N
  <2> QED  BY <1>0, <1>1, <1>2, AllNaturals
<1>4. \A T \in SUBSET S : Cardinality(T) <= Cardinality(S)
  BY FS_Subset
<1> QED  BY <1>3, <1>4 DEF IsFold

\* What Max takes of the numbers up to m, the step of a fold from the left.
LEMMA MaxOfFirst ==
  ASSUME NEW m \in Nat \ {0}
  PROVE  Max(1..m) = m /\ (1..m) \ {m} = 1..(m - 1)
<1> DEFINE T == 1..m
           x == Max(T)
<1>1. T \in SUBSET Int /\ T # {} /\ m \in Int /\ m \in T /\ \A y \in T : y <= m
  OBVIOUS
<1>2. x \in T /\ \A y \in T : y <= x
  <2> HIDE DEF T
  <2> QED  BY <1>1, MaxIsLargest
<1>3. x = m
  <2>1. x \in Int /\ m <= x /\ x <= m
    BY <1>1, <1>2
  <2> HIDE DEF x
  <2> QED  BY <2>1
<1> QED  BY <1>3

\* h is a recursion over the numbers up to n.
IsRecursion(h, n, v, step) == h[0] = v /\ \A m \in 1..n : h[m] = step[<<m, h[m - 1]>>]

\* A recursion over the numbers up to n has a solution too.
LEMMA RecursionExists ==
  ASSUME NEW n \in Nat, NEW V, NEW v \in V, NEW step \in [(1..n) \X V -> V]
  PROVE  \E h \in [0..n -> V] : IsRecursion(h, n, v, step)
<1> DEFINE S == 1..n
           c == [T \in SUBSET S |-> Max(T)]
<1>1. \A T \in SUBSET S : T # {} => c[T] \in T
  <2> SUFFICES ASSUME NEW T \in SUBSET S, T # {} PROVE Max(T) \in T
    OBVIOUS
  <2>1. T \in SUBSET Int /\ n \in Int /\ \A x \in T : x <= n
    OBVIOUS
  <2> QED  BY <2>1, MaxIsLargest
<1>2. IsFiniteSet(S)
  BY FS_Interval
<1>3. PICK h \in [SUBSET S -> V] : IsFold(h, S, c, v, step)
  <2>1. step \in [S \X V -> V]
    OBVIOUS
  <2> HIDE DEF S, c
  <2> QED  BY <1>1, <1>2, <2>1, FoldExists
<1> DEFINE g == [m \in 0..n |-> h[1..m]]
<1>4. g \in [0..n -> V]
  <2>1. \A m \in 0..n : (1..m) \in SUBSET S
    OBVIOUS
  <2> QED  BY <2>1
<1>5. g[0] = v
  <2>1. 1..0 = {} /\ {} \in SUBSET S /\ 0 \in 0..n
    OBVIOUS
  <2>2. h[{}] = v
    BY <1>3, <2>1 DEF IsFold
  <2> QED  BY <2>1, <2>2
<1>6. ASSUME NEW m \in 1..n PROVE g[m] = step[<<m, g[m - 1]>>]
  <2>1. m \in Nat \ {0} /\ (1..m) \in SUBSET S /\ 1..m # {} /\ m \in 0..n /\ m - 1 \in 0..n
    OBVIOUS
  <2>2. Max(1..m) = m /\ (1..m) \ {m} = 1..(m - 1)
    BY <2>1, MaxOfFirst
  <2>3. c[1..m] = m
    BY <2>1, <2>2
  <2> HIDE DEF c
  <2>4. h[1..m] = step[<<m, h[1..(m - 1)]>>]
    BY <1>3, <2>1, <2>2, <2>3 DEF IsFold
  <2> QED  BY <2>1, <2>4
<1> HIDE DEF g
<1>7. IsRecursion(g, n, v, step)
  BY <1>5, <1>6 DEF IsRecursion
<1> QED  BY <1>4, <1>7
-----------------------------------------------------------------------------
(* Sequences put together *)

\* Putting sequences together goes from the first to the last.
LEMMA ConcatenationUnfolds ==
  ASSUME NEW S, NEW seqs \in Seq(Seq(S))
  PROVE  \E h : /\ Concatenation(seqs) = h[Len(seqs)]
                /\ h[0] = <<>>
                /\ \A m \in 1..Len(seqs) : h[m] = h[m - 1] \o seqs[m]
<1> DEFINE n == Len(seqs)
           D == DOMAIN seqs
           Step(f) == [T \in SUBSET D |->
                         IF T = {} THEN <<>> ELSE f[T \ {Max(T)}] \o seqs[Max(T)]]
           iter == CHOOSE f : f = Step(f)
<1>1. Concatenation(seqs) = iter[D]
  BY DEF Concatenation, FoldLeft, MapThenFoldSet
<1>2. n \in Nat /\ D = 1..n
  BY LenProperties
<1> HIDE DEF n
<1> DEFINE V == Seq(S)
           c == [T \in SUBSET D |-> Max(T)]
           step == [x \in D \X V |-> x[2] \o seqs[x[1]]]
           v == <<>>
<1>3. \A T \in SUBSET D : T # {} => Max(T) \in T
  <2> SUFFICES ASSUME NEW T \in SUBSET D, T # {} PROVE Max(T) \in T
    OBVIOUS
  <2>1. T \in SUBSET Int /\ n \in Int /\ \A x \in T : x <= n
    BY <1>2
  <2> QED  BY <2>1, MaxIsLargest
<1>4. IsFiniteSet(D)
  BY <1>2, FS_Interval
<1>5. v \in V /\ step \in [D \X V -> V]
  <2>1. ASSUME NEW i \in D, NEW s \in Seq(S) PROVE s \o seqs[i] \in Seq(S)
    <3>1. seqs[i] \in Seq(S)
      BY <1>2, ElementOfSeq DEF n
    <3> QED  BY <3>1, ConcatProperties
  <2> QED  BY <2>1, EmptySeq
<1>6. PICK f \in [SUBSET D -> V] : IsFold(f, D, c, v, step)
  <2>1. \A T \in SUBSET D : T # {} => c[T] \in T
    BY <1>3
  <2> HIDE DEF D, V, step, v, c
  <2> QED  BY <1>4, <1>5, <2>1, FoldExists
<1>7. f = Step(f)
  <2>1. ASSUME NEW T \in SUBSET D PROVE f[T] = Step(f)[T]
    <3>1. CASE T = {}
      BY <1>6, <3>1 DEF IsFold
    <3>2. CASE T # {}
      <4>1. f[T] = step[<<Max(T), f[T \ {Max(T)}]>>]
        BY <1>6, <3>2 DEF IsFold
      <4>2. Max(T) \in D /\ f[T \ {Max(T)}] \in V
        BY <1>3, <3>2
      <4>3. step[<<Max(T), f[T \ {Max(T)}]>>] = f[T \ {Max(T)}] \o seqs[Max(T)]
        <5> HIDE DEF V
        <5> QED  BY <4>2
      <4> QED  BY <3>2, <4>1, <4>3
    <3> QED  BY <3>1, <3>2
  <2>2. f = [T \in SUBSET D |-> f[T]] /\ Step(f) = [T \in SUBSET D |-> Step(f)[T]]
    OBVIOUS
  <2> HIDE DEF Step, D
  <2> QED  BY <2>1, <2>2
<1>8. iter = Step(iter)
  <2> HIDE DEF Step
  <2> QED  BY <1>7
<1> HIDE DEF iter
<1> DEFINE h == [m \in 0..n |-> iter[1..m]]
<1>9. h[0] = <<>>
  <2>1. 1..0 = {} /\ {} \in SUBSET D /\ 0 \in 0..n
    BY <1>2
  <2>2. iter[{}] = <<>>
    BY <1>8, <2>1
  <2> QED  BY <2>1, <2>2
<1>10. ASSUME NEW m \in 1..n PROVE h[m] = h[m - 1] \o seqs[m]
  <2>1. m \in Nat \ {0} /\ (1..m) \in SUBSET D /\ 1..m # {} /\ m \in 0..n /\ m - 1 \in 0..n
    <3> HIDE DEF D
    <3>1. n \in Nat /\ m \in 1..n
      BY <1>2
    <3>2. m \in Nat \ {0} /\ (1..m) \subseteq 1..n /\ 1 \in 1..m /\ m \in 0..n /\ m - 1 \in 0..n
      BY <3>1
    <3> QED  BY <1>2, <3>2
  <2>2. Max(1..m) = m /\ (1..m) \ {m} = 1..(m - 1)
    BY <2>1, MaxOfFirst
  <2>3. iter[1..m] = iter[(1..m) \ {Max(1..m)}] \o seqs[Max(1..m)]
    BY <1>8, <2>1
  <2> QED  BY <2>1, <2>2, <2>3
<1>11. h[n] = iter[D]
  <2>1. n \in 0..n
    <3> HIDE DEF D
    <3> QED  BY <1>2
  <2>2. h[n] = iter[1..n]
    BY <2>1
  <2> QED  BY <1>2, <2>2
<1> HIDE DEF h
<1> QED  BY <1>1, <1>9, <1>10, <1>11 DEF n

\* What is put together of sequences over S is one.
LEMMA ConcatenationType ==
  ASSUME NEW S, NEW seqs \in Seq(Seq(S))
  PROVE  Concatenation(seqs) \in Seq(S)
<1> DEFINE n == Len(seqs)
<1>1. n \in Nat /\ \A m \in 1..n : seqs[m] \in Seq(S)
  BY LenProperties, ElementOfSeq
<1> HIDE DEF n
<1>2. PICK h : /\ Concatenation(seqs) = h[n] /\ h[0] = <<>>
               /\ \A m \in 1..n : h[m] = h[m - 1] \o seqs[m]
  BY ConcatenationUnfolds DEF n
<1> DEFINE N == {m \in Nat : m <= n => h[m] \in Seq(S)}
<1>3. 0 \in N
  BY <1>2, EmptySeq
<1>4. ASSUME NEW m \in Nat, m \in N PROVE m + 1 \in N
  <2> SUFFICES ASSUME m + 1 <= n PROVE h[m + 1] \in Seq(S)
    OBVIOUS
  <2>1. m + 1 \in 1..n /\ (m + 1) - 1 = m /\ m <= n
    BY <1>1
  <2>2. h[m + 1] = h[m] \o seqs[m + 1] /\ h[m] \in Seq(S) /\ seqs[m + 1] \in Seq(S)
    BY <1>1, <1>2, <1>4, <2>1
  <2> QED  BY <2>2, ConcatProperties
<1>5. n \in N
  <2> HIDE DEF N
  <2> QED  BY <1>1, <1>3, <1>4, AllNaturals
<1> QED  BY <1>1, <1>2, <1>5

-----------------------------------------------------------------------------
(* The log file, over any set R of records *)

Sized(R) == \A r \in R : RecordLen(r) \in Nat \ {0}

CellsOver(R) == [rec : R, part : Nat]

LogsOver(R) == Seq(CellsOver(R))

\* What Replay yields of one record.
Listed(R) == [rec : R, off : Int]

\* s reads as whole records.
Chain(s) ==
  s # <<>> => /\ s[1].part = 1
              /\ \A i \in 1..(Len(s) - 1) : Follows(s[i], s[i + 1])
              /\ s[Len(s)].part = RecordLen(s[Len(s)].rec)

LEMMA JoinIs ==
  ASSUME NEW S, NEW s \in Seq(S), NEW t \in Seq(S)
  PROVE  /\ s \o t \in Seq(S)
         /\ Len(s \o t) = Len(s) + Len(t)
         /\ \A i \in 1..Len(s) : (s \o t)[i] = s[i]
         /\ \A i \in 1..Len(t) : (s \o t)[Len(s) + i] = t[i]
         /\ \A i \in 1..Len(s \o t) : i <= Len(s) \/ (i - Len(s) \in 1..Len(t) /\ (s \o t)[i] = t[i - Len(s)])
<1>1. Len(s) \in Nat /\ Len(t) \in Nat
  BY LenProperties
<1>2. /\ s \o t \in Seq(S)
      /\ Len(s \o t) = Len(s) + Len(t)
      /\ \A i \in 1..(Len(s) + Len(t)) : (s \o t)[i] = IF i <= Len(s) THEN s[i] ELSE t[i - Len(s)]
  BY ConcatProperties
<1>3. ASSUME NEW i \in 1..Len(t) PROVE (s \o t)[Len(s) + i] = t[i]
  <2>1. Len(s) + i \in 1..(Len(s) + Len(t)) /\ ~(Len(s) + i <= Len(s)) /\ (Len(s) + i) - Len(s) = i
    BY <1>1
  <2> QED  BY <1>2, <2>1
<1> QED  BY <1>1, <1>2, <1>3

LEMMA SubIs ==
  ASSUME NEW S, NEW s \in Seq(S), NEW m \in Nat \ {0}, NEW n \in Nat, n <= Len(s)
  PROVE  /\ SubSeq(s, m, n) \in Seq(S)
         /\ Len(SubSeq(s, m, n)) = IF m <= n THEN n - m + 1 ELSE 0
         /\ \A i \in 1..Len(SubSeq(s, m, n)) : m + i - 1 \in m..n /\ SubSeq(s, m, n)[i] = s[m + i - 1]
<1>1. Len(s) \in Nat
  BY LenProperties
<1>2. \A i \in m..n : s[i] \in S
  BY <1>1, ElementOfSeq
<1>3. /\ SubSeq(s, m, n) \in Seq(S)
      /\ Len(SubSeq(s, m, n)) = IF m <= n THEN n - m + 1 ELSE 0
      /\ \A i \in 1..(n - m + 1) : SubSeq(s, m, n)[i] = s[m + i - 1]
  BY <1>2, SubSeqProperties
<1> QED  BY <1>3

LEMMA CellOf ==
  ASSUME NEW R, Sized(R), NEW s \in LogsOver(R), NEW i \in 1..Len(s)
  PROVE  /\ s[i].rec \in R /\ s[i].part \in Nat
         /\ s[i] = Cell(s[i].rec, s[i].part)
         /\ RecordLen(s[i].rec) \in Nat \ {0}
<1>1. s[i] \in CellsOver(R)
  BY ElementOfSeq DEF LogsOver
<1> QED  BY <1>1 DEF Sized, CellsOver, Cell

\* A chain after a chain is one, and what is left of a chain from where a record
\* starts.
LEMMA JoinChain ==
  ASSUME NEW R, Sized(R), NEW s \in LogsOver(R), NEW t \in LogsOver(R), Chain(s), Chain(t)
  PROVE  Chain(s \o t)
<1> DEFINE u == s \o t
<1>1. /\ Len(u) = Len(s) + Len(t)
      /\ \A i \in 1..Len(s) : u[i] = s[i]
      /\ \A i \in 1..Len(t) : u[Len(s) + i] = t[i]
      /\ \A i \in 1..Len(u) : i <= Len(s) \/ (i - Len(s) \in 1..Len(t) /\ u[i] = t[i - Len(s)])
  BY JoinIs DEF LogsOver
<1>2. Len(s) \in Nat /\ Len(t) \in Nat
  BY LenProperties DEF LogsOver
<1>3. (s = <<>> => u = t) /\ (t = <<>> => u = s)
  BY ConcatEmptySeq DEF LogsOver
<1> SUFFICES ASSUME s # <<>>, t # <<>> PROVE Chain(u)
  BY <1>3
<1>4. Len(s) \in Nat \ {0} /\ Len(t) \in Nat \ {0}
  BY EmptySeq DEF LogsOver
<1> HIDE DEF u
<1>5. u[1] = s[1] /\ u[Len(u)] = t[Len(t)]
  BY <1>1, <1>4
<1>6. ASSUME NEW i \in 1..(Len(u) - 1) PROVE Follows(u[i], u[i + 1])
  <2>1. CASE i < Len(s)
    <3>1. i \in 1..(Len(s) - 1) /\ i \in 1..Len(s) /\ i + 1 \in 1..Len(s)
      BY <1>4, <2>1
    <3> QED  BY <1>1, <3>1 DEF Chain
  <2>2. CASE i = Len(s)
    <3>1. u[i] = s[Len(s)] /\ u[i + 1] = t[1]
      BY <1>1, <1>4, <2>2
    <3>2. s[Len(s)].part = RecordLen(s[Len(s)].rec) /\ t[1].part = 1
      BY DEF Chain
    <3>3. RecordLen(s[Len(s)].rec) \in Nat
      <4>1. Len(s) \in 1..Len(s)
        BY <1>4
      <4> QED  BY <4>1, CellOf
    <3> QED  BY <3>1, <3>2, <3>3 DEF Follows
  <2>3. CASE i > Len(s)
    <3> DEFINE j == i - Len(s)
    <3>1. j \in 1..(Len(t) - 1) /\ j \in 1..Len(t) /\ j + 1 \in 1..Len(t)
      BY <1>1, <1>4, <2>3
    <3>2. Len(s) + j = i /\ Len(s) + (j + 1) = i + 1
      BY <1>4
    <3>3. u[i] = t[j] /\ u[i + 1] = t[j + 1]
      BY <1>1, <3>1, <3>2
    <3> HIDE DEF j
    <3> QED  BY <3>1, <3>3 DEF Chain
  <2> QED  BY <1>4, <2>1, <2>2, <2>3
<1> QED  BY <1>1, <1>4, <1>5, <1>6 DEF Chain

LEMMA ChainFrom ==
  ASSUME NEW R, Sized(R), NEW s \in LogsOver(R), Chain(s), NEW m \in 1..Len(s), s[m].part = 1
  PROVE  Chain(SubSeq(s, m, Len(s)))
<1> DEFINE t == SubSeq(s, m, Len(s))
           n == Len(s) - m + 1
<1>1. Len(s) \in Nat /\ m \in Nat \ {0} /\ s # <<>>
  BY LenProperties, EmptySeq DEF LogsOver
<1>2. /\ t \in LogsOver(R)
      /\ Len(t) = IF m <= Len(s) THEN Len(s) - m + 1 ELSE 0
      /\ \A i \in 1..Len(t) : m + i - 1 \in m..Len(s) /\ t[i] = s[m + i - 1]
  BY <1>1, SubIs DEF LogsOver
<1>3. Len(t) = n /\ n \in Nat \ {0}
  BY <1>1, <1>2
<1> HIDE DEF t
<1>4. t[1] = s[m] /\ t[Len(t)] = s[Len(s)]
  <2>1. m + 1 - 1 = m /\ m + n - 1 = Len(s) /\ 1 \in 1..n /\ n \in 1..n
    BY <1>1, <1>3
  <2> QED  BY <1>2, <1>3, <2>1
<1>5. ASSUME NEW i \in 1..(Len(t) - 1) PROVE Follows(t[i], t[i + 1])
  <2> DEFINE j == m + i - 1
  <2>1. i \in 1..Len(t) /\ i + 1 \in 1..Len(t) /\ j \in 1..(Len(s) - 1) /\ m + (i + 1) - 1 = j + 1
    BY <1>1, <1>3
  <2>2. t[i] = s[j] /\ t[i + 1] = s[j + 1]
    BY <1>2, <2>1
  <2> HIDE DEF j
  <2> QED  BY <1>1, <2>1, <2>2 DEF Chain
<1>6. Chain(t)
  BY <1>1, <1>4, <1>5 DEF Chain
<1> QED  BY <1>6 DEF t

\* GoodLen is a length, of a prefix that reads as records.
LEMMA GoodLenIs ==
  ASSUME NEW R, Sized(R), NEW s \in LogsOver(R)
  PROVE  /\ GoodLen(s) \in 0..Len(s)
         /\ GoodLen(s) # 0 =>
              /\ s[1].part = 1
              /\ \A i \in 1..(GoodLen(s) - 1) : Follows(s[i], s[i + 1])
              /\ GoodLen(s) = Len(s) \/ ~Follows(s[GoodLen(s)], s[GoodLen(s) + 1])
         /\ GoodLen(s) = 0 => s = <<>> \/ s[1].part # 1
<1>1. Len(s) \in Nat /\ DOMAIN s = 1..Len(s)
  BY LenProperties DEF LogsOver
<1>2. s # <<>> => Len(s) \in Nat \ {0} /\ Head(s) = s[1]
  BY EmptySeq DEF LogsOver
<1>3. CASE s = <<>> \/ Head(s).part # 1
  BY <1>1, <1>2, <1>3 DEF GoodLen
<1>4. CASE ~(s = <<>> \/ Head(s).part # 1)
  <2> DEFINE T == {n \in 1..Len(s) : \A i \in 1..(n - 1) : Follows(s[i], s[i + 1])}
             P(n) == /\ n = Len(s) \/ ~Follows(s[n], s[n + 1])
                     /\ \A i \in 1..(n - 1) : Follows(s[i], s[i + 1])
  <2>1. 1 \in T
    BY <1>2, <1>4
  <2>2. T \in SUBSET Int /\ Len(s) \in Int /\ \A x \in T : x <= Len(s)
    BY <1>1
  <2>3. PICK m \in T : \A y \in T : y <= m
    <3> HIDE DEF T
    <3> QED  BY <2>1, <2>2, MaxIsLargest
  <2>4. P(m)
    <3>1. m \in 1..Len(s)
      BY <2>3
    <3>2. m # Len(s) => m + 1 \in 1..Len(s)
      <4>1. Len(s) \in Nat
        BY <1>1
      <4> QED  BY <3>1, <4>1
    <3> SUFFICES ASSUME m # Len(s), Follows(s[m], s[m + 1]) PROVE FALSE
      BY <2>3
    <3>3. \A i \in 1..((m + 1) - 1) : Follows(s[i], s[i + 1])
      <4>1. \A i \in 1..((m + 1) - 1) : i = m \/ i \in 1..(m - 1)
        BY <2>3
      <4> QED  BY <2>3, <4>1
    <3>4. m + 1 \in T
      BY <3>2, <3>3
    <3>5. m + 1 <= m
      BY <2>3, <3>4
    <3> QED  BY <2>3, <3>5
  <2>5. GoodLen(s) = CHOOSE n \in 1..Len(s) : P(n)
    BY <1>1, <1>4 DEF GoodLen
  <2>6. GoodLen(s) \in 1..Len(s) /\ P(GoodLen(s))
    <3>1. m \in 1..Len(s)
      BY <2>3
    <3> HIDE DEF P
    <3> QED  BY <2>4, <2>5, <3>1
  <2> QED  BY <1>1, <1>2, <1>4, <2>6
<1> QED  BY <1>3, <1>4

\* A file all of whose cells follow each other is replayed to its end.
LEMMA GoodLenOfChain ==
  ASSUME NEW R, Sized(R), NEW s \in LogsOver(R), s # <<>> => s[1].part = 1,
         \A i \in 1..(Len(s) - 1) : Follows(s[i], s[i + 1])
  PROVE  GoodLen(s) = Len(s)
<1>1. Len(s) \in Nat /\ (s = <<>> => Len(s) = 0)
  BY LenProperties, EmptySeq DEF LogsOver
<1> DEFINE g == GoodLen(s)
<1>2. /\ g \in 0..Len(s)
      /\ g # 0 => g = Len(s) \/ ~Follows(s[g], s[g + 1])
      /\ g = 0 => s = <<>> \/ s[1].part # 1
  BY GoodLenIs
<1> HIDE DEF g
<1>3. CASE g = 0
  BY <1>1, <1>2, <1>3 DEF g
<1>4. CASE g # 0
  <2>1. g = Len(s) \/ g \in 1..(Len(s) - 1)
    BY <1>1, <1>2, <1>4
  <2> QED  BY <1>2, <1>4, <2>1 DEF g
<1> QED  BY <1>3, <1>4 DEF g

\* A cell that is replayed has the first one of its record as many cells before
\* it as its part says.
LEMMA PartsBack ==
  ASSUME NEW R, Sized(R), NEW s \in LogsOver(R), NEW e \in 1..GoodLen(s)
  PROVE  /\ s[e].part \in 1..e
         /\ s[e - s[e].part + 1] = Cell(s[e].rec, 1)
<1> DEFINE g == GoodLen(s)
           Q(n) == s[n].part \in 1..n /\ s[n - s[n].part + 1] = Cell(s[n].rec, 1)
           N == {m \in Nat : m + 1 <= g => Q(m + 1)}
<1>1. /\ g \in Nat /\ g <= Len(s) /\ Len(s) \in Nat
      /\ g # 0 => /\ s[1].part = 1
                  /\ \A i \in 1..(g - 1) : Follows(s[i], s[i + 1])
  BY GoodLenIs, LenProperties DEF LogsOver
<1>2. \A i \in 1..g : /\ s[i].rec \in R /\ s[i].part \in Nat
                      /\ s[i] = Cell(s[i].rec, s[i].part)
                      /\ RecordLen(s[i].rec) \in Nat \ {0}
  BY <1>1, CellOf
<1> HIDE DEF g
<1>3. 0 \in N
  <2> SUFFICES ASSUME 1 <= g PROVE Q(1)
    OBVIOUS
  <2>1. s[1] = Cell(s[1].rec, 1) /\ s[1].part = 1
    BY <1>1, <1>2
  <2> QED  BY <2>1
<1>4. ASSUME NEW n \in Nat, n \in N PROVE n + 1 \in N
  <2> SUFFICES ASSUME (n + 1) + 1 <= g PROVE Q((n + 1) + 1)
    OBVIOUS
  <2> DEFINE m == n + 1
             c == s[m]
             d == s[m + 1]
  <2>1. m \in 1..(g - 1) /\ m \in 1..g /\ m + 1 \in 1..g /\ Q(m)
    BY <1>1, <1>4
  <2>2. Follows(c, d)
    BY <1>1, <2>1
  <2>3. CASE c.part < RecordLen(c.rec)
    <3>1. d = Cell(c.rec, c.part + 1)
      BY <2>2, <2>3 DEF Follows
    <3>2. d.rec = c.rec /\ d.part = c.part + 1
      BY <3>1 DEF Cell
    <3>3. c.part \in 1..m /\ s[m - c.part + 1] = Cell(c.rec, 1)
      BY <2>1
    <3>4. d.part \in 1..(m + 1) /\ (m + 1) - d.part + 1 = m - c.part + 1
      BY <2>1, <3>2, <3>3
    <3>5. s[(m + 1) - d.part + 1] = Cell(d.rec, 1)
      BY <3>2, <3>3, <3>4
    <3> QED  BY <3>4, <3>5
  <2>4. CASE ~(c.part < RecordLen(c.rec))
    <3>1. d.part = 1
      BY <2>2, <2>4 DEF Follows
    <3>2. d = Cell(d.rec, 1)
      BY <1>2, <2>1, <3>1
    <3>3. d.part \in 1..(m + 1) /\ (m + 1) - d.part + 1 = m + 1
      BY <2>1, <3>1
    <3>4. s[(m + 1) - d.part + 1] = Cell(d.rec, 1)
      BY <3>2, <3>3
    <3> QED  BY <3>3, <3>4
  <2> QED  BY <2>3, <2>4
<1>5. \A n \in Nat : n \in N
  <2> HIDE DEF N
  <2> QED  BY <1>3, <1>4, AllNaturals
<1>6. e - 1 \in Nat /\ (e - 1) + 1 = e /\ e <= g
  BY <1>1 DEF g
<1>7. Q(e)
  BY <1>5, <1>6
<1> QED  BY <1>7

\* Cell e is the last one of its record.
Complete(s, e) == s[e].part = RecordLen(s[e].rec)

Entry(s, e) == [rec |-> s[e].rec, off |-> e - RecordLen(s[e].rec)]

\* q lists the records that are complete within the first n cells of s: they end
\* at the cells ends[1] < ends[2] < ...
Lists(R, s, n, q, ends) ==
  /\ q \in Seq(Listed(R))
  /\ \A j \in 1..Len(q) : /\ ends[j] \in 1..n /\ Complete(s, ends[j])
                          /\ q[j] = Entry(s, ends[j])
  /\ \A i, j \in 1..Len(q) : i < j => ends[i] < ends[j]
  /\ \A e \in 1..n : Complete(s, e) => \E j \in 1..Len(q) : ends[j] = e

\* Replay's recursion has a solution.
LEMMA ReplayUnfolds ==
  ASSUME NEW R, Sized(R), NEW s \in LogsOver(R)
  PROVE  \E up : /\ Replay(s) = up[GoodLen(s)]
                 /\ up[0] = <<>>
                 /\ \A n \in 1..GoodLen(s) :
                      up[n] = IF Complete(s, n) THEN Append(up[n - 1], Entry(s, n))
                              ELSE up[n - 1]
<1> DEFINE g == GoodLen(s)
           Step(h) == [n \in 0..g |->
                         IF n = 0 THEN <<>>
                         ELSE IF s[n].part = RecordLen(s[n].rec)
                              THEN Append(h[n - 1], [rec |-> s[n].rec, off |-> n - RecordLen(s[n].rec)])
                         ELSE h[n - 1]]
           up == CHOOSE h : h = Step(h)
<1>1. Replay(s) = up[g]
  BY DEF Replay
<1>2. g \in Nat /\ g <= Len(s) /\ Len(s) \in Nat
  BY GoodLenIs, LenProperties DEF LogsOver
<1>3. ASSUME NEW n \in 1..g PROVE Entry(s, n) \in Listed(R)
  <2>1. n \in 1..Len(s)
    BY <1>2
  <2> QED  BY <2>1, CellOf DEF Entry, Listed
<1> HIDE DEF g
<1> DEFINE V == Seq(Listed(R))
           step == [x \in (1..g) \X V |->
                      IF Complete(s, x[1]) THEN Append(x[2], Entry(s, x[1])) ELSE x[2]]
<1>4. step \in [(1..g) \X V -> V]
  BY <1>3
<1>5. PICK h \in [0..g -> V] : h[0] = <<>> /\ \A n \in 1..g : h[n] = step[<<n, h[n - 1]>>]
  <2> DEFINE v == <<>>
  <2>1. v \in V
    OBVIOUS
  <2> HIDE DEF V, step, v
  <2>2. \E h \in [0..g -> V] : IsRecursion(h, g, v, step)
    BY <1>2, <1>4, <2>1, RecursionExists
  <2> QED  BY <2>2 DEF v, IsRecursion
<1>6. ASSUME NEW n \in 1..g
      PROVE  h[n] = IF Complete(s, n) THEN Append(h[n - 1], Entry(s, n)) ELSE h[n - 1]
  <2>1. n - 1 \in 0..g
    BY <1>2
  <2>2. h[n - 1] \in V
    BY <2>1
  <2> HIDE DEF V
  <2>3. step[<<n, h[n - 1]>>] = IF Complete(s, n) THEN Append(h[n - 1], Entry(s, n)) ELSE h[n - 1]
    BY <2>2
  <2> QED  BY <1>5, <2>3
<1>7. h = Step(h)
  <2>1. ASSUME NEW n \in 0..g PROVE h[n] = Step(h)[n]
    <3>1. n = 0 \/ n \in 1..g
      BY <1>2
    <3> QED  BY <1>5, <1>6, <3>1 DEF Complete, Entry
  <2>2. h = [n \in 0..g |-> h[n]] /\ Step(h) = [n \in 0..g |-> Step(h)[n]]
    OBVIOUS
  <2> HIDE DEF Step
  <2> QED  BY <2>1, <2>2
<1>8. up = Step(up)
  <2> HIDE DEF Step
  <2> QED  BY <1>7
<1>9. 0 \in 0..g /\ \A n \in 1..g : n \in 0..g /\ n # 0
  BY <1>2
<1> HIDE DEF up
<1>10. up[0] = <<>>
  BY <1>8, <1>9
<1>11. ASSUME NEW n \in 1..g
       PROVE  up[n] = IF Complete(s, n) THEN Append(up[n - 1], Entry(s, n)) ELSE up[n - 1]
  BY <1>8, <1>9 DEF Complete, Entry
<1> QED  BY <1>1, <1>10, <1>11 DEF g

LEMMA ReplayIs ==
  ASSUME NEW R, Sized(R), NEW s \in LogsOver(R)
  PROVE  \E ends : Lists(R, s, GoodLen(s), Replay(s), ends)
<1> DEFINE g == GoodLen(s)
<1>1. PICK up : /\ Replay(s) = up[g]
                /\ up[0] = <<>>
                /\ \A n \in 1..g : up[n] = IF Complete(s, n) THEN Append(up[n - 1], Entry(s, n))
                                           ELSE up[n - 1]
  BY ReplayUnfolds
<1>2. g \in Nat /\ g <= Len(s) /\ Len(s) \in Nat
  BY GoodLenIs, LenProperties DEF LogsOver
<1>3. ASSUME NEW n \in 1..g PROVE Entry(s, n) \in Listed(R)
  <2>1. n \in 1..Len(s)
    BY <1>2
  <2> QED  BY <2>1, CellOf DEF Entry, Listed
<1> HIDE DEF g
<1> DEFINE N == {n \in Nat : n <= g => \E ends : Lists(R, s, n, up[n], ends)}
<1>4. 0 \in N
  <2>1. Lists(R, s, 0, <<>>, <<>>)
    BY DEF Lists
  <2> QED  BY <1>1, <2>1
<1>5. ASSUME NEW n \in Nat, n \in N PROVE n + 1 \in N
  <2> SUFFICES ASSUME n + 1 <= g PROVE \E ends : Lists(R, s, n + 1, up[n + 1], ends)
    OBVIOUS
  <2> DEFINE q == up[n]
             m == n + 1
  <2>1. n <= g /\ m \in 1..g /\ m - 1 = n
    BY <1>2
  <2>2. PICK ends : Lists(R, s, n, q, ends)
    BY <1>5, <2>1
  <2>3. up[m] = IF Complete(s, m) THEN Append(q, Entry(s, m)) ELSE q
    BY <1>1, <2>1
  <2>4. \A e \in 1..m : e \in 1..n \/ e = m
    OBVIOUS
  <2>5. (1..n) \subseteq 1..m /\ m \in 1..m /\ \A e \in 1..n : e < m
    OBVIOUS
  <2> HIDE DEF m, q
  <2>6. CASE ~Complete(s, m)
    <3>1. Lists(R, s, m, q, ends)
      BY <2>2, <2>4, <2>5, <2>6 DEF Lists
    <3> QED  BY <2>3, <2>6, <3>1 DEF m
  <2>7. CASE Complete(s, m)
    <3> DEFINE x == Entry(s, m)
               r == Append(q, x)
               l == Len(q)
               f == [j \in 1..(l + 1) |-> IF j <= l THEN ends[j] ELSE m]
    <3>1. q \in Seq(Listed(R)) /\ x \in Listed(R) /\ l \in Nat
      BY <1>3, <2>1, <2>2, LenProperties DEF Lists
    <3>2. /\ r \in Seq(Listed(R)) /\ Len(r) = l + 1
          /\ r[l + 1] = x
          /\ \A j \in 1..l : r[j] = q[j]
      <4> HIDE DEF x
      <4> QED  BY <3>1
    <3>3. f[l + 1] = m /\ \A j \in 1..l : f[j] = ends[j]
      BY <3>1
    <3>4. \A j \in 1..(l + 1) : j \in 1..l \/ j = l + 1
      BY <3>1
    <3>5. (1..l) \subseteq 1..(l + 1) /\ l + 1 \in 1..(l + 1) /\ \A j \in 1..l : ~(l + 1 < j)
      BY <3>1
    <3> HIDE DEF f, r, x, l
    <3>6. ASSUME NEW j \in 1..(l + 1)
          PROVE  f[j] \in 1..m /\ Complete(s, f[j]) /\ r[j] = Entry(s, f[j])
      <4>1. CASE j \in 1..l
        BY <2>2, <2>5, <3>2, <3>3, <4>1 DEF Lists, l
      <4>2. CASE j = l + 1
        BY <2>5, <2>7, <3>2, <3>3, <4>2 DEF x
      <4> QED  BY <3>4, <4>1, <4>2
    <3>7. ASSUME NEW i \in 1..(l + 1), NEW j \in 1..(l + 1), i < j PROVE f[i] < f[j]
      <4>1. i \in 1..l
        BY <3>1, <3>7
      <4>2. CASE j \in 1..l
        BY <2>2, <3>3, <3>7, <4>1, <4>2 DEF Lists, l
      <4>3. CASE j = l + 1
        <5>1. ends[i] \in 1..n
          BY <2>2, <4>1 DEF Lists, l
        <5> QED  BY <2>5, <3>3, <4>1, <4>3, <5>1
      <4> QED  BY <3>4, <4>2, <4>3
    <3>8. ASSUME NEW e \in 1..m, Complete(s, e) PROVE \E j \in 1..(l + 1) : f[j] = e
      <4>1. CASE e \in 1..n
        <5>1. PICK j \in 1..l : ends[j] = e
          BY <2>2, <3>8, <4>1 DEF Lists, l
        <5> QED  BY <3>3, <3>5, <5>1
      <4>2. CASE e = m
        BY <3>3, <3>5, <4>2
      <4> QED  BY <2>4, <4>1, <4>2
    <3>9. Lists(R, s, m, r, f)
      BY <3>2, <3>6, <3>7, <3>8 DEF Lists
    <3> QED  BY <2>3, <2>7, <3>9 DEF m, r, x
  <2> QED  BY <2>6, <2>7
<1>6. g \in N
  <2> HIDE DEF N
  <2> QED  BY <1>2, <1>4, <1>5, AllNaturals
<1>7. \E ends : Lists(R, s, g, up[g], ends)
  BY <1>2, <1>6
<1> QED  BY <1>1, <1>7 DEF g

LEMMA BatchOfNone == BatchCells(<<>>) = <<>>
<1> DEFINE seqs == [i \in DOMAIN <<>> |-> Cells(<<>>[i])]
<1>1. DOMAIN <<>> = {}
  OBVIOUS
<1>2. seqs = <<>>
  BY <1>1
<1>3. seqs \in Seq(Seq({})) /\ Len(seqs) = 0
  BY <1>2, EmptySeq
<1>4. BatchCells(<<>>) = Concatenation(seqs)
  BY DEF BatchCells
<1> HIDE DEF seqs
<1>5. PICK h : Concatenation(seqs) = h[Len(seqs)] /\ h[0] = <<>>
  BY <1>3, ConcatenationUnfolds
<1> QED  BY <1>3, <1>4, <1>5

LEMMA CellsAre ==
  ASSUME NEW R, Sized(R), NEW r \in R
  PROVE  /\ Cells(r) \in LogsOver(R) /\ Cells(r) # <<>>
         /\ Len(Cells(r)) = RecordLen(r) /\ RecordLen(r) \in Nat \ {0}
         /\ \A i \in 1..RecordLen(r) : Cells(r)[i] = Cell(r, i)
<1>1. RecordLen(r) \in Nat \ {0}
  BY DEF Sized
<1>2. \A i \in 1..RecordLen(r) : Cell(r, i) \in CellsOver(R)
  BY <1>1 DEF Cell, CellsOver
<1> QED  BY <1>1, <1>2, EmptySeq DEF Cells, LogsOver

LEMMA BatchMore ==
  ASSUME NEW R, Sized(R), NEW rs \in Seq(R), NEW r \in R
  PROVE  BatchCells(Append(rs, r)) = BatchCells(rs) \o Cells(r)
<1> DEFINE n == Len(rs)
           ss == Append(rs, r)
           few == [i \in DOMAIN rs |-> Cells(rs[i])]
           all == [i \in DOMAIN ss |-> Cells(ss[i])]
<1>1. n \in Nat /\ DOMAIN rs = 1..n /\ \A i \in 1..n : rs[i] \in R
  BY LenProperties, ElementOfSeq
<1>2. /\ DOMAIN ss = 1..(n + 1)
      /\ \A i \in 1..n : ss[i] = rs[i]
      /\ ss[n + 1] = r
  OBVIOUS
<1> HIDE DEF n, ss
<1>3. few \in Seq(LogsOver(R)) /\ Len(few) = n
  <2>1. \A i \in 1..n : Cells(rs[i]) \in LogsOver(R)
    BY <1>1, CellsAre
  <2>2. few = [i \in 1..n |-> Cells(rs[i])]
    BY <1>1
  <2> HIDE DEF few
  <2> QED  BY <1>1, <2>1, <2>2
<1>4. ASSUME NEW i \in 1..(n + 1)
      PROVE  ss[i] \in R /\ Cells(ss[i]) \in LogsOver(R)
  <2>1. i \in 1..n \/ i = n + 1
    BY <1>1
  <2>2. ss[i] \in R
    BY <1>1, <1>2, <2>1
  <2> QED  BY <2>2, CellsAre
<1>5. all \in Seq(LogsOver(R)) /\ Len(all) = n + 1
  <2>1. all = [i \in 1..(n + 1) |-> Cells(ss[i])]
    BY <1>2
  <2> HIDE DEF all
  <2> QED  BY <1>1, <1>4, <2>1
<1>6. all[n + 1] = Cells(r) /\ \A i \in 1..n : all[i] = few[i]
  BY <1>1, <1>2
<1>7. BatchCells(rs) = Concatenation(few) /\ BatchCells(ss) = Concatenation(all)
  BY DEF BatchCells
<1> HIDE DEF few, all
<1>8. PICK h : /\ Concatenation(few) = h[n] /\ h[0] = <<>>
               /\ \A m \in 1..n : h[m] = h[m - 1] \o few[m]
  BY <1>3, ConcatenationUnfolds DEF LogsOver
<1>9. PICK g : /\ Concatenation(all) = g[n + 1] /\ g[0] = <<>>
               /\ \A m \in 1..(n + 1) : g[m] = g[m - 1] \o all[m]
  BY <1>5, ConcatenationUnfolds DEF LogsOver
<1> DEFINE N == {m \in Nat : m <= n => g[m] = h[m]}
<1>10. 0 \in N
  BY <1>8, <1>9
<1>11. ASSUME NEW m \in Nat, m \in N PROVE m + 1 \in N
  <2> SUFFICES ASSUME m + 1 <= n PROVE g[m + 1] = h[m + 1]
    OBVIOUS
  <2>1. m + 1 \in 1..n /\ m + 1 \in 1..(n + 1) /\ (m + 1) - 1 = m /\ m <= n
    BY <1>1
  <2>2. h[m + 1] = h[m] \o few[m + 1] /\ g[m + 1] = g[m] \o all[m + 1] /\ g[m] = h[m]
    BY <1>8, <1>9, <1>11, <2>1
  <2> QED  BY <1>6, <2>1, <2>2
<1>12. n \in N
  <2> HIDE DEF N
  <2> QED  BY <1>1, <1>10, <1>11, AllNaturals
<1>13. n + 1 \in 1..(n + 1) /\ (n + 1) - 1 = n
  BY <1>1
<1>14. g[n + 1] = g[n] \o all[n + 1] /\ g[n] = h[n]
  <2>1. g[n] = h[n]
    BY <1>1, <1>12
  <2>2. g[n + 1] = g[(n + 1) - 1] \o all[n + 1]
    BY <1>9, <1>13
  <2> QED  BY <1>13, <2>1, <2>2
<1>15. BatchCells(ss) = BatchCells(rs) \o Cells(r)
  BY <1>6, <1>7, <1>8, <1>9, <1>14
<1> QED  BY <1>15 DEF ss

-----------------------------------------------------------------------------
(* Strict orders and enumerations of finite sets *)

\* R is a strict order of the elements of S, a set of pairs.
Orders(R, S) ==
  /\ \A x \in S : <<x, x>> \notin R
  /\ \A x, y \in S : x = y \/ <<x, y>> \in R \/ <<y, x>> \in R
  /\ \A x, y, z \in S : <<x, y>> \in R /\ <<y, z>> \in R => <<x, z>> \in R

\* A finite set in a strict order has a first element.
LEMMA FirstExists ==
  ASSUME NEW S, IsFiniteSet(S), S # {}, NEW R, Orders(R, S)
  PROVE  \E a \in S : \A b \in S : a = b \/ <<a, b>> \in R
<1> DEFINE First(T) == \E a \in T : \A b \in T : a = b \/ <<a, b>> \in R
           N == {n \in Nat : \A T \in SUBSET S : Cardinality(T) = n + 1 => First(T)}
<1>0. \A T \in SUBSET S : IsFiniteSet(T) /\ Cardinality(T) \in Nat
  BY FS_Subset, FS_CardinalityType
<1>1. ASSUME NEW T \in SUBSET S, NEW x \in T
      PROVE  IsFiniteSet(T \ {x}) /\ Cardinality(T \ {x}) = Cardinality(T) - 1
  BY <1>0, FS_RemoveElement
<1>2. 0 \in N
  <2> SUFFICES ASSUME NEW T \in SUBSET S, Cardinality(T) = 1 PROVE First(T)
    OBVIOUS
  <2>1. PICK x : T = {x}
    BY <1>0, FS_Singleton
  <2> QED  BY <2>1
<1>3. ASSUME NEW n \in Nat, n \in N PROVE n + 1 \in N
  <2> SUFFICES ASSUME NEW T \in SUBSET S, Cardinality(T) = n + 1 + 1 PROVE First(T)
    OBVIOUS
  <2>1. T # {}
    BY FS_EmptySet
  <2>2. PICK x \in T : TRUE
    BY <2>1
  <2> DEFINE U == T \ {x}
  <2>3. U \in SUBSET S /\ Cardinality(U) = n + 1
    BY <1>1
  <2>4. First(U)
    BY <1>3, <2>3
  <2>5. PICK a \in U : \A b \in U : a = b \/ <<a, b>> \in R
    BY <2>4
  <2>6. a \in S /\ x \in S /\ a # x
    OBVIOUS
  <2>7. CASE <<a, x>> \in R
    BY <2>5, <2>7
  <2>8. CASE <<x, a>> \in R
    <3>1. \A b \in U : <<x, b>> \in R
      BY <2>5, <2>6, <2>8 DEF Orders
    <3> QED  BY <3>1
  <2> QED  BY <2>6, <2>7, <2>8 DEF Orders
<1>4. PICK n \in Nat : Cardinality(S) = n + 1
  <2>1. Cardinality(S) \in Nat /\ Cardinality(S) # 0
    BY <1>0, FS_EmptySet
  <2>2. Cardinality(S) - 1 \in Nat /\ Cardinality(S) = (Cardinality(S) - 1) + 1
    BY <2>1
  <2> QED  BY <2>2
<1>5. n \in N
  <2> HIDE DEF N
  <2> QED  BY <1>2, <1>3, AllNaturals
<1> QED  BY <1>4, <1>5

\* What SetToSeqs lists of a finite set is each element of it once.
LEMMA EnumerationIs ==
  ASSUME NEW S, IsFiniteSet(S), NEW q \in SetToSeqs(S)
  PROVE  /\ q \in Seq(S) /\ Len(q) \in Nat /\ DOMAIN q = 1..Len(q)
         /\ \A i, j \in DOMAIN q : i # j => q[i] # q[j]
         /\ \A x \in S : \E i \in DOMAIN q : q[i] = x
<1> DEFINE n == Cardinality(S)
           D == 1..n
<1>1. n \in Nat
  BY FS_CardinalityType
<1> HIDE DEF n
<1>2. q \in [D -> S] /\ \A i, j \in D : i # j => q[i] # q[j]
  BY DEF SetToSeqs, n
<1>3. q \in Injection(D, S)
  BY <1>2 DEF Injection, IsInjective
<1>4. IsFiniteSet(D) /\ Cardinality(D) = n
  BY <1>1, FS_Interval
<1>5. q \in Surjection(D, S)
  BY <1>3, <1>4, FS_Injection DEF n
<1>6. \A x \in S : \E i \in D : q[i] = x
  BY <1>5 DEF Surjection
<1>7. q \in Seq(S) /\ Len(q) = n
  BY <1>1, <1>2, SeqDef
<1> QED  BY <1>1, <1>2, <1>6, <1>7

\* A finite set can be listed in any strict order of it.
LEMMA EnumerationExists ==
  ASSUME NEW S, IsFiniteSet(S), NEW R, Orders(R, S)
  PROVE  \E q \in SetToSeqs(S) : \A i, j \in DOMAIN q : i < j => <<q[i], q[j]>> \in R
<1> DEFINE Ranked(T, n) ==
             \E q \in [1..n -> T] : \A i, j \in 1..n : i < j => <<q[i], q[j]>> \in R
           N == {n \in Nat : \A T \in SUBSET S : Cardinality(T) = n => Ranked(T, n)}
<1>0. \A T \in SUBSET S : IsFiniteSet(T) /\ Cardinality(T) \in Nat
  BY FS_Subset, FS_CardinalityType
<1>1. 0 \in N
  <2> SUFFICES ASSUME NEW T \in SUBSET S, Cardinality(T) = 0 PROVE Ranked(T, 0)
    OBVIOUS
  <2> DEFINE q == [i \in 1..0 |-> i]
  <2>1. 1..0 = {} /\ q \in [1..0 -> T]
    OBVIOUS
  <2>2. \A i, j \in 1..0 : i < j => <<q[i], q[j]>> \in R
    BY <2>1
  <2> HIDE DEF q
  <2> QED  BY <2>1, <2>2
<1>2. ASSUME NEW n \in Nat, n \in N PROVE n + 1 \in N
  <2> SUFFICES ASSUME NEW T \in SUBSET S, Cardinality(T) = n + 1 PROVE Ranked(T, n + 1)
    OBVIOUS
  <2>1. T # {} /\ Orders(R, T)
    BY FS_EmptySet DEF Orders
  <2>2. PICK x \in T : \A b \in T : x = b \/ <<x, b>> \in R
    BY <1>0, <2>1, FirstExists
  <2> DEFINE U == T \ {x}
  <2>3. U \in SUBSET S /\ Cardinality(U) = n
    <3>1. IsFiniteSet(T) /\ x \in T
      BY <1>0
    <3>2. Cardinality(T \ {x}) = Cardinality(T) - 1
      BY <3>1, FS_RemoveElement
    <3> QED  BY <3>2
  <2>4. PICK q \in [1..n -> U] : \A i, j \in 1..n : i < j => <<q[i], q[j]>> \in R
    BY <1>2, <2>3
  <2> DEFINE p == [i \in 1..(n + 1) |-> IF i = 1 THEN x ELSE q[i - 1]]
  <2>5. p \in [1..(n + 1) -> T]
    OBVIOUS
  <2>6. ASSUME NEW i \in 1..(n + 1), NEW j \in 1..(n + 1), i < j PROVE <<p[i], p[j]>> \in R
    <3>1. p[j] = q[j - 1] /\ j - 1 \in 1..n
      BY <2>6
    <3>2. CASE i = 1
      BY <2>2, <3>1, <3>2
    <3>3. CASE i # 1
      <4>1. p[i] = q[i - 1] /\ i - 1 \in 1..n /\ i - 1 < j - 1
        BY <2>6, <3>3
      <4> QED  BY <2>4, <3>1, <4>1
    <3> QED  BY <3>2, <3>3
  <2> HIDE DEF p
  <2> QED  BY <2>5, <2>6
<1> DEFINE c == Cardinality(S)
<1>3. c \in N
  <2>1. c \in Nat
    BY <1>0
  <2> HIDE DEF N, c
  <2> QED  BY <1>1, <1>2, <2>1, AllNaturals
<1>4. PICK q \in [1..c -> S] : \A i, j \in 1..c : i < j => <<q[i], q[j]>> \in R
  BY <1>3
<1>5. ASSUME NEW i \in 1..c, NEW j \in 1..c, i # j PROVE q[i] # q[j]
  <2>1. i < j \/ j < i
    BY <1>5
  <2> QED  BY <1>4, <2>1 DEF Orders
<1>6. q \in SetToSeqs(S)
  BY <1>4, <1>5 DEF SetToSeqs
<1> QED  BY <1>4, <1>6
=============================================================================
