---------------------------- MODULE StoreProofs ----------------------------
(***************************************************************************)
(* Engine implements KVStore (ImplementsKVStore), with ranges under way too,*)
(* and a range finds for each key a value the key had during the range     *)
(* (RangesAreRegular): for every number of threads, keys, values, batches  *)
(* and spans and with file operations failing, as long as no compaction    *)
(* starts. Then no entry a reader has in its snapshot loses its file, and  *)
(* the view is what was written last at every moment. The clock is assumed *)
(* to advance, as in EngineProofs.                                         *)
(*                                                                         *)
(* The argument for a range is the one for a get, for each key of the span *)
(* that has not been found yet, the values the key has had being those in  *)
(* the states the range is witness to.                                     *)
(*                                                                         *)
(* Last the merge of a compaction (MergesKeepNewest), which needs neither  *)
(* the clock nor the absence of compactions and failures.                  *)
(***************************************************************************)
EXTENDS Ranges, Merge, FlushProofs

-----------------------------------------------------------------------------
(* What a get may still find *)

\* A reader that has not found its key yet.
Searching == {"missed", "probing", "found"}

\* The values of k in the buffers of a queue are among those in S.
QueueSeen(q, k, S) == \A i \in DOMAIN q : k \in DOMAIN q[i].data => q[i].data[k] \in S

\* So are all that a flush of MemTable m may bring to disk.
MemSeen(m, k, S) == MemGet(m, k) \in S \cup {None} /\ QueueSeen(m.frozen, k, S)

\* The level and the entry that search x has come to, and what is left after it.
LevelOf(x) == IF x.todo[0] # {} THEN 0 ELSE 1

EntryOf(x) == Newest(x.todo[LevelOf(x)])

RestOf(x) == [x.todo EXCEPT ![LevelOf(x)] = @ \ {EntryOf(x)}]

ReaderPCs == Searching \cup {"idle", "done", "raised"}

IsReader(x) ==
  /\ x = [pc |-> x.pc, key |-> x.key, todo |-> x.todo, seen |-> x.seen, result |-> x.result]
  /\ x.pc \in ReaderPCs

\* Reader x, with MemTable m, levels of the manifest and files fs: before the
\* snapshot, whatever may be on disk when it is taken is a value that has been
\* current; after it, what the search has still to find is one.
ReaderOK(x, m, levels, fs) ==
  /\ IsReader(x)
  /\ x.pc \in Searching => x.key \in Keys /\ x.result = None
  /\ x.pc = "missed" =>
       MemSeen(m, x.key, x.seen) /\ SearchLevels(fs, levels, x.key) \in x.seen
  /\ x.pc \in {"probing", "found"} =>
       /\ x.todo \in LevelSets /\ x.todo[0] \subseteq levels[0] /\ x.todo[1] \subseteq levels[1]
       /\ SearchLevels(fs, x.todo, x.key) \in x.seen
  /\ x.pc = "found" => x.todo # NoLevels /\ Holds(fs, EntryOf(x).path, x.key)

RInv ==
  /\ reader = [r \in Readers |-> reader[r]]
  /\ \A r \in Readers : ReaderOK(reader[r], mem, manifest.mem, files)

-----------------------------------------------------------------------------
(* The MemTable *)

\* Rotating moves a buffer, and brings no value with it.
LEMMA RotateSeen ==
  ASSUME NEW m, IsMem(m), NEW k, NEW S, MemSeen(m, k, S)
  PROVE  MemSeen(RotateUnlocked(m), k, S)
<1> DEFINE b == [data |-> m.data, off |-> m.off]
           q == m.frozen
<1>1. RotateUnlocked(m).frozen = Append(q, b) /\ b.data = m.data
  BY DEF RotateUnlocked
<1>2. MemGet(RotateUnlocked(m), k) = MemGet(m, k)
  BY RotateMem
<1>3. k \in DOMAIN m.data => m.data[k] \in S
  <2>1. ASSUME k \in DOMAIN m.data PROVE m.data[k] = MemGet(m, k) /\ m.data[k] # None
    BY <2>1, TableValue DEF MemGet, IsMem
  <2> QED  BY <2>1 DEF MemSeen
<1>4. /\ Len(q) \in Nat /\ DOMAIN q = 1..Len(q)
      /\ DOMAIN Append(q, b) = 1..(Len(q) + 1)
      /\ \A i \in 1..Len(q) : Append(q, b)[i] = q[i]
      /\ Append(q, b)[Len(q) + 1] = b
  <2>1. q \in Seq({q[i] : i \in DOMAIN q})
    BY DEF IsMem, IsQueue
  <2> HIDE DEF q, b
  <2> QED  BY <2>1
<1> HIDE DEF b
<1>5. QueueSeen(Append(q, b), k, S)
  BY <1>1, <1>3, <1>4 DEF QueueSeen, MemSeen
<1> QED  BY <1>1, <1>2, <1>5 DEF MemSeen

\* Clearing takes values away.
LEMMA ClearSeen ==
  ASSUME NEW m, IsMem(m), m.frozen # <<>>, NEW k, NEW S, MemSeen(m, k, S)
  PROVE  MemSeen(ClearFrozen(m), k, S)
<1> DEFINE q == m.frozen
<1>1. ClearFrozen(m).frozen = Tail(q)
  BY DEF ClearFrozen, IsMem
<1>2. MemGet(ClearFrozen(m), k) \in {MemGet(m, k), None}
  BY ClearMem
<1>3. /\ Len(q) \in Nat /\ DOMAIN q = 1..Len(q)
      /\ DOMAIN Tail(q) = 1..(Len(q) - 1)
      /\ \A i \in 1..(Len(q) - 1) : Tail(q)[i] = q[i + 1]
  <2>1. q \in Seq({q[i] : i \in DOMAIN q}) /\ q # <<>>
    BY DEF IsMem, IsQueue
  <2> HIDE DEF q
  <2> QED  BY <2>1
<1>4. QueueSeen(Tail(q), k, S)
  BY <1>3 DEF QueueSeen, MemSeen
<1> QED  BY <1>1, <1>2, <1>4 DEF MemSeen

-----------------------------------------------------------------------------
(* The search of a snapshot *)

\* Entry e of T either holds what a search of T for k finds, or the search goes on
\* without it.
NextIn(fs, T, k, e) ==
  /\ e \in T
  /\ Holds(fs, e.path, k) => SearchLevel(fs, T, k) = fs[e.path][k]
  /\ ~Holds(fs, e.path, k) => SearchLevel(fs, T \ {e}, k) = SearchLevel(fs, T, k)

\* A search comes to the newest entry first.
LEMMA SearchGoesOn ==
  ASSUME NEW fs, FilesOK(fs), NEW c \in Int, NEW T, Dated(T, c), T # {}, NEW k,
         NEW e, e = Newest(T)
  PROVE  NextIn(fs, T, k, e)
<1>1. e \in T /\ \A f \in T : f = e \/ Newer(e, f)
  <2>1. PICK d \in T : \A f \in T : f = d \/ d.created > f.created
    BY LatestExists
  <2>2. \A f \in T : f = d \/ Newer(d, f)
    BY <2>1, NewerIsLater
  <2> QED  BY <2>2 DEF Newest
<1>2. \A f \in T : ~Newer(f, e)
  <2> TAKE f \in T
  <2>1. e.created \in Int /\ f.created \in Int
    BY <1>1 DEF Dated, Entries
  <2>2. Newer(f, e) <=> f.created > e.created
    BY <1>1, NewerIsLater
  <2>3. Newer(e, f) <=> e.created > f.created
    BY <1>1, NewerIsLater
  <2> QED  BY <1>1, <2>1, <2>2, <2>3
<1>3. CASE Holds(fs, e.path, k)
  <2>1. e \in FirstHit(fs, T, k)
    BY <1>1, <1>2, <1>3 DEF FirstHit
  <2> QED  BY <1>1, <1>3, <2>1, FirstHitOnly DEF NextIn
<1>4. CASE ~Holds(fs, e.path, k)
  <2> DEFINE U == T \ {e}
  <2>1. FirstHit(fs, U, k) = FirstHit(fs, T, k)
    BY <1>4 DEF FirstHit
  <2>2. Dated(U, c)
    BY DEF Dated
  <2> HIDE DEF U
  <2>3. SearchLevel(fs, U, k) = SearchLevel(fs, T, k)
    <3>1. CASE FirstHit(fs, T, k) = {}
      BY <2>1, <3>1 DEF SearchLevel
    <3>2. ASSUME NEW f \in FirstHit(fs, T, k)
          PROVE  SearchLevel(fs, U, k) = SearchLevel(fs, T, k)
      <4>1. SearchLevel(fs, T, k) = fs[f.path][k]
        BY <3>2, FirstHitOnly
      <4>2. SearchLevel(fs, U, k) = fs[f.path][k]
        BY <2>1, <2>2, <3>2, FirstHitOnly
      <4> QED  BY <4>1, <4>2
    <3> QED  BY <3>1, <3>2
  <2> QED  BY <1>1, <1>4, <2>3 DEF U, NextIn
<1> QED  BY <1>3, <1>4

\* The same of a search of both levels.
LEMMA SearchesGoOn ==
  ASSUME NEW fs, FilesOK(fs), NEW c \in Int, NEW x, x.todo \in LevelSets,
         Dated(x.todo[0], c), Dated(x.todo[1], c), x.todo # NoLevels, NEW k
  PROVE  /\ LevelOf(x) \in Levels /\ EntryOf(x) \in x.todo[LevelOf(x)]
         /\ RestOf(x) \in LevelSets
         /\ RestOf(x)[0] \subseteq x.todo[0] /\ RestOf(x)[1] \subseteq x.todo[1]
         /\ Holds(fs, EntryOf(x).path, k) =>
              SearchLevels(fs, x.todo, k) = fs[EntryOf(x).path][k]
         /\ ~Holds(fs, EntryOf(x).path, k) =>
              SearchLevels(fs, RestOf(x), k) = SearchLevels(fs, x.todo, k)
<1> DEFINE todo == x.todo
           l == LevelOf(x)
           e == EntryOf(x)
           rest == RestOf(x)
<1>0. /\ l = (IF todo[0] # {} THEN 0 ELSE 1)
      /\ rest = [todo EXCEPT ![l] = todo[l] \ {e}]
  BY DEF LevelOf, RestOf
<1> HIDE DEF l, rest
<1>1. todo[l] # {} /\ l \in Levels
  <2>1. todo = [h \in Levels |-> todo[h]]
    BY DEF LevelSets
  <2>2. todo[0] = {} /\ todo[1] = {} => todo = NoLevels
    BY <2>1, TwoLevels DEF NoLevels
  <2> QED  BY <1>0, <2>2, TwoLevels
<1>2. /\ e = Newest(todo[l]) /\ Dated(todo[l], c)
  BY <1>0 DEF EntryOf, l
<1> HIDE DEF e
<1>3. /\ e \in todo[l]
      /\ Holds(fs, e.path, k) => SearchLevel(fs, todo[l], k) = fs[e.path][k]
      /\ ~Holds(fs, e.path, k) => SearchLevel(fs, todo[l] \ {e}, k) = SearchLevel(fs, todo[l], k)
  <2> DEFINE T == todo[l]
  <2>1. T # {} /\ e = Newest(T) /\ Dated(T, c)
    BY <1>1, <1>2
  <2> HIDE DEF T
  <2>2. NextIn(fs, T, k, e)
    BY <2>1, SearchGoesOn
  <2> QED  BY <2>2 DEF NextIn, T
<1>4. /\ rest \in LevelSets
      /\ rest[l] = todo[l] \ {e}
      /\ \A h \in Levels : h # l => rest[h] = todo[h]
  BY <1>0, <1>1 DEF LevelSets
<1>5. Holds(fs, e.path, k) => SearchLevels(fs, todo, k) = fs[e.path][k]
  <2> SUFFICES ASSUME Holds(fs, e.path, k) PROVE SearchLevels(fs, todo, k) = fs[e.path][k]
    OBVIOUS
  <2>1. fs[e.path][k] # None
    BY TableValue DEF Holds, FilesOK
  <2>2. CASE l = 0
    BY <1>3, <2>1, <2>2 DEF SearchLevels
  <2>3. CASE l = 1
    <3>1. SearchLevel(fs, todo[0], k) = None
      BY <1>0, <2>3 DEF SearchLevel, FirstHit
    <3> QED  BY <1>3, <2>3, <3>1 DEF SearchLevels
  <2> QED  BY <1>0, <2>2, <2>3
<1>6. ~Holds(fs, e.path, k) => SearchLevels(fs, rest, k) = SearchLevels(fs, todo, k)
  BY <1>3, <1>4, TwoLevels DEF SearchLevels
<1>7. rest[0] \subseteq todo[0] /\ rest[1] \subseteq todo[1]
  BY <1>4, TwoLevels
<1> QED  BY <1>1, <1>3, <1>4, <1>5, <1>6, <1>7 DEF e, l, rest

-----------------------------------------------------------------------------
(* Steps and the readers under way *)

\* What the files that entries name say to a search does not change.
LEMMA FilesSearch ==
  ASSUME NamedFilesStay, NEW todo, todo[0] \subseteq manifest.mem[0],
         todo[1] \subseteq manifest.mem[1], NEW k
  PROVE  SearchLevels(files', todo, k) = SearchLevels(files, todo, k)
<1>1. \A e \in todo[0] \cup todo[1] : SameFile(e.path)
  BY TwoLevels DEF NamedFilesStay
<1>2. SearchLevel(files', todo[0], k) = SearchLevel(files, todo[0], k)
  BY <1>1, SameSearch
<1>3. SearchLevel(files', todo[1], k) = SearchLevel(files, todo[1], k)
  BY <1>1, SameSearch
<1> QED  BY <1>2, <1>3 DEF SearchLevels

\* Entries of a snapshot have their own times.
LEMMA SnapshotDated ==
  ASSUME IInv, NEW todo, todo[0] \subseteq manifest.mem[0], todo[1] \subseteq manifest.mem[1]
  PROVE  /\ FilesOK(files) /\ clock \in Int
         /\ Dated(todo[0], clock) /\ Dated(todo[1], clock)
<1>1. Dated(Inputs, clock) /\ todo[0] \subseteq Inputs
  BY DEF IInv, LevelsOK, Inputs
<1>2. Dated(manifest.mem[1], clock)
  BY DEF IInv, LevelsOK
<1>3. Dated(todo[0], clock)
  BY <1>1 DEF Dated
<1>4. Dated(todo[1], clock)
  BY <1>2 DEF Dated
<1> QED  BY <1>3, <1>4 DEF IInv, Shapes

\* The search of a snapshot goes on in the same files as long as no entry goes.
LEMMA SnapshotStays ==
  ASSUME IInv, NamedFilesStay, NEW x, ReaderOK(x, mem, manifest.mem, files),
         manifest.mem[0] \subseteq manifest'.mem[0], manifest.mem[1] \subseteq manifest'.mem[1],
         NEW y, IsReader(y), y.pc = x.pc, y.key = x.key, y.todo = x.todo, y.result = x.result,
         x.seen \subseteq y.seen,
         y.pc = "missed" =>
           MemSeen(mem', y.key, y.seen) /\ SearchLevels(files', manifest'.mem, y.key) \in y.seen
  PROVE  ReaderOK(y, mem', manifest'.mem, files')
<1>1. CASE x.pc \in {"probing", "found"}
  <2>1. /\ x.todo \in LevelSets
        /\ x.todo[0] \subseteq manifest.mem[0] /\ x.todo[1] \subseteq manifest.mem[1]
        /\ SearchLevels(files, x.todo, x.key) \in x.seen
    BY <1>1 DEF ReaderOK
  <2>2. SearchLevels(files', x.todo, x.key) = SearchLevels(files, x.todo, x.key)
    BY <2>1, FilesSearch
  <2>3. ASSUME x.pc = "found"
        PROVE  x.todo # NoLevels /\ Holds(files', EntryOf(x).path, x.key)
    <3>1. x.todo # NoLevels /\ Holds(files, EntryOf(x).path, x.key)
      BY <2>3 DEF ReaderOK
    <3>2. /\ FilesOK(files) /\ clock \in Int
          /\ Dated(x.todo[0], clock) /\ Dated(x.todo[1], clock)
      BY <2>1, SnapshotDated
    <3>3. LevelOf(x) \in Levels /\ EntryOf(x) \in x.todo[LevelOf(x)]
      BY <2>1, <3>1, <3>2, SearchesGoOn
    <3>4. SameFile(EntryOf(x).path)
      BY <2>1, <3>3, TwoLevels DEF NamedFilesStay
    <3> QED  BY <3>1, <3>4 DEF Holds, SameFile, SameIn
  <2>4. EntryOf(y) = EntryOf(x)
    BY DEF EntryOf, LevelOf
  <2> QED  BY <1>1, <2>1, <2>2, <2>3, <2>4 DEF ReaderOK
<1>2. CASE x.pc \notin {"probing", "found"}
  BY <1>2 DEF ReaderOK
<1> QED  BY <1>1, <1>2

\* A step that changes no level leaves what a search of them finds.
LEMMA LevelsStay ==
  ASSUME NamedFilesStay, manifest'.mem = manifest.mem
  PROVE  \A k : SearchLevels(files', manifest'.mem, k) = SearchLevels(files, manifest.mem, k)
BY FilesSearch

\* A step of others, which brings no value that the readers have not witnessed.
LEMMA ReadersStay ==
  ASSUME IInv, RInv, NamedFilesStay, reader' = reader,
         manifest.mem[0] \subseteq manifest'.mem[0], manifest.mem[1] \subseteq manifest'.mem[1],
         \A k \in Keys : \A S :
           MemSeen(mem, k, S) /\ SearchLevels(files, manifest.mem, k) \in S =>
             MemSeen(mem', k, S) /\ SearchLevels(files', manifest'.mem, k) \in S
  PROVE  RInv'
<1> SUFFICES ASSUME NEW r \in Readers
             PROVE  ReaderOK(reader[r], mem', manifest'.mem, files')
  BY DEF RInv
<1> DEFINE x == reader[r]
<1>1. ReaderOK(x, mem, manifest.mem, files)
  BY DEF RInv
<1> HIDE DEF x
<1>2. IsReader(x)
  BY <1>1 DEF ReaderOK
<1>3. x.pc = "missed" => MemSeen(mem', x.key, x.seen)
                           /\ SearchLevels(files', manifest'.mem, x.key) \in x.seen
  BY <1>1 DEF ReaderOK, Searching
<1> QED  BY <1>1, <1>2, <1>3, SnapshotStays DEF x

\* What a reader is witness to, and nothing else changes of it.
LEMMA WitnessedReader ==
  ASSUME RInv, NEW pairs, reader' = Witnessed(pairs), NEW r \in Readers
  PROVE  /\ reader' = [s \in Readers |-> reader'[s]]
         /\ IsReader(reader'[r])
         /\ reader'[r].pc = reader[r].pc /\ reader'[r].key = reader[r].key
         /\ reader'[r].todo = reader[r].todo /\ reader'[r].result = reader[r].result
         /\ reader'[r].seen =
              IF reader[r].pc \in Searching /\ reader[r].key \in BatchKeys(pairs)
              THEN reader[r].seen \cup {BatchValue(pairs, reader[r].key)} ELSE reader[r].seen
<1> DEFINE x == reader[r]
           seen == x.seen \cup {BatchValue(pairs, x.key)}
<1>1. IsReader(x)
  BY DEF RInv, ReaderOK
<1>2. reader'[r] = IF x.pc \in Searching /\ x.key \in BatchKeys(pairs)
                   THEN [x EXCEPT !.seen = seen] ELSE x
  BY DEF Witnessed, Searching
<1>3. reader' = [s \in Readers |-> reader'[s]]
  BY DEF Witnessed
<1> HIDE DEF x
<1>4. [x EXCEPT !.seen = seen] =
        [pc |-> x.pc, key |-> x.key, todo |-> x.todo, seen |-> seen, result |-> x.result]
  <2> HIDE DEF seen
  <2> QED  BY <1>1 DEF IsReader
<1> HIDE DEF seen
<1>5. /\ IsReader(reader'[r])
      /\ reader'[r].pc = x.pc /\ reader'[r].key = x.key
      /\ reader'[r].todo = x.todo /\ reader'[r].result = x.result
      /\ reader'[r].seen = IF x.pc \in Searching /\ x.key \in BatchKeys(pairs)
                           THEN seen ELSE x.seen
  <2>1. CASE x.pc \in Searching /\ x.key \in BatchKeys(pairs)
    <3>1. x.pc \in ReaderPCs
      BY <1>1 DEF IsReader
    <3> QED  BY <1>2, <1>4, <2>1, <3>1 DEF IsReader
  <2>2. CASE ~(x.pc \in Searching /\ x.key \in BatchKeys(pairs))
    BY <1>1, <1>2, <2>2
  <2> QED  BY <2>1, <2>2
<1> QED  BY <1>3, <1>5 DEF x, seen

\* A write of pairs, which the readers under way are witness to.
LEMMA ReadersWitness ==
  ASSUME IInv, RInv, NEW pairs, reader' = Witnessed(pairs), UNCHANGED <<manifest, files>>,
         \A k \in Keys : \A S :
           MemSeen(mem, k, S) /\ (k \in BatchKeys(pairs) => BatchValue(pairs, k) \in S) =>
             MemSeen(mem', k, S)
  PROVE  RInv'
<1>1. reader' = [r \in Readers |-> reader'[r]]
  BY DEF Witnessed
<1> SUFFICES ASSUME NEW r \in Readers
             PROVE  ReaderOK(reader'[r], mem', manifest'.mem, files')
  BY <1>1 DEF RInv
<1> DEFINE x == reader[r]
           y == reader'[r]
<1>2. ReaderOK(x, mem, manifest.mem, files)
  BY DEF RInv
<1>3. /\ IsReader(y) /\ y.pc = x.pc /\ y.key = x.key /\ y.todo = x.todo
      /\ y.result = x.result
      /\ y.seen = IF x.pc \in Searching /\ x.key \in BatchKeys(pairs)
                  THEN x.seen \cup {BatchValue(pairs, x.key)} ELSE x.seen
  BY WitnessedReader
<1> HIDE DEF x, y
<1>4. NamedFilesStay
  BY DEF NamedFilesStay, SameFile, SameIn
<1>5. ASSUME y.pc = "missed"
      PROVE  MemSeen(mem', y.key, y.seen)
               /\ SearchLevels(files', manifest'.mem, y.key) \in y.seen
  <2>1. /\ x.key \in Keys /\ MemSeen(mem, x.key, x.seen)
        /\ SearchLevels(files, manifest.mem, x.key) \in x.seen
    BY <1>2, <1>3, <1>5 DEF ReaderOK, Searching
  <2>2. MemSeen(mem, x.key, y.seen)
    BY <1>3, <2>1 DEF MemSeen, QueueSeen
  <2>3. x.key \in BatchKeys(pairs) => BatchValue(pairs, x.key) \in y.seen
    BY <1>3, <1>5 DEF Searching
  <2>4. MemSeen(mem', x.key, y.seen)
    BY <2>1, <2>2, <2>3
  <2> QED  BY <1>3, <2>1, <2>4
<1>6. x.seen \subseteq y.seen
  BY <1>3
<1>7. /\ manifest.mem[0] \subseteq manifest'.mem[0]
      /\ manifest.mem[1] \subseteq manifest'.mem[1]
  OBVIOUS
<1>8. ReaderOK(y, mem', manifest'.mem, files')
  BY <1>2, <1>3, <1>4, <1>5, <1>6, <1>7, SnapshotStays
<1> QED  BY <1>8 DEF y

-----------------------------------------------------------------------------
(* The steps of the writers *)

\* A write brings the values it writes and no others.
LEMMA WriteSeen ==
  ASSUME NEW m, NEW n, n.frozen = m.frozen, NEW pairs,
         \A x : MemGet(n, x) = IF x \in BatchKeys(pairs) THEN BatchValue(pairs, x)
                               ELSE MemGet(m, x),
         NEW k, NEW S, MemSeen(m, k, S),
         k \in BatchKeys(pairs) => BatchValue(pairs, k) \in S
  PROVE  MemSeen(n, k, S)
BY DEF MemSeen

\* put, under the lock, brings what it puts.
LEMMA PutSeen ==
  ASSUME IInv, NEW t \in Writers, PutApply(t), NEW k \in Keys, NEW S, MemSeen(mem, k, S),
         k \in BatchKeys(<<writer[t].pairs[1]>>) =>
           BatchValue(<<writer[t].pairs[1]>>, k) \in S
  PROVE  MemSeen(mem', k, S)
<1> DEFINE p == writer[t].pairs[1]
           q == <<p>>
           n == PutUnlocked(mem, p.key, p.value)
           m == RaiseOffset(n, writer[t].off)
<1>1. p.key \in Keys /\ p.value \in Stored /\ p \in Pairs /\ IsMem(mem)
  <2>1. p \in Pairs
    BY DEF PutApply, IInv, Shapes, WritersOK, WriterAt
  <2> QED  BY <2>1 DEF Pairs, IInv, Shapes
<1>2. /\ mem' = IF IsFull(m) THEN RotateUnlocked(m) ELSE m
      /\ k \in BatchKeys(q) => BatchValue(q, k) \in S
  BY DEF PutApply
<1>3. BatchKeys(q) = {p.key} /\ BatchValue(q, p.key) = p.value
  BY <1>1, OnePair
<1> HIDE DEF p, q
<1>4. /\ IsMem(n) /\ n.frozen = mem.frozen
      /\ \A x : MemGet(n, x) = IF x = p.key THEN p.value ELSE MemGet(mem, x)
  BY <1>1, PutMem
<1> HIDE DEF n
<1>5. /\ IsMem(m) /\ m.frozen = mem.frozen
      /\ \A x : MemGet(m, x) = IF x \in BatchKeys(q) THEN BatchValue(q, x) ELSE MemGet(mem, x)
  BY <1>3, <1>4, RaiseOffsetMem
<1> HIDE DEF m
<1>6. MemSeen(m, k, S)
  BY <1>2, <1>5, WriteSeen
<1> QED  BY <1>2, <1>5, <1>6, RotateSeen

LEMMA PutReaders ==
  ASSUME IInv, RInv, NEW t \in Writers, PutApply(t)
  PROVE  RInv'
<1>1. /\ reader' = Witnessed(<<writer[t].pairs[1]>>)
      /\ UNCHANGED <<manifest, files>>
  BY DEF PutApply, Apply, compactionVars
<1> QED  BY <1>1, PutSeen, ReadersWitness

\* delete, under the lock, brings its tombstone.
LEMMA DeleteSeen ==
  ASSUME IInv, NEW t \in Writers, DeleteApply(t), NEW k \in Keys, NEW S, MemSeen(mem, k, S),
         k \in BatchKeys(writer[t].pairs) => BatchValue(writer[t].pairs, k) \in S
  PROVE  MemSeen(mem', k, S)
<1> DEFINE p == writer[t].pairs[1]
           q == writer[t].pairs
<1>1. p.key \in Keys /\ Tombstone \in Stored /\ p \in Pairs /\ IsMem(mem)
      /\ q = <<p>> /\ p.value = Tombstone
  <2>1. p \in Pairs /\ q = <<p>> /\ p.value = Tombstone
    BY DEF DeleteApply, IInv, Shapes, WritersOK, WriterAt
  <2> QED  BY <2>1 DEF Pairs, Stored, IInv, Shapes
<1>2. mem' = PutUnlocked(mem, p.key, Tombstone)
  BY DEF DeleteApply
<1>3. BatchKeys(<<p>>) = {p.key} /\ BatchValue(<<p>>, p.key) = Tombstone
  BY <1>1, OnePair
<1> HIDE DEF p
<1>4. BatchKeys(q) = {p.key} /\ BatchValue(q, p.key) = Tombstone
  <2> HIDE DEF q
  <2> QED  BY <1>1, <1>3
<1>5. k \in BatchKeys(q) => BatchValue(q, k) \in S
  OBVIOUS
<1> HIDE DEF q
<1>6. /\ mem'.frozen = mem.frozen
      /\ \A x : MemGet(mem', x) = IF x \in BatchKeys(q) THEN BatchValue(q, x)
                                  ELSE MemGet(mem, x)
  BY <1>1, <1>2, <1>4, PutMem
<1> QED  BY <1>5, <1>6, WriteSeen

LEMMA DeleteReaders ==
  ASSUME IInv, RInv, NEW t \in Writers, DeleteApply(t)
  PROVE  RInv'
<1>1. /\ reader' = Witnessed(writer[t].pairs)
      /\ UNCHANGED <<manifest, files>>
  BY DEF DeleteApply, Apply, compactionVars
<1> QED  BY <1>1, DeleteSeen, ReadersWitness

\* batch_put, under the lock: the rotation comes first.
LEMMA BatchSeen ==
  ASSUME IInv, NEW t \in Writers, BatchApply(t), NEW k \in Keys, NEW S, MemSeen(mem, k, S),
         k \in BatchKeys(writer[t].pairs) => BatchValue(writer[t].pairs, k) \in S
  PROVE  MemSeen(mem', k, S)
<1> DEFINE full == BatchWouldExceed(mem, writer[t].bytes)
           room == IF full THEN RotateUnlocked(mem) ELSE mem
           q == writer[t].pairs
           n == BatchMem(room, q, writer[t].off)
<1>1. mem' = n
  BY DEF BatchApply, BatchMem
<1>2. q \in Seq([key : Keys, value : Stored]) /\ IsMem(mem)
  BY DEF IInv, Shapes, WritersOK, Pairs
<1>3. IsMem(room)
  BY <1>2, RotateMem
<1>4. k \in BatchKeys(q) => BatchValue(q, k) \in S
  OBVIOUS
<1> HIDE DEF q
<1>5. /\ n.frozen = room.frozen
      /\ \A x : MemGet(n, x) = IF x \in BatchKeys(q) THEN BatchValue(q, x) ELSE MemGet(room, x)
  <2> HIDE DEF room
  <2> QED  BY <1>2, <1>3, PutAllMem
<1> HIDE DEF n
<1>6. MemSeen(room, k, S)
  BY <1>2, RotateSeen
<1> HIDE DEF room
<1> QED  BY <1>1, <1>4, <1>5, <1>6, WriteSeen

LEMMA BatchReaders ==
  ASSUME IInv, RInv, NEW t \in Writers, BatchApply(t)
  PROVE  RInv'
<1>1. /\ reader' = Witnessed(writer[t].pairs)
      /\ UNCHANGED <<manifest, files>>
  BY DEF BatchApply, Apply, compactionVars
<1> QED  BY <1>1, BatchSeen, ReadersWitness

\* A step that leaves the levels, and of the MemTable what matters to readers.
LEMMA ReadersUntouched ==
  ASSUME IInv, RInv, NamedFilesStay, reader' = reader, manifest'.mem = manifest.mem,
         \A k \in Keys : \A S : MemSeen(mem, k, S) => MemSeen(mem', k, S)
  PROVE  RInv'
BY LevelsStay, ReadersStay

\* Every step of every writer.
LEMMA WriterReaders ==
  ASSUME IInv, RInv, NamedFilesStay, NEW t \in Writers, WriterCalls(t) \/ WriterReturns(t)
  PROVE  RInv'
<1>1. ASSUME reader' = reader, mem' = mem, manifest' = manifest PROVE RInv'
  BY <1>1, ReadersUntouched
<1>2. CASE DeleteSetOffset(t)
  <2>1. /\ mem' = RaiseOffset(mem, writer[t].off) /\ IsMem(mem)
        /\ reader' = reader /\ manifest' = manifest
    BY <1>2 DEF DeleteSetOffset, compactionVars, IInv, Shapes
  <2>2. \A k \in Keys : \A S : MemSeen(mem, k, S) => MemSeen(mem', k, S)
    BY <2>1, RaiseOffsetMem DEF MemSeen
  <2> QED  BY <2>1, <2>2, ReadersUntouched
<1> QED
  BY <1>1, <1>2, PutReaders, DeleteReaders, BatchReaders
  DEF WriterCalls, WriterReturns, Put, Delete, BatchPut, SpawnFlush, BatchMeasure,
      BatchReject, BatchLog, compactionVars

-----------------------------------------------------------------------------
(* The steps of the flusher *)

\* While no compaction runs, all of level 0 counts.
LEMMA AllCounts ==
  ASSUME CompactAt("idle")
  PROVE  \A k : OnDisk(k) = SearchLevels(files, manifest.mem, k)
BY DEF CompactAt, OnDisk, Upper, Find, SearchLevels

\* The SSTable of a flush brings to disk what its buffer holds.
LEMMA InstallSeen ==
  ASSUME ClockAdvances, IInv, CompactAt("idle"), FlushInstall \/ FlushInstallFails
  PROVE  /\ mem' = mem /\ reader' = reader
         /\ manifest.mem[0] \subseteq manifest'.mem[0]
         /\ manifest.mem[1] \subseteq manifest'.mem[1]
         /\ \A k \in Keys : \A S :
              MemSeen(mem, k, S) /\ SearchLevels(files, manifest.mem, k) \in S =>
                SearchLevels(files', manifest'.mem, k) \in S
<1> DEFINE e == [path |-> flush.path, created |-> clock']
<1>1. clock' \in Int /\ clock' > clock
  BY PastPaths, TickAdvances DEF FlushInstall, FlushInstallFails
<1>2. /\ manifest' = AddSSTable(manifest, 0, e) \/ manifest' = AddSSTableUnsaved(manifest, 0, e)
      /\ UNCHANGED <<files, compaction>> /\ mem' = mem /\ reader' = reader
      /\ FlushAt("written")
  BY DEF FlushInstall, FlushInstallFails, SaveRaised, AddSSTable
<1>3. \A k : /\ k \in DOMAIN flush.items => OnDisk(k)' = flush.items[k]
             /\ k \notin DOMAIN flush.items => OnDisk(k)' = OnDisk(k)
  BY <1>1, <1>2, InstallUpper
<1>4. /\ manifest.mem[0] \subseteq manifest'.mem[0]
      /\ manifest.mem[1] \subseteq manifest'.mem[1]
  <2>1. manifest \in [mem : LevelSets, disk : LevelSets] /\ e \in Entries
    BY <1>1 DEF IInv, Shapes, Entries
  <2> HIDE DEF e
  <2> QED  BY <1>2, <2>1, TwoLevels, AddEntry
<1>5. /\ mem.frozen # <<>> /\ Head(mem.frozen).data = flush.items /\ IsMem(mem)
  BY <1>2 DEF IInv, Shapes, FlushOK, FlushAt
<1>6. \A k : /\ OnDisk(k) = SearchLevels(files, manifest.mem, k)
             /\ OnDisk(k)' = SearchLevels(files', manifest'.mem, k)
  <2>1. \A k : OnDisk(k)' = SearchLevels(files', manifest'.mem, k)
    BY <1>2 DEF CompactAt, OnDisk, Upper, Find, SearchLevels
  <2> QED  BY <2>1, AllCounts
<1>7. ASSUME NEW k \in Keys, NEW S, MemSeen(mem, k, S),
             SearchLevels(files, manifest.mem, k) \in S
      PROVE  SearchLevels(files', manifest'.mem, k) \in S
  <2>1. CASE k \in DOMAIN flush.items
    <3>1. 1 \in DOMAIN mem.frozen /\ Head(mem.frozen) = mem.frozen[1]
      BY <1>5 DEF IsMem, IsQueue
    <3>2. flush.items[k] \in S
      BY <1>5, <1>7, <2>1, <3>1 DEF MemSeen, QueueSeen
    <3> QED  BY <1>3, <1>6, <2>1, <3>2
  <2>2. CASE k \notin DOMAIN flush.items
    BY <1>3, <1>6, <1>7, <2>2
  <2> QED  BY <2>1, <2>2
<1> QED  BY <1>2, <1>4, <1>7

LEMMA InstallReaders ==
  ASSUME ClockAdvances, IInv, RInv, NamedFilesStay, CompactAt("idle"),
         FlushInstall \/ FlushInstallFails
  PROVE  RInv'
BY InstallSeen, ReadersStay

\* Every step of every flusher.
LEMMA FlusherReaders ==
  ASSUME ClockAdvances, IInv, RInv, NamedFilesStay, CompactAt("idle"), Flusher
  PROVE  RInv'
<1>1. ASSUME reader' = reader, mem' = mem, manifest'.mem = manifest.mem PROVE RInv'
  BY <1>1, ReadersUntouched
<1>2. CASE FlushClear
  <2>1. /\ mem' = ClearFrozen(mem) /\ IsMem(mem) /\ mem.frozen # <<>>
        /\ reader' = reader /\ manifest' = manifest
    BY <1>2 DEF FlushClear, FlushAt, compactionVars, IInv, Shapes, FlushOK
  <2> QED  BY <2>1, ClearSeen, ReadersUntouched
<1>3. CASE FlushSave \/ FlushSaveFails
  <2>1. Save(manifest).mem = manifest.mem
    BY DEF Save, IInv, Shapes
  <2>2. manifest'.mem = manifest.mem
    BY <1>3, <2>1 DEF FlushSave, FlushSaveFails, SaveRaised
  <2> QED  BY <1>1, <1>3, <2>2 DEF FlushSave, FlushSaveFails
<1>4. ASSUME FlushStep PROVE RInv'
  BY <1>1, <1>2, <1>3, <1>4, InstallReaders
  DEF FlushStep, FlushWrite, FlushWriteFails, FlushTruncate, FlushTruncateFails,
      FlushCompact, compactionVars
<1> QED  BY <1>1, <1>4 DEF Flusher, FlushNothing, FlushTake, compactionVars

-----------------------------------------------------------------------------
(* The steps of the readers *)

\* One reader moves.
LEMMA ReaderMoves ==
  ASSUME RInv, UNCHANGED <<mem, manifest, files>>, NEW r \in Readers, NEW y,
         reader' = [reader EXCEPT ![r] = y], ReaderOK(y, mem, manifest.mem, files)
  PROVE  RInv' /\ reader'[r] = y /\ \A s \in Readers : s # r => reader'[s] = reader[s]
<1>1. /\ reader' = [s \in Readers |-> reader'[s]]
      /\ reader'[r] = y
      /\ \A s \in Readers : s # r => reader'[s] = reader[s]
  BY DEF RInv
<1>2. ASSUME NEW s \in Readers PROVE ReaderOK(reader'[s], mem', manifest'.mem, files')
  <2>1. ReaderOK(reader'[s], mem, manifest.mem, files)
    <3>1. CASE s = r
      BY <1>1, <3>1
    <3>2. CASE s # r
      BY <1>1, <3>2 DEF RInv
    <3> QED  BY <3>1, <3>2
  <2> QED  BY <2>1
<1> QED  BY <1>1, <1>2 DEF RInv

\* The step of a get, while its other locals stay.
LEMMA ReaderAtPC ==
  ASSUME NEW x, IsReader(x), NEW pc \in ReaderPCs
  PROVE  LET y == [x EXCEPT !.pc = pc] IN
         /\ IsReader(y) /\ y.pc = pc /\ y.key = x.key /\ y.todo = x.todo
         /\ y.seen = x.seen /\ y.result = x.result
<1> DEFINE y == [x EXCEPT !.pc = pc]
<1>1. y = [pc |-> pc, key |-> x.key, todo |-> x.todo, seen |-> x.seen, result |-> x.result]
  BY DEF IsReader
<1> HIDE DEF y
<1>2. /\ IsReader(y) /\ y.pc = pc /\ y.key = x.key /\ y.todo = x.todo
      /\ y.seen = x.seen /\ y.result = x.result
  BY <1>1 DEF IsReader
<1> QED  BY <1>2 DEF y

\* What the MemTable does not find no buffer holds.
LEMMA NowhereSeen ==
  ASSUME IsMem(mem), NEW k, MemGet(mem, k) = None
  PROVE  \A S : MemSeen(mem, k, S)
<1>1. k \notin DOMAIN mem.data
  BY TableValue DEF MemGet, IsMem
<1>2. SearchQueue(mem.frozen, k) = None
  BY <1>1 DEF MemGet
<1>3. \A i \in DOMAIN mem.frozen : k \notin DOMAIN mem.frozen[i].data
  BY <1>2, SearchQueueFinds DEF IsMem
<1> QED  BY <1>3 DEF MemSeen, QueueSeen

\* memtable.get: what it finds is current, and if it finds nothing, nor does any
\* buffer hold the key, and what is current is on disk.
LEMMA GetIs ==
  ASSUME IInv, RInv, CompactAt("idle"), NEW r \in Readers, NEW k \in Keys, Get(r, k)
  PROVE  /\ RInv' /\ \A s \in Readers : s # r => reader'[s] = reader[s]
         /\ reader[r].pc = "idle"
         /\ reader'[r] = [pc |-> IF MemGet(mem, k) = None THEN "missed" ELSE "done",
                          key |-> k, todo |-> NoLevels, seen |-> {applied[k]},
                          result |-> MemGet(mem, k)]
<1> DEFINE v == MemGet(mem, k)
           pc == IF v = None THEN "missed" ELSE "done"
           y == [pc |-> pc, key |-> k, todo |-> NoLevels, seen |-> {applied[k]}, result |-> v]
<1>1. reader' = [reader EXCEPT ![r] = y]
  <2> DEFINE a == [NotReading EXCEPT !.key = k]
             b == [a EXCEPT !.seen = {applied[k]}]
             c == [b EXCEPT !.result = v]
             d == [c EXCEPT !.pc = pc]
  <2>1. a = [pc |-> "idle", key |-> k, todo |-> NoLevels, seen |-> {}, result |-> None]
    BY DEF NotReading
  <2>2. b = [pc |-> "idle", key |-> k, todo |-> NoLevels, seen |-> {applied[k]},
             result |-> None]
    <3> HIDE DEF a
    <3> QED  BY <2>1
  <2>3. c = [pc |-> "idle", key |-> k, todo |-> NoLevels, seen |-> {applied[k]},
             result |-> v]
    <3> HIDE DEF b, v
    <3> QED  BY <2>2
  <2>4. d = y
    <3> HIDE DEF c, v, pc
    <3> QED  BY <2>3
  <2>5. reader' = [reader EXCEPT ![r] = d]
    BY DEF Get
  <2> HIDE DEF d, y
  <2> QED  BY <2>4, <2>5
<1>2. UNCHANGED <<mem, manifest, files>> /\ reader[r].pc = "idle"
  BY DEF Get, compactionVars, ReaderAt
<1>3. ASSUME v = None
      PROVE  MemSeen(mem, k, {applied[k]}) /\ SearchLevels(files, manifest.mem, k) = applied[k]
  <2>1. IsMem(mem) /\ applied[k] = OnDisk(k)
    BY <1>3 DEF IInv, Shapes, NothingLost
  <2> QED  BY <1>3, <2>1, AllCounts, NowhereSeen
<1>4. ReaderOK(y, mem, manifest.mem, files)
  <2>1. /\ IsReader(y) /\ y.pc = pc /\ y.key = k /\ y.seen = {applied[k]}
        /\ y.todo = NoLevels /\ y.result = v
    <3>1. pc \in ReaderPCs
      BY DEF ReaderPCs, Searching
    <3> HIDE DEF pc, v
    <3> QED  BY <3>1 DEF IsReader
  <2> HIDE DEF y
  <2> QED  BY <1>3, <2>1 DEF ReaderOK, Searching
<1> HIDE DEF y
<1>5. RInv' /\ reader'[r] = y /\ \A s \in Readers : s # r => reader'[s] = reader[s]
  BY <1>1, <1>2, <1>4, ReaderMoves
<1> QED  BY <1>2, <1>5 DEF y

\* iter_levels: what the search is to find is what it would find now.
LEMMA SnapshotIs ==
  ASSUME IInv, RInv, NEW r \in Readers, GetSnapshot(r)
  PROVE  /\ RInv' /\ \A s \in Readers : s # r => reader'[s] = reader[s]
         /\ reader[r].pc = "missed" /\ reader'[r].pc = "probing"
         /\ reader'[r].key = reader[r].key /\ reader'[r].seen = reader[r].seen
         /\ reader'[r].result = reader[r].result
<1> DEFINE x == reader[r]
           a == [x EXCEPT !.pc = "probing"]
           y == [a EXCEPT !.todo = manifest.mem]
<1>1. /\ ReaderOK(x, mem, manifest.mem, files) /\ x.pc = "missed"
      /\ reader = [s \in Readers |-> reader[s]]
  BY DEF RInv, GetSnapshot, ReaderAt
<1>2. reader' = [reader EXCEPT ![r] = y]
  <2>1. reader' = [reader EXCEPT ![r].pc = "probing", ![r].todo = manifest.mem]
    BY DEF GetSnapshot
  <2> QED  BY <1>1, <2>1
<1>3. UNCHANGED <<mem, manifest, files>>
  BY DEF GetSnapshot, compactionVars
<1> HIDE DEF x
<1>4. y = [pc |-> "probing", key |-> x.key, todo |-> manifest.mem, seen |-> x.seen,
           result |-> x.result]
  <2>1. a = [pc |-> "probing", key |-> x.key, todo |-> x.todo, seen |-> x.seen,
             result |-> x.result]
    BY <1>1 DEF ReaderOK, IsReader
  <2> HIDE DEF a
  <2> QED  BY <2>1
<1> HIDE DEF y
<1>5. /\ IsReader(y) /\ y.pc = "probing" /\ y.key = x.key /\ y.todo = manifest.mem
      /\ y.seen = x.seen /\ y.result = x.result
  BY <1>4 DEF IsReader, ReaderPCs, Searching
<1>6. manifest.mem \in LevelSets
  BY DEF IInv, Shapes
<1>7. ReaderOK(y, mem, manifest.mem, files)
  BY <1>1, <1>5, <1>6 DEF ReaderOK, Searching
<1>8. RInv' /\ reader'[r] = y /\ \A s \in Readers : s # r => reader'[s] = reader[s]
  BY <1>2, <1>3, <1>7, ReaderMoves
<1> QED  BY <1>1, <1>5, <1>8 DEF x

\* The search of a snapshot goes on like any other.
LEMMA SnapshotGoesOn ==
  ASSUME IInv, NEW x, x.todo \in LevelSets, x.todo[0] \subseteq manifest.mem[0],
         x.todo[1] \subseteq manifest.mem[1], x.todo # NoLevels, NEW k
  PROVE  /\ RestOf(x) \in LevelSets
         /\ RestOf(x)[0] \subseteq x.todo[0] /\ RestOf(x)[1] \subseteq x.todo[1]
         /\ Holds(files, EntryOf(x).path, k) =>
              SearchLevels(files, x.todo, k) = files[EntryOf(x).path][k]
         /\ ~Holds(files, EntryOf(x).path, k) =>
              SearchLevels(files, RestOf(x), k) = SearchLevels(files, x.todo, k)
<1>1. /\ FilesOK(files) /\ clock \in Int
      /\ Dated(x.todo[0], clock) /\ Dated(x.todo[1], clock)
  BY SnapshotDated
<1> QED  BY <1>1, SearchesGoOn

\* SSTable.get's index: the search ends without the key, comes to the entry that
\* has it, or goes on without this one.
LEMMA ProbeIs ==
  ASSUME IInv, RInv, NEW r \in Readers, GetProbe(r)
  PROVE  /\ RInv' /\ \A s \in Readers : s # r => reader'[s] = reader[s]
         /\ reader[r].pc = "probing" /\ reader'[r].pc \in {"done", "found", "probing"}
         /\ reader'[r].key = reader[r].key /\ reader'[r].seen = reader[r].seen
         /\ reader'[r].result = reader[r].result
         /\ reader'[r].pc = "done" => None \in reader[r].seen /\ reader[r].result = None
<1> DEFINE x == reader[r]
           l == ThisLevel(r)
           e == ThisEntry(r)
           rest == RestOf(x)
           y == IF x.todo = NoLevels THEN [x EXCEPT !.pc = "done"]
                ELSE IF Holds(files, e.path, x.key) THEN [x EXCEPT !.pc = "found"]
                ELSE [x EXCEPT !.todo[l] = @ \ {e}]
<1>1. /\ ReaderOK(x, mem, manifest.mem, files) /\ x.pc = "probing" /\ IsReader(x)
      /\ x.todo \in LevelSets /\ x.todo[0] \subseteq manifest.mem[0]
      /\ x.todo[1] \subseteq manifest.mem[1]
      /\ SearchLevels(files, x.todo, x.key) \in x.seen
      /\ x.key \in Keys /\ x.result = None
  <2>1. ReaderOK(x, mem, manifest.mem, files) /\ x.pc = "probing"
    BY DEF RInv, GetProbe, ReaderAt
  <2> HIDE DEF x
  <2> QED  BY <2>1 DEF ReaderOK, Searching
<1>2. /\ reader' = [reader EXCEPT ![r] = y]
      /\ l = LevelOf(x) /\ e = EntryOf(x)
  BY DEF GetProbe, ThisLevel, ThisEntry, EntryOf, LevelOf
<1>3. UNCHANGED <<mem, manifest, files>>
  BY DEF GetProbe, compactionVars
<1> HIDE DEF l, e
<1> HIDE DEF x
<1>4. /\ ReaderOK(y, mem, manifest.mem, files) /\ y.pc \in {"done", "found", "probing"}
      /\ y.key = x.key /\ y.seen = x.seen /\ y.result = x.result
      /\ y.pc = "done" => None \in x.seen
  <2>1. CASE x.todo = NoLevels
    <3>1. SearchLevels(files, NoLevels, x.key) = None
      BY TwoLevels DEF SearchLevels, SearchLevel, FirstHit, NoLevels
    <3>2. /\ IsReader(y) /\ y.pc = "done" /\ y.key = x.key /\ y.seen = x.seen
          /\ y.result = x.result
      <4>1. y = [x EXCEPT !.pc = "done"]
        BY <2>1
      <4>2. "done" \in ReaderPCs
        BY DEF ReaderPCs
      <4> HIDE DEF y
      <4> QED  BY <1>1, <4>1, <4>2, ReaderAtPC
    <3> HIDE DEF y
    <3> QED  BY <1>1, <2>1, <3>1, <3>2 DEF ReaderOK, Searching
  <2>2. CASE x.todo # NoLevels
    <3>1. /\ rest \in LevelSets
          /\ rest[0] \subseteq x.todo[0] /\ rest[1] \subseteq x.todo[1]
          /\ ~Holds(files, e.path, x.key) =>
               SearchLevels(files, rest, x.key) = SearchLevels(files, x.todo, x.key)
      BY <1>1, <1>2, <2>2, SnapshotGoesOn
    <3>2. CASE Holds(files, e.path, x.key)
      <4>1. y = [x EXCEPT !.pc = "found"]
        BY <2>2, <3>2
      <4>0. "found" \in ReaderPCs
        BY DEF ReaderPCs, Searching
      <4> HIDE DEF y
      <4>2. /\ IsReader(y) /\ y.pc = "found" /\ y.key = x.key /\ y.todo = x.todo
            /\ y.seen = x.seen /\ y.result = x.result
        BY <1>1, <4>0, <4>1, ReaderAtPC
      <4>3. EntryOf(y) = e
        BY <1>2, <4>2 DEF EntryOf, LevelOf
      <4> QED  BY <1>1, <2>2, <3>2, <4>2, <4>3 DEF ReaderOK, Searching
    <3>3. CASE ~Holds(files, e.path, x.key)
      <4>1. y = [x EXCEPT !.todo = rest]
        <5>1. y = [x EXCEPT !.todo[l] = @ \ {e}]
          BY <2>2, <3>3
        <5> HIDE DEF y
        <5> QED  BY <1>2, <5>1 DEF RestOf
      <4> HIDE DEF y, rest
      <4>2. y = [pc |-> x.pc, key |-> x.key, todo |-> rest, seen |-> x.seen,
                 result |-> x.result]
        BY <1>1, <4>1 DEF IsReader
      <4>3. /\ IsReader(y) /\ y.pc = "probing" /\ y.key = x.key /\ y.todo = rest
            /\ y.seen = x.seen /\ y.result = x.result
        BY <1>1, <4>2 DEF IsReader
      <4>4. rest[0] \subseteq manifest.mem[0] /\ rest[1] \subseteq manifest.mem[1]
        BY <1>1, <3>1
      <4> QED  BY <1>1, <3>1, <3>3, <4>3, <4>4 DEF ReaderOK, Searching
    <3> QED  BY <3>2, <3>3
  <2> QED  BY <2>1, <2>2
<1> HIDE DEF y
<1>5. RInv' /\ reader'[r] = y /\ \A s \in Readers : s # r => reader'[s] = reader[s]
  BY <1>2, <1>3, <1>4, ReaderMoves
<1> QED  BY <1>1, <1>4, <1>5 DEF x

\* The read: the file is still there, and the value is one the search was to find.
LEMMA ReadIs ==
  ASSUME IInv, RInv, NEW r \in Readers, GetRead(r)
  PROVE  /\ RInv' /\ \A s \in Readers : s # r => reader'[s] = reader[s]
         /\ reader[r].pc = "found" /\ reader'[r].pc = "done"
         /\ reader'[r].key = reader[r].key /\ reader'[r].seen = reader[r].seen
         /\ reader'[r].result \in reader[r].seen
<1> DEFINE x == reader[r]
           e == EntryOf(x)
           v == files[e.path][x.key]
           a == [x EXCEPT !.pc = "done"]
           y == [a EXCEPT !.result = v]
<1>1. /\ ReaderOK(x, mem, manifest.mem, files) /\ x.pc = "found" /\ IsReader(x)
      /\ x.todo \in LevelSets /\ x.todo[0] \subseteq manifest.mem[0]
      /\ x.todo[1] \subseteq manifest.mem[1]
      /\ SearchLevels(files, x.todo, x.key) \in x.seen
      /\ x.todo # NoLevels /\ Holds(files, e.path, x.key)
  <2>1. ReaderOK(x, mem, manifest.mem, files) /\ x.pc = "found"
    BY DEF RInv, GetRead, ReaderAt
  <2> HIDE DEF x
  <2> QED  BY <2>1 DEF ReaderOK
<1>2. reader' = [reader EXCEPT ![r] = y]
  <2>1. ThisEntry(r) = e
    BY DEF ThisEntry, ThisLevel, EntryOf, LevelOf
  <2>2. reader' = [reader EXCEPT ![r] =
          IF Holds(files, e.path, x.key) THEN [x EXCEPT !.pc = "done", !.result = v]
          ELSE [x EXCEPT !.pc = "raised"]]
    <3> HIDE DEF e
    <3> QED  BY <2>1 DEF GetRead
  <2> QED  BY <1>1, <2>2
<1>3. UNCHANGED <<mem, manifest, files>>
  BY DEF GetRead, compactionVars
<1> HIDE DEF x
<1>4. v \in x.seen
  <2>1. SearchLevels(files, x.todo, x.key) = v
    <3> HIDE DEF y
    <3> QED  BY <1>1, SnapshotGoesOn
  <2> QED  BY <1>1, <2>1
<1> HIDE DEF v
<1>5. y = [pc |-> "done", key |-> x.key, todo |-> x.todo, seen |-> x.seen, result |-> v]
  <2>1. a = [pc |-> "done", key |-> x.key, todo |-> x.todo, seen |-> x.seen,
             result |-> x.result]
    BY <1>1 DEF IsReader
  <2> HIDE DEF a
  <2> QED  BY <2>1
<1> HIDE DEF y
<1>6. /\ IsReader(y) /\ y.pc = "done" /\ y.key = x.key /\ y.seen = x.seen /\ y.result = v
  BY <1>5 DEF IsReader, ReaderPCs
<1>7. ReaderOK(y, mem, manifest.mem, files)
  BY <1>6 DEF ReaderOK, Searching
<1>8. RInv' /\ reader'[r] = y /\ \A s \in Readers : s # r => reader'[s] = reader[s]
  BY <1>2, <1>3, <1>7, ReaderMoves
<1> QED  BY <1>1, <1>4, <1>6, <1>8 DEF x

-----------------------------------------------------------------------------
(* RInv is inductive *)

\* Nobody reads yet.
LEMMA InitRInv == Init => RInv
<1> SUFFICES ASSUME Init, NEW r \in Readers
             PROVE  ReaderOK(reader[r], mem, manifest.mem, files)
  BY DEF Init, RInv
<1>1. IsReader(NotReading) /\ NotReading.pc = "idle"
  BY DEF NotReading, IsReader, ReaderPCs
<1>2. reader[r] = NotReading
  BY DEF Init
<1> QED  BY <1>1, <1>2 DEF ReaderOK, Searching

\* A compaction that has not started does nothing.
LEMMA NoCompactor ==
  ASSUME CompactAt("idle")
  PROVE  ~CompactionNext
BY DEF CompactAt, CompactionNext, CompactSnapshot, CompactWrite, CompactWriteFails,
       CompactInstall, CompactInstallFails, CompactRemove, CompactRemoveFails,
       CompactDelete, CompactDeleteFails

\* The invariants of the disk without a compaction.
LEMMA NextBoth ==
  ASSUME ClockAdvances, IInv, DInv, CompactAt("idle"), [Next]_vars
  PROVE  IInv' /\ DInv' /\ NamedFilesStay
BY NoCompactor, NextDInv DEF DiskStep, CompactionNext

\* Every step of a reader.
LEMMA ReaderReaders ==
  ASSUME IInv, RInv, CompactAt("idle"), NEW r \in Readers, ReaderStep(r)
  PROVE  RInv'
BY GetIs, SnapshotIs, ProbeIs, ReadIs DEF ReaderStep

\* Every step of the engine.
LEMMA NextRInv ==
  ASSUME ClockAdvances, IInv, DInv, RInv, CompactAt("idle"), [Next]_vars
  PROVE  RInv'
<1>0. ~CompactionNext
  BY NoCompactor
<1>1. NamedFilesStay
  BY NextBoth
<1>2. ASSUME NEW t \in Writers, WriterCalls(t) \/ WriterReturns(t) PROVE RInv'
  BY <1>1, <1>2, WriterReaders
<1>3. CASE Flusher
  BY <1>1, <1>3, FlusherReaders
<1>4. CASE FlushAllCall \/ FlushAllLoop \/ UNCHANGED vars
  <2>1. reader' = reader /\ mem' = mem /\ manifest' = manifest
    BY <1>4 DEF FlushAllCall, FlushAllLoop, vars, engineVars, compactionVars
  <2> QED  BY <1>1, <2>1, ReadersUntouched
<1>5. ASSUME NEW r \in Readers, ReaderStep(r) PROVE RInv'
  BY <1>5, ReaderReaders
<1> QED  BY <1>0, <1>2, <1>3, <1>4, <1>5 DEF Next, Compactor

-----------------------------------------------------------------------------
(* The store that the engine's state stands for *)

AbsStore   == [k \in Keys |-> Visible(View(k))]
AbsPending == [t \in Writers |-> PendingWrite(t)]
AbsReading == [r \in Readers |-> Reading(r)]

\* The write of pairs, and what a writer with locals w has still to write.
EffectOf(pairs) == [k \in BatchKeys(pairs) |-> Visible(BatchValue(pairs, k))]

PendingOf(w) ==
  [effect  |-> EffectOf(IF w.pc \in {"put", "delete", "measuring", "batch"} THEN w.pairs
                        ELSE <<>>),
   mayFail |-> w.pc = "measuring"]

\* A get as its client knows it.
ReadingOf(x) ==
  [pc |-> IF x.pc \in Searching THEN "busy" ELSE x.pc, key |-> x.key,
   seen |-> {Visible(v) : v \in x.seen}, result |-> Visible(x.result)]

LEMMA AbsIs ==
  /\ AbsPending = [t \in Writers |-> PendingOf(writer[t])]
  /\ AbsPending' = [t \in Writers |-> PendingOf(writer'[t])]
  /\ AbsReading = [r \in Readers |-> ReadingOf(reader[r])]
  /\ AbsReading' = [r \in Readers |-> ReadingOf(reader'[r])]
BY DEF AbsPending, AbsReading, PendingWrite, PendingOf, EffectOf, WriterAt, Reading, ReadingOf,
       Searching

\* While no compaction runs, the store holds what was written last.
LEMMA StoreIs ==
  ASSUME IInv, CompactAt("idle")
  PROVE  AbsStore = [k \in Keys |-> Visible(applied[k])]
<1>1. \A k \in Keys : View(k) = applied[k]
  BY AllCounts DEF IInv, NothingLost, View
<1> QED  BY <1>1 DEF AbsStore

LEMMA StoreIsNext ==
  ASSUME IInv', CompactAt("idle")'
  PROVE  AbsStore' = [k \in Keys |-> Visible(applied'[k])]
<1>1. \A k : OnDisk(k)' = SearchLevels(files', manifest'.mem, k)
  BY DEF CompactAt, OnDisk, Upper, Find, SearchLevels
<1>2. \A k \in Keys : View(k)' = applied'[k]
  BY <1>1 DEF IInv, NothingLost, View
<1> QED  BY <1>2 DEF AbsStore

\* The steps of the store, one by one.
LEMMA StoreCalls ==
  ASSUME NEW t \in Writers, NEW write \in Store!Writes, AbsPending[t] = Store!NoWrite,
         AbsPending' = [AbsPending EXCEPT ![t] = write],
         AbsStore' = AbsStore, AbsReading' = AbsReading
  PROVE  Store!Next
<1>1. Store!Call(t, write)
  BY DEF Store!Call, AbsStore, AbsPending, AbsReading
<1> QED  BY <1>1 DEF Store!Next

LEMMA StoreAccepts ==
  ASSUME NEW t \in Writers, AbsPending' = [AbsPending EXCEPT ![t].mayFail = FALSE],
         AbsStore' = AbsStore, AbsReading' = AbsReading
  PROVE  Store!Next
<1>1. Store!Accept(t)
  BY DEF Store!Accept, AbsStore, AbsPending, AbsReading
<1> QED  BY <1>1 DEF Store!Next

LEMMA StoreRefuses ==
  ASSUME NEW t \in Writers, AbsPending[t].mayFail,
         AbsPending' = [AbsPending EXCEPT ![t] = Store!NoWrite],
         AbsStore' = AbsStore, AbsReading' = AbsReading
  PROVE  Store!Next
<1>1. Store!Refuse(t)
  BY DEF Store!Refuse, AbsStore, AbsPending, AbsReading
<1> QED  BY <1>1 DEF Store!Next

LEMMA StoreTakesEffect ==
  ASSUME NEW t \in Writers, AbsPending' = [AbsPending EXCEPT ![t] = Store!NoWrite],
         NEW effect, effect = AbsPending[t].effect,
         AbsStore' = [k \in Keys |-> IF k \in DOMAIN effect THEN effect[k] ELSE AbsStore[k]],
         AbsReading' = [r \in Readers |->
           IF AbsReading[r].pc = "busy" /\ AbsReading[r].key \in DOMAIN effect
           THEN [AbsReading[r] EXCEPT !.seen = @ \cup {effect[AbsReading[r].key]}]
           ELSE AbsReading[r]]
  PROVE  Store!Next
<1>1. Store!TakeEffect(t)
  BY DEF Store!TakeEffect, AbsStore, AbsPending, AbsReading
<1> QED  BY <1>1 DEF Store!Next

LEMMA StoreGets ==
  ASSUME NEW r \in Readers, NEW k \in Keys, AbsReading[r].pc = "idle",
         \/ AbsReading' = [AbsReading EXCEPT ![r] =
              [pc |-> "busy", key |-> k, seen |-> {AbsStore[k]}, result |-> None]]
         \/ AbsReading' = [AbsReading EXCEPT ![r] =
              [pc |-> "done", key |-> k, seen |-> {AbsStore[k]}, result |-> AbsStore[k]]],
         AbsStore' = AbsStore, AbsPending' = AbsPending
  PROVE  Store!Next
<1> DEFINE v == AbsStore[k]
<1>1. /\ [Store!Idle EXCEPT !.pc = "busy", !.key = k, !.seen = {v}] =
           [pc |-> "busy", key |-> k, seen |-> {v}, result |-> None]
      /\ [Store!Idle EXCEPT !.pc = "done", !.key = k, !.seen = {v}, !.result = v] =
           [pc |-> "done", key |-> k, seen |-> {v}, result |-> v]
  <2> HIDE DEF v
  <2> DEFINE f == [Store!Idle EXCEPT !.pc = "busy"]
             g == [Store!Idle EXCEPT !.pc = "done"]
             a == [f EXCEPT !.key = k]
             b == [g EXCEPT !.key = k]
             c == [b EXCEPT !.seen = {v}]
  <2>1. a = [pc |-> "busy", key |-> k, seen |-> {}, result |-> None]
    <3>1. f = [pc |-> "busy", key |-> None, seen |-> {}, result |-> None]
      BY DEF Store!Idle
    <3> HIDE DEF f
    <3> QED  BY <3>1
  <2>2. b = [pc |-> "done", key |-> k, seen |-> {}, result |-> None]
    <3>1. g = [pc |-> "done", key |-> None, seen |-> {}, result |-> None]
      BY DEF Store!Idle
    <3> HIDE DEF g
    <3> QED  BY <3>1
  <2>3. [a EXCEPT !.seen = {v}] = [pc |-> "busy", key |-> k, seen |-> {v}, result |-> None]
    <3> HIDE DEF a
    <3> QED  BY <2>1
  <2>4. c = [pc |-> "done", key |-> k, seen |-> {v}, result |-> None]
    <3> HIDE DEF b
    <3> QED  BY <2>2
  <2>5. [c EXCEPT !.result = v] = [pc |-> "done", key |-> k, seen |-> {v}, result |-> v]
    <3> HIDE DEF c
    <3> QED  BY <2>4
  <2> QED  BY <2>3, <2>5
<1>2. Store!Get(r, k) \/ Store!GetNow(r, k)
  BY <1>1 DEF Store!Get, Store!GetNow, AbsStore, AbsPending, AbsReading
<1> QED  BY <1>2 DEF Store!Next

LEMMA StoreReturns ==
  ASSUME NEW r \in Readers, AbsReading[r].pc = "busy", NEW v \in AbsReading[r].seen,
         AbsReading' = [AbsReading EXCEPT ![r].pc = "done", ![r].result = v],
         AbsStore' = AbsStore, AbsPending' = AbsPending
  PROVE  Store!Next
<1>1. Store!Return(r)
  BY DEF Store!Return, AbsStore, AbsPending, AbsReading
<1> QED  BY <1>1 DEF Store!Next

LEMMA StoreStutters ==
  ASSUME AbsStore' = AbsStore, AbsPending' = AbsPending, AbsReading' = AbsReading
  PROVE  UNCHANGED Store!vars
BY DEF Store!vars, AbsStore, AbsPending, AbsReading

-----------------------------------------------------------------------------
(* A writer's steps are steps of the store *)

\* The steps of a call before its effect.
BeforeEffect == {"put", "delete", "measuring", "batch"}

\* What is pending is what the moving writer's new locals say.
LEMMA PendingMoves ==
  ASSUME WritersOK, NEW t \in Writers, NEW w, writer' = [writer EXCEPT ![t] = w]
  PROVE  AbsPending' = [AbsPending EXCEPT ![t] = PendingOf(w)]
<1>1. /\ writer'[t] = w
      /\ \A u \in Writers : u # t => writer'[u] = writer[u]
  BY DEF WritersOK
<1> QED  BY <1>1, AbsIs

\* Nothing is pending outside a call and after its effect.
LEMMA NothingPending ==
  ASSUME NEW w, w.pc \notin BeforeEffect
  PROVE  PendingOf(w) = Store!NoWrite
<1>1. BatchKeys(<<>>) = {}
  BY DEF BatchKeys
<1>2. PendingOf(w) = [effect |-> EffectOf(<<>>), mayFail |-> FALSE]
  BY DEF PendingOf, BeforeEffect
<1>3. EffectOf(<<>>) = Store!NoEffect
  BY <1>1 DEF EffectOf, Store!NoEffect
<1> QED  BY <1>2, <1>3 DEF Store!NoWrite

\* What a call is to write is an effect.
LEMMA EffectTyped ==
  ASSUME NEW pairs \in Seq(Pairs)
  PROVE  EffectOf(pairs) \in Store!Effects
<1> DEFINE D == BatchKeys(pairs)
<1>1. \A k \in D : k \in Keys /\ BatchValue(pairs, k) \in Stored
  BY BatchValueStored DEF Pairs
<1>2. \A k \in D : Visible(BatchValue(pairs, k)) \in Values \cup {None}
  BY <1>1 DEF Visible, Stored
<1>3. EffectOf(pairs) = [k \in D |-> Visible(BatchValue(pairs, k))] /\ D \in SUBSET Keys
  BY <1>1 DEF EffectOf
<1> HIDE DEF D
<1>4. EffectOf(pairs) \in [D -> Values \cup {None}]
  BY <1>2, <1>3
<1> QED  BY <1>3, <1>4 DEF Store!Effects

\* A call.
LEMMA CallRefines ==
  ASSUME WritersOK, NEW t \in Writers, WriterAt(t, "idle"),
         NEW w, writer' = [writer EXCEPT ![t] = w], w.pc \in BeforeEffect,
         w.pairs \in Seq(Pairs), AbsStore' = AbsStore, reader' = reader
  PROVE  Store!Next
<1>1. AbsPending' = [AbsPending EXCEPT ![t] = PendingOf(w)]
  BY PendingMoves
<1>2. AbsPending[t] = Store!NoWrite
  BY AbsIs, NothingPending DEF WriterAt, BeforeEffect
<1>3. PendingOf(w) \in Store!Writes
  BY EffectTyped DEF PendingOf, BeforeEffect, Store!Writes
<1>4. AbsReading' = AbsReading
  BY AbsIs
<1> QED  BY <1>1, <1>2, <1>3, <1>4, StoreCalls

\* A step of a call that leaves its write pending as it is, or follows it.
LEMMA WithinRefines ==
  ASSUME WritersOK, NEW t \in Writers, NEW w, writer' = [writer EXCEPT ![t] = w],
         \/ w.pc \in BeforeEffect /\ w.pc = writer[t].pc /\ w.pairs = writer[t].pairs
         \/ w.pc \notin BeforeEffect /\ writer[t].pc \notin BeforeEffect,
         AbsStore' = AbsStore, reader' = reader
  PROVE  UNCHANGED Store!vars
<1>1. AbsPending' = [AbsPending EXCEPT ![t] = PendingOf(w)]
  BY PendingMoves
<1>2. PendingOf(w) = PendingOf(writer[t])
  <2>1. CASE w.pc \in BeforeEffect
    BY <2>1 DEF PendingOf, BeforeEffect
  <2>2. CASE w.pc \notin BeforeEffect
    BY <2>2, NothingPending, AbsIs
  <2> QED  BY <2>1, <2>2
<1>3. AbsPending' = AbsPending
  BY <1>1, <1>2, AbsIs
<1>4. AbsReading' = AbsReading
  BY AbsIs
<1> QED  BY <1>3, <1>4, StoreStutters

\* A batch that is too large returns without effect.
LEMMA RejectRefines ==
  ASSUME WritersOK, NEW t \in Writers, NEW w, writer' = [writer EXCEPT ![t] = w],
         writer[t].pc = "measuring", w.pc \notin BeforeEffect,
         AbsStore' = AbsStore, reader' = reader
  PROVE  Store!Next
<1>1. AbsPending' = [AbsPending EXCEPT ![t] = Store!NoWrite]
  <2>1. AbsPending' = [AbsPending EXCEPT ![t] = PendingOf(w)]
    BY PendingMoves
  <2>2. PendingOf(w) = Store!NoWrite
    BY NothingPending
  <2> QED  BY <2>1, <2>2
<1>2. AbsReading' = AbsReading
  BY AbsIs
<1>3. AbsPending[t].mayFail
  BY AbsIs DEF PendingOf
<1> QED  BY <1>1, <1>2, <1>3, StoreRefuses

\* What EXCEPT makes of a write.
LEMMA MayFailIs ==
  ASSUME NEW S, NEW a \in [effect : S, mayFail : BOOLEAN]
  PROVE  [a EXCEPT !.mayFail = FALSE] = [effect |-> a.effect, mayFail |-> FALSE]
<1> DEFINE may == FALSE  T == BOOLEAN
<1>1. a \in [effect : S, mayFail : T] /\ may \in T
  OBVIOUS
<1> HIDE DEF may, T
<1>2. [a EXCEPT !.mayFail = may] = [effect |-> a.effect, mayFail |-> may]
  BY <1>1
<1> QED  BY <1>2 DEF may

\* A batch that is in the log can no longer be refused.
LEMMA AcceptRefines ==
  ASSUME WritersOK, NEW t \in Writers, NEW w, writer' = [writer EXCEPT ![t] = w],
         writer[t].pc = "measuring", w.pc = "batch", w.pairs = writer[t].pairs,
         AbsStore' = AbsStore, reader' = reader
  PROVE  Store!Next
<1>1. AbsPending' = [AbsPending EXCEPT ![t] = PendingOf(w)]
  BY PendingMoves
<1>2. /\ AbsPending[t] = [effect |-> EffectOf(w.pairs), mayFail |-> TRUE]
      /\ PendingOf(w) = [effect |-> EffectOf(w.pairs), mayFail |-> FALSE]
  BY AbsIs DEF PendingOf
<1>3. PendingOf(w) = [AbsPending[t] EXCEPT !.mayFail = FALSE]
  <2> DEFINE e == EffectOf(w.pairs)
  <2>1. AbsPending[t] \in [effect : {e}, mayFail : BOOLEAN] /\ AbsPending[t].effect = e
    BY <1>2
  <2>2. PendingOf(w) = [effect |-> e, mayFail |-> FALSE]
    BY <1>2
  <2> HIDE DEF e
  <2>3. [AbsPending[t] EXCEPT !.mayFail = FALSE] = [effect |-> AbsPending[t].effect, mayFail |-> FALSE]
    BY <2>1, MayFailIs
  <2> QED  BY <2>1, <2>2, <2>3
<1>4. AbsReading' = AbsReading
  BY AbsIs
<1> QED  BY <1>1, <1>3, <1>4, StoreAccepts

\* A write under the lock takes effect at once, before the eyes of the readers.
LEMMA ApplyRefines ==
  ASSUME IInv, RInv, CompactAt("idle"), IInv', CompactAt("idle")',
         NEW t \in Writers, writer[t].pc \in BeforeEffect,
         NEW w, writer' = [writer EXCEPT ![t] = w], w.pc \notin BeforeEffect,
         NEW pairs, pairs = writer[t].pairs, Apply(pairs)
  PROVE  Store!Next
<1> DEFINE effect == EffectOf(pairs)
<1>0. WritersOK /\ pairs \in Seq(Pairs)
  BY DEF IInv, Shapes, WritersOK
<1>1. AbsPending' = [AbsPending EXCEPT ![t] = Store!NoWrite]
  <2>1. AbsPending' = [AbsPending EXCEPT ![t] = PendingOf(w)]
    BY <1>0, PendingMoves
  <2>2. PendingOf(w) = Store!NoWrite
    BY NothingPending
  <2> QED  BY <2>1, <2>2
<1>2. effect = AbsPending[t].effect
  BY AbsIs DEF PendingOf, BeforeEffect
<1>3. DOMAIN effect = BatchKeys(pairs)
      /\ \A k \in BatchKeys(pairs) : effect[k] = Visible(BatchValue(pairs, k))
  BY DEF EffectOf
<1> HIDE DEF effect
<1>4. AbsStore' = [k \in Keys |-> IF k \in DOMAIN effect THEN effect[k] ELSE AbsStore[k]]
  <2>1. \A k \in Keys : applied'[k] = IF k \in BatchKeys(pairs) THEN BatchValue(pairs, k)
                                      ELSE applied[k]
    BY DEF Apply, Applied
  <2>2. /\ AbsStore = [k \in Keys |-> Visible(applied[k])]
        /\ AbsStore' = [k \in Keys |-> Visible(applied'[k])]
    BY StoreIs, StoreIsNext
  <2> QED  BY <1>3, <2>1, <2>2
<1>5. ASSUME NEW r \in Readers
      PROVE  ReadingOf(reader'[r]) =
               IF AbsReading[r].pc = "busy" /\ AbsReading[r].key \in DOMAIN effect
               THEN [AbsReading[r] EXCEPT !.seen = @ \cup {effect[AbsReading[r].key]}]
               ELSE AbsReading[r]
  <2> DEFINE x == reader[r]
             y == reader'[r]
             a == ReadingOf(x)
  <2>1. /\ y.pc = x.pc /\ y.key = x.key /\ y.result = x.result
        /\ y.seen = IF x.pc \in Searching /\ x.key \in BatchKeys(pairs)
                    THEN x.seen \cup {BatchValue(pairs, x.key)} ELSE x.seen
    BY WitnessedReader DEF Apply
  <2>2. AbsReading[r] = a
    BY AbsIs
  <2> HIDE DEF x, y
  <2>3. /\ a = [pc |-> a.pc, key |-> a.key, seen |-> a.seen, result |-> a.result]
        /\ a.key = x.key /\ a.seen = {Visible(v) : v \in x.seen}
        /\ a.result = Visible(x.result)
        /\ a.pc = IF x.pc \in Searching THEN "busy" ELSE x.pc
    BY DEF ReadingOf
  <2>4. x.pc # "busy"
    BY DEF RInv, x, ReaderOK, IsReader, ReaderPCs, Searching
  <2> HIDE DEF a
  <2>5. CASE x.pc \in Searching /\ x.key \in BatchKeys(pairs)
    <3> DEFINE v == BatchValue(pairs, x.key)
               seen == a.seen \cup {effect[x.key]}
    <3>1. effect[x.key] = Visible(v)
      BY <1>3, <2>5
    <3>2. y.seen = x.seen \cup {v} /\ y.pc = x.pc /\ y.key = x.key /\ y.result = x.result
      BY <2>1, <2>5
    <3> HIDE DEF v
    <3>3. {Visible(u) : u \in y.seen} = seen
      BY <2>3, <3>1, <3>2
    <3> HIDE DEF seen
    <3>4. ReadingOf(y) = [pc |-> "busy", key |-> x.key, seen |-> seen, result |-> Visible(x.result)]
      BY <2>5, <3>2, <3>3 DEF ReadingOf
    <3>5. [a EXCEPT !.seen = seen] =
            [pc |-> a.pc, key |-> a.key, seen |-> seen, result |-> a.result]
      BY <2>3
    <3>6. ReadingOf(y) = [a EXCEPT !.seen = seen]
      BY <2>3, <2>5, <3>4, <3>5
    <3>7. AbsReading[r].pc = "busy" /\ AbsReading[r].key = x.key
      BY <2>2, <2>3, <2>5
    <3> QED  BY <1>3, <2>2, <2>3, <2>5, <3>6, <3>7 DEF seen, y
  <2>6. CASE ~(x.pc \in Searching /\ x.key \in BatchKeys(pairs))
    <3>1. y.seen = x.seen
      BY <2>1, <2>6
    <3>2. ReadingOf(y) = a
      BY <2>1, <3>1 DEF ReadingOf, a
    <3>3. ~(AbsReading[r].pc = "busy" /\ AbsReading[r].key \in DOMAIN effect)
      BY <1>3, <2>2, <2>3, <2>4, <2>6
    <3> QED  BY <2>2, <3>2, <3>3 DEF y
  <2> QED  BY <2>5, <2>6
<1>6. AbsReading' = [r \in Readers |->
           IF AbsReading[r].pc = "busy" /\ AbsReading[r].key \in DOMAIN effect
           THEN [AbsReading[r] EXCEPT !.seen = @ \cup {effect[AbsReading[r].key]}]
           ELSE AbsReading[r]]
  BY <1>5, AbsIs
<1> QED  BY <1>1, <1>2, <1>4, <1>6, StoreTakesEffect

\* A step that writes nothing.
LEMMA StoreStays ==
  ASSUME IInv, CompactAt("idle"), IInv', CompactAt("idle")', applied' = applied
  PROVE  AbsStore' = AbsStore
BY StoreIs, StoreIsNext

\* A call of put or delete.
LEMMA LogRefines ==
  ASSUME WritersOK, NEW t \in Writers, WriterAt(t, "idle"), NEW pc \in {"put", "delete"},
         NEW p \in Pairs, Log(t, pc, p), AbsStore' = AbsStore, reader' = reader
  PROVE  Store!Next
<1> DEFINE w == [IdleWriter EXCEPT !.pc = pc, !.pairs = <<p>>, !.off = NextOffset(wal)]
<1>1. w = [pc |-> pc, pairs |-> <<p>>, n |-> IdleWriter.n, bytes |-> IdleWriter.bytes,
           off |-> NextOffset(wal)]
  <2>1. IsLocals(IdleWriter) /\ IdleWriter.n = IdleWriter.n
    BY IdleLocals
  <2> QED  BY <2>1, SetCall, ZenonT(30)
<1>2. writer' = [writer EXCEPT ![t] = w]
  BY DEF Log
<1>3. <<p>> \in Seq(Pairs)
  OBVIOUS
<1> HIDE DEF w
<1>4. w.pc \in BeforeEffect /\ w.pairs \in Seq(Pairs)
  BY <1>1, <1>3 DEF BeforeEffect
<1> QED  BY <1>2, <1>4, CallRefines

\* A call of batch_put.
LEMMA BatchRefines ==
  ASSUME WritersOK, NEW t \in Writers, NEW b \in Batches, BatchPut(t, b), AbsStore' = AbsStore
  PROVE  Store!Next
<1> DEFINE w == [IdleWriter EXCEPT !.pc = "measuring", !.pairs = b]
           P == [key : Keys, value : Values]
<1>1. w = [pc |-> "measuring", pairs |-> b, n |-> IdleWriter.n,
           bytes |-> IdleWriter.bytes, off |-> IdleWriter.off]
  BY SetPairs, IdleLocals, Zenon
<1>2. b \in Seq(Pairs)
  <2>1. P \subseteq Pairs
    BY DEF Pairs, Stored
  <2>2. b \in Seq(P)
    BY EngineAssumption
  <2> HIDE DEF P
  <2> QED  BY <2>1, <2>2
<1>3. /\ writer' = [writer EXCEPT ![t] = w] /\ WriterAt(t, "idle") /\ reader' = reader
  BY DEF BatchPut, Call
<1> HIDE DEF w
<1>4. w.pc \in BeforeEffect /\ w.pairs \in Seq(Pairs)
  BY <1>1, <1>2 DEF BeforeEffect
<1> QED  BY <1>3, <1>4, CallRefines

\* A writer whose call has had its effect.
LEMMA PastEffect ==
  ASSUME NEW pc \in {"idle", "spawn"}
  PROVE  [IdleWriter EXCEPT !.pc = pc].pc \notin BeforeEffect
BY DEF IdleWriter, BeforeEffect

\* Every step of every writer.
LEMMA WriterRefines ==
  ASSUME IInv, RInv, CompactAt("idle"), IInv', CompactAt("idle")',
         NEW t \in Writers, WriterCalls(t) \/ WriterReturns(t)
  PROVE  Store!Next \/ UNCHANGED Store!vars
<1> DEFINE v == writer[t]
<1>0. /\ WritersOK /\ IsLocals(v) /\ v.pairs \in Seq(Pairs)
      /\ WriterAt(t, "put") => v.pairs = <<v.pairs[1]>>
  BY DEF IInv, Shapes, WritersOK, WriterAt, IsLocals
<1>1. ASSUME NEW k \in Keys, NEW x \in Values, Put(t, k, x) PROVE Store!Next
  <2>1. [key |-> k, value |-> x] \in Pairs
    BY DEF Pairs, Stored
  <2> QED  BY <1>0, <1>1, <2>1, StoreStays, LogRefines DEF Put, Call
<1>2. ASSUME NEW k \in Keys, Delete(t, k) PROVE Store!Next
  <2>1. [key |-> k, value |-> Tombstone] \in Pairs
    BY DEF Pairs, Stored
  <2> QED  BY <1>0, <1>2, <2>1, StoreStays, LogRefines DEF Delete, Call
<1>3. ASSUME NEW b \in Batches, BatchPut(t, b) PROVE Store!Next
  BY <1>0, <1>3, StoreStays, BatchRefines DEF BatchPut
<1>4. CASE PutApply(t)
  <2> DEFINE m == RaiseOffset(PutUnlocked(mem, v.pairs[1].key, v.pairs[1].value), v.off)
             pc == IF IsFull(m) THEN "spawn" ELSE "idle"
             w == [IdleWriter EXCEPT !.pc = pc]
  <2>1. /\ writer' = [writer EXCEPT ![t] = w] /\ Apply(<<v.pairs[1]>>) /\ v.pc = "put"
    BY <1>4 DEF PutApply, WriterAt
  <2>2. pc \in {"idle", "spawn"}
    OBVIOUS
  <2> HIDE DEF pc
  <2>3. w.pc \notin BeforeEffect
    BY <2>2, PastEffect
  <2>4. Apply(v.pairs) /\ v.pc \in BeforeEffect
    BY <1>0, <2>1 DEF WriterAt, BeforeEffect
  <2> HIDE DEF w
  <2> QED  BY <2>1, <2>3, <2>4, ApplyRefines
<1>5. CASE DeleteApply(t)
  <2> DEFINE w == [v EXCEPT !.pc = "setOffset"]
  <2>1. writer' = [writer EXCEPT ![t] = w] /\ Apply(v.pairs) /\ v.pc \in BeforeEffect
    BY <1>5 DEF DeleteApply, WriterAt, BeforeEffect
  <2>2. w.pc \notin BeforeEffect
    BY <1>0 DEF IsLocals, BeforeEffect
  <2> HIDE DEF w
  <2> QED  BY <2>1, <2>2, ApplyRefines
<1>6. CASE BatchApply(t)
  <2> DEFINE pc == IF BatchWouldExceed(mem, v.bytes) THEN "spawn" ELSE "idle"
             w == [IdleWriter EXCEPT !.pc = pc]
  <2>1. writer' = [writer EXCEPT ![t] = w] /\ Apply(v.pairs) /\ v.pc \in BeforeEffect
    BY <1>6 DEF BatchApply, WriterAt, BeforeEffect
  <2>2. pc \in {"idle", "spawn"}
    OBVIOUS
  <2> HIDE DEF pc
  <2>3. w.pc \notin BeforeEffect
    BY <2>2, PastEffect
  <2> HIDE DEF w
  <2> QED  BY <2>1, <2>3, ApplyRefines
<1>7. CASE BatchReject(t)
  <2>1. /\ writer' = [writer EXCEPT ![t] = IdleWriter] /\ applied' = applied /\ reader' = reader
        /\ v.pc = "measuring"
    BY <1>7 DEF BatchReject, Measured, WriterAt
  <2>2. IdleWriter.pc \notin BeforeEffect
    BY DEF IdleWriter, BeforeEffect
  <2> QED  BY <1>0, <2>1, <2>2, StoreStays, RejectRefines
<1>8. CASE SpawnFlush(t) \/ DeleteSetOffset(t)
  <2>1. /\ writer' = [writer EXCEPT ![t] = IdleWriter] /\ applied' = applied /\ reader' = reader
        /\ v.pc \notin BeforeEffect
    BY <1>8 DEF SpawnFlush, DeleteSetOffset, WriterAt, BeforeEffect
  <2>2. IdleWriter.pc \notin BeforeEffect
    BY DEF IdleWriter, BeforeEffect
  <2> QED  BY <1>0, <2>1, <2>2, StoreStays, WithinRefines
<1>9. CASE BatchMeasure(t)
  <2> DEFINE n == v.n + 1
             bytes == v.bytes + PairSize(mem, v.pairs[n])
             w == [v EXCEPT !.n = n, !.bytes = bytes]
  <2>1. /\ writer' = [writer EXCEPT ![t] = w] /\ v.pc = "measuring"
        /\ applied' = applied /\ reader' = reader
    BY <1>0, <1>9 DEF BatchMeasure, WritersOK, WriterAt
  <2>2. w = [pc |-> v.pc, pairs |-> v.pairs, n |-> n, bytes |-> bytes, off |-> v.off]
    BY <1>0, SetMeasured, Zenon
  <2> HIDE DEF w
  <2>3. w.pc \in BeforeEffect /\ w.pc = v.pc /\ w.pairs = v.pairs
    BY <2>1, <2>2 DEF BeforeEffect
  <2> QED  BY <1>0, <2>1, <2>3, StoreStays, WithinRefines
<1>10. CASE BatchLog(t)
  <2> DEFINE off == LastOffset(wal, v.pairs)
             w == [v EXCEPT !.pc = "batch", !.off = off]
  <2>1. /\ writer' = [writer EXCEPT ![t] = w] /\ v.pc = "measuring"
        /\ applied' = applied /\ reader' = reader
    BY <1>0, <1>10 DEF BatchLog, WritersOK, Measured, WriterAt
  <2>2. w = [pc |-> "batch", pairs |-> v.pairs, n |-> v.n, bytes |-> v.bytes, off |-> off]
    BY <1>0, SetOff, Zenon
  <2> HIDE DEF w
  <2>3. w.pc = "batch" /\ w.pairs = v.pairs
    BY <2>2
  <2> QED  BY <1>0, <2>1, <2>3, StoreStays, AcceptRefines
<1> QED
  BY <1>1, <1>2, <1>3, <1>4, <1>5, <1>6, <1>7, <1>8, <1>9, <1>10
  DEF WriterCalls, WriterReturns

-----------------------------------------------------------------------------
(* So are a reader's, and those of all others are not seen *)

\* What one reader's new locals say of its get, while nothing is written.
LEMMA ReadingMoves ==
  ASSUME NEW r \in Readers, \A s \in Readers : s # r => reader'[s] = reader[s]
  PROVE  AbsReading' = [AbsReading EXCEPT ![r] = ReadingOf(reader'[r])]
BY AbsIs

\* The end of a search.
LEMMA ReturnRefines ==
  ASSUME AbsStore' = AbsStore, AbsPending' = AbsPending, NEW r \in Readers,
         NEW y, y = reader'[r], \A s \in Readers : s # r => reader'[s] = reader[s],
         NEW x, x = reader[r], x.pc \in Searching, y.pc = "done", y.key = x.key,
         y.seen = x.seen, NEW v \in x.seen, Visible(y.result) = Visible(v)
  PROVE  Store!Next
<1> DEFINE a == AbsReading[r]
           w == Visible(v)
<1>1. a = ReadingOf(x)
  BY AbsIs
<1>2. /\ a.pc = "busy" /\ w \in a.seen
      /\ a = [pc |-> a.pc, key |-> a.key, seen |-> a.seen, result |-> a.result]
      /\ a.key = x.key /\ a.seen = {Visible(u) : u \in x.seen}
  <2> HIDE DEF a
  <2> QED  BY <1>1 DEF ReadingOf
<1> HIDE DEF a, w
<1>3. ReadingOf(y) = [pc |-> "done", key |-> a.key, seen |-> a.seen, result |-> w]
  BY <1>2 DEF ReadingOf, Searching, w
<1>4. [a EXCEPT !.pc = "done", !.result = w] =
        [pc |-> "done", key |-> a.key, seen |-> a.seen, result |-> w]
  <2> DEFINE b == [a EXCEPT !.pc = "done"]
  <2>1. b = [pc |-> "done", key |-> a.key, seen |-> a.seen, result |-> a.result]
    BY <1>2
  <2> HIDE DEF b
  <2>2. [b EXCEPT !.result = w] =
          [pc |-> "done", key |-> a.key, seen |-> a.seen, result |-> w]
    BY <2>1
  <2> QED  BY <2>2 DEF b
<1>5. AbsReading' = [AbsReading EXCEPT ![r] = [a EXCEPT !.pc = "done", !.result = w]]
  <2>1. AbsReading' = [AbsReading EXCEPT ![r] = ReadingOf(y)]
    BY ReadingMoves
  <2> QED  BY <1>3, <1>4, <2>1
<1>6. AbsReading' = [AbsReading EXCEPT ![r].pc = "done", ![r].result = w]
  BY <1>5, AbsIs DEF a
<1> QED  BY <1>2, <1>6, StoreReturns DEF a

\* memtable.get either returns at once or has a snapshot to search.
LEMMA GetRefines ==
  ASSUME IInv, RInv, CompactAt("idle"), NEW r \in Readers, NEW k \in Keys, Get(r, k),
         AbsStore' = AbsStore, AbsPending' = AbsPending
  PROVE  Store!Next
<1> DEFINE v == MemGet(mem, k)
           w == AbsStore[k]
           y == reader'[r]
           a == ReadingOf(y)
<1>1. /\ \A s \in Readers : s # r => reader'[s] = reader[s]
      /\ reader[r].pc = "idle"
      /\ y = [pc |-> IF v = None THEN "missed" ELSE "done", key |-> k, todo |-> NoLevels,
              seen |-> {applied[k]}, result |-> v]
  BY GetIs
<1>2. w = Visible(applied[k]) /\ (v # None => applied[k] = v)
  BY StoreIs DEF IInv, NothingLost
<1>3. AbsReading[r].pc = "idle"
  <2>1. AbsReading[r] = ReadingOf(reader[r])
    BY AbsIs
  <2> QED  BY <1>1, <2>1 DEF ReadingOf, Searching
<1>4. AbsReading' = [AbsReading EXCEPT ![r] = a]
  BY <1>1, ReadingMoves
<1> HIDE DEF v, w, y
<1>5. /\ y.key = k /\ {Visible(u) : u \in y.seen} = {w} /\ y.result = v
      /\ y.pc = IF v = None THEN "missed" ELSE "done"
  BY <1>1, <1>2
<1>6. Visible(None) = None
  BY DEF Visible
<1>7. \/ a = [pc |-> "busy", key |-> k, seen |-> {w}, result |-> None]
      \/ a = [pc |-> "done", key |-> k, seen |-> {w}, result |-> w]
  <2>1. CASE v = None
    BY <1>5, <1>6, <2>1 DEF ReadingOf, Searching
  <2>2. CASE v # None
    BY <1>2, <1>5, <2>2 DEF ReadingOf, Searching
  <2> QED  BY <2>1, <2>2
<1> HIDE DEF a
<1> QED  BY <1>3, <1>4, <1>7, StoreGets DEF w

\* A step of a search is not seen.
LEMMA SearchRefines ==
  ASSUME AbsStore' = AbsStore, AbsPending' = AbsPending, NEW r \in Readers,
         NEW y, y = reader'[r], \A s \in Readers : s # r => reader'[s] = reader[s],
         NEW x, x = reader[r], x.pc \in Searching, y.pc \in Searching, y.key = x.key,
         y.seen = x.seen, y.result = x.result
  PROVE  UNCHANGED Store!vars
<1>1. ReadingOf(y) = ReadingOf(x)
  BY DEF ReadingOf
<1>2. AbsReading' = [AbsReading EXCEPT ![r] = ReadingOf(y)]
  BY ReadingMoves
<1>3. AbsReading' = AbsReading
  BY <1>1, <1>2, AbsIs
<1> QED  BY <1>3, StoreStutters

\* Every step of a reader.
LEMMA ReaderRefines ==
  ASSUME IInv, RInv, CompactAt("idle"), IInv', CompactAt("idle")',
         NEW r \in Readers, ReaderStep(r)
  PROVE  Store!Next \/ UNCHANGED Store!vars
<1> DEFINE x == reader[r]
           y == reader'[r]
<1>1. AbsStore' = AbsStore /\ AbsPending' = AbsPending
  <2>1. applied' = applied /\ writer' = writer
    BY DEF ReaderStep, Get, GetSnapshot, GetProbe, GetRead
  <2> QED  BY <2>1, StoreStays, AbsIs
<1>2. CASE \E k \in Keys : Get(r, k)
  BY <1>1, <1>2, GetRefines
<1>3. CASE GetSnapshot(r)
  <2>1. /\ \A s \in Readers : s # r => reader'[s] = reader[s]
        /\ x.pc = "missed" /\ y.pc = "probing" /\ y.key = x.key /\ y.seen = x.seen
        /\ y.result = x.result
    BY <1>3, SnapshotIs
  <2>2. x.pc \in Searching /\ y.pc \in Searching
    BY <2>1 DEF Searching
  <2> HIDE DEF x, y
  <2> QED  BY <1>1, <2>1, <2>2, SearchRefines DEF x, y
<1>4. CASE GetProbe(r)
  <2>1. /\ \A s \in Readers : s # r => reader'[s] = reader[s]
        /\ x.pc = "probing" /\ y.pc \in {"done", "found", "probing"} /\ y.key = x.key
        /\ y.seen = x.seen /\ y.result = x.result
        /\ y.pc = "done" => None \in x.seen /\ x.result = None
    BY <1>4, ProbeIs
  <2>2. x.pc \in Searching
    BY <2>1 DEF Searching
  <2>3. CASE y.pc = "done"
    <3> HIDE DEF x, y
    <3>1. None \in x.seen /\ y.result = None
      BY <2>1, <2>3
    <3> QED  BY <1>1, <2>1, <2>2, <2>3, <3>1, ReturnRefines DEF x, y
  <2>4. CASE y.pc # "done"
    <3>1. y.pc \in Searching
      BY <2>1, <2>4 DEF Searching
    <3> HIDE DEF x, y
    <3> QED  BY <1>1, <2>1, <2>2, <3>1, SearchRefines DEF x, y
  <2> QED  BY <2>3, <2>4
<1>5. CASE GetRead(r)
  <2>1. /\ \A s \in Readers : s # r => reader'[s] = reader[s]
        /\ x.pc = "found" /\ y.pc = "done" /\ y.key = x.key /\ y.seen = x.seen
        /\ y.result \in x.seen
    BY <1>5, ReadIs
  <2>2. x.pc \in Searching
    BY <2>1 DEF Searching
  <2> HIDE DEF x, y
  <2> QED  BY <1>1, <2>1, <2>2, ReturnRefines DEF x, y
<1> QED  BY <1>2, <1>3, <1>4, <1>5 DEF ReaderStep

\* A step that neither writes nor reads.
LEMMA OthersRefine ==
  ASSUME IInv, CompactAt("idle"), IInv', CompactAt("idle")', UNCHANGED <<writer, reader, applied>>
  PROVE  UNCHANGED Store!vars
BY StoreStays, AbsIs, StoreStutters

\* Every step of the engine.
LEMMA NextRefines ==
  ASSUME IInv, RInv, CompactAt("idle"), IInv', CompactAt("idle")', [Next]_vars
  PROVE  [Store!Next]_(Store!vars)
<1>0. ~CompactionNext
  BY NoCompactor
<1>1. CASE \E t \in Writers : WriterCalls(t) \/ WriterReturns(t)
  BY <1>1, WriterRefines
<1>2. CASE \E r \in Readers : ReaderStep(r)
  BY <1>2, ReaderRefines
<1>3. CASE Flusher \/ FlushAllCall \/ FlushAllLoop \/ UNCHANGED vars
  <2>1. UNCHANGED <<writer, reader, applied>>
    BY <1>3 DEF Flusher, FlushNothing, FlushTake, FlushStep, FlushWrite, FlushWriteFails,
                FlushInstall, FlushInstallFails, FlushSave, FlushSaveFails, FlushClear,
                FlushTruncate, FlushTruncateFails, FlushCompact, FlushAllCall, FlushAllLoop,
                vars, engineVars
  <2> QED  BY <2>1, OthersRefine
<1> QED  BY <1>0, <1>1, <1>2, <1>3 DEF Next, Compactor

\* A new engine is an empty store.
LEMMA InitRefines == Init => Store!Init
<1> SUFFICES ASSUME Init PROVE Store!Init
  OBVIOUS
<1>1. AbsStore = [k \in Keys |-> None]
  <2>1. IInv /\ CompactAt("idle")
    BY InitIInv DEF Init, NoCompaction, CompactAt
  <2>2. \A k \in Keys : Visible(applied[k]) = None
    BY DEF Init, Visible
  <2> QED  BY <2>1, <2>2, StoreIs
<1>2. AbsPending = [t \in Writers |-> Store!NoWrite]
  <2>1. \A t \in Writers : PendingOf(writer[t]) = Store!NoWrite
    BY NothingPending DEF Init, IdleWriter, BeforeEffect
  <2> QED  BY <2>1, AbsIs
<1>3. AbsReading = [r \in Readers |-> Store!Idle]
  <2>1. ReadingOf(NotReading) = Store!Idle
    <3>1. {Visible(v) : v \in {}} = {} /\ Visible(None) = None
      BY DEF Visible
    <3>2. /\ NotReading.pc = "idle" /\ NotReading.key = None /\ NotReading.seen = {}
          /\ NotReading.result = None
      BY DEF NotReading
    <3> QED  BY <3>1, <3>2 DEF ReadingOf, Store!Idle, Searching
  <2>2. \A r \in Readers : ReadingOf(reader[r]) = Store!Idle
    BY <2>1 DEF Init
  <2> QED  BY <2>2, AbsIs
<1> QED  BY <1>1, <1>2, <1>3 DEF Store!Init, AbsStore, AbsPending, AbsReading

-----------------------------------------------------------------------------
(* The theorem *)

\* The assumption of the theorem: there are never enough SSTables on level 0 for
\* flush to start a compaction.
NoCompactionStarts == []CompactAt("idle")

\* The engine is the store its clients expect: rotations, flushes, failing ones
\* too, and the search of a snapshot that a get takes between them
\* (engine.py:150-165) are not seen, each write takes effect at once and for all
\* keys of a batch, and each get returns a value that was current during it.
THEOREM EngineIsAStore ==
  ASSUME ClockAdvances
  PROVE  Spec /\ NoCompactionStarts => ImplementsKVStore
<1> DEFINE Inv == IInv /\ DInv /\ RInv
<1>1. Init => Inv /\ Store!Init
  BY InitIInv, InitDInv, InitRInv, InitRefines
<1>2. Inv /\ CompactAt("idle") /\ CompactAt("idle")' /\ [Next]_vars
      => Inv' /\ [Store!Next]_(Store!vars)
  <2> SUFFICES ASSUME Inv, CompactAt("idle"), CompactAt("idle")', [Next]_vars
               PROVE  Inv' /\ [Store!Next]_(Store!vars)
    OBVIOUS
  <2>1. IInv' /\ DInv'
    BY NextBoth
  <2>2. RInv'
    BY NextRInv
  <2>3. [Store!Next]_(Store!vars)
    BY <2>1, NextRefines
  <2> QED  BY <2>1, <2>2, <2>3
<1> HIDE DEF Inv
<1> QED  BY <1>1, <1>2, PTL DEF Spec, NoCompactionStarts, ImplementsKVStore, Store!Spec

-----------------------------------------------------------------------------
(* What a range may still find *)

RangePCs == {"idle", "missed", "searching", "indexed", "done", "raised"}

\* The values of k that range x is witness to.
Had(x, k) == {view[k] : view \in x.views}

IsRange(x) ==
  /\ x = [pc |-> x.pc, span |-> x.span, found |-> x.found, todo |-> x.todo,
          index |-> x.index, views |-> x.views]
  /\ x.pc \in RangePCs
  /\ x.span \subseteq Keys

\* Range x, with MemTable m, levels of the manifest and files fs: what it has
\* found it is witness to, and so it is to whatever the rest of the search is to
\* find for the other keys.
RangeOK(x, m, levels, fs) ==
  /\ IsRange(x)
  /\ \A k \in x.span : k \in DOMAIN x.found => x.found[k] \in Had(x, k)
  /\ \A k \in x.span : k \notin DOMAIN x.found =>
       /\ x.pc = "missed" =>
            MemSeen(m, k, Had(x, k)) /\ SearchLevels(fs, levels, k) \in Had(x, k)
       /\ x.pc \in {"searching", "indexed"} => SearchLevels(fs, x.todo, k) \in Had(x, k)
       /\ x.pc = "done" => None \in Had(x, k)
  /\ x.pc \in {"searching", "indexed"} =>
       x.todo \in LevelSets /\ x.todo[0] \subseteq levels[0] /\ x.todo[1] \subseteq levels[1]
  /\ x.pc = "indexed" =>
       x.todo # NoLevels /\ x.index = {k \in x.span : Holds(fs, EntryOf(x).path, k)}

RgInv ==
  /\ range = [r \in Readers |-> range[r]]
  /\ \A r \in Readers : RangeOK(range[r], mem, manifest.mem, files)

-----------------------------------------------------------------------------
(* The steps of the engine *)

\* A step of a writer brings no value of k to the buffers but the one it makes
\* current.
LEMMA WriterSeen ==
  ASSUME IInv, NEW t \in Writers, WriterCalls(t) \/ WriterReturns(t), NEW k \in Keys, NEW S,
         MemSeen(mem, k, S), applied'[k] \in S
  PROVE  MemSeen(mem', k, S)
<1>1. ASSUME NEW pairs, Apply(pairs), k \in BatchKeys(pairs) PROVE BatchValue(pairs, k) \in S
  <2>1. applied'[k] = BatchValue(pairs, k)
    BY <1>1 DEF Apply, Applied
  <2> QED  BY <2>1
<1>2. CASE PutApply(t)
  BY <1>1, <1>2, PutSeen DEF PutApply
<1>3. CASE DeleteApply(t)
  BY <1>1, <1>3, DeleteSeen DEF DeleteApply
<1>4. CASE BatchApply(t)
  BY <1>1, <1>4, BatchSeen DEF BatchApply
<1>5. CASE DeleteSetOffset(t)
  BY <1>5, RaiseOffsetMem DEF DeleteSetOffset, IInv, Shapes, MemSeen
<1>6. CASE mem' = mem
  BY <1>6
<1> QED
  BY <1>2, <1>3, <1>4, <1>5, <1>6
  DEF WriterCalls, WriterReturns, Put, Delete, BatchPut, SpawnFlush, BatchMeasure,
      BatchReject, BatchLog

\* What a step of the engine brings to a buffer or to disk is what was in a buffer
\* or on disk, or what it makes current; and no entry goes.
Brings ==
  /\ manifest.mem[0] \subseteq manifest'.mem[0]
  /\ manifest.mem[1] \subseteq manifest'.mem[1]
  /\ \A k \in Keys : \A S :
       MemSeen(mem, k, S) /\ SearchLevels(files, manifest.mem, k) \in S /\ applied'[k] \in S =>
         MemSeen(mem', k, S) /\ SearchLevels(files', manifest'.mem, k) \in S

LEMMA LevelsBring ==
  ASSUME NamedFilesStay, manifest'.mem = manifest.mem,
         \A k \in Keys : \A S : MemSeen(mem, k, S) /\ applied'[k] \in S => MemSeen(mem', k, S)
  PROVE  Brings
BY LevelsStay DEF Brings

LEMMA NextBrings ==
  ASSUME ClockAdvances, IInv, DInv, CompactAt("idle"), [Next]_vars
  PROVE  Brings
<1>1. NamedFilesStay /\ ~CompactionNext
  BY NextBoth, NoCompactor
<1>2. ASSUME NEW t \in Writers, WriterCalls(t) \/ WriterReturns(t) PROVE Brings
  <2>1. manifest' = manifest
    BY <1>2
    DEF WriterCalls, WriterReturns, Put, Delete, BatchPut, PutApply, SpawnFlush, DeleteApply,
        DeleteSetOffset, BatchMeasure, BatchReject, BatchLog, BatchApply, compactionVars
  <2> QED  BY <1>1, <1>2, <2>1, WriterSeen, LevelsBring
<1>3. CASE FlushInstall \/ FlushInstallFails
  BY <1>3, InstallSeen DEF Brings
<1>4. CASE FlushClear
  <2>1. /\ mem' = ClearFrozen(mem) /\ IsMem(mem) /\ mem.frozen # <<>>
        /\ manifest' = manifest
    BY <1>4 DEF FlushClear, FlushAt, compactionVars, IInv, Shapes, FlushOK
  <2> QED  BY <1>1, <2>1, ClearSeen, LevelsBring
<1>5. CASE FlushSave \/ FlushSaveFails
  <2>1. Save(manifest).mem = manifest.mem
    BY DEF Save, IInv, Shapes
  <2>2. manifest'.mem = manifest.mem /\ mem' = mem
    BY <1>5, <2>1 DEF FlushSave, FlushSaveFails, SaveRaised
  <2> QED  BY <1>1, <2>2, LevelsBring
<1>6. CASE mem' = mem /\ manifest' = manifest
  BY <1>1, <1>6, LevelsBring
<1>7. CASE Flusher
  BY <1>3, <1>4, <1>5, <1>6, <1>7
  DEF Flusher, FlushNothing, FlushTake, FlushStep, FlushWrite, FlushWriteFails, FlushTruncate,
      FlushTruncateFails, FlushCompact, compactionVars
<1>8. ASSUME NEW r \in Readers, ReaderStep(r) PROVE Brings
  BY <1>6, <1>8 DEF ReaderStep, Get, GetSnapshot, GetProbe, GetRead, compactionVars
<1>9. CASE FlushAllCall \/ FlushAllLoop \/ UNCHANGED vars
  BY <1>6, <1>9 DEF FlushAllCall, FlushAllLoop, vars, engineVars, compactionVars
<1> QED  BY <1>1, <1>2, <1>7, <1>8, <1>9 DEF Next, Compactor

\* A range goes on where it was, and is witness to one state more.
LEMMA RangeStays ==
  ASSUME IInv, NamedFilesStay, Brings, NEW x, RangeOK(x, mem, manifest.mem, files),
         NEW y, IsRange(y), y.pc = x.pc, y.span = x.span, y.found = x.found, y.todo = x.todo,
         y.index = x.index, x.views \subseteq y.views,
         x.pc = "missed" => applied' \in y.views
  PROVE  RangeOK(y, mem', manifest'.mem, files')
<1>1. \A k : Had(x, k) \subseteq Had(y, k)
  BY DEF Had
<1>2. ASSUME NEW k \in x.span, k \notin DOMAIN x.found, x.pc = "missed"
      PROVE  MemSeen(mem', k, Had(y, k)) /\ SearchLevels(files', manifest'.mem, k) \in Had(y, k)
  <2>1. MemSeen(mem, k, Had(x, k)) /\ SearchLevels(files, manifest.mem, k) \in Had(x, k)
    BY <1>2 DEF RangeOK
  <2>2. MemSeen(mem, k, Had(y, k)) /\ SearchLevels(files, manifest.mem, k) \in Had(y, k)
    BY <1>1, <2>1 DEF MemSeen, QueueSeen
  <2>3. applied'[k] \in Had(y, k) /\ k \in Keys
    BY <1>2 DEF Had, RangeOK, IsRange
  <2> QED  BY <2>2, <2>3 DEF Brings
<1>3. CASE x.pc \in {"searching", "indexed"}
  <2>1. /\ x.todo \in LevelSets
        /\ x.todo[0] \subseteq manifest.mem[0] /\ x.todo[1] \subseteq manifest.mem[1]
    BY <1>3 DEF RangeOK
  <2>2. \A k : SearchLevels(files', x.todo, k) = SearchLevels(files, x.todo, k)
    BY <2>1, FilesSearch
  <2>3. ASSUME x.pc = "indexed"
        PROVE  /\ x.todo # NoLevels
               /\ y.index = {k \in y.span : Holds(files', EntryOf(y).path, k)}
    <3>1. x.todo # NoLevels /\ x.index = {k \in x.span : Holds(files, EntryOf(x).path, k)}
      BY <2>3 DEF RangeOK
    <3>2. /\ FilesOK(files) /\ clock \in Int
          /\ Dated(x.todo[0], clock) /\ Dated(x.todo[1], clock)
      BY <2>1, SnapshotDated
    <3>3. LevelOf(x) \in Levels /\ EntryOf(x) \in x.todo[LevelOf(x)]
      BY <2>1, <3>1, <3>2, SearchesGoOn
    <3>4. SameFile(EntryOf(x).path)
      BY <2>1, <3>3, TwoLevels DEF NamedFilesStay
    <3>5. \A k : Holds(files', EntryOf(x).path, k) <=> Holds(files, EntryOf(x).path, k)
      BY <3>4 DEF Holds, SameFile, SameIn
    <3>6. EntryOf(y) = EntryOf(x)
      BY DEF EntryOf, LevelOf
    <3> QED  BY <3>1, <3>5, <3>6
  <2>4. manifest.mem[0] \subseteq manifest'.mem[0] /\ manifest.mem[1] \subseteq manifest'.mem[1]
    BY DEF Brings
  <2> QED  BY <1>1, <1>3, <2>1, <2>2, <2>3, <2>4 DEF RangeOK
<1>4. CASE x.pc \notin {"searching", "indexed"}
  BY <1>1, <1>2, <1>4 DEF RangeOK
<1> QED  BY <1>3, <1>4

\* The engine moves.
LEMMA EngineRanges ==
  ASSUME IInv, RgInv, NamedFilesStay, Brings, EngineStep
  PROVE  RgInv'
<1>1. range' = [r \in Readers |->
                  IF range[r].pc \in {"idle", "done", "raised"} THEN range[r]
                  ELSE [range[r] EXCEPT !.views = @ \cup {applied'}]]
  BY DEF EngineStep
<1> SUFFICES ASSUME NEW r \in Readers
             PROVE  RangeOK(range'[r], mem', manifest'.mem, files')
  BY <1>1 DEF RgInv
<1> DEFINE x == range[r]
           views == x.views \cup {applied'}
           y == [x EXCEPT !.views = views]
<1>2. RangeOK(x, mem, manifest.mem, files)
  BY DEF RgInv
<1>3. range'[r] = IF x.pc \in {"idle", "done", "raised"} THEN x ELSE y
  BY <1>1
<1> HIDE DEF x
<1>4. IsRange(x)
  BY <1>2 DEF RangeOK
<1>5. CASE x.pc \in {"idle", "done", "raised"}
  <2>1. RangeOK(x, mem', manifest'.mem, files')
    BY <1>2, <1>4, <1>5, RangeStays
  <2> QED  BY <1>3, <1>5, <2>1
<1>6. CASE x.pc \notin {"idle", "done", "raised"}
  <2>1. y = [pc |-> x.pc, span |-> x.span, found |-> x.found, todo |-> x.todo,
             index |-> x.index, views |-> views]
    <3> HIDE DEF views
    <3> QED  BY <1>4 DEF IsRange
  <2>2. x.views \subseteq views /\ applied' \in views
    OBVIOUS
  <2>3. range'[r] = y
    BY <1>3, <1>6
  <2> HIDE DEF y, views
  <2>4. /\ IsRange(y) /\ y.pc = x.pc /\ y.span = x.span /\ y.found = x.found
        /\ y.todo = x.todo /\ y.index = x.index /\ y.views = views
    BY <1>4, <2>1 DEF IsRange
  <2>5. RangeOK(y, mem', manifest'.mem, files')
    BY <1>2, <2>2, <2>4, RangeStays
  <2> QED  BY <2>3, <2>5
<1> QED  BY <1>5, <1>6

-----------------------------------------------------------------------------
(* The steps of the ranges *)

\* One range moves.
LEMMA RangeMoves ==
  ASSUME RgInv, UNCHANGED vars, NEW r \in Readers, NEW y,
         range' = [range EXCEPT ![r] = y], RangeOK(y, mem, manifest.mem, files)
  PROVE  RgInv'
<1>1. /\ range' = [s \in Readers |-> range'[s]]
      /\ range'[r] = y
      /\ \A s \in Readers : s # r => range'[s] = range[s]
  BY DEF RgInv
<1>2. UNCHANGED <<mem, manifest, files>>
  BY DEF vars, engineVars, compactionVars
<1>3. ASSUME NEW s \in Readers PROVE RangeOK(range'[s], mem', manifest'.mem, files')
  <2>1. RangeOK(range'[s], mem, manifest.mem, files)
    <3>1. CASE s = r
      BY <1>1, <3>1
    <3>2. CASE s # r
      BY <1>1, <3>2 DEF RgInv
    <3> QED  BY <3>1, <3>2
  <2> QED  BY <1>2, <2>1
<1> QED  BY <1>1, <1>3 DEF RgInv

\* The locals of a range, written out.
Locals(pc, span, found, todo, index, views) ==
  [pc |-> pc, span |-> span, found |-> found, todo |-> todo, index |-> index, views |-> views]

LEMMA LocalsAre ==
  ASSUME NEW pc \in RangePCs, NEW span \in SUBSET Keys, NEW found, NEW todo, NEW index,
         NEW views, NEW y, y = Locals(pc, span, found, todo, index, views)
  PROVE  /\ IsRange(y) /\ y.pc = pc /\ y.span = span /\ y.found = found /\ y.todo = todo
         /\ y.index = index /\ y.views = views
BY DEF Locals, IsRange

\* memtable.get_range: what it finds is current, and of a key it does not find no
\* buffer has a value, so that what is current is on disk.
LEMMA RangeMemKeeps ==
  ASSUME IInv, RgInv, CompactAt("idle"), NEW r \in Readers, NEW span \in Spans, RangeMem(r, span)
  PROVE  RgInv'
<1> DEFINE found == MemRange(mem, span)
           y == Locals("missed", span, found, NoLevels, {}, {applied})
<1>1. range' = [range EXCEPT ![r] = y] /\ UNCHANGED vars
  <2> DEFINE a == [NoRange EXCEPT !.pc = "missed"]
             b == [a EXCEPT !.span = span]
             c == [b EXCEPT !.found = found]
             d == [c EXCEPT !.views = {applied}]
  <2>1. a = Locals("missed", {}, EmptyTable, NoLevels, {}, {})
    BY DEF NoRange, Locals
  <2>2. b = Locals("missed", span, EmptyTable, NoLevels, {}, {})
    <3> HIDE DEF a
    <3> QED  BY <2>1 DEF Locals
  <2>3. c = Locals("missed", span, found, NoLevels, {}, {})
    <3> HIDE DEF b, found
    <3> QED  BY <2>2 DEF Locals
  <2>4. d = y
    <3> HIDE DEF c, found
    <3> QED  BY <2>3 DEF Locals
  <2>5. range' = [range EXCEPT ![r] = d] /\ UNCHANGED vars
    BY DEF RangeMem
  <2> HIDE DEF d, y
  <2> QED  BY <2>4, <2>5
<1>2. span \in SUBSET Keys /\ "missed" \in RangePCs
  BY RangesAssumption DEF RangePCs
<1>3. /\ DOMAIN found = {k \in span : MemGet(mem, k) # None}
      /\ \A k \in DOMAIN found : found[k] = MemGet(mem, k)
  BY DEF MemRange
<1> HIDE DEF found
<1>4. /\ IsRange(y) /\ y.pc = "missed" /\ y.span = span /\ y.found = found
      /\ y.todo = NoLevels /\ y.index = {} /\ y.views = {applied}
  <2> HIDE DEF y
  <2>1. y = Locals("missed", span, found, NoLevels, {}, {applied})
    BY DEF y
  <2> QED  BY <1>2, <2>1, LocalsAre
<1> HIDE DEF y
<1>5. \A k : Had(y, k) = {applied[k]}
  BY <1>4 DEF Had
<1>6. ASSUME NEW k \in span, MemGet(mem, k) # None PROVE MemGet(mem, k) = applied[k]
  BY <1>2, <1>6 DEF IInv, NothingLost
<1>7. ASSUME NEW k \in span, MemGet(mem, k) = None
      PROVE  MemSeen(mem, k, {applied[k]}) /\ SearchLevels(files, manifest.mem, k) = applied[k]
  <2>1. IsMem(mem) /\ applied[k] = OnDisk(k)
    BY <1>2, <1>7 DEF IInv, Shapes, NothingLost
  <2> QED  BY <1>7, <2>1, AllCounts, NowhereSeen
<1>8. RangeOK(y, mem, manifest.mem, files)
  BY <1>3, <1>4, <1>5, <1>6, <1>7 DEF RangeOK
<1> QED  BY <1>1, <1>8, RangeMoves

\* get_overlapping_sstables: what the search is to find is what it would find now.
LEMMA RangeSnapshotKeeps ==
  ASSUME IInv, RgInv, NEW r \in Readers, RangeSnapshot(r)
  PROVE  RgInv'
<1> DEFINE x == range[r]
           a == [x EXCEPT !.pc = "searching"]
           y == [a EXCEPT !.todo = manifest.mem]
<1>1. /\ RangeOK(x, mem, manifest.mem, files) /\ x.pc = "missed"
      /\ range = [s \in Readers |-> range[s]]
  BY DEF RgInv, RangeSnapshot, RangeAt
<1>2. range' = [range EXCEPT ![r] = y] /\ UNCHANGED vars
  <2>1. range' = [range EXCEPT ![r].pc = "searching", ![r].todo = manifest.mem]
    BY DEF RangeSnapshot
  <2> QED  BY <1>1, <2>1 DEF RangeSnapshot
<1> HIDE DEF x
<1>3. x = Locals(x.pc, x.span, x.found, x.todo, x.index, x.views) /\ x.span \in SUBSET Keys
  BY <1>1 DEF RangeOK, IsRange, Locals
<1>4. y = Locals("searching", x.span, x.found, manifest.mem, x.index, x.views)
  <2>1. a = Locals("searching", x.span, x.found, x.todo, x.index, x.views)
    BY <1>3 DEF Locals
  <2> HIDE DEF a
  <2> QED  BY <2>1 DEF Locals
<1> HIDE DEF y
<1>5. /\ IsRange(y) /\ y.pc = "searching" /\ y.span = x.span /\ y.found = x.found
      /\ y.todo = manifest.mem /\ y.index = x.index /\ y.views = x.views
  <2>1. "searching" \in RangePCs
    BY DEF RangePCs
  <2> QED  BY <1>3, <1>4, <2>1, LocalsAre
<1>6. manifest.mem \in LevelSets
  BY DEF IInv, Shapes
<1>7. \A k : Had(y, k) = Had(x, k)
  BY <1>5 DEF Had
<1>8. RangeOK(y, mem, manifest.mem, files)
  BY <1>1, <1>5, <1>6, <1>7 DEF RangeOK
<1> QED  BY <1>2, <1>8, RangeMoves

\* The next entry of a search under way.
LEMMA RangeGoesOn ==
  ASSUME IInv, NEW x, RangeOK(x, mem, manifest.mem, files), x.pc \in {"searching", "indexed"},
         x.todo # NoLevels
  PROVE  /\ RestOf(x) \in LevelSets
         /\ RestOf(x)[0] \subseteq manifest.mem[0] /\ RestOf(x)[1] \subseteq manifest.mem[1]
         /\ \A k \in x.span : k \notin DOMAIN x.found =>
              /\ Holds(files, EntryOf(x).path, k) => files[EntryOf(x).path][k] \in Had(x, k)
              /\ ~Holds(files, EntryOf(x).path, k) =>
                   SearchLevels(files, RestOf(x), k) \in Had(x, k)
<1>1. /\ x.todo \in LevelSets
      /\ x.todo[0] \subseteq manifest.mem[0] /\ x.todo[1] \subseteq manifest.mem[1]
      /\ \A k \in x.span : k \notin DOMAIN x.found =>
           SearchLevels(files, x.todo, k) \in Had(x, k)
  BY DEF RangeOK
<1>2. /\ RestOf(x) \in LevelSets
      /\ RestOf(x)[0] \subseteq x.todo[0] /\ RestOf(x)[1] \subseteq x.todo[1]
  BY <1>1, SnapshotGoesOn
<1>3. \A k : /\ Holds(files, EntryOf(x).path, k) =>
                  SearchLevels(files, x.todo, k) = files[EntryOf(x).path][k]
             /\ ~Holds(files, EntryOf(x).path, k) =>
                  SearchLevels(files, RestOf(x), k) = SearchLevels(files, x.todo, k)
  BY <1>1, SnapshotGoesOn
<1>4. \A k \in x.span : k \notin DOMAIN x.found =>
        /\ Holds(files, EntryOf(x).path, k) => files[EntryOf(x).path][k] \in Had(x, k)
        /\ ~Holds(files, EntryOf(x).path, k) =>
             SearchLevels(files, RestOf(x), k) \in Had(x, k)
  BY <1>1, <1>3
<1>5. RestOf(x)[0] \subseteq manifest.mem[0] /\ RestOf(x)[1] \subseteq manifest.mem[1]
  BY <1>1, <1>2
<1> QED  BY <1>2, <1>4, <1>5

\* The names of Ranges and of StoreProofs for the entry a range has come to.
LEMMA EntryIs ==
  ASSUME NEW r \in Readers
  PROVE  /\ RangeEntry(r) = EntryOf(range[r])
         /\ WithoutEntry(r) = RestOf(range[r])
BY DEF RangeEntry, RangeLevel, WithoutEntry, EntryOf, LevelOf, RestOf

\* range_scan's index: the keys of the span that are in the file; without any, the
\* search goes on.
LEMMA RangeIndexKeeps ==
  ASSUME IInv, RgInv, NEW r \in Readers, RangeIndex(r)
  PROVE  RgInv'
<1> DEFINE x == range[r]
           e == EntryOf(x)
           rest == RestOf(x)
           index == {k \in x.span : Holds(files, e.path, k)}
           pc == IF index = {} THEN "searching" ELSE "indexed"
           left == IF index = {} THEN rest ELSE x.todo
           keys == IF index = {} THEN x.index ELSE index
           y == Locals(pc, x.span, x.found, left, keys, x.views)
<1>1. /\ RangeOK(x, mem, manifest.mem, files) /\ x.pc = "searching" /\ x.todo # NoLevels
      /\ UNCHANGED vars
  BY DEF RgInv, RangeIndex, RangeAt
<1>2. range' = [range EXCEPT ![r] =
                  IF index = {} THEN [x EXCEPT !.todo = rest]
                  ELSE [x EXCEPT !.pc = "indexed", !.index = index]]
  BY EntryIs DEF RangeIndex
<1> HIDE DEF x
<1>3. x = Locals(x.pc, x.span, x.found, x.todo, x.index, x.views) /\ x.span \in SUBSET Keys
  BY <1>1 DEF RangeOK, IsRange, Locals
<1>4. (IF index = {} THEN [x EXCEPT !.todo = rest]
       ELSE [x EXCEPT !.pc = "indexed", !.index = index]) = y
  <2>1. CASE index = {}
    <3> HIDE DEF rest
    <3>1. [x EXCEPT !.todo = rest] = Locals(x.pc, x.span, x.found, rest, x.index, x.views)
      BY <1>3 DEF Locals
    <3>2. y = Locals(x.pc, x.span, x.found, rest, x.index, x.views)
      BY <1>1, <2>1
    <3> QED  BY <2>1, <3>1, <3>2
  <2>2. CASE index # {}
    <3> DEFINE a == [x EXCEPT !.pc = "indexed"]
    <3>1. a = Locals("indexed", x.span, x.found, x.todo, x.index, x.views)
      BY <1>3 DEF Locals
    <3>2. [a EXCEPT !.index = index] =
            Locals("indexed", x.span, x.found, x.todo, index, x.views)
      <4> HIDE DEF a, index
      <4> QED  BY <3>1 DEF Locals
    <3>3. y = Locals("indexed", x.span, x.found, x.todo, index, x.views)
      BY <2>2
    <3> QED  BY <2>2, <3>2, <3>3
  <2> QED  BY <2>1, <2>2
<1>5. /\ IsRange(y) /\ y.pc = pc /\ y.span = x.span /\ y.found = x.found
      /\ y.todo = left /\ y.index = keys /\ y.views = x.views
  <2>1. pc \in RangePCs
    BY DEF RangePCs
  <2> HIDE DEF y, pc, left, keys
  <2>2. y = Locals(pc, x.span, x.found, left, keys, x.views)
    BY DEF y
  <2> QED  BY <1>3, <2>1, <2>2, LocalsAre
<1>6. range' = [range EXCEPT ![r] = y]
  BY <1>2, <1>4
<1> HIDE DEF y
<1>7. \A k : Had(y, k) = Had(x, k)
  BY <1>5 DEF Had
<1>8. /\ rest \in LevelSets /\ rest[0] \subseteq manifest.mem[0] /\ rest[1] \subseteq manifest.mem[1]
      /\ \A k \in x.span : k \notin DOMAIN x.found /\ ~Holds(files, e.path, k) =>
           SearchLevels(files, rest, k) \in Had(x, k)
  BY <1>1, RangeGoesOn
<1> HIDE DEF rest
<1>9. RangeOK(y, mem, manifest.mem, files)
  <2>1. CASE index = {}
    <3>1. \A k \in x.span : ~Holds(files, e.path, k)
      BY <2>1
    <3>2. y.pc = "searching" /\ y.todo = rest
      BY <1>5, <2>1
    <3> QED  BY <1>1, <1>5, <1>7, <1>8, <3>1, <3>2 DEF RangeOK
  <2>2. CASE index # {}
    <3>1. y.pc = "indexed" /\ y.todo = x.todo /\ y.index = index
      BY <1>5, <2>2
    <3>2. EntryOf(y) = e
      BY <3>1 DEF EntryOf, LevelOf
    <3> QED  BY <1>1, <1>5, <1>7, <3>1, <3>2 DEF RangeOK
  <2> QED  BY <2>1, <2>2
<1> QED  BY <1>1, <1>6, <1>9, RangeMoves

\* The read: of the keys in the index, those not found before get the file's value,
\* which the search was to find; the others are not in the file.
LEMMA RangeReadKeeps ==
  ASSUME IInv, RgInv, NEW r \in Readers, RangeRead(r)
  PROVE  RgInv'
<1> DEFINE x == range[r]
           e == EntryOf(x)
           rest == RestOf(x)
           found == [k \in DOMAIN x.found \cup x.index |->
                       IF k \in DOMAIN x.found THEN x.found[k] ELSE files[e.path][k]]
           a == [x EXCEPT !.pc = "searching"]
           b == [a EXCEPT !.index = {}]
           c == [b EXCEPT !.todo = rest]
           d == [c EXCEPT !.found = found]
           y == IF e.path \notin DOMAIN files THEN [x EXCEPT !.pc = "raised"] ELSE d
<1>1. /\ RangeOK(x, mem, manifest.mem, files) /\ x.pc = "indexed" /\ UNCHANGED vars
  BY DEF RgInv, RangeRead, RangeAt
<1>2. range' = [range EXCEPT ![r] = y]
  BY EntryIs DEF RangeRead
<1> HIDE DEF x
<1>3. x = Locals(x.pc, x.span, x.found, x.todo, x.index, x.views) /\ x.span \in SUBSET Keys
  BY <1>1 DEF RangeOK, IsRange, Locals
<1>4. x.todo # NoLevels /\ x.index = {k \in x.span : Holds(files, e.path, k)}
  BY <1>1 DEF RangeOK
<1>5. /\ rest \in LevelSets /\ rest[0] \subseteq manifest.mem[0] /\ rest[1] \subseteq manifest.mem[1]
      /\ \A k \in x.span : k \notin DOMAIN x.found =>
           /\ Holds(files, e.path, k) => files[e.path][k] \in Had(x, k)
           /\ ~Holds(files, e.path, k) => SearchLevels(files, rest, k) \in Had(x, k)
  BY <1>1, <1>4, RangeGoesOn
<1>6. CASE e.path \notin DOMAIN files
  <2>1. y = Locals("raised", x.span, x.found, x.todo, x.index, x.views)
    BY <1>3, <1>6 DEF Locals
  <2> HIDE DEF y
  <2>2. /\ IsRange(y) /\ y.pc = "raised" /\ y.span = x.span /\ y.found = x.found
        /\ y.todo = x.todo /\ y.index = x.index /\ y.views = x.views
    <3>1. "raised" \in RangePCs
      BY DEF RangePCs
    <3> QED  BY <1>3, <2>1, <3>1, LocalsAre
  <2>3. \A k : Had(y, k) = Had(x, k)
    BY <2>2 DEF Had
  <2>4. RangeOK(y, mem, manifest.mem, files)
    BY <1>1, <2>2, <2>3 DEF RangeOK
  <2> QED  BY <1>1, <1>2, <2>4, RangeMoves
<1>7. CASE e.path \in DOMAIN files
  <2>1. y = d
    BY <1>7
  <2>2. d = Locals("searching", x.span, found, rest, {}, x.views)
    <3>1. a = Locals("searching", x.span, x.found, x.todo, x.index, x.views)
      BY <1>3 DEF Locals
    <3>2. b = Locals("searching", x.span, x.found, x.todo, {}, x.views)
      <4> HIDE DEF a
      <4> QED  BY <3>1 DEF Locals
    <3>3. c = Locals("searching", x.span, x.found, rest, {}, x.views)
      <4> HIDE DEF b, rest
      <4> QED  BY <3>2 DEF Locals
    <3> HIDE DEF c, found, rest
    <3> QED  BY <3>3 DEF Locals
  <2>3. /\ DOMAIN found = DOMAIN x.found \cup x.index
        /\ \A k \in DOMAIN found :
             found[k] = IF k \in DOMAIN x.found THEN x.found[k] ELSE files[e.path][k]
    OBVIOUS
  <2> HIDE DEF d, found, rest
  <2> HIDE DEF y
  <2>4. /\ IsRange(y) /\ y.pc = "searching" /\ y.span = x.span /\ y.found = found
        /\ y.todo = rest /\ y.index = {} /\ y.views = x.views
    <3>1. "searching" \in RangePCs
      BY DEF RangePCs
    <3> QED  BY <1>3, <2>1, <2>2, <3>1, LocalsAre
  <2>5. \A k : Had(y, k) = Had(x, k)
    BY <2>4 DEF Had
  <2>6. \A k \in x.span : k \in DOMAIN found => found[k] \in Had(x, k)
    BY <1>1, <1>4, <1>5, <2>3 DEF RangeOK
  <2>7. \A k \in x.span : k \notin DOMAIN found => SearchLevels(files, rest, k) \in Had(x, k)
    BY <1>4, <1>5, <2>3
  <2>8. RangeOK(y, mem, manifest.mem, files)
    BY <1>5, <2>4, <2>5, <2>6, <2>7 DEF RangeOK
  <2> QED  BY <1>1, <1>2, <2>8, RangeMoves
<1> QED  BY <1>6, <1>7

\* The end of the search: what has not been found is nowhere.
LEMMA RangeReturnKeeps ==
  ASSUME IInv, RgInv, NEW r \in Readers, RangeReturn(r)
  PROVE  RgInv'
<1> DEFINE x == range[r]
           y == [x EXCEPT !.pc = "done"]
<1>1. /\ RangeOK(x, mem, manifest.mem, files) /\ x.pc = "searching" /\ x.todo = NoLevels
      /\ range = [s \in Readers |-> range[s]] /\ UNCHANGED vars
  BY DEF RgInv, RangeReturn, RangeAt
<1>2. range' = [range EXCEPT ![r] = y]
  BY <1>1 DEF RangeReturn
<1> HIDE DEF x
<1>3. x = Locals(x.pc, x.span, x.found, x.todo, x.index, x.views) /\ x.span \in SUBSET Keys
  BY <1>1 DEF RangeOK, IsRange, Locals
<1>4. y = Locals("done", x.span, x.found, x.todo, x.index, x.views)
  BY <1>3 DEF Locals
<1> HIDE DEF y
<1>5. /\ IsRange(y) /\ y.pc = "done" /\ y.span = x.span /\ y.found = x.found /\ y.views = x.views
  <2>1. "done" \in RangePCs
    BY DEF RangePCs
  <2> QED  BY <1>3, <1>4, <2>1, LocalsAre
<1>6. \A k : SearchLevels(files, NoLevels, k) = None
  BY TwoLevels DEF SearchLevels, SearchLevel, FirstHit, NoLevels
<1>7. \A k : Had(y, k) = Had(x, k)
  BY <1>5 DEF Had
<1>8. RangeOK(y, mem, manifest.mem, files)
  BY <1>1, <1>5, <1>6, <1>7 DEF RangeOK
<1> QED  BY <1>1, <1>2, <1>8, RangeMoves

-----------------------------------------------------------------------------
(* The theorems *)

\* Nobody ranges yet.
LEMMA InitRgInv == RangesInit => RgInv
<1> SUFFICES ASSUME RangesInit, NEW r \in Readers
             PROVE  RangeOK(range[r], mem, manifest.mem, files)
  BY DEF RangesInit, RgInv
<1>1. range[r] = Locals("idle", {}, EmptyTable, NoLevels, {}, {})
  BY DEF RangesInit, NoRange, Locals
<1>2. IsRange(range[r]) /\ range[r].pc = "idle" /\ range[r].span = {}
  <2>1. "idle" \in RangePCs /\ {} \in SUBSET Keys
    BY DEF RangePCs
  <2> QED  BY <1>1, <2>1, LocalsAre
<1> QED  BY <1>2 DEF RangeOK

\* A range changes nothing of the engine's.
LEMMA RangesStep == [RangesNext]_rangeVars => [Next]_vars
BY DEF RangesNext, rangeVars, EngineStep, RangeStep, RangeMem, RangeSnapshot, RangeIndex,
       RangeRead, RangeReturn

\* Every step.
LEMMA NextRgInv ==
  ASSUME ClockAdvances, IInv, DInv, RgInv, CompactAt("idle"), [RangesNext]_rangeVars
  PROVE  RgInv'
<1>1. CASE EngineStep
  BY <1>1, NextBoth, NextBrings, EngineRanges DEF EngineStep
<1>2. ASSUME NEW r \in Readers, RangeStep(r) PROVE RgInv'
  BY <1>2, RangeMemKeeps, RangeSnapshotKeeps, RangeIndexKeeps, RangeReadKeeps, RangeReturnKeeps
  DEF RangeStep
<1>3. CASE UNCHANGED rangeVars
  BY <1>3 DEF rangeVars, vars, engineVars, compactionVars, RgInv
<1> QED  BY <1>1, <1>2, <1>3 DEF RangesNext

\* read_key_range (engine.py:167-205) looks at the MemTable and at each SSTable at
\* different moments, with writes, rotations and flushes, failing ones too, in between:
\* for every key between its bounds it has a value, or the absence of one, that the
\* key had at some moment of the call.
THEOREM RangesAreRegularHold ==
  ASSUME ClockAdvances
  PROVE  RangesSpec /\ NoCompactionStarts => []RangesAreRegular
<1> DEFINE Inv == IInv /\ DInv /\ RgInv
<1>1. RangesInit => Inv
  BY InitIInv, InitDInv, InitRgInv DEF RangesInit
<1>2. Inv /\ CompactAt("idle") /\ [RangesNext]_rangeVars => Inv'
  BY RangesStep, NextBoth, NextRgInv
<1>3. Inv => RangesAreRegular
  <2> SUFFICES ASSUME RgInv, NEW r \in Readers, RangeAt(r, "done"), NEW k \in range[r].span
               PROVE  \E view \in range[r].views : RowOf(r, k) = Visible(view[k])
    BY DEF RangesAreRegular
  <2> DEFINE x == range[r]
  <2>1. RangeOK(x, mem, manifest.mem, files) /\ x.pc = "done"
    BY DEF RgInv, RangeAt
  <2>2. CASE k \in DOMAIN x.found
    <3>1. x.found[k] \in Had(x, k)
      BY <2>1, <2>2 DEF RangeOK
    <3> QED  BY <2>2, <3>1 DEF Had, RowOf
  <2>3. CASE k \notin DOMAIN x.found
    <3>1. None \in Had(x, k)
      BY <2>1, <2>3 DEF RangeOK
    <3>2. Visible(None) = None
      BY DEF Visible
    <3> QED  BY <2>3, <3>1, <3>2 DEF Had, RowOf
  <2> QED  BY <2>2, <2>3
<1> HIDE DEF Inv
<1> QED  BY <1>1, <1>2, <1>3, PTL DEF RangesSpec, NoCompactionStarts

\* Ranges change nothing that puts, deletes, batches and gets see: with them too
\* the engine is the store its clients expect.
THEOREM EngineWithRangesIsAStore ==
  ASSUME ClockAdvances
  PROVE  RangesSpec /\ NoCompactionStarts => ImplementsKVStore
<1>1. RangesInit => Init
  BY DEF RangesInit
<1>2. RangesSpec => Spec
  BY <1>1, RangesStep, PTL DEF RangesSpec, Spec
<1> QED  BY <1>2, EngineIsAStore

-----------------------------------------------------------------------------
(* The merge of a compaction: the order of the keys *)

\* Before is a strict order of the keys, of which there are finitely many.
LEMMA KeysInOrder ==
  /\ IsFiniteSet(Keys)
  /\ \A k \in Keys : ~Before(k, k)
  /\ \A k, l \in Keys : k = l \/ Before(k, l) \/ Before(l, k)
  /\ \A j, k, l \in Keys : Before(j, k) /\ Before(k, l) => Before(j, l)
<1> DEFINE n == Len(KeyOrder)
<1>1. n \in Nat /\ DOMAIN KeyOrder = 1..n /\ KeyOrder \in [1..n -> Keys]
  BY MergeAssumption, LenProperties
<1>2. \A i, j \in 1..n : KeyOrder[i] = KeyOrder[j] => i = j
  BY <1>1, MergeAssumption DEF IsInjective
<1>3. \A k \in Keys : \E i \in 1..n : KeyOrder[i] = k
  BY <1>1, MergeAssumption DEF ToSet
<1> HIDE DEF n
<1>4. IsFiniteSet(Keys)
  <2>1. KeyOrder \in Surjection(1..n, Keys)
    BY <1>1, <1>3 DEF Surjection
  <2>2. IsFiniteSet(1..n)
    BY <1>1, FS_Interval
  <2> QED  BY <2>1, <2>2, FS_Surjection
<1>5. ASSUME NEW i \in 1..n, NEW j \in 1..n
      PROVE  Before(KeyOrder[i], KeyOrder[j]) <=> i < j
  BY <1>1, <1>2, <1>5 DEF Before
<1>6. ASSUME NEW k \in Keys PROVE ~Before(k, k)
  <2>1. PICK i \in 1..n : KeyOrder[i] = k
    BY <1>3
  <2> QED  BY <1>1, <1>5, <2>1
<1>7. ASSUME NEW k \in Keys, NEW l \in Keys PROVE k = l \/ Before(k, l) \/ Before(l, k)
  <2>1. PICK i \in 1..n, j \in 1..n : KeyOrder[i] = k /\ KeyOrder[j] = l
    BY <1>3
  <2>2. i = j \/ i < j \/ j < i
    BY <1>1
  <2> QED  BY <1>5, <2>1, <2>2
<1>8. ASSUME NEW h \in Keys, NEW k \in Keys, NEW l \in Keys, Before(h, k), Before(k, l)
      PROVE  Before(h, l)
  <2>1. PICK g \in 1..n, i \in 1..n, j \in 1..n :
          KeyOrder[g] = h /\ KeyOrder[i] = k /\ KeyOrder[j] = l
    BY <1>3
  <2>2. g < i /\ i < j
    BY <1>5, <1>8, <2>1
  <2>3. g < j
    BY <1>1, <2>2
  <2> QED  BY <1>5, <2>1, <2>3
<1> QED  BY <1>4, <1>6, <1>7, <1>8

-----------------------------------------------------------------------------
(* The inputs of a merge *)

\* The keys of an input, in their order.
Ascending(ks) ==
  /\ ks \in Seq(Keys)
  /\ \A i, j \in DOMAIN ks : i < j => Before(ks[i], ks[j])

\* The first key comes before those that follow.
LEMMA HeadIsFirst ==
  ASSUME NEW ks, Ascending(ks), ks # <<>>
  PROVE  /\ Head(ks) \in Keys /\ Ascending(Tail(ks))
         /\ ToSet(ks) = ToSet(Tail(ks)) \cup {Head(ks)}
         /\ \A k \in ToSet(Tail(ks)) : k \in Keys /\ Before(Head(ks), k)
         /\ DOMAIN ks = DOMAIN Tail(ks) \cup {Len(ks)} /\ Len(ks) \notin DOMAIN Tail(ks)
<1> DEFINE t == Tail(ks)
<1>1. /\ Len(ks) \in Nat /\ Len(ks) # 0 /\ DOMAIN ks = 1..Len(ks)
      /\ \A i \in DOMAIN ks : ks[i] \in Keys
  BY LenProperties, ElementOfSeq, EmptySeq DEF Ascending
<1>2. t \in Seq(Keys) /\ Len(t) = Len(ks) - 1 /\ Head(ks) = ks[1]
      /\ \A i \in 1..Len(t) : t[i] = ks[i + 1]
  BY HeadTailProperties DEF Ascending
<1>3. DOMAIN t = 1..Len(t)
  BY <1>2, LenProperties
<1> HIDE DEF t
<1>4. \A i \in DOMAIN t : i + 1 \in DOMAIN ks /\ 1 < i + 1
  BY <1>1, <1>2, <1>3
<1>5. 1 \in DOMAIN ks
  BY <1>1
<1>6. \A i, j \in DOMAIN t : i < j => Before(t[i], t[j])
  <2> SUFFICES ASSUME NEW i \in DOMAIN t, NEW j \in DOMAIN t, i < j PROVE Before(t[i], t[j])
    OBVIOUS
  <2>1. i + 1 < j + 1 /\ i + 1 \in DOMAIN ks /\ j + 1 \in DOMAIN ks
    BY <1>1, <1>2, <1>3, <1>4
  <2> QED  BY <1>2, <1>3, <2>1 DEF Ascending
<1>7. ASSUME NEW i \in DOMAIN t PROVE t[i] \in Keys /\ Before(Head(ks), t[i])
  BY <1>1, <1>2, <1>3, <1>4, <1>5 DEF Ascending
<1>8. ToSet(ks) = ToSet(t) \cup {Head(ks)}
  <2>1. ASSUME NEW i \in DOMAIN ks PROVE ks[i] \in ToSet(t) \cup {Head(ks)}
    <3>1. CASE i = 1
      BY <1>2, <3>1
    <3>2. CASE i # 1
      <4>1. i - 1 \in DOMAIN t /\ i = (i - 1) + 1
        BY <1>1, <1>2, <1>3, <3>2
      <4>2. t[i - 1] = ks[i]
        BY <1>2, <1>3, <4>1
      <4> QED  BY <4>1, <4>2 DEF ToSet
    <3> QED  BY <3>1, <3>2
  <2>2. ASSUME NEW i \in DOMAIN t PROVE t[i] \in ToSet(ks)
    BY <1>2, <1>3, <1>4 DEF ToSet
  <2>3. Head(ks) \in ToSet(ks)
    BY <1>2, <1>5 DEF ToSet
  <2> QED  BY <2>1, <2>2, <2>3 DEF ToSet
<1>9. DOMAIN ks = DOMAIN t \cup {Len(ks)} /\ Len(ks) \notin DOMAIN t
  BY <1>1, <1>2, <1>3
<1> QED  BY <1>1, <1>2, <1>5, <1>6, <1>7, <1>8, <1>9 DEF t, ToSet, Ascending

\* The keys of an input are finitely many; it is empty when none is left.
LEMMA KeysOf ==
  ASSUME NEW ks, Ascending(ks)
  PROVE  ToSet(ks) \subseteq Keys /\ IsFiniteSet(DOMAIN ks) /\ (ks = <<>> <=> DOMAIN ks = {})
         /\ (ks = <<>> => ToSet(ks) = {})
<1>1. /\ Len(ks) \in Nat /\ DOMAIN ks = 1..Len(ks)
      /\ \A i \in DOMAIN ks : ks[i] \in Keys
  BY LenProperties, ElementOfSeq DEF Ascending
<1>2. IsFiniteSet(DOMAIN ks)
  BY <1>1, FS_Interval
<1>3. ks = <<>> <=> Len(ks) = 0
  BY EmptySeq, LenProperties DEF Ascending
<1>4. Len(ks) = 0 <=> 1..Len(ks) = {}
  BY <1>1
<1> QED  BY <1>1, <1>2, <1>3, <1>4 DEF ToSet

-----------------------------------------------------------------------------
(* The merge loop *)

\* The items of a merge: the keys each input has, in their order.
Items(items, m) ==
  /\ m \in Nat
  /\ items = [i \in 1..m |-> items[i]]
  /\ \A i \in 1..m : Ascending(items[i])

\* What the heap holds when cur is what is left of the inputs: their heads.
Heads(cur, m) == UNION {Item(cur[i], i) : i \in 1..m}

\* The items that are left.
Left(cur, m) == UNION {{i} \X DOMAIN cur[i] : i \in 1..m}

Slots(m) == [key : Keys, index : 1..m]

\* The first items of the inputs, as the heap has them.
LEMMA HeadsAre ==
  ASSUME NEW m, NEW cur, Items(cur, m)
  PROVE  /\ \A i \in 1..m : cur[i] # <<>> => [key |-> Head(cur[i]), index |-> i] \in Heads(cur, m)
         /\ \A x \in Heads(cur, m) : /\ x \in Slots(m) /\ x = [key |-> x.key, index |-> x.index]
                                     /\ x.index \in 1..m /\ cur[x.index] # <<>>
                                     /\ x.key = Head(cur[x.index])
         /\ Heads(cur, m) \in SUBSET Slots(m)
<1>1. ASSUME NEW i \in 1..m, cur[i] # <<>>
      PROVE  [key |-> Head(cur[i]), index |-> i] \in Heads(cur, m)
  BY <1>1 DEF Heads, Item
<1>2. ASSUME NEW x \in Heads(cur, m)
      PROVE  /\ x \in Slots(m) /\ x = [key |-> x.key, index |-> x.index]
             /\ x.index \in 1..m /\ cur[x.index] # <<>> /\ x.key = Head(cur[x.index])
  <2>1. PICK i \in 1..m : cur[i] # <<>> /\ x = [key |-> Head(cur[i]), index |-> i]
    BY <1>2 DEF Heads, Item
  <2>2. Head(cur[i]) \in Keys
    BY <2>1, HeadIsFirst DEF Items
  <2> QED  BY <2>1, <2>2 DEF Slots
<1> QED  BY <1>1, <1>2

\* The heap's order is strict, so that a heap with anything in it has a top.
LEMMA TopExists ==
  ASSUME NEW m \in Nat, NEW heap \in SUBSET Slots(m), heap # {}
  PROVE  \E a \in heap : \A b \in heap : a = b \/ PopsFirst(a, b)
<1> DEFINE R == {p \in heap \X heap : PopsFirst(p[1], p[2])}
<1>1. IsFiniteSet(heap)
  <2>1. IsFiniteSet(Keys \X (1..m))
    <3>1. IsFiniteSet(1..m)
      BY FS_Interval
    <3> QED  BY <3>1, KeysInOrder, FS_Product
  <2> DEFINE f == [p \in Keys \X (1..m) |-> [key |-> p[1], index |-> p[2]]]
  <2>2. f \in Surjection(Keys \X (1..m), Slots(m))
    <3>1. f \in [Keys \X (1..m) -> Slots(m)]
      BY DEF Slots
    <3>2. ASSUME NEW x \in Slots(m) PROVE \E p \in Keys \X (1..m) : f[p] = x
      <4>1. <<x.key, x.index>> \in Keys \X (1..m) /\ x = [key |-> x.key, index |-> x.index]
        BY DEF Slots
      <4>2. f[<<x.key, x.index>>] = x
        BY <4>1
      <4> QED  BY <4>1, <4>2
    <3> HIDE DEF f
    <3> QED  BY <3>1, <3>2 DEF Surjection
  <2> HIDE DEF f
  <2>3. IsFiniteSet(Slots(m))
    BY <2>1, <2>2, FS_Surjection
  <2> QED  BY <2>3, FS_Subset
<1>2. \A a \in heap : /\ a.key \in Keys /\ a.index \in Nat
                      /\ a = [key |-> a.key, index |-> a.index]
  BY DEF Slots
<1>3. \A a, b \in heap : <<a, b>> \in R <=> PopsFirst(a, b)
  OBVIOUS
<1> HIDE DEF R
<1>4. \A a \in heap : <<a, a>> \notin R
  BY <1>2, <1>3, KeysInOrder DEF PopsFirst
<1>5. ASSUME NEW a \in heap, NEW b \in heap PROVE a = b \/ <<a, b>> \in R \/ <<b, a>> \in R
  <2>1. a.key = b.key \/ Before(a.key, b.key) \/ Before(b.key, a.key)
    BY <1>2, KeysInOrder
  <2>2. a.index = b.index \/ a.index < b.index \/ b.index < a.index
    BY <1>2
  <2> QED  BY <1>2, <1>3, <2>1, <2>2 DEF PopsFirst
<1>6. ASSUME NEW a \in heap, NEW b \in heap, NEW c \in heap, <<a, b>> \in R, <<b, c>> \in R
      PROVE  <<a, c>> \in R
  <2>1. PopsFirst(a, b) /\ PopsFirst(b, c)
    BY <1>3, <1>6
  <2>2. CASE Before(a.key, b.key)
    BY <1>2, <1>3, <2>1, <2>2, KeysInOrder DEF PopsFirst
  <2>3. CASE a.key = b.key /\ a.index < b.index
    <3>1. b.index < c.index => a.index < c.index
      BY <1>2, <2>3
    <3> QED  BY <1>3, <2>1, <2>3, <3>1 DEF PopsFirst
  <2> QED  BY <2>1, <2>2, <2>3 DEF PopsFirst
<1>7. Orders(R, heap)
  BY <1>4, <1>5, <1>6 DEF Orders
<1> QED  BY <1>1, <1>3, <1>7, FirstExists

\* The keys that have been popped.
Gone(items, cur, m) ==
  {k \in Keys : \E i \in 1..m : k \in ToSet(items[i]) /\ k \notin ToSet(cur[i])}

\* What the loop has yielded: keys in their order, each of the first input that has it.
Yielded(items, m, out) ==
  /\ out \in Seq(Slots(m))
  /\ \A n, p \in DOMAIN out : n < p => Before(out[n].key, out[p].key)
  /\ \A n \in DOMAIN out : /\ out[n].key \in ToSet(items[out[n].index])
                            /\ \A i \in 1..m : out[n].key \in ToSet(items[i]) => out[n].index <= i

\* None of the keys that are left comes before one that is gone.
Behind(gone, cur, m) ==
  \A k \in gone : \A i \in 1..m : \A l \in ToSet(cur[i]) : k = l \/ Before(k, l)

\* last_key is the last of the keys that are gone.
LastIs(last, gone) ==
  IF gone = {} THEN last = None
  ELSE last \in gone /\ \A k \in gone : k = last \/ Before(k, last)

\* The loop, when cur is what is left of the inputs.
Looping(items, m, cur, s) ==
  LET gone == Gone(items, cur, m) IN
  /\ Items(cur, m)
  /\ \A i \in 1..m : ToSet(cur[i]) \subseteq ToSet(items[i])
  /\ s.heap = Heads(cur, m)
  /\ s.rest = [i \in 1..m |-> Following(cur[i])]
  /\ Yielded(items, m, s.out)
  /\ Behind(gone, cur, m)
  /\ gone = {s.out[n].key : n \in DOMAIN s.out}
  /\ LastIs(s.last, gone)

\* The filled heap is what the loop starts from: nothing is gone.
LEMMA LoopStarts ==
  ASSUME NEW m, NEW items, Items(items, m)
  PROVE  Looping(items, m, items, FilledHeap(items))
<1> DEFINE s == FilledHeap(items)
<1>1. DOMAIN items = 1..m
  BY DEF Items
<1>2. Gone(items, items, m) = {}
  BY DEF Gone
<1>3. s.heap = Heads(items, m) /\ s.rest = [i \in 1..m |-> Following(items[i])]
      /\ s.last = None /\ s.out = <<>>
  BY <1>1 DEF FilledHeap, Heads
<1> HIDE DEF s
<1>4. DOMAIN s.out = {} /\ s.out \in Seq(Slots(m))
  BY <1>3
<1>5. Yielded(items, m, s.out)
  BY <1>4 DEF Yielded
<1> QED
  BY <1>2, <1>3, <1>4, <1>5 DEF Looping, Behind, LastIs, s

\* Appending to a sequence.
LEMMA OneMore ==
  ASSUME NEW T, NEW out \in Seq(T), NEW x \in T
  PROVE  LET more == Append(out, x) IN
         /\ more \in Seq(T) /\ Len(out) \in Nat /\ DOMAIN out = 1..Len(out)
         /\ DOMAIN more = DOMAIN out \cup {Len(out) + 1}
         /\ Len(out) + 1 \notin DOMAIN out /\ more[Len(out) + 1] = x
         /\ \A n \in DOMAIN out : n < Len(out) + 1 /\ more[n] = out[n] /\ out[n] \in T
<1>1. Len(out) \in Nat /\ DOMAIN out = 1..Len(out) /\ \A n \in 1..Len(out) : out[n] \in T
  BY LenProperties, ElementOfSeq
<1> QED  BY <1>1, AppendProperties

\* A round pops the first item that is left.
LEMMA RoundPops ==
  ASSUME NEW m, NEW items, NEW cur, NEW s, Items(items, m), Looping(items, m, cur, s),
         s.heap # {}
  PROVE  \E i \in 1..m :
           /\ cur[i] # <<>>
           /\ Looping(items, m, [cur EXCEPT ![i] = Tail(@)], MergeRound(s))
<1> DEFINE top == CHOOSE a \in s.heap : \A b \in s.heap : a = b \/ PopsFirst(a, b)
           i == top.index
           cur2 == [cur EXCEPT ![i] = Tail(@)]
           gone == Gone(items, cur, m)
           gone2 == Gone(items, cur2, m)
           r == MergeRound(s)
<1>1. /\ m \in Nat /\ Items(cur, m) /\ s.heap = Heads(cur, m)
      /\ cur = [j \in 1..m |-> cur[j]] /\ \A j \in 1..m : Ascending(cur[j])
  BY DEF Looping, Items
<1>2. top \in s.heap /\ \A b \in s.heap : top = b \/ PopsFirst(top, b)
  <2>1. s.heap \in SUBSET Slots(m)
    BY <1>1, HeadsAre
  <2>2. \E a \in s.heap : \A b \in s.heap : a = b \/ PopsFirst(a, b)
    BY <1>1, <2>1, TopExists
  <2> QED  BY <2>2
<1>3. /\ r.heap = (s.heap \ {top}) \cup Item(s.rest[i], i)
      /\ r.rest = [s.rest EXCEPT ![i] = Following(@)]
      /\ r.last = top.key
      /\ r.out = IF top.key = s.last THEN s.out ELSE Append(s.out, top)
  BY DEF MergeRound
<1> HIDE DEF top, r
<1>4. /\ i \in 1..m /\ cur[i] # <<>> /\ top.key = Head(cur[i]) /\ top \in Slots(m)
      /\ top = [key |-> top.key, index |-> i]
  BY <1>1, <1>2, HeadsAre
<1> HIDE DEF i
<1>5. /\ Head(cur[i]) \in Keys /\ Ascending(Tail(cur[i]))
      /\ ToSet(cur[i]) = ToSet(Tail(cur[i])) \cup {top.key}
      /\ \A k \in ToSet(Tail(cur[i])) : k \in Keys /\ Before(top.key, k)
  <2> DEFINE ks == cur[i]
  <2>1. Ascending(ks) /\ ks # <<>> /\ top.key = Head(ks)
    BY <1>1, <1>4
  <2> HIDE DEF ks
  <2>2. /\ Head(ks) \in Keys /\ Ascending(Tail(ks))
        /\ ToSet(ks) = ToSet(Tail(ks)) \cup {Head(ks)}
        /\ \A k \in ToSet(Tail(ks)) : k \in Keys /\ Before(Head(ks), k)
    BY <2>1, HeadIsFirst
  <2> QED  BY <2>1, <2>2 DEF ks
<1>6. /\ cur2 = [j \in 1..m |-> cur2[j]] /\ cur2[i] = Tail(cur[i])
      /\ \A j \in 1..m : j # i => cur2[j] = cur[j]
  BY <1>1, <1>4
<1> HIDE DEF cur2
<1>7. Items(cur2, m)
  BY <1>1, <1>5, <1>6 DEF Items
<1>8. \A j \in 1..m : ToSet(cur2[j]) \subseteq ToSet(cur[j])
  BY <1>5, <1>6
<1>9. \A j \in 1..m : ToSet(cur2[j]) \subseteq ToSet(items[j])
  BY <1>8 DEF Looping
<1>10. r.rest = [j \in 1..m |-> Following(cur2[j])]
  <2>1. s.rest = [j \in 1..m |-> Following(cur[j])]
    BY DEF Looping
  <2>2. Following(cur[i]) = cur2[i]
    BY <1>4, <1>6 DEF Following
  <2>3. r.rest = [j \in 1..m |-> IF j = i THEN Following(Following(cur[i])) ELSE Following(cur[j])]
    BY <1>3, <1>4, <2>1
  <2>4. \A j \in 1..m : r.rest[j] = Following(cur2[j])
    BY <1>6, <2>2, <2>3
  <2> QED  BY <2>3, <2>4
<1>11. r.heap = Heads(cur2, m)
  <2>1. s.rest[i] = cur2[i]
    BY <1>4, <1>6 DEF Looping, Following
  <2>2. r.heap = (Heads(cur, m) \ {top}) \cup Item(cur2[i], i)
    BY <1>1, <1>3, <2>1
  <2>3. \A x \in Item(cur2[i], i) : x \in Heads(cur2, m)
    BY <1>4 DEF Heads
  <2>4. ASSUME NEW x \in Heads(cur, m), x # top PROVE x \in Heads(cur2, m)
    <3>1. x.index # i
      BY <1>1, <1>4, <2>4, HeadsAre
    <3>2. x.index \in 1..m /\ cur2[x.index] = cur[x.index] /\ cur[x.index] # <<>>
          /\ x = [key |-> Head(cur[x.index]), index |-> x.index]
      BY <1>1, <1>6, <3>1, HeadsAre
    <3> QED  BY <1>7, <3>2, HeadsAre
  <2>5. ASSUME NEW x \in Heads(cur2, m) PROVE x \in r.heap
    <3>1. PICK j \in 1..m : x \in Item(cur2[j], j)
      BY DEF Heads
    <3>2. CASE j = i
      BY <2>2, <3>1, <3>2
    <3>3. CASE j # i
      <4>1. x \in Heads(cur, m) /\ x.index = j
        BY <1>6, <3>1, <3>3 DEF Heads, Item
      <4> QED  BY <1>4, <2>2, <3>3, <4>1
    <3> QED  BY <3>2, <3>3
  <2> QED  BY <2>2, <2>3, <2>4, <2>5
\* The first of any other input is not before the one that is popped.
<1>12. ASSUME NEW j \in 1..m, NEW l \in ToSet(cur[j])
       PROVE  /\ l \in Keys
              /\ top.key = l \/ Before(top.key, l)
              /\ top.key = l => i <= j
  <2>1. cur[j] # <<>>
    BY <1>1, KeysOf
  <2> DEFINE h == Head(cur[j])
             x == [key |-> h, index |-> j]
  <2>2. h \in Keys /\ l \in Keys /\ (l = h \/ Before(h, l))
    <3> DEFINE ks == cur[j]
    <3>1. Ascending(ks) /\ ks # <<>> /\ l \in ToSet(ks)
      BY <1>1, <2>1
    <3> HIDE DEF ks
    <3>2. /\ Head(ks) \in Keys
          /\ ToSet(ks) = ToSet(Tail(ks)) \cup {Head(ks)}
          /\ \A k \in ToSet(Tail(ks)) : k \in Keys /\ Before(Head(ks), k)
      BY <3>1, HeadIsFirst
    <3> QED  BY <3>1, <3>2 DEF ks
  <2>3. top = x \/ PopsFirst(top, x)
    BY <1>1, <1>2, <2>1, HeadsAre
  <2>4. x.key = h /\ x.index = j
    OBVIOUS
  <2> HIDE DEF x, h
  <2>5. (top.key = h /\ i <= j) \/ Before(top.key, h)
    BY <1>1, <1>4, <2>3, <2>4 DEF PopsFirst, i
  <2>6. top.key \in Keys
    BY <1>4, <1>5
  <2> QED  BY <2>2, <2>5, <2>6, KeysInOrder
<1>13. gone2 = gone \cup {top.key} /\ gone \subseteq Keys /\ top.key \in Keys
  <2>1. top.key \in ToSet(items[i]) /\ top.key \notin ToSet(cur2[i])
    <3>1. top.key \in ToSet(cur[i]) /\ ToSet(cur[i]) \subseteq ToSet(items[i])
      BY <1>4, <1>5 DEF Looping
    <3>2. top.key \notin ToSet(Tail(cur[i]))
      BY <1>4, <1>5, KeysInOrder
    <3> QED  BY <1>6, <3>1, <3>2
  <2>2. gone \subseteq gone2
    BY <1>8 DEF Gone
  <2>3. top.key \in gone2
    BY <1>4, <1>5, <2>1 DEF Gone
  <2>4. ASSUME NEW k \in gone2, k \notin gone PROVE k = top.key
    <3>1. PICK j \in 1..m : k \in ToSet(items[j]) /\ k \notin ToSet(cur2[j])
      BY DEF Gone
    <3>2. k \in ToSet(cur[j])
      BY <2>4, <3>1 DEF Gone
    <3> QED  BY <1>5, <1>6, <3>1, <3>2
  <2> QED  BY <1>4, <1>5, <2>2, <2>3, <2>4 DEF Gone
<1>14. /\ Behind(gone, cur, m) /\ LastIs(s.last, gone) /\ Yielded(items, m, s.out)
       /\ gone = {s.out[n].key : n \in DOMAIN s.out}
  BY DEF Looping
<1> HIDE DEF gone2
<1>15. \A k \in gone : k = top.key \/ Before(k, top.key)
  BY <1>4, <1>5, <1>14 DEF Behind
<1>16. Behind(gone2, cur2, m) /\ LastIs(r.last, gone2)
  BY <1>3, <1>8, <1>12, <1>13, <1>14, <1>15 DEF Behind, LastIs
<1>17. CASE top.key = s.last
  <2>1. top.key \in gone /\ r.out = s.out
    BY <1>3, <1>13, <1>14, <1>17, MergeAssumption DEF LastIs
  <2>2. gone2 = {r.out[n].key : n \in DOMAIN r.out} /\ Yielded(items, m, r.out)
    BY <1>13, <1>14, <2>1
  <2>3. Looping(items, m, cur2, r)
    BY <1>7, <1>9, <1>10, <1>11, <1>16, <2>2 DEF Looping, gone2
  <2> QED  BY <1>4, <2>3 DEF cur2, r
<1>18. CASE top.key # s.last
  <2>1. top.key \notin gone
    BY <1>13, <1>14, <1>15, <1>18, KeysInOrder DEF LastIs
  <2>2. r.out = Append(s.out, top) /\ s.out \in Seq(Slots(m))
    BY <1>3, <1>14, <1>18 DEF Yielded
  <2> DEFINE n == Len(s.out) + 1
  <2>3. /\ r.out \in Seq(Slots(m))
        /\ DOMAIN r.out = DOMAIN s.out \cup {n} /\ n \notin DOMAIN s.out
        /\ r.out[n] = top
        /\ \A p \in DOMAIN s.out : p < n /\ r.out[p] = s.out[p] /\ ~(n < p)
    <3>1. /\ Len(s.out) \in Nat /\ DOMAIN s.out = 1..Len(s.out)
          /\ r.out \in Seq(Slots(m))
          /\ DOMAIN r.out = DOMAIN s.out \cup {n} /\ n \notin DOMAIN s.out
          /\ r.out[n] = top
          /\ \A p \in DOMAIN s.out : p < n /\ r.out[p] = s.out[p]
      BY <1>4, <2>2, OneMore
    <3>2. \A p \in DOMAIN s.out : ~(n < p)
      BY <3>1
    <3> QED  BY <3>1, <3>2
  <2>n. n \in Nat
    BY <2>2, LenProperties
  <2> HIDE DEF n
  <2>4. gone2 = {r.out[p].key : p \in DOMAIN r.out}
    BY <1>13, <1>14, <2>3
  <2>5. ASSUME NEW p \in DOMAIN r.out, NEW q \in DOMAIN r.out, p < q
        PROVE  Before(r.out[p].key, r.out[q].key)
    <3>1. CASE q = n
      <4>1. p # n
        BY <2>5, <2>n, <3>1
      <4>2. p \in DOMAIN s.out /\ r.out[p].key \in gone
        BY <1>14, <2>3, <4>1
      <4> QED  BY <1>15, <2>1, <2>3, <3>1, <4>2
    <3>2. CASE q # n
      <4>1. q \in DOMAIN s.out /\ p \in DOMAIN s.out
        BY <2>3, <2>5, <3>2
      <4> QED  BY <1>14, <2>3, <2>5, <4>1 DEF Yielded
    <3> QED  BY <3>1, <3>2
  <2>6. /\ top.key \in ToSet(items[top.index])
        /\ \A j \in 1..m : top.key \in ToSet(items[j]) => top.index <= j
    <3>1. top.key \in ToSet(items[top.index])
      BY <1>4, <1>5 DEF Looping, i
    <3>2. ASSUME NEW j \in 1..m, top.key \in ToSet(items[j]) PROVE top.index <= j
      <4>1. top.key \in ToSet(cur[j])
        BY <1>13, <2>1, <3>2 DEF Gone
      <4> QED  BY <1>12, <4>1 DEF i
    <3> QED  BY <3>1, <3>2
  <2>7. Yielded(items, m, r.out)
    <3>1. ASSUME NEW p \in DOMAIN r.out
          PROVE  /\ r.out[p].key \in ToSet(items[r.out[p].index])
                 /\ \A j \in 1..m : r.out[p].key \in ToSet(items[j]) => r.out[p].index <= j
      BY <1>14, <2>3, <2>6 DEF Yielded
    <3> QED  BY <2>3, <2>5, <3>1 DEF Yielded
  <2>8. Looping(items, m, cur2, r)
    BY <1>7, <1>9, <1>10, <1>11, <1>16, <2>4, <2>7 DEF Looping, gone2
  <2> QED  BY <1>4, <2>8 DEF cur2, r
<1> QED  BY <1>17, <1>18

-----------------------------------------------------------------------------
(* All rounds of the loop *)

\* There are finitely many items, and popping the first of an input leaves one less.
LEMMA ItemsFinite ==
  ASSUME NEW m, NEW cur, Items(cur, m)
  PROVE  IsFiniteSet(Left(cur, m))
<1> DEFINE f == [i \in 1..m |-> {i} \X DOMAIN cur[i]]
           U == {{i} \X DOMAIN cur[i] : i \in 1..m}
<1>1. IsFiniteSet(1..m)
  <2>1. 1 \in Int /\ m \in Int
    BY DEF Items
  <2> QED  BY <2>1, FS_Interval
<1>2. f \in Surjection(1..m, U)
  BY DEF Surjection
<1>3. IsFiniteSet(U)
  <2> HIDE DEF f, U
  <2> QED  BY <1>1, <1>2, FS_Surjection
<1>4. ASSUME NEW T \in U PROVE IsFiniteSet(T)
  <2>1. PICK i \in 1..m : T = {i} \X DOMAIN cur[i]
    OBVIOUS
  <2>2. IsFiniteSet(DOMAIN cur[i]) /\ IsFiniteSet({i})
    BY KeysOf, FS_Singleton DEF Items
  <2> QED  BY <2>1, <2>2, FS_Product
<1> HIDE DEF U
<1>5. IsFiniteSet(UNION U)
  BY <1>3, <1>4, FS_UNION
<1> QED  BY <1>5 DEF Left, U

\* A pop leaves one item less: the inputs last for exactly count rounds.
LEMMA OneLess ==
  ASSUME NEW m, NEW cur, Items(cur, m), NEW i \in 1..m, cur[i] # <<>>
  PROVE  /\ Left(cur, m) # {}
         /\ Cardinality(Left([cur EXCEPT ![i] = Tail(@)], m)) = Cardinality(Left(cur, m)) - 1
<1> DEFINE ks == cur[i]
           cur2 == [cur EXCEPT ![i] = Tail(@)]
           x == <<i, Len(ks)>>
<1>1. Ascending(ks) /\ ks # <<>>
  BY DEF Items
<1>2. /\ cur2[i] = Tail(ks) /\ \A j \in 1..m : j # i => cur2[j] = cur[j]
  BY DEF Items
<1>3. DOMAIN ks = DOMAIN Tail(ks) \cup {Len(ks)} /\ Len(ks) \notin DOMAIN Tail(ks)
  <2> HIDE DEF ks
  <2> QED  BY <1>1, HeadIsFirst
<1>4. x \in Left(cur, m)
  BY <1>3 DEF Left
<1> HIDE DEF cur2
<1>5. ASSUME NEW y PROVE y \in Left(cur2, m) <=> y \in Left(cur, m) \ {x}
  <2>1. ASSUME NEW j \in 1..m PROVE y \in {j} \X DOMAIN cur2[j] <=> y \in ({j} \X DOMAIN cur[j]) \ {x}
    <3>1. CASE j = i
      <4> HIDE DEF ks
      <4>1. y \in {i} \X DOMAIN Tail(ks) <=> y \in ({i} \X DOMAIN ks) \ {x}
        <5> DEFINE n == Len(ks)
                   D == DOMAIN Tail(ks)
        <5>1. DOMAIN ks = D \cup {n} /\ n \notin D /\ x = <<i, n>>
          BY <1>3
        <5> HIDE DEF n, D, x
        <5>2. ASSUME y \in {i} \X D PROVE y \in ({i} \X DOMAIN ks) \ {x}
          <6>1. PICK p \in D : y = <<i, p>>
            BY <5>2
          <6>2. p # n
            BY <5>1
          <6> QED  BY <5>1, <6>1, <6>2
        <5>3. ASSUME y \in ({i} \X DOMAIN ks) \ {x} PROVE y \in {i} \X D
          <6>1. PICK p \in DOMAIN ks : y = <<i, p>>
            BY <5>3
          <6>2. p # n
            BY <5>1, <5>3, <6>1
          <6> QED  BY <5>1, <6>1, <6>2
        <5> QED  BY <5>2, <5>3 DEF D
      <4> QED  BY <1>2, <3>1, <4>1 DEF ks
    <3>2. CASE j # i
      BY <1>2, <3>2
    <3> QED  BY <3>1, <3>2
  <2> HIDE DEF x
  <2> QED  BY <2>1 DEF Left
<1>6. Left(cur2, m) = Left(cur, m) \ {x}
  BY <1>5
<1>7. IsFiniteSet(Left(cur, m))
  BY ItemsFinite
<1> HIDE DEF x
<1>8. Cardinality(Left(cur, m) \ {x}) = Cardinality(Left(cur, m)) - 1
  BY <1>4, <1>7, FS_RemoveElement
<1> QED  BY <1>4, <1>6, <1>8 DEF cur2

\* The states of the loop, which a round does not leave.
Loops(m) ==
  [heap : SUBSET Slots(m), rest : [1..m -> Seq(Keys)], last : Keys \cup {None},
   out : Seq(Slots(m))]

\* _advance pushes an item of the input and keeps the rest of it.
LEMMA ItemTyped ==
  ASSUME NEW m, NEW ks \in Seq(Keys), NEW i \in 1..m
  PROVE  Item(ks, i) \subseteq Slots(m) /\ Following(ks) \in Seq(Keys)
<1>1. CASE ks = <<>>
  BY <1>1 DEF Item, Following
<1>2. CASE ks # <<>>
  <2>1. Head(ks) \in Keys /\ Tail(ks) \in Seq(Keys)
    BY <1>2, HeadTailProperties
  <2> QED  BY <1>2, <2>1 DEF Item, Following, Slots
<1> QED  BY <1>1, <1>2

\* A round keeps the type of the loop's state.
LEMMA RoundTyped ==
  ASSUME NEW m \in Nat, NEW s \in Loops(m)
  PROVE  MergeRound(s) \in Loops(m)
<1>1. CASE s.heap = {}
  BY <1>1 DEF MergeRound
<1>2. CASE s.heap # {}
  <2> DEFINE top == CHOOSE a \in s.heap : \A b \in s.heap : a = b \/ PopsFirst(a, b)
             i == top.index
  <2>1. s.heap \in SUBSET Slots(m) /\ s.rest \in [1..m -> Seq(Keys)] /\ s.out \in Seq(Slots(m))
    BY DEF Loops
  <2>2. \E a \in s.heap : \A b \in s.heap : a = b \/ PopsFirst(a, b)
    BY <1>2, <2>1, TopExists
  <2>3. top \in s.heap
    BY <2>2
  <2>4. MergeRound(s) =
          [heap |-> (s.heap \ {top}) \cup Item(s.rest[i], i),
           rest |-> [s.rest EXCEPT ![i] = Following(@)],
           last |-> top.key,
           out  |-> IF top.key = s.last THEN s.out ELSE Append(s.out, top)]
    BY <1>2 DEF MergeRound
  <2> HIDE DEF top
  <2>5. top \in Slots(m) /\ i \in 1..m /\ top.key \in Keys
    BY <2>1, <2>3 DEF Slots
  <2>6. s.rest[i] \in Seq(Keys)
    BY <2>1, <2>5
  <2>7. Item(s.rest[i], i) \subseteq Slots(m) /\ Following(s.rest[i]) \in Seq(Keys)
    BY <2>5, <2>6, ItemTyped
  <2>8. Append(s.out, top) \in Seq(Slots(m))
    BY <2>1, <2>5, AppendProperties
  <2>9. [s.rest EXCEPT ![i] = Following(@)] \in [1..m -> Seq(Keys)]
    BY <2>1, <2>5, <2>7
  <2> QED  BY <2>1, <2>4, <2>5, <2>7, <2>8, <2>9 DEF Loops
<1> QED  BY <1>1, <1>2

\* The rounds follow one another.
LEMMA RoundsUnfold ==
  ASSUME NEW m, NEW items, Items(items, m)
  PROVE  \E h : /\ MergeItems(items) = h[Cardinality(Left(items, m))].out
                /\ h[0] = FilledHeap(items)
                /\ \A n \in 1..Cardinality(Left(items, m)) : h[n] = MergeRound(h[n - 1])
<1> DEFINE c == Cardinality(Left(items, m))
           Step(h) == [n \in 0..c |-> IF n = 0 THEN FilledHeap(items) ELSE MergeRound(h[n - 1])]
           after == CHOOSE h : h = Step(h)
<1>1. MergeItems(items) = after[c].out
  <2>1. DOMAIN items = 1..m
    BY DEF Items
  <2> QED  BY <2>1 DEF MergeItems, Left
<1>2. c \in Nat
  BY ItemsFinite, FS_CardinalityType
<1> HIDE DEF c
<1> DEFINE V == Loops(m)
           v == FilledHeap(items)
           step == [x \in (1..c) \X V |-> MergeRound(x[2])]
<1>3. m \in Nat /\ DOMAIN items = 1..m /\ \A i \in 1..m : items[i] \in Seq(Keys)
  BY DEF Items, Ascending
<1>4. v \in V
  <2>1. \A i \in 1..m : Item(items[i], i) \subseteq Slots(m) /\ Following(items[i]) \in Seq(Keys)
    BY <1>3, ItemTyped
  <2>2. <<>> \in Seq(Slots(m))
    OBVIOUS
  <2> QED  BY <1>3, <2>1, <2>2 DEF FilledHeap, Loops
<1>5. step \in [(1..c) \X V -> V]
  BY <1>3, RoundTyped
<1>6. PICK h \in [0..c -> V] : h[0] = v /\ \A n \in 1..c : h[n] = step[<<n, h[n - 1]>>]
  <2> HIDE DEF V, step, v
  <2>1. \E h \in [0..c -> V] : IsRecursion(h, c, v, step)
    BY <1>2, <1>4, <1>5, RecursionExists
  <2> QED  BY <2>1 DEF IsRecursion
<1>7. ASSUME NEW n \in 1..c PROVE h[n] = MergeRound(h[n - 1])
  <2>1. n - 1 \in 0..c
    BY <1>2
  <2>2. h[n - 1] \in V
    BY <2>1
  <2> HIDE DEF V
  <2>3. step[<<n, h[n - 1]>>] = MergeRound(h[n - 1])
    BY <2>2
  <2> QED  BY <1>6, <2>3
<1>8. h = Step(h)
  <2>1. ASSUME NEW n \in 0..c PROVE h[n] = Step(h)[n]
    <3>1. n = 0 \/ n \in 1..c
      BY <1>2
    <3> QED  BY <1>6, <1>7, <3>1
  <2>2. h = [n \in 0..c |-> h[n]] /\ Step(h) = [n \in 0..c |-> Step(h)[n]]
    OBVIOUS
  <2> HIDE DEF Step
  <2> QED  BY <2>1, <2>2
<1>9. after = Step(after)
  <2> HIDE DEF Step
  <2> QED  BY <1>8
<1>10. 0 \in 0..c /\ \A n \in 1..c : n \in 0..c /\ n # 0
  BY <1>2
<1> HIDE DEF after
<1>11. after[0] = FilledHeap(items) /\ \A n \in 1..c : after[n] = MergeRound(after[n - 1])
  BY <1>9, <1>10
<1> QED  BY <1>1, <1>11 DEF c

\* The loop yields every key of its inputs, in order, of the first input that has it.
LEMMA LoopYields ==
  ASSUME NEW m, NEW items, Items(items, m)
  PROVE  /\ Yielded(items, m, MergeItems(items))
         /\ \A i \in 1..m : \A k \in ToSet(items[i]) :
              \E n \in DOMAIN MergeItems(items) : MergeItems(items)[n].key = k
<1> DEFINE c == Cardinality(Left(items, m))
<1>1. PICK h : /\ MergeItems(items) = h[c].out
               /\ h[0] = FilledHeap(items)
               /\ \A n \in 1..c : h[n] = MergeRound(h[n - 1])
  BY RoundsUnfold
<1>2. c \in Nat
  BY ItemsFinite, FS_CardinalityType
<1> HIDE DEF c
<1> DEFINE Reached(n) == \E cur : Looping(items, m, cur, h[n]) /\ Cardinality(Left(cur, m)) = c - n
           N == {n \in Nat : n <= c => Reached(n)}
<1>3. 0 \in N
  <2>1. Looping(items, m, items, h[0]) /\ Cardinality(Left(items, m)) = c - 0
    BY <1>1, <1>2, LoopStarts DEF c
  <2> QED  BY <2>1
<1>4. ASSUME NEW n \in Nat, n \in N PROVE n + 1 \in N
  <2> SUFFICES ASSUME n + 1 <= c PROVE Reached(n + 1)
    OBVIOUS
  <2>1. n <= c /\ n + 1 \in 1..c /\ (n + 1) - 1 = n /\ c - n # 0
    BY <1>2
  <2>2. PICK cur : Looping(items, m, cur, h[n]) /\ Cardinality(Left(cur, m)) = c - n
    BY <1>4, <2>1
  <2>3. h[n + 1] = MergeRound(h[n])
    BY <1>1, <2>1
  <2>4. Items(cur, m) /\ h[n].heap = Heads(cur, m)
    BY <2>2 DEF Looping
  <2>5. h[n].heap # {}
    <3>1. Left(cur, m) # {}
      BY <2>1, <2>2, FS_EmptySet
    <3>2. PICK i \in 1..m : DOMAIN cur[i] # {}
      BY <3>1 DEF Left
    <3>3. cur[i] # <<>>
      BY <3>2
    <3>4. [key |-> Head(cur[i]), index |-> i] \in Heads(cur, m)
      BY <2>4, <3>3, HeadsAre
    <3> QED  BY <2>4, <3>4
  <2>6. PICK i \in 1..m : /\ cur[i] # <<>>
                          /\ Looping(items, m, [cur EXCEPT ![i] = Tail(@)], MergeRound(h[n]))
    BY <2>2, <2>5, RoundPops
  <2> DEFINE cur2 == [cur EXCEPT ![i] = Tail(@)]
  <2>7. Cardinality(Left(cur2, m)) = (c - n) - 1
    BY <2>2, <2>4, <2>6, OneLess
  <2>8. Cardinality(Left(cur2, m)) = c - (n + 1)
    BY <1>2, <2>7
  <2>9. Looping(items, m, cur2, h[n + 1])
    BY <2>3, <2>6
  <2> HIDE DEF cur2
  <2> QED  BY <2>8, <2>9
<1>5. Reached(c)
  <2>1. c \in N
    <3> HIDE DEF N
    <3> QED  BY <1>2, <1>3, <1>4, AllNaturals
  <2> QED  BY <1>2, <2>1
<1>6. PICK cur : Looping(items, m, cur, h[c]) /\ Cardinality(Left(cur, m)) = 0
  BY <1>2, <1>5
<1>7. Items(cur, m) /\ Left(cur, m) = {}
  <2>1. Items(cur, m)
    BY <1>6 DEF Looping
  <2> QED  BY <1>6, <2>1, ItemsFinite, FS_EmptySet
<1>8. ASSUME NEW i \in 1..m PROVE ToSet(cur[i]) = {}
  <2>1. \A p \in DOMAIN cur[i] : <<i, p>> \in Left(cur, m)
    BY DEF Left
  <2>2. DOMAIN cur[i] = {}
    BY <1>7, <2>1
  <2> QED  BY <2>2 DEF ToSet
<1>9. ASSUME NEW i \in 1..m, NEW k \in ToSet(items[i])
      PROVE  \E n \in DOMAIN h[c].out : h[c].out[n].key = k
  <2>1. k \in Keys
    BY KeysOf DEF Items
  <2>2. k \in Gone(items, cur, m)
    BY <1>8, <2>1 DEF Gone
  <2> QED  BY <1>6, <2>2 DEF Looping
<1>10. Yielded(items, m, h[c].out)
  BY <1>6 DEF Looping
<1> QED  BY <1>1, <1>9, <1>10
-----------------------------------------------------------------------------
(* merge_sstables and a search of its inputs *)

\* The keys of an SSTable, in order.
LEMMA ItemKeysAre ==
  ASSUME NEW path
  PROVE  /\ Ascending(ItemKeys(path))
         /\ \A k : k \in ToSet(ItemKeys(path)) <=> k \in Keys /\ Holds(files, path, k)
<1> DEFINE S == {k \in Keys : Holds(files, path, k)}
           R == {p \in Keys \X Keys : Before(p[1], p[2])}
           q == ItemKeys(path)
<1>1. IsFiniteSet(S)
  BY KeysInOrder, FS_Subset
<1>2. S \subseteq Keys /\ \A k, l \in S : <<k, l>> \in R <=> Before(k, l)
  OBVIOUS
<1>3. q = CHOOSE p \in SetToSeqs(S) : \A i, j \in DOMAIN p : i < j => Before(p[i], p[j])
  BY DEF ItemKeys, InOrder
<1>a. \A k : k \in S <=> k \in Keys /\ Holds(files, path, k)
  OBVIOUS
<1> HIDE DEF R, S, q
<1>4. Orders(R, S)
  BY <1>2, KeysInOrder DEF Orders
<1>5. PICK p \in SetToSeqs(S) : \A i, j \in DOMAIN p : i < j => <<p[i], p[j]>> \in R
  BY <1>1, <1>4, EnumerationExists
<1>6. p \in Seq(S) /\ \A i \in DOMAIN p : p[i] \in S
  BY <1>1, EnumerationIs, ElementOfSeq
<1>7. \A i, j \in DOMAIN p : i < j => Before(p[i], p[j])
  BY <1>2, <1>5, <1>6
<1>8. q \in SetToSeqs(S) /\ \A i, j \in DOMAIN q : i < j => Before(q[i], q[j])
  BY <1>3, <1>7
<1>9. q \in Seq(S) /\ \A i \in DOMAIN q : q[i] \in S
  BY <1>1, <1>8, EnumerationIs, ElementOfSeq
<1>10. \A k \in S : \E i \in DOMAIN q : q[i] = k
  BY <1>1, <1>8, EnumerationIs
<1>11. ToSet(q) = S
  BY <1>9, <1>10 DEF ToSet
<1>12. q \in Seq(Keys)
  BY <1>2, <1>9, SeqDef
<1> QED  BY <1>8, <1>11, <1>12, <1>a DEF Ascending, q

\* A list of level-0 entries has an order, whatever the clock has done.
UpperList(S) == IsFiniteSet(S) /\ S \subseteq Entries /\ \A e \in S : e.path[1] = 0

\* level0_sstables has each input once, the newest first.
LEMMA InputOrderIs ==
  ASSUME NEW inputs, UpperList(inputs)
  PROVE  LET q == InputOrder(inputs) IN
         /\ Len(q) \in Nat /\ q = [i \in 1..Len(q) |-> q[i]]
         /\ \A i \in 1..Len(q) : q[i] \in inputs
         /\ \A e \in inputs : \E i \in 1..Len(q) : q[i] = e
         /\ \A i, j \in 1..Len(q) : i < j => Newer(q[i], q[j]) /\ ~Newer(q[j], q[i]) /\ q[i] # q[j]
<1> DEFINE R == {p \in inputs \X inputs : Newer(p[1], p[2])}
           q == InputOrder(inputs)
<1>1. IsFiniteSet(inputs)
  BY DEF UpperList
<1>2. \A e, f \in inputs : <<e, f>> \in R <=> Newer(e, f)
  OBVIOUS
<1>3. q = CHOOSE p \in SetToSeqs(inputs) : \A i, j \in DOMAIN p : i < j => Newer(p[i], p[j])
  BY DEF InputOrder, InOrder
<1> HIDE DEF R, q
<1>4. ASSUME NEW e \in inputs
      PROVE  /\ e.created \in Int /\ e.path[2] \in Int
             /\ e = [path |-> e.path, created |-> e.created]
             /\ e.path = <<0, e.path[2]>>
  BY DEF UpperList, Entries, Paths
<1>5. \A e \in inputs : ~Newer(e, e)
  BY <1>4 DEF Newer
<1>6. ASSUME NEW e \in inputs, NEW f \in inputs PROVE e = f \/ Newer(e, f) \/ Newer(f, e)
  <2>1. e.created = f.created \/ e.created > f.created \/ f.created > e.created
    BY <1>4
  <2>2. e.path[2] = f.path[2] \/ e.path[2] > f.path[2] \/ f.path[2] > e.path[2]
    BY <1>4
  <2>3. e.created = f.created /\ e.path[2] = f.path[2] => e = f
    BY <1>4
  <2> QED  BY <2>1, <2>2, <2>3 DEF Newer
<1>7. ASSUME NEW e \in inputs, NEW f \in inputs, NEW g \in inputs, Newer(e, f), Newer(f, g)
      PROVE  Newer(e, g)
  BY <1>4, <1>7 DEF Newer
<1>8. Orders(R, inputs)
  BY <1>2, <1>5, <1>6, <1>7 DEF Orders
<1>9. PICK p \in SetToSeqs(inputs) : \A i, j \in DOMAIN p : i < j => <<p[i], p[j]>> \in R
  BY <1>1, <1>8, EnumerationExists
<1>10. p \in Seq(inputs) /\ \A i \in DOMAIN p : p[i] \in inputs
  BY <1>1, EnumerationIs, ElementOfSeq
<1>11. q \in SetToSeqs(inputs) /\ \A i, j \in DOMAIN q : i < j => Newer(q[i], q[j])
  BY <1>2, <1>3, <1>9, <1>10
<1>12. /\ q \in Seq(inputs) /\ Len(q) \in Nat /\ DOMAIN q = 1..Len(q)
       /\ \A x \in inputs : \E i \in DOMAIN q : q[i] = x
       /\ \A i \in DOMAIN q : q[i] \in inputs
  BY <1>1, <1>11, EnumerationIs, ElementOfSeq
<1>13. q = [i \in 1..Len(q) |-> q[i]]
  BY <1>12
<1>14. ASSUME NEW i \in 1..Len(q), NEW j \in 1..Len(q), i < j
       PROVE  Newer(q[i], q[j]) /\ ~Newer(q[j], q[i]) /\ q[i] # q[j]
  <2>1. Newer(q[i], q[j]) /\ q[i] \in inputs /\ q[j] \in inputs
    BY <1>11, <1>12, <1>14
  <2> QED  BY <1>5, <1>7, <2>1
<1> QED  BY <1>12, <1>13, <1>14 DEF q

\* The newest input that holds k is the first of their order that does.
LEMMA FirstInputIsHit ==
  ASSUME NEW inputs, UpperList(inputs), NEW k \in Keys, NEW i \in 1..Len(InputOrder(inputs)),
         Holds(files, InputOrder(inputs)[i].path, k),
         \A j \in 1..Len(InputOrder(inputs)) :
           Holds(files, InputOrder(inputs)[j].path, k) => i <= j
  PROVE  FirstHit(files, inputs, k) = {InputOrder(inputs)[i]}
<1> DEFINE q == InputOrder(inputs)
<1>1. /\ Len(q) \in Nat
      /\ \A j \in 1..Len(q) : q[j] \in inputs
      /\ \A e \in inputs : \E j \in 1..Len(q) : q[j] = e
      /\ \A h, j \in 1..Len(q) : h < j => Newer(q[h], q[j]) /\ ~Newer(q[j], q[h]) /\ q[h] # q[j]
  BY InputOrderIs
<1>2. /\ i \in 1..Len(q) /\ Holds(files, q[i].path, k)
      /\ \A j \in 1..Len(q) : Holds(files, q[j].path, k) => i <= j
  OBVIOUS
<1> HIDE DEF q
<1>3. ASSUME NEW f \in inputs, Newer(f, q[i]) PROVE ~Holds(files, f.path, k)
  <2>1. PICK j \in 1..Len(q) : q[j] = f
    BY <1>1
  <2>2. ~(i < j) /\ (i = j => ~Newer(q[j], q[i]))
    <3>1. ~(i < j)
      BY <1>1, <1>3, <2>1
    <3>2. ~Newer(q[i], q[i])
      <4>1. q[i] \in Entries
        BY <1>1, <1>2 DEF UpperList
      <4>2. q[i].created \in Int /\ q[i].path[2] \in Int
        BY <4>1 DEF Entries, Paths
      <4> QED  BY <4>2 DEF Newer
    <3> QED  BY <3>1, <3>2
  <2>3. j < i
    BY <1>1, <1>2, <1>3, <2>1, <2>2
  <2>4. ~(i <= j)
    BY <1>1, <1>2, <2>3
  <2> QED  BY <1>2, <2>1, <2>4
<1>4. ASSUME NEW e \in inputs, Holds(files, e.path, k), e # q[i]
      PROVE  \E f \in inputs : Newer(f, e) /\ Holds(files, f.path, k)
  <2>1. PICK j \in 1..Len(q) : q[j] = e
    BY <1>1
  <2>2. i <= j /\ i # j
    BY <1>2, <1>4, <2>1
  <2>3. i < j
    BY <1>1, <1>2, <2>2
  <2> QED  BY <1>1, <1>2, <2>1, <2>3
<1>5. q[i] \in inputs
  BY <1>1, <1>2
<1>6. FirstHit(files, inputs, k) = {q[i]}
  BY <1>2, <1>3, <1>4, <1>5 DEF FirstHit
<1> QED  BY <1>6 DEF q

\* The merge of any level-0 SSTables, whether their files exist or not.
LEMMA MergeIsSearch ==
  ASSUME NEW inputs, UpperList(inputs)
  PROVE  LET out == MergeSSTables(inputs) IN
         /\ \A m, n \in DOMAIN out : m < n => Before(out[m].key, out[n].key)
         /\ [k \in {out[n].key : n \in DOMAIN out} |->
               out[CHOOSE n \in DOMAIN out : out[n].key = k].value] = MergeTables(inputs)
<1> DEFINE q == InputOrder(inputs)
           m == Len(q)
           items == [i \in 1..m |-> ItemKeys(q[i].path)]
           out == MergeItems(items)
           merged == MergeSSTables(inputs)
<1>1. /\ m \in Nat /\ q = [i \in 1..m |-> q[i]]
      /\ \A i \in 1..m : q[i] \in inputs
      /\ \A e \in inputs : \E i \in 1..m : q[i] = e
  BY InputOrderIs
<1>2. merged = [n \in DOMAIN out |->
                  [key |-> out[n].key, value |-> files[q[out[n].index].path][out[n].key]]]
  <2>1. DOMAIN q = 1..m
    BY <1>1
  <2> QED  BY <2>1 DEF MergeSSTables
<1>3. Items(items, m)
  BY <1>1, ItemKeysAre DEF Items
<1>4. \A i \in 1..m : \A k : k \in ToSet(items[i]) <=> k \in Keys /\ Holds(files, q[i].path, k)
  BY ItemKeysAre
<1> HIDE DEF items, merged
<1>5. /\ Yielded(items, m, out)
      /\ \A i \in 1..m : \A k \in ToSet(items[i]) : \E n \in DOMAIN out : out[n].key = k
  BY <1>3, LoopYields
<1> HIDE DEF out
<1>6. /\ DOMAIN out = 1..Len(out) /\ Len(out) \in Nat
      /\ \A n \in DOMAIN out : out[n].key \in Keys /\ out[n].index \in 1..m
  <2>1. /\ out \in Seq(Slots(m)) /\ DOMAIN out = 1..Len(out) /\ Len(out) \in Nat
    BY <1>5, LenProperties DEF Yielded
  <2>2. \A n \in DOMAIN out : out[n] \in Slots(m)
    BY <2>1, ElementOfSeq
  <2> QED  BY <2>1, <2>2 DEF Slots
<1>7. /\ DOMAIN merged = DOMAIN out
      /\ \A n \in DOMAIN out : /\ merged[n].key = out[n].key
                               /\ merged[n].value = files[q[out[n].index].path][out[n].key]
  BY <1>2
<1>8. ASSUME NEW n \in DOMAIN out, NEW p \in DOMAIN out, out[n].key = out[p].key PROVE n = p
  <2>1. ~(n < p) /\ ~(p < n)
    BY <1>5, <1>6, <1>8, KeysInOrder DEF Yielded
  <2> QED  BY <1>6, <2>1
<1>9. ASSUME NEW n \in DOMAIN out
      PROVE  FirstHit(files, inputs, out[n].key) = {q[out[n].index]}
  <2> DEFINE k == out[n].key
             i == out[n].index
  <2>1. /\ k \in Keys /\ i \in 1..m /\ k \in ToSet(items[i])
        /\ \A j \in 1..m : k \in ToSet(items[j]) => i <= j
    BY <1>5, <1>6 DEF Yielded
  <2>2. Holds(files, q[i].path, k) /\ \A j \in 1..m : Holds(files, q[j].path, k) => i <= j
    BY <1>4, <2>1
  <2> HIDE DEF k, i
  <2>3. FirstHit(files, inputs, k) = {q[i]}
    BY <2>1, <2>2, FirstInputIsHit
  <2> QED  BY <2>3 DEF k, i
<1>10. {merged[n].key : n \in DOMAIN merged} = {k \in Keys : FirstHit(files, inputs, k) # {}}
  <2>1. ASSUME NEW k \in Keys, FirstHit(files, inputs, k) # {}
        PROVE  \E n \in DOMAIN out : out[n].key = k
    <3>1. PICK e \in inputs : Holds(files, e.path, k)
      BY <2>1 DEF FirstHit
    <3>2. PICK i \in 1..m : q[i] = e
      BY <1>1
    <3>3. k \in ToSet(items[i])
      BY <1>4, <3>1, <3>2
    <3> QED  BY <1>5, <3>3
  <2> QED  BY <1>6, <1>7, <1>9, <2>1
<1>11. ASSUME NEW k \in {merged[n].key : n \in DOMAIN merged}
       PROVE  merged[CHOOSE n \in DOMAIN merged : merged[n].key = k].value = SearchLevel(files, inputs, k)
  <2> DEFINE n == CHOOSE p \in DOMAIN merged : merged[p].key = k
  <2>1. n \in DOMAIN merged /\ merged[n].key = k
    <3>1. \E p \in DOMAIN merged : merged[p].key = k
      OBVIOUS
    <3> QED  BY <3>1
  <2> HIDE DEF n
  <2>2. n \in DOMAIN out /\ out[n].key = k /\ merged[n].value = files[q[out[n].index].path][k]
    BY <1>7, <2>1
  <2>3. FirstHit(files, inputs, k) = {q[out[n].index]}
    BY <1>9, <2>2
  <2>4. SearchLevel(files, inputs, k) = files[q[out[n].index].path][k]
    <3>1. (CHOOSE e \in FirstHit(files, inputs, k) : TRUE) = q[out[n].index]
      BY <2>3
    <3> QED  BY <2>3, <3>1 DEF SearchLevel
  <2> QED  BY <2>2, <2>4 DEF n
<1>12. [k \in {merged[n].key : n \in DOMAIN merged} |->
          merged[CHOOSE n \in DOMAIN merged : merged[n].key = k].value] = MergeTables(inputs)
  BY <1>10, <1>11 DEF MergeTables
<1>13. \A n, p \in DOMAIN merged : n < p => Before(merged[n].key, merged[p].key)
  BY <1>5, <1>7 DEF Yielded
<1> QED  BY <1>12, <1>13 DEF merged

-----------------------------------------------------------------------------
(* The lists a compaction may have as inputs *)

\* What compact reads, and a flush adds, is of level 0 and finite.
UpperLists ==
  UpperList(manifest.mem[0]) /\ UpperList(compaction.inputs) /\ flush.path[1] = 0

\* What a step may do to the lists of level 0.
UpperStep ==
  /\ \/ manifest'.mem[0] \subseteq manifest.mem[0]
     \/ \E created \in Int :
          manifest'.mem[0] = manifest.mem[0] \cup {[path |-> flush.path, created |-> created]}
  /\ compaction'.inputs \in {compaction.inputs, manifest.mem[0], {}}
  /\ flush'.path[1] \in {0, flush.path[1]}

\* A finite list of level 0 stays one in every step.
LEMMA UpperListKept ==
  ASSUME TInv, UpperLists, UpperStep
  PROVE  UpperLists'
<1>1. /\ \A S : UpperList(S) => \A T \in SUBSET S : UpperList(T)
      /\ UpperList({})
  BY FS_Subset, FS_EmptySet DEF UpperList
<1>2. UpperList(manifest'.mem[0])
  <2>1. CASE manifest'.mem[0] \subseteq manifest.mem[0]
    BY <1>1, <2>1 DEF UpperLists
  <2>2. ASSUME NEW created \in Int,
               manifest'.mem[0] = manifest.mem[0] \cup {[path |-> flush.path, created |-> created]}
        PROVE  UpperList(manifest'.mem[0])
    <3> DEFINE e == [path |-> flush.path, created |-> created]
    <3>1. e \in Entries /\ e.path[1] = 0
      BY DEF TInv, FlushTyped, Flushes, Entries, UpperLists
    <3> HIDE DEF e
    <3>2. IsFiniteSet(manifest.mem[0] \cup {e})
      BY FS_AddElement DEF UpperLists, UpperList
    <3> QED  BY <2>2, <3>1, <3>2 DEF UpperLists, UpperList, e
  <2> QED  BY <2>1, <2>2 DEF UpperStep
<1> QED  BY <1>1, <1>2 DEF UpperLists, UpperStep

\* What add_sstable and remove_sstable do to the lists in memory, and a save does not.
LEMMA AddsOne ==
  ASSUME TInv, NEW l \in Levels, NEW e, NEW path
  PROVE  /\ AddSSTableUnsaved(manifest, l, e).mem = [manifest.mem EXCEPT ![l] = @ \cup {e}]
         /\ RemoveSSTableUnsaved(manifest, l, path).mem =
              [manifest.mem EXCEPT ![l] = {f \in @ : f.path # path}]
         /\ \A m : Save(m).mem = m.mem \/ m \notin Manifests
         /\ manifest.mem \in [Levels -> SUBSET Entries]
BY DEF TInv, DiskTyped, Manifests, LevelSets, AddSSTableUnsaved, RemoveSSTableUnsaved, Save

\* An add, saved or not, leaves one entry more in memory.
LEMMA SavedAdds ==
  ASSUME TInv, NEW l \in Levels, NEW e \in Entries,
         \/ manifest' = AddSSTable(manifest, l, e)
         \/ manifest' \in SaveRaised(AddSSTableUnsaved(manifest, l, e))
  PROVE  manifest'.mem = [manifest.mem EXCEPT ![l] = @ \cup {e}]
<1>1. AddSSTableUnsaved(manifest, l, e) \in Manifests
  BY ManifestType DEF TInv, DiskTyped
<1>2. \A m \in Manifests : Save(m).mem = m.mem
  BY DEF Save, Manifests
<1>3. AddSSTableUnsaved(manifest, l, e).mem = [manifest.mem EXCEPT ![l] = @ \cup {e}]
  BY AddsOne
<1> QED  BY <1>1, <1>2, <1>3 DEF AddSSTable, SaveRaised

\* A removal, saved or not, leaves no entry in level 0 that was not there.
LEMMA SavedRemoves ==
  ASSUME TInv, NEW path,
         \/ manifest' = RemoveSSTable(manifest, 0, path)
         \/ manifest' \in SaveRaised(RemoveSSTableUnsaved(manifest, 0, path))
  PROVE  manifest'.mem[0] \subseteq manifest.mem[0]
<1>0. 0 \in Levels
  BY DEF Levels
<1>1. RemoveSSTableUnsaved(manifest, 0, path) \in Manifests
  BY <1>0, ManifestType DEF TInv, DiskTyped
<1>2. \A m \in Manifests : Save(m).mem = m.mem
  BY DEF Save, Manifests
<1>3. /\ RemoveSSTableUnsaved(manifest, 0, path).mem =
           [manifest.mem EXCEPT ![0] = {f \in @ : f.path # path}]
      /\ manifest.mem \in [Levels -> SUBSET Entries]
  BY <1>0, AddsOne
<1>4. RemoveSSTableUnsaved(manifest, 0, path).mem[0] \subseteq manifest.mem[0]
  BY <1>0, <1>3
<1> QED  BY <1>1, <1>2, <1>4 DEF RemoveSSTable, SaveRaised

\* A flush adds its own path, of level 0, and nothing else.
LEMMA FlusherUpper ==
  ASSUME TInv, Flusher
  PROVE  UpperStep
<1>0. /\ flush \in Flushes /\ manifest \in Manifests
      /\ compaction.inputs \in {compaction.inputs, manifest.mem[0], {}}
      /\ 0 \in Levels /\ manifest.mem \in [Levels -> SUBSET Entries]
      /\ NoFlush.path[1] = 0 /\ flush.path \in Paths
      /\ \A m \in Manifests : Save(m).mem = m.mem
  BY DEF TInv, FlushTyped, DiskTyped, Manifests, LevelSets, Levels, Flushes, NoFlush, Save
<1>1. ASSUME NEW by, FlushNothing(by) \/ FlushTake(by) PROVE UpperStep
  BY <1>0, <1>1 DEF FlushNothing, FlushTake, UpperStep, compactionVars, NoFlush
<1>2. ASSUME FlushWrite \/ FlushWriteFails PROVE UpperStep
  <2>1. manifest' = manifest /\ compaction' = compaction
    BY <1>2 DEF FlushWrite, FlushWriteFails
  <2>2. flush'.path[1] \in {0, flush.path[1]}
    <3>1. CASE FlushWrite
      <4>1. flush' = [flush EXCEPT !.pc = "written", !.path = <<0, clock'>>]
        BY <3>1 DEF FlushWrite
      <4>2. flush'.path = <<0, clock'>>
        BY <1>0, <4>1 DEF Flushes
      <4> QED  BY <4>2
    <3>2. CASE FlushWriteFails
      <4>1. flush' = NoFlush
        BY <3>2 DEF FlushWriteFails, Leave
      <4> QED  BY <1>0, <4>1
    <3> QED  BY <1>2, <3>1, <3>2
  <2> QED  BY <2>1, <2>2 DEF UpperStep
<1>3. ASSUME FlushInstall \/ FlushInstallFails PROVE UpperStep
  <2> DEFINE e == [path |-> flush.path, created |-> clock']
  <2>1. clock' \in Int /\ compaction' = compaction
    <3>1. Tick(clock') /\ compaction' = compaction
      BY <1>3 DEF FlushInstall, FlushInstallFails
    <3> QED  BY <3>1, TickType DEF TInv, DiskTyped
  <2>2. e \in Entries
    BY <1>0, <2>1 DEF Entries
  <2>3. \/ manifest' = AddSSTable(manifest, 0, e)
        \/ manifest' \in SaveRaised(AddSSTableUnsaved(manifest, 0, e))
    BY <1>3 DEF FlushInstall, FlushInstallFails
  <2>4. manifest'.mem = [manifest.mem EXCEPT ![0] = @ \cup {e}]
    <3> HIDE DEF e
    <3> QED  BY <1>0, <2>2, <2>3, SavedAdds
  <2>5. manifest'.mem[0] = manifest.mem[0] \cup {e}
    BY <1>0, <2>4
  <2>6. flush'.path[1] \in {0, flush.path[1]}
    BY <1>0, <1>3 DEF FlushInstall, FlushInstallFails, Leave, Flushes
  <2> QED  BY <2>1, <2>5, <2>6 DEF UpperStep
<1>4. ASSUME FlushSave \/ FlushSaveFails PROVE UpperStep
  <2>1. manifest'.mem = manifest.mem /\ compaction' = compaction
    BY <1>0, <1>4 DEF FlushSave, FlushSaveFails, SaveRaised
  <2>2. flush'.path[1] \in {0, flush.path[1]}
    BY <1>0, <1>4 DEF FlushSave, FlushSaveFails, Leave, Flushes
  <2> QED  BY <2>1, <2>2 DEF UpperStep
<1>5. ASSUME FlushClear \/ FlushTruncate \/ FlushTruncateFails PROVE UpperStep
  <2>1. manifest' = manifest /\ compaction' = compaction
    BY <1>5 DEF FlushClear, FlushTruncate, FlushTruncateFails, compactionVars
  <2>2. flush'.path[1] \in {0, flush.path[1]}
    BY <1>0, <1>5 DEF FlushClear, FlushTruncate, FlushTruncateFails, Leave, Flushes
  <2> QED  BY <2>1, <2>2 DEF UpperStep
<1>6. ASSUME FlushCompact PROVE UpperStep
  <2>1. manifest' = manifest /\ flush' = NoFlush
    BY <1>6 DEF FlushCompact, Leave
  <2>2. compaction'.inputs \in {compaction.inputs, {}}
    BY <1>6 DEF FlushCompact, MayStartCompaction, NoCompaction
  <2> QED  BY <1>0, <2>1, <2>2 DEF UpperStep
<1> QED  BY <1>1, <1>2, <1>3, <1>4, <1>5, <1>6 DEF Flusher, FlushStep

\* A compaction takes level 0 as its inputs and adds to level 1.
LEMMA CompactorUpper ==
  ASSUME TInv, Compactor
  PROVE  UpperStep
<1>0. /\ compaction \in Compactions /\ flush' = flush /\ 0 \in Levels /\ 1 \in Levels
      /\ manifest \in Manifests /\ manifest.mem \in [Levels -> SUBSET Entries]
      /\ NoCompaction.inputs = {}
  BY DEF TInv, DiskTyped, Manifests, LevelSets, Levels, Compactor, engineVars, NoCompaction
<1>1. ASSUME CompactSnapshot \/ CompactWrite \/ CompactWriteFails PROVE UpperStep
  <2>1. manifest' = manifest
    BY <1>1 DEF CompactSnapshot, CompactWrite, CompactWriteFails
  <2>2. compaction'.inputs \in {compaction.inputs, manifest.mem[0], {}}
    BY <1>0, <1>1 DEF CompactSnapshot, CompactWrite, CompactWriteFails, Compactions
  <2> QED  BY <1>0, <2>1, <2>2 DEF UpperStep
<1>2. ASSUME CompactInstall \/ CompactInstallFails PROVE UpperStep
  <2> DEFINE e == [path |-> compaction.out, created |-> clock']
  <2>1. clock' \in Int
    <3>1. Tick(clock')
      BY <1>2 DEF CompactInstall, CompactInstallFails
    <3> QED  BY <3>1, TickType DEF TInv, DiskTyped
  <2>2. e \in Entries
    BY <1>0, <2>1 DEF Entries, Compactions
  <2>3. \/ manifest' = AddSSTable(manifest, 1, e)
        \/ manifest' \in SaveRaised(AddSSTableUnsaved(manifest, 1, e))
    BY <1>2 DEF CompactInstall, CompactInstallFails
  <2>4. manifest'.mem = [manifest.mem EXCEPT ![1] = @ \cup {e}]
    <3> HIDE DEF e
    <3> QED  BY <1>0, <2>2, <2>3, SavedAdds
  <2>5. manifest'.mem[0] = manifest.mem[0]
    BY <1>0, <2>4
  <2>6. compaction'.inputs \in {compaction.inputs, {}}
    BY <1>0, <1>2 DEF CompactInstall, CompactInstallFails, Compactions
  <2> QED  BY <1>0, <2>5, <2>6 DEF UpperStep
<1>3. ASSUME NEW next, NextInput(next), next.inputs \in {compaction.inputs, {}}
      PROVE  compaction'.inputs \in {compaction.inputs, {}}
  BY <1>0, <1>3 DEF NextInput, Compactions
<1>4. ASSUME CompactRemove \/ CompactRemoveFails PROVE UpperStep
  <2>1. manifest'.mem[0] \subseteq manifest.mem[0]
    BY <1>4, SavedRemoves DEF CompactRemove, CompactRemoveFails
  <2>2. compaction'.inputs \in {compaction.inputs, {}}
    <3>1. [compaction EXCEPT !.pc = "deleting", !.todo = compaction.inputs].inputs = compaction.inputs
      BY <1>0 DEF Compactions
    <3>2. CASE CompactRemove
      BY <1>3, <3>1, <3>2 DEF CompactRemove
    <3>3. CASE CompactRemoveFails
      BY <1>0, <3>3 DEF CompactRemoveFails
    <3> QED  BY <1>4, <3>2, <3>3
  <2> QED  BY <1>0, <2>1, <2>2 DEF UpperStep
<1>5. ASSUME CompactDelete \/ CompactDeleteFails PROVE UpperStep
  <2>1. manifest' = manifest /\ NextInput(NoCompaction)
    BY <1>5 DEF CompactDelete, CompactDeleteFails
  <2>2. compaction'.inputs \in {compaction.inputs, {}}
    BY <1>0, <1>3, <2>1
  <2> QED  BY <1>0, <2>1, <2>2 DEF UpperStep
<1> QED  BY <1>1, <1>2, <1>4, <1>5 DEF Compactor, CompactionNext

\* Nobody else touches the lists.
LEMMA NextUpper ==
  ASSUME TInv, [Next]_vars
  PROVE  UpperStep
<1>0. ASSUME UNCHANGED <<manifest, compaction, flush>> PROVE UpperStep
  BY <1>0 DEF UpperStep
<1>1. ASSUME NEW t \in Writers, WriterCalls(t) \/ WriterReturns(t) PROVE UpperStep
  <2>1. UNCHANGED <<manifest, compaction, flush>>
    BY <1>1 DEF WriterCalls, WriterReturns, Put, Delete, BatchPut, PutApply, SpawnFlush,
                DeleteApply, DeleteSetOffset, BatchMeasure, BatchReject, BatchLog, BatchApply,
                compactionVars
  <2> QED  BY <1>0, <2>1
<1>2. ASSUME FlushAllCall \/ FlushAllLoop PROVE UpperStep
  <2>1. UNCHANGED <<manifest, compaction, flush>>
    BY <1>2 DEF FlushAllCall, FlushAllLoop, compactionVars
  <2> QED  BY <1>0, <2>1
<1>3. ASSUME NEW r \in Readers, ReaderStep(r) PROVE UpperStep
  <2>1. UNCHANGED <<manifest, compaction, flush>>
    BY <1>3 DEF ReaderStep, Get, GetSnapshot, GetProbe, GetRead, compactionVars
  <2> QED  BY <1>0, <2>1
<1>4. ASSUME UNCHANGED vars PROVE UpperStep
  <2>1. UNCHANGED <<manifest, compaction, flush>>
    BY <1>4 DEF vars, engineVars, compactionVars
  <2> QED  BY <1>0, <2>1
<1> QED  BY <1>1, <1>2, <1>3, <1>4, FlusherUpper, CompactorUpper DEF Next

\* "Skip duplicate keys, keep the one from the most recent SSTable"
\* (compaction.py:98): whatever SSTables, threads and failures and however the clock
\* goes, the loop of merge_sstables yields the keys of its inputs once each, in the
\* order an SSTable is written in, with what a search of level 0 finds for them.
THEOREM MergesKeepNewest == Spec => []MergeKeepsNewest
<1>1. Init => UpperLists
  <2>1. UpperList({})
    BY FS_EmptySet DEF UpperList
  <2>2. Init => manifest.mem[0] = {} /\ compaction.inputs = {} /\ flush.path[1] = 0
    BY DEF Init, NewManifest, NoLevels, Levels, NoCompaction, NoFlush
  <2> QED  BY <2>1, <2>2 DEF UpperLists
<1>2. TInv /\ UpperLists /\ [Next]_vars => UpperLists'
  BY NextUpper, UpperListKept
<1>3. UpperLists => MergeKeepsNewest
  BY MergeIsSearch DEF UpperLists, MergeKeepsNewest
<1> QED  BY <1>1, <1>2, <1>3, InitTyped, NextTyped, PTL DEF Spec
=============================================================================
