--------------------------- MODULE RecoveryProofs ---------------------------
(***************************************************************************)
(* The engine over any number of crashes, for every number of keys, values, *)
(* batches, thresholds and failures: a get finds the last write of every    *)
(* key in every life of the engine (ViewOutlivesCrashes), a process that    *)
(* starts after a crash finds every write that has returned and a prefix of *)
(* the one under way (NoWriteLostInCrash), and the truncation at the end of *)
(* a flush loses nothing (TruncationIsSafe).                                *)
(*                                                                         *)
(* The second relates the log to what was written. A log file may hold what *)
(* no replay reads: a torn record, and what was appended behind it. Legible *)
(* cells are those that replay reads, or will once a truncation has cut off *)
(* what is before them. While the process's log has not strayed from        *)
(* wal.log, there is a legible part W of the file (LogOK) such that          *)
(*   - the last record in W of every key says what was written last (Says), *)
(*   - W has a record of every key in a buffer (Covers), and still has one  *)
(*     after a truncation to the offset of an older buffer, to the one a    *)
(*     flush has taken, or to the one a writer is about to set.             *)
(* What W has no record of is in no buffer, and the SSTables that the       *)
(* manifest on disk names have it: a file that a failed save has left in    *)
(* memory alone holds only keys of the oldest buffer, or of its inputs      *)
(* (UnsavedOK).                                                            *)
(*                                                                         *)
(* The third needs LogOK of the file that is left when a process reads all  *)
(* of it. When the file breaks off, a process reads the cells before the    *)
(* break, and these are what the running one has read when it started or    *)
(* what a truncation has left of that: a buffer that would cut them has the *)
(* last record of each of their keys (BreakOK), so the SSTable of its flush *)
(* has it, and a process finds after the truncation what it found before.   *)
(***************************************************************************)
EXTENDS Recovery, FlushProofs

-----------------------------------------------------------------------------
(* What a crash leaves of the log *)

\* What the engine writes are records of a length.
LEMMA PairsSized == Sized(Pairs) /\ LogsOver(Pairs) = Seq(CellSet)
BY EngineAssumption DEF Sized, LogsOver, CellsOver, CellSet

\* Part of a write.
LEMMA TornType ==
  ASSUME NEW cells \in Seq(CellSet), NEW torn \in TornPrefixes(cells)
  PROVE  torn \in Seq(CellSet)
<1>1. Len(cells) \in Nat
  BY LenProperties
<1>2. ASSUME NEW n \in 0..(Len(cells) - 1) PROVE SubSeq(cells, 1, n) \in Seq(CellSet)
  <2>1. n \in Nat /\ n <= Len(cells) /\ 1 \in Nat \ {0}
    BY <1>1
  <2> QED  BY <2>1, SubIs
<1>3. CASE torn \in {SubSeq(cells, 1, n) : n \in 1..(Len(cells) - 1)}
  <2>1. PICK n \in 1..(Len(cells) - 1) : torn = SubSeq(cells, 1, n)
    BY <1>3
  <2>2. n \in 0..(Len(cells) - 1)
    BY <1>1
  <2> QED  BY <1>2, <2>1, <2>2
<1>4. ASSUME NEW n \in 0..(Len(cells) - 1),
             torn = SubSeq(cells, 1, n) \o <<Cell(cells[n + 1].rec, 0)>>
      PROVE  torn \in Seq(CellSet)
  <2>1. n + 1 \in 1..Len(cells)
    BY <1>1
  <2>2. cells[n + 1] \in CellSet
    BY <2>1, ElementOfSeq
  <2> DEFINE last == Cell(cells[n + 1].rec, 0)
             whole == SubSeq(cells, 1, n)
  <2>3. last \in CellSet
    BY <2>2 DEF CellSet, Cell
  <2>4. whole \in Seq(CellSet)
    BY <1>2
  <2> HIDE DEF last, whole
  <2>5. <<last>> \in Seq(CellSet)
    BY <2>3
  <2>6. whole \o <<last>> \in Seq(CellSet)
    BY <2>4, <2>5, ConcatProperties
  <2> QED  BY <1>4, <2>6 DEF last, whole
<1> QED  BY <1>3, <1>4 DEF TornPrefixes

\* The writes that may be going on are writes of pairs.
LEMMA LogWritesType ==
  ASSUME WritersTyped, NEW ps \in LogWrites
  PROVE  ps \in Seq(Pairs)
<1>1. CASE ps \in {<<p>> : p \in TornPairs}
  <2>1. PICK p \in TornPairs : ps = <<p>>
    BY <1>1
  <2>2. p \in Pairs
    BY RecoveryAssumption
  <2> QED  BY <2>1, <2>2
<1>2. ASSUME NEW t \in Writers, ps = writer[t].pairs PROVE ps \in Seq(Pairs)
  BY <1>2, LocalsIs DEF WritersTyped
<1> QED  BY <1>1, <1>2 DEF LogWrites

\* What a crash leaves at the end of the log is cells.
LEMMA TailsType ==
  ASSUME WritersTyped, NEW tail \in Tails
  PROVE  tail \in Seq(CellSet)
<1>1. <<>> \in Seq(CellSet)
  BY EmptySeq
<1>2. ASSUME NEW ps \in LogWrites, tail \in TornPrefixes(BatchCells(ps))
      PROVE  tail \in Seq(CellSet)
  BY <1>2, LogWritesType, BatchCellsType, TornType
<1> QED  BY <1>1, <1>2 DEF Tails

\* Replay yields pairs of the log, each with the place where its record starts.
LEMMA ReplayedType ==
  ASSUME NEW s \in Seq(CellSet)
  PROVE  /\ ReplayedRecords(s) \in Seq(Pairs)
         /\ Len(ReplayedRecords(s)) = Len(Replay(s))
         /\ Replay(s) \in Seq(Listed(Pairs))
         /\ \A j \in 1..Len(Replay(s)) : ReplayedRecords(s)[j] = Replay(s)[j].rec
<1> DEFINE q == Replay(s)
<1>1. PICK ends : Lists(Pairs, s, GoodLen(s), q, ends)
  BY PairsSized, ReplayIs
<1>2. q \in Seq(Listed(Pairs))
  BY <1>1 DEF Lists
<1>3. ReplayedRecords(s) = [j \in DOMAIN q |-> q[j].rec]
  BY DEF ReplayedRecords
<1> HIDE DEF q
<1>4. DOMAIN q = 1..Len(q) /\ Len(q) \in Nat /\ \A j \in 1..Len(q) : q[j] \in Listed(Pairs)
  BY <1>2, LenProperties, ElementOfSeq
<1>5. \A j \in 1..Len(q) : q[j].rec \in Pairs
  BY <1>4 DEF Listed
<1> DEFINE n == Len(q)
           r == [j \in 1..n |-> q[j].rec]
<1>6. ReplayedRecords(s) = r /\ n \in Nat
  BY <1>3, <1>4
<1>7. r \in Seq(Pairs) /\ Len(r) = n /\ \A j \in 1..n : r[j] = q[j].rec
  <2> HIDE DEF n
  <2> QED  BY <1>5, <1>6 DEF n
<1> QED  BY <1>2, <1>6, <1>7 DEF q

\* The offset of what replay has put into the MemTable.
ReplayedOffset(s) == IF Replay(s) = <<>> THEN 0 ELSE Last(Replay(s)).off

\* The offset a restart begins with is that of a record it has read.
LEMMA ReplayedOffsetIs ==
  ASSUME NEW s \in Seq(CellSet)
  PROVE  /\ ReplayedOffset(s) \in Nat
         /\ ReplayedOffset(s) # 0 => /\ ReplayedOffset(s) + 1 \in 1..GoodLen(s)
                                     /\ s[ReplayedOffset(s) + 1].part = 1
<1> DEFINE q == Replay(s)
           n == Len(q)
           g == GoodLen(s)
<1>1. PICK ends : Lists(Pairs, s, g, q, ends)
  BY PairsSized, ReplayIs
<1>2. q \in Seq(Listed(Pairs)) /\ n \in Nat
  BY <1>1, LenProperties DEF Lists
<1>3. g \in Nat /\ g <= Len(s) /\ Len(s) \in Nat
  BY PairsSized, GoodLenIs, LenProperties
<1>4. ReplayedOffset(s) = IF q = <<>> THEN 0 ELSE q[n].off
  BY DEF ReplayedOffset, Last
<1> HIDE DEF q, g
<1>5. CASE q = <<>>
  BY <1>4, <1>5
<1>6. CASE q # <<>>
  <2>1. n \in 1..n
    BY <1>2, <1>6, EmptySeq
  <2> DEFINE e == ends[n]
  <2>2. e \in 1..g /\ Complete(s, e) /\ q[n] = Entry(s, e)
    BY <1>1, <2>1 DEF Lists
  <2> HIDE DEF e
  <2>3. s[e].part \in 1..e /\ s[e - s[e].part + 1] = Cell(s[e].rec, 1)
    BY <2>2, PairsSized, PartsBack DEF g
  <2>4. q[n].off = e - s[e].part
    BY <2>2 DEF Entry, Complete
  <2>5. q[n].off \in Nat /\ q[n].off + 1 \in 1..g
    BY <1>3, <2>2, <2>3, <2>4
  <2>6. s[q[n].off + 1].part = 1
    BY <2>3, <2>4 DEF Cell
  <2> QED  BY <1>4, <1>6, <2>5, <2>6 DEF g
<1> QED  BY <1>5, <1>6

\* The MemTable of a new process.
LEMMA NewMemTableIs ==
  /\ NewMemTable \in MemTables /\ NewMemTable.frozen = <<>>
  /\ NewMemTable.data = EmptyTable
  /\ \A k : MemGet(NewMemTable, k) = None
<1>1. NewMemTable = [data |-> EmptyTable, size |-> 0, off |-> 0, frozen |-> <<>>]
  BY DEF NewMemTable
<1> DEFINE none == <<>>
<1>2. none \in Seq(Buffers) /\ NewMemTable = [data |-> EmptyTable, size |-> 0, off |-> 0, frozen |-> none]
  BY <1>1, EmptySeq
<1> HIDE DEF none
<1>3. NewMemTable \in MemTables
  <2>1. 0 \in Int /\ 0 \in Nat
    OBVIOUS
  <2>2. [data |-> EmptyTable, size |-> 0, off |-> 0, frozen |-> none] \in MemTables
    BY <1>2, <2>1, EmptyTableIs, MemTableOf
  <2> QED  BY <1>2, <2>2
<1>4. \A k : MemGet(NewMemTable, k) = None
  <2>1. \A k : k \notin DOMAIN EmptyTable
    BY DEF EmptyTable
  <2>2. NewMemTable.data = EmptyTable /\ NewMemTable.frozen = <<>>
    BY <1>1
  <2>3. \A k : NewestHolder(<<>>, k) = {}
    BY DEF NewestHolder
  <2> QED  BY <2>1, <2>2, <2>3 DEF MemGet, SearchQueue
<1> QED  BY <1>1, <1>3, <1>4

\* What replay makes of a log.
LEMMA RestoredIs ==
  ASSUME NEW s \in Seq(CellSet)
  PROVE  /\ ReplayWal(s) = BatchMem(NewMemTable, ReplayedRecords(s), ReplayedOffset(s))
         /\ ReplayWal(s) \in MemTables
         /\ ReplayWal(s).frozen = <<>>
         /\ \A k : MemGet(ReplayWal(s), k) =
                     IF k \in BatchKeys(ReplayedRecords(s)) THEN BatchValue(ReplayedRecords(s), k)
                     ELSE None
<1>1. ReplayWal(s) = BatchMem(NewMemTable, ReplayedRecords(s), ReplayedOffset(s))
  BY DEF ReplayWal, BatchMem, ReplayedOffset
<1>2. ReplayedRecords(s) \in Seq(Pairs) /\ ReplayedOffset(s) \in Nat
  BY ReplayedType, ReplayedOffsetIs
<1>3. NewMemTable \in MemTables /\ IsMem(NewMemTable)
  BY NewMemTableIs, MemTableIs
<1>4. ReplayWal(s) \in MemTables
  BY <1>1, <1>2, <1>3, BatchType
<1>5. /\ ReplayWal(s).frozen = NewMemTable.frozen
      /\ \A k : MemGet(ReplayWal(s), k) =
                  IF k \in BatchKeys(ReplayedRecords(s)) THEN BatchValue(ReplayedRecords(s), k)
                  ELSE MemGet(NewMemTable, k)
  <2> DEFINE m == NewMemTable
             ps == ReplayedRecords(s)
             off == ReplayedOffset(s)
  <2>1. IsMem(m) /\ ps \in Seq([key : Keys, value : Stored])
    BY <1>2, <1>3 DEF Pairs
  <2> HIDE DEF m, ps, off
  <2>2. /\ BatchMem(m, ps, off).frozen = m.frozen
        /\ \A k : MemGet(BatchMem(m, ps, off), k) =
                    IF k \in BatchKeys(ps) THEN BatchValue(ps, k) ELSE MemGet(m, k)
    BY <2>1, PutAllMem
  <2> QED  BY <1>1, <2>2 DEF m, ps, off
<1> QED  BY <1>1, <1>4, <1>5, NewMemTableIs

-----------------------------------------------------------------------------
(* The process that starts after a crash *)

\* What Crash comes to, for some file it leaves.
LEMMA CrashIs ==
  ASSUME TInv, Crash
  PROVE  \E file \in Seq(CellSet) :
           /\ \E tail \in Tails : file = wal.file \o tail
           /\ StartsWith(file, ReplayWal(file))
           /\ wal' = [file |-> file, handle |-> "closed", buffer |-> <<>>, pos |-> 0]
<1>1. PICK tail \in Tails : StartsWith(wal.file \o tail, ReplayWal(wal.file \o tail))
  BY DEF Crash
<1> DEFINE file == wal.file \o tail
<1>2. tail \in Seq(CellSet) /\ wal.file \in Seq(CellSet)
  BY TailsType DEF TInv, WALs
<1>3. file \in Seq(CellSet)
  BY <1>2, ConcatProperties
<1>4. wal' = [Crashed(wal) EXCEPT !.file = file]
  BY <1>1 DEF StartsWith
<1> HIDE DEF file
<1>5. wal = [file |-> wal.file, handle |-> wal.handle, buffer |-> <<>>, pos |-> wal.pos]
  BY DEF TInv, WALs
<1>6. wal' = [file |-> file, handle |-> "closed", buffer |-> <<>>, pos |-> 0]
  <2>1. Crashed(wal) = [file |-> wal.file, handle |-> "closed", buffer |-> <<>>, pos |-> 0]
    <3> DEFINE none == <<>>
    <3>1. Crashed(wal) = [[[wal EXCEPT !.handle = "closed"] EXCEPT !.buffer = none] EXCEPT !.pos = 0]
      BY <1>5 DEF Crashed
    <3>2. wal = [file |-> wal.file, handle |-> wal.handle, buffer |-> none, pos |-> wal.pos]
      BY <1>5
    <3> HIDE DEF none
    <3>3. [wal EXCEPT !.handle = "closed"] =
            [file |-> wal.file, handle |-> "closed", buffer |-> none, pos |-> wal.pos]
      BY <3>2
    <3> QED  BY <3>1, <3>3 DEF none
  <2> QED  BY <1>4, <2>1
<1> QED  BY <1>1, <1>3, <1>6 DEF file

\* A search of the SSTables finds a stored value or nothing.
LEMMA SearchLevelsType ==
  ASSUME FilesTyped(files), NEW levels, NEW k
  PROVE  SearchLevels(files, levels, k) \in Stored \cup {None}
<1>1. ASSUME NEW S PROVE SearchLevel(files, S, k) \in Stored \cup {None}
  <2>1. CASE FirstHit(files, S, k) = {}
    BY <2>1 DEF SearchLevel
  <2>2. CASE FirstHit(files, S, k) # {}
    BY <2>2, SearchLevelType
  <2> QED  BY <2>1, <2>2
<1> QED  BY <1>1 DEF SearchLevels

\* The engine starts with every variable of its type.
LEMMA CrashTyped ==
  ASSUME TInv, Crash
  PROVE  TInv'
<1>1. PICK file \in Seq(CellSet) :
        /\ StartsWith(file, ReplayWal(file))
        /\ wal' = [file |-> file, handle |-> "closed", buffer |-> <<>>, pos |-> 0]
  BY CrashIs
<1>2. ReplayWal(file) \in MemTables
  BY RestoredIs
<1>3. MemoryTyped'
  <2>1. mem' = ReplayWal(file) /\ applied' = [k \in Keys |-> RestoredValue(ReplayWal(file), k)]
    BY <1>1 DEF StartsWith
  <2>2. ASSUME NEW k \in Keys PROVE RestoredValue(ReplayWal(file), k) \in Stored \cup {None}
    <3>1. MemGet(ReplayWal(file), k) \in Stored \cup {None}
      BY <1>2, MemGetType
    <3>2. SearchLevels(files, Load(manifest).mem, k) \in Stored \cup {None}
      BY SearchLevelsType DEF TInv, DiskTyped
    <3> QED  BY <3>1, <3>2 DEF RestoredValue
  <2> QED  BY <1>2, <2>1, <2>2 DEF MemoryTyped
<1>4. wal' \in WALs
  BY <1>1 DEF WALs
<1>5. WritersTyped' /\ calls' \in Nat
  <2>1. IdleWriter \in CallLocals /\ IdleWriter.pc = "idle"
    BY EmptySeq DEF IdleWriter, CallLocals
  <2> QED  BY <2>1 DEF Crash, TInv, WritersTyped
<1>6. ReadersTyped'
  <2>1. NoLevels \in LevelSets
    BY DEF NoLevels, LevelSets
  <2>2. NotReading \in Searches
    BY <2>1 DEF NotReading, Searches
  <2> QED  BY <2>2 DEF Crash, ReadersTyped
<1>7. FlushTyped'
  BY EmptyTableIs DEF Crash, FlushTyped, NoFlush, Flushes, Paths, Levels
<1>8. DiskTyped'
  <2>1. manifest' = [manifest EXCEPT !.mem = manifest.disk]
    BY <1>1 DEF StartsWith, Load
  <2>2. manifest' \in Manifests
    BY <2>1 DEF TInv, DiskTyped, Manifests
  <2> QED  BY <2>2, NoCompactionOK DEF Crash, TInv, DiskTyped
<1> QED  BY <1>3, <1>4, <1>5, <1>6, <1>7, <1>8 DEF TInv

\* The manifest it has loaded is the one on disk, and the values its clients find
\* are those there were by definition.
LEMMA CrashInv ==
  ASSUME TInv, IInv, DInv, Crash
  PROVE  IInv' /\ DInv'
<1>1. PICK file \in Seq(CellSet) : StartsWith(file, ReplayWal(file))
  BY CrashIs
<1> DEFINE restored == ReplayWal(file)
<1>2. restored \in MemTables /\ IsMem(restored) /\ restored.frozen = <<>>
  BY RestoredIs, MemTableIs
<1>3. /\ mem' = restored
      /\ manifest' = [manifest EXCEPT !.mem = manifest.disk]
      /\ applied' = [k \in Keys |-> RestoredValue(restored, k)]
      /\ writer' = [t \in Writers |-> IdleWriter]
      /\ flush' = NoFlush /\ compaction' = NoCompaction
      /\ files' = files /\ clock' = clock
  BY <1>1 DEF StartsWith, Load, Crash
<1> HIDE DEF restored
<1>4. manifest \in [mem : LevelSets, disk : LevelSets]
  BY DEF IInv, Shapes
<1>5. /\ manifest'.mem = manifest.disk /\ manifest'.disk = manifest.disk
      /\ manifest' \in [mem : LevelSets, disk : LevelSets]
  BY <1>3, <1>4
<1>6. Shapes'
  <2>1. WritersOK'
    <3>1. IdleWriter = [pc |-> "idle", pairs |-> <<>>, n |-> 0, bytes |-> 0, off |-> 0]
      BY DEF IdleWriter
    <3>2. <<>> \in Seq(Pairs)
      OBVIOUS
    <3> QED  BY <1>3, <3>1, <3>2 DEF WritersOK
  <2> QED  BY <1>2, <1>3, <1>5, <2>1, NoFlushShape, NoCompactionOK DEF Shapes, IInv
<1>7. CompactAt("removing")' = FALSE /\ Inputs' = manifest.disk[0] /\ Upper' = manifest.disk[0]
  BY <1>3, <1>5, NoCompactionOK DEF CompactAt, Inputs, Upper
<1>8. LevelsOK'
  <2>1. manifest.disk[0] \subseteq Inputs /\ manifest.disk[1] \subseteq manifest.mem[1]
    BY TwoLevels DEF DInv, DiskBehind, Inputs
  <2> QED  BY <1>3, <1>5, <1>7, <2>1 DEF IInv, LevelsOK, Dated
<1>9. CompactionOK'
  BY <1>3, NoCompactionOK DEF CompactionOK, CompactAt
<1>10. FlushOK'
  BY <1>3, NoFlushShape DEF FlushOK, FlushAt
<1>11. NothingLost'
  <2>1. ASSUME NEW k \in Keys PROVE OnDisk(k)' = SearchLevels(files, manifest.disk, k)
    BY <1>3, <1>5, <1>7 DEF OnDisk, Find, SearchLevels
  <2>2. Load(manifest).mem = manifest.disk
    BY <1>4 DEF Load
  <2> QED  BY <1>3, <2>1, <2>2 DEF NothingLost, RestoredValue
<1>12. IInv'
  BY <1>6, <1>8, <1>9, <1>10, <1>11 DEF IInv
<1>13. DInv'
  <2>1. DiskBehind' /\ Named'
    BY <1>3, <1>5 DEF DInv, DiskBehind, Named
  <2> QED  BY <1>3, <1>7, <2>1, NoFlushShape DEF DInv, MergedBelow, FlushedOnDisk
<1> QED  BY <1>12, <1>13

-----------------------------------------------------------------------------
(* What holds in every life of the engine *)

RInvariant == TInv /\ IInv /\ DInv

\* The invariants of the engine and of its disk hold in every life.
LEMMA RecoveryInvariant ==
  ASSUME ClockAdvances
  PROVE  RecoverySpec /\ RemovalsSucceed => []RInvariant
<1>1. RecoveryInit => RInvariant
  BY InitTyped, InitIInv, InitDInv DEF RecoveryInit, RInvariant
<1>2. RInvariant /\ [RecoveryNext]_recoveryVars /\ [~CompactRemoveFails]_vars => RInvariant'
  <2> SUFFICES ASSUME RInvariant, [RecoveryNext]_recoveryVars, [~CompactRemoveFails]_vars
               PROVE  RInvariant'
    OBVIOUS
  <2>1. ASSUME UNCHANGED vars PROVE RInvariant'
    <3>1. TInv'
      BY <2>1, NextTyped DEF RInvariant
    <3>2. IInv'
      BY <2>1, UntouchedInv DEF vars, engineVars, compactionVars, RInvariant
    <3>3. DiskStep
      BY <2>1, AwayFromDisk DEF vars, engineVars, compactionVars, RInvariant
    <3> QED  BY <2>1, <3>1, <3>2, <3>3, DiskStepInv DEF RInvariant
  <2>2. CASE EngineRuns /\ ~UNCHANGED vars
    BY <2>2, NextTyped, NextDInv DEF EngineRuns, RInvariant
  <2>3. CASE Crash
    BY <2>3, CrashTyped, CrashInv DEF RInvariant
  <2> QED  BY <2>1, <2>2, <2>3 DEF RecoveryNext, recoveryVars
<1> QED  BY <1>1, <1>2, PTL DEF RecoverySpec, RemovalsSucceed

\* In every life of the engine, whatever a crash cut short and whatever else
\* fails, get finds the last write of every key: one of this process or, of the
\* others, the one it has found when it started.
THEOREM ViewOutlivesCrashes ==
  ASSUME ClockAdvances
  PROVE  RecoverySpec /\ RemovalsSucceed => []ViewConsistent
<1>1. RInvariant => ViewConsistent
  BY IInvIsEnough DEF RInvariant
<1> QED  BY <1>1, RecoveryInvariant, PTL

-----------------------------------------------------------------------------
(* What a log tells *)

\* ps are the records that are complete within the first n cells of s, in their
\* order: they end at the cells ends[1] < ends[2] < ...
Tells(R, s, n, ps, ends) ==
  /\ ps \in Seq(R)
  /\ \A j \in 1..Len(ps) : /\ ends[j] \in 1..n /\ Complete(s, ends[j])
                           /\ ps[j] = s[ends[j]].rec
  /\ \A i, j \in 1..Len(ps) : i < j => ends[i] < ends[j]
  /\ \A e \in 1..n : Complete(s, e) => \E j \in 1..Len(ps) : ends[j] = e

\* The cells of W that end a record of key k.
Ends(s, W, k) == {e \in W : Complete(s, e) /\ s[e].rec.key = k}

\* The cells of one record more.
LEMMA CellsChain ==
  ASSUME NEW R, Sized(R), NEW r \in R
  PROVE  Chain(Cells(r))
<1> DEFINE c == Cells(r)
           n == RecordLen(r)
<1>1. /\ Len(c) = n /\ n \in Nat \ {0}
      /\ \A i \in 1..n : c[i] = Cell(r, i)
  BY CellsAre
<1> HIDE DEF c, n
<1>2. \A i \in 1..n : c[i].rec = r /\ c[i].part = i
  BY <1>1 DEF Cell
<1>3. 1 \in 1..n /\ n \in 1..n
  BY <1>1
<1>4. ASSUME NEW i \in 1..(n - 1) PROVE Follows(c[i], c[i + 1])
  <2>1. i \in 1..n /\ i + 1 \in 1..n /\ i < n
    BY <1>1
  <2> QED  BY <1>1, <1>2, <2>1 DEF Follows, n
<1>5. Chain(c)
  BY <1>1, <1>2, <1>3, <1>4 DEF Chain, n
<1> QED  BY <1>5 DEF c

\* What a log tells with one record more.
LEMMA TellsMore ==
  ASSUME NEW R, Sized(R), NEW u \in LogsOver(R), NEW ps, NEW ends, NEW r \in R,
         Tells(R, u, Len(u), ps, ends)
  PROVE  \E f : Tells(R, u \o Cells(r), Len(u \o Cells(r)), Append(ps, r), f)
<1> DEFINE c == Cells(r)
           a == Len(u)
           b == RecordLen(r)
           t == u \o c
           l == Len(ps)
           qs == Append(ps, r)
           f == [j \in 1..(l + 1) |-> IF j <= l THEN ends[j] ELSE a + b]
<1>1. /\ c \in LogsOver(R) /\ Len(c) = b /\ b \in Nat \ {0}
      /\ \A i \in 1..b : c[i] = Cell(r, i)
  BY CellsAre
<1>2. a \in Nat /\ ps \in Seq(R) /\ l \in Nat
  BY LenProperties DEF LogsOver, Tells
<1> HIDE DEF c
<1>3. /\ Len(t) = a + b
      /\ \A i \in 1..a : t[i] = u[i]
      /\ \A i \in 1..b : t[a + i] = c[i]
  <2>1. /\ Len(u \o c) = Len(u) + Len(c)
        /\ \A i \in 1..Len(u) : (u \o c)[i] = u[i]
        /\ \A i \in 1..Len(c) : (u \o c)[Len(u) + i] = c[i]
    <3>1. u \in Seq(CellsOver(R)) /\ c \in Seq(CellsOver(R))
      BY <1>1 DEF LogsOver
    <3> HIDE DEF a, b, t, l, qs, f
    <3> QED  BY <3>1, JoinIs
  <2> QED  BY <1>1, <2>1
<1>4. \A i \in 1..b : t[a + i].rec = r /\ t[a + i].part = i
  BY <1>1, <1>3 DEF Cell
<1>5. \A e \in 1..(a + b) : e \in 1..a \/ (e - a \in 1..b /\ a + (e - a) = e)
  BY <1>1, <1>2
<1>6. /\ qs \in Seq(R) /\ Len(qs) = l + 1
      /\ qs[l + 1] = r /\ \A j \in 1..l : qs[j] = ps[j]
  BY <1>2
<1>7. f[l + 1] = a + b /\ \A j \in 1..l : f[j] = ends[j]
  BY <1>2
<1>8. /\ \A j \in 1..(l + 1) : j \in 1..l \/ j = l + 1
      /\ (1..l) \subseteq 1..(l + 1) /\ l + 1 \in 1..(l + 1) /\ \A j \in 1..l : ~(l + 1 < j)
  BY <1>2
<1>9. (1..a) \subseteq 1..(a + b) /\ a + b \in 1..(a + b) /\ b \in 1..b /\ \A e \in 1..a : e < a + b
  BY <1>1, <1>2
<1> HIDE DEF t, qs, f, l, a, b
<1>10. \A e \in 1..a : Complete(t, e) <=> Complete(u, e)
  BY <1>3 DEF Complete
<1>11. \A i \in 1..b : Complete(t, a + i) <=> i = b
  BY <1>4 DEF Complete, b
<1>12. ASSUME NEW j \in 1..(l + 1)
       PROVE  f[j] \in 1..(a + b) /\ Complete(t, f[j]) /\ qs[j] = t[f[j]].rec
  <2>1. CASE j \in 1..l
    <3>1. ends[j] \in 1..a /\ Complete(u, ends[j]) /\ ps[j] = u[ends[j]].rec
      BY <2>1 DEF Tells, l, a
    <3> QED  BY <1>3, <1>6, <1>7, <1>9, <1>10, <2>1, <3>1
  <2>2. CASE j = l + 1
    BY <1>4, <1>6, <1>7, <1>9, <1>11, <2>2
  <2> QED  BY <1>8, <2>1, <2>2
<1>13. ASSUME NEW i \in 1..(l + 1), NEW j \in 1..(l + 1), i < j PROVE f[i] < f[j]
  <2>1. i \in 1..l
    BY <1>2, <1>13
  <2>2. CASE j \in 1..l
    BY <1>7, <1>13, <2>1, <2>2 DEF Tells, l
  <2>3. CASE j = l + 1
    <3>1. ends[i] \in 1..a
      BY <2>1 DEF Tells, l, a
    <3> QED  BY <1>7, <1>9, <2>1, <2>3, <3>1
  <2> QED  BY <1>8, <2>2, <2>3
<1>14. ASSUME NEW e \in 1..(a + b), Complete(t, e) PROVE \E j \in 1..(l + 1) : f[j] = e
  <2>1. CASE e \in 1..a
    <3>1. PICK j \in 1..l : ends[j] = e
      BY <1>10, <1>14, <2>1 DEF Tells, l, a
    <3> QED  BY <1>7, <1>8, <3>1
  <2>2. CASE e - a \in 1..b /\ a + (e - a) = e
    BY <1>7, <1>8, <1>11, <1>14, <2>2
  <2> QED  BY <1>5, <2>1, <2>2
<1>15. Tells(R, t, a + b, qs, f)
  BY <1>6, <1>12, <1>13, <1>14 DEF Tells
<1> QED  BY <1>3, <1>15 DEF t, qs, c

\* The cells of a batch tell its records.
LEMMA BatchTells ==
  ASSUME NEW R, Sized(R), NEW ps \in Seq(R)
  PROVE  /\ BatchCells(ps) \in LogsOver(R) /\ Chain(BatchCells(ps))
         /\ \E ends : Tells(R, BatchCells(ps), Len(BatchCells(ps)), ps, ends)
<1> DEFINE P(qs) == /\ BatchCells(qs) \in LogsOver(R) /\ Chain(BatchCells(qs))
                    /\ \E ends : Tells(R, BatchCells(qs), Len(BatchCells(qs)), qs, ends)
           N == {n \in Nat : \A qs \in Seq(R) : Len(qs) = n => P(qs)}
<1>1. 0 \in N
  <2> SUFFICES ASSUME NEW qs \in Seq(R), Len(qs) = 0 PROVE P(qs)
    OBVIOUS
  <2>1. qs = <<>>
    BY EmptySeq
  <2>2. BatchCells(qs) = <<>>
    BY <2>1, BatchOfNone
  <2> DEFINE t == BatchCells(qs)
  <2>3. t \in LogsOver(R) /\ Len(t) = 0 /\ Chain(t)
    BY <2>2, EmptySeq DEF LogsOver, Chain
  <2> HIDE DEF t
  <2>4. Tells(R, t, 0, qs, <<>>)
    BY <2>1 DEF Tells
  <2> QED  BY <2>3, <2>4 DEF t
<1>2. ASSUME NEW n \in Nat, n \in N PROVE n + 1 \in N
  <2> SUFFICES ASSUME NEW qs \in Seq(R), Len(qs) = n + 1 PROVE P(qs)
    OBVIOUS
  <2> DEFINE fs == SubSeq(qs, 1, n)
             r == qs[n + 1]
  <2>1. n + 1 \in 1..Len(qs)
    OBVIOUS
  <2>2. r \in R
    BY <2>1, ElementOfSeq
  <2>3. fs \in Seq(R) /\ Len(fs) = n /\ qs = Append(fs, r)
    OBVIOUS
  <2>4. P(fs)
    BY <1>2, <2>3
  <2> HIDE DEF fs, r
  <2>5. BatchCells(qs) = BatchCells(fs) \o Cells(r)
    BY <2>2, <2>3, BatchMore
  <2>6. Cells(r) \in LogsOver(R) /\ Chain(Cells(r))
    BY <2>2, CellsAre, CellsChain
  <2>7. BatchCells(qs) \in LogsOver(R) /\ Chain(BatchCells(qs))
    <3>1. BatchCells(fs) \o Cells(r) \in LogsOver(R)
      BY <2>4, <2>6, ConcatProperties DEF LogsOver
    <3>2. Chain(BatchCells(fs) \o Cells(r))
      BY <2>4, <2>6, JoinChain
    <3> QED  BY <2>5, <3>1, <3>2
  <2>8. PICK ends : Tells(R, BatchCells(fs), Len(BatchCells(fs)), fs, ends)
    BY <2>4
  <2>9. \E f : Tells(R, BatchCells(fs) \o Cells(r), Len(BatchCells(fs) \o Cells(r)), Append(fs, r), f)
    BY <2>2, <2>4, <2>8, TellsMore
  <2> QED  BY <2>3, <2>5, <2>7, <2>9
<1>3. \A n \in Nat : n \in N
  <2> HIDE DEF N
  <2> QED  BY <1>1, <1>2, AllNaturals
<1>4. Len(ps) \in Nat
  BY LenProperties
<1> QED  BY <1>3, <1>4

\* So do the first of them.
LEMMA TellsFirst ==
  ASSUME NEW R, NEW s, NEW n \in Nat, NEW ps, NEW ends, Tells(R, s, n, ps, ends),
         NEW m \in Nat, m <= n
  PROVE  \E l \in 0..Len(ps) : Tells(R, s, m, SubSeq(ps, 1, l), ends)
<1> DEFINE J == {j \in 1..Len(ps) : ends[j] <= m}
<1>1. ps \in Seq(R) /\ Len(ps) \in Nat /\ \A j \in 1..Len(ps) : ends[j] \in 1..n
  BY LenProperties DEF Tells
<1>2. PICK l \in 0..Len(ps) : /\ \A j \in J : j <= l
                              /\ l # 0 => l \in J
  <2>1. CASE J = {}
    <3>1. 0 \in 0..Len(ps)
      BY <1>1
    <3> QED  BY <2>1, <3>1
  <2>2. CASE J # {}
    <3>1. J \in SUBSET Int /\ Len(ps) \in Int /\ \A j \in J : j <= Len(ps)
      BY <1>1
    <3>2. Max(J) \in J /\ \A j \in J : j <= Max(J)
      <4> HIDE DEF J
      <4> QED  BY <2>2, <3>1, MaxIsLargest
    <3>3. Max(J) \in 0..Len(ps)
      <4> DEFINE x == Max(J)
      <4>1. x \in 1..Len(ps)
        BY <3>2
      <4> HIDE DEF x
      <4>2. x \in 0..Len(ps)
        BY <1>1, <4>1
      <4> QED  BY <4>2 DEF x
    <3> QED  BY <3>2, <3>3
  <2> QED  BY <2>1, <2>2
<1>3. \A j \in 1..Len(ps) : ends[j] <= m <=> j <= l
  <2>1. ASSUME NEW j \in 1..Len(ps), j <= l PROVE ends[j] <= m
    <3>1. l \in J /\ l \in 1..Len(ps) /\ ends[l] <= m
      BY <1>1, <1>2, <2>1
    <3>2. j = l \/ ends[j] < ends[l]
      BY <1>1, <2>1, <3>1 DEF Tells
    <3> QED  BY <1>1, <3>1, <3>2
  <2> QED  BY <1>2, <2>1
<1> DEFINE qs == SubSeq(ps, 1, l)
<1>4. qs \in Seq(R) /\ Len(qs) = l /\ \A j \in 1..l : j \in 1..Len(ps) /\ qs[j] = ps[j]
  <2>1. l \in Nat /\ l <= Len(ps) /\ 1 \in Nat \ {0}
    BY <1>1
  <2> QED  BY <1>1, <2>1
<1> HIDE DEF qs, J
<1>5. ASSUME NEW j \in 1..l
      PROVE  ends[j] \in 1..m /\ Complete(s, ends[j]) /\ qs[j] = s[ends[j]].rec
  <2>1. j \in 1..Len(ps) /\ j <= l
    BY <1>4
  <2>2. ends[j] \in 1..n /\ ends[j] <= m
    BY <1>1, <1>3, <2>1
  <2> QED  BY <1>4, <2>1, <2>2 DEF Tells
<1>6. \A i, j \in 1..l : i < j => ends[i] < ends[j]
  BY <1>4 DEF Tells
<1>7. ASSUME NEW e \in 1..m, Complete(s, e) PROVE \E j \in 1..l : ends[j] = e
  <2>1. e \in 1..n
    OBVIOUS
  <2>2. PICK j \in 1..Len(ps) : ends[j] = e
    BY <1>7, <2>1 DEF Tells
  <2>3. j \in 1..l
    BY <1>1, <1>3, <2>2
  <2> QED  BY <2>2, <2>3
<1>8. Tells(R, s, m, qs, ends)
  BY <1>4, <1>5, <1>6, <1>7 DEF Tells
<1> QED  BY <1>8 DEF qs

\* What the records of a log write to key k, by the cells that end one of them.
LEMMA TellsValue ==
  ASSUME NEW R, NEW s, NEW n \in Nat, NEW ps, NEW ends, Tells(R, s, n, ps, ends), NEW k
  PROVE  /\ k \in BatchKeys(ps) <=> Ends(s, 1..n, k) # {}
         /\ \A e \in Ends(s, 1..n, k) :
              (\A d \in Ends(s, 1..n, k) : d <= e) => BatchValue(ps, k) = s[e].rec.value
<1>1. /\ ps \in Seq(R) /\ DOMAIN ps = 1..Len(ps) /\ Len(ps) \in Nat
      /\ \A j \in 1..Len(ps) : ends[j] \in 1..n
  BY LenProperties DEF Tells
<1>2. \A j \in 1..Len(ps) : ps[j].key = k <=> ends[j] \in Ends(s, 1..n, k)
  BY DEF Tells, Ends
<1>3. \A e \in Ends(s, 1..n, k) : \E j \in 1..Len(ps) : ends[j] = e
  BY DEF Tells, Ends
<1>4. k \in BatchKeys(ps) <=> Ends(s, 1..n, k) # {}
  BY <1>1, <1>2, <1>3 DEF BatchKeys
<1>5. ASSUME NEW e \in Ends(s, 1..n, k), \A d \in Ends(s, 1..n, k) : d <= e
      PROVE  BatchValue(ps, k) = s[e].rec.value
  <2> DEFINE Q(i) == ps[i].key = k /\ \A j \in DOMAIN ps : j > i => ps[j].key # k
  <2>1. PICK i \in 1..Len(ps) : ends[i] = e
    BY <1>3
  <2>2. ps[i].key = k
    BY <1>2, <2>1
  <2>3. ASSUME NEW j \in 1..Len(ps), j > i PROVE ps[j].key # k
    <3>1. ends[i] < ends[j]
      BY <1>1, <2>3 DEF Tells
    <3>2. ends[j] \notin Ends(s, 1..n, k)
      BY <1>1, <1>5, <2>1, <3>1
    <3> QED  BY <1>2, <3>2
  <2>4. Q(i) /\ i \in DOMAIN ps
    BY <1>1, <2>2, <2>3
  <2>5. ASSUME NEW j \in DOMAIN ps, Q(j) PROVE j = i
    <3>1. ~(i > j) /\ ~(j > i)
      BY <1>1, <2>2, <2>3, <2>5
    <3> QED  BY <1>1, <3>1
  <2>6. (CHOOSE j \in DOMAIN ps : Q(j)) = i
    <3> HIDE DEF Q
    <3> QED  BY <2>4, <2>5
  <2>7. BatchValue(ps, k) = ps[i].value
    BY <2>6 DEF BatchValue
  <2> QED  BY <2>1, <2>7 DEF Tells
<1> QED  BY <1>4, <1>5

\* Of cells of a log, one is the last.
LEMMA LastEnd ==
  ASSUME NEW s, NEW n \in Nat, NEW W \in SUBSET (1..n), NEW k, Ends(s, W, k) # {}
  PROVE  \E e \in Ends(s, W, k) : \A d \in Ends(s, W, k) : d <= e
<1> DEFINE T == Ends(s, W, k)
<1>1. T \in SUBSET Int /\ n \in Int /\ T # {} /\ \A e \in T : e <= n
  <2>1. \A e \in T : e \in 1..n
    BY DEF Ends
  <2> HIDE DEF T
  <2> QED  BY <2>1 DEF T
<1>2. Max(T) \in T /\ \A e \in T : e <= Max(T)
  <2> HIDE DEF T
  <2> QED  BY <1>1, MaxIsLargest
<1> QED  BY <1>2

-----------------------------------------------------------------------------
(* Cells that are or will be read *)

\* s reads as records up to a break after its cell g; behind cell b it is whole
\* records again. What is between is what a crash has left of a write, and all
\* that has been read before.
Parted(s, g, b) ==
  /\ g <= b
  /\ g > 0 => s[1].part = 1 /\ \A i \in 1..(g - 1) : Follows(s[i], s[i + 1])
  /\ g < b => IF g = 0 THEN s[1].part # 1 ELSE ~Follows(s[g], s[g + 1])
  /\ b < Len(s) => /\ s[b + 1].part = 1
                   /\ \A i \in (b + 1)..(Len(s) - 1) : Follows(s[i], s[i + 1])
                   /\ Complete(s, Len(s))

\* The cells of s that replay reads, or will once a truncation has cut off what
\* is before them.
Legible(s, W) ==
  \E g, b \in 0..Len(s) : Parted(s, g, b) /\ W = (1..g) \cup ((b + 1)..Len(s))

\* What a new process reads of a log ends at the first break, or at its end.
LEMMA PartedAnew ==
  ASSUME NEW R, Sized(R), NEW s \in LogsOver(R)
  PROVE  /\ GoodLen(s) \in 0..Len(s) /\ Len(s) \in 0..Len(s)
         /\ Parted(s, GoodLen(s), Len(s))
<1> DEFINE g == GoodLen(s)
           b == Len(s)
<1>1. /\ g \in 0..Len(s)
      /\ g # 0 => /\ s[1].part = 1
                  /\ \A i \in 1..(g - 1) : Follows(s[i], s[i + 1])
                  /\ g = Len(s) \/ ~Follows(s[g], s[g + 1])
      /\ g = 0 => s = <<>> \/ s[1].part # 1
  BY GoodLenIs
<1>2. b \in Nat /\ (s = <<>> => b = 0)
  BY LenProperties, EmptySeq DEF LogsOver
<1> HIDE DEF g
<1>3. g \in 0..Len(s) /\ b \in 0..Len(s) /\ g <= b
  BY <1>1, <1>2
<1>4. /\ g > 0 => s[1].part = 1 /\ \A i \in 1..(g - 1) : Follows(s[i], s[i + 1])
      /\ g < b => IF g = 0 THEN s[1].part # 1 ELSE ~Follows(s[g], s[g + 1])
      /\ ~(b < Len(s))
  BY <1>1, <1>2
<1> HIDE DEF b
<1>5. Parted(s, g, b)
  BY <1>3, <1>4 DEF Parted
<1> QED  BY <1>3, <1>5 DEF g, b

\* It reads what it replays.
LEMMA LegibleAnew ==
  ASSUME NEW R, Sized(R), NEW s \in LogsOver(R)
  PROVE  Legible(s, 1..GoodLen(s))
<1> DEFINE g == GoodLen(s)
           b == Len(s)
<1>1. g \in 0..b /\ b \in 0..b /\ Parted(s, g, b) /\ b \in Nat
  BY PartedAnew, LenProperties DEF LogsOver
<1> HIDE DEF g, b
<1>2. 1..g = (1..g) \cup ((b + 1)..b)
  BY <1>1
<1>3. Legible(s, 1..g)
  BY <1>1, <1>2 DEF Legible, b
<1> QED  BY <1>3 DEF g

\* In a chain of whole records, everything is legible.
LEMMA LegibleWhole ==
  ASSUME NEW R, Sized(R), NEW s \in LogsOver(R), Chain(s), NEW W, Legible(s, W)
  PROVE  W = 1..Len(s)
<1>1. PICK g \in 0..Len(s), b \in 0..Len(s) :
        /\ g <= b
        /\ W = (1..g) \cup ((b + 1)..Len(s))
        /\ g < b => IF g = 0 THEN s[1].part # 1 ELSE ~Follows(s[g], s[g + 1])
  BY DEF Legible, Parted
<1>2. Len(s) \in Nat /\ (s = <<>> => Len(s) = 0)
  BY LenProperties, EmptySeq DEF LogsOver
<1>3. ~(g < b)
  <2> SUFFICES ASSUME g < b PROVE FALSE
    OBVIOUS
  <2>1. s # <<>>
    BY <1>2
  <2>2. s[1].part = 1 /\ \A i \in 1..(Len(s) - 1) : Follows(s[i], s[i + 1])
    BY <2>1 DEF Chain
  <2>3. g = 0 \/ g \in 1..(Len(s) - 1)
    BY <1>2
  <2> QED  BY <1>1, <2>2, <2>3
<1> QED  BY <1>1, <1>2, <1>3

\* Whole records are added behind what is read already or will be.
LEMMA PartedMore ==
  ASSUME NEW R, Sized(R), NEW s \in LogsOver(R), NEW t \in LogsOver(R), Chain(t), t # <<>>,
         NEW g \in 0..Len(s), NEW b \in 0..Len(s), Parted(s, g, b)
  PROVE  g \in 0..Len(s \o t) /\ b \in 0..Len(s \o t) /\ Parted(s \o t, g, b)
<1> DEFINE u == s \o t
           a == Len(s)
           c == Len(t)
<1>1. /\ g <= b
      /\ g > 0 => s[1].part = 1 /\ \A i \in 1..(g - 1) : Follows(s[i], s[i + 1])
      /\ g < b => IF g = 0 THEN s[1].part # 1 ELSE ~Follows(s[g], s[g + 1])
      /\ b < Len(s) => /\ s[b + 1].part = 1
                       /\ \A i \in (b + 1)..(Len(s) - 1) : Follows(s[i], s[i + 1])
                       /\ Complete(s, Len(s))
  BY DEF Parted
<1>2. /\ Len(u) = a + c
      /\ \A i \in 1..a : u[i] = s[i]
      /\ \A i \in 1..c : u[a + i] = t[i]
  BY JoinIs DEF LogsOver
<1>3. a \in Nat /\ c \in Nat \ {0}
  BY LenProperties, EmptySeq DEF LogsOver
<1>4. /\ t[1].part = 1
      /\ \A i \in 1..(c - 1) : Follows(t[i], t[i + 1])
      /\ t[c].part = RecordLen(t[c].rec)
  BY DEF Chain
<1>5. \A i \in 1..a : RecordLen(s[i].rec) \in Nat
  BY CellOf
<1> HIDE DEF u
<1>6. g \in 0..Len(u) /\ b \in 0..Len(u) /\ g <= b
  <2>1. g \in 0..a /\ b \in 0..a
    BY <1>1
  <2> HIDE DEF a, c
  <2> QED  BY <1>1, <1>2, <1>3, <2>1
<1>8. g > 0 => u[1].part = 1 /\ \A i \in 1..(g - 1) : Follows(u[i], u[i + 1])
  <2>1. ASSUME g > 0 PROVE 1 \in 1..a /\ \A i \in 1..(g - 1) : i \in 1..a /\ i + 1 \in 1..a
    BY <1>1, <1>3, <2>1
  <2> QED  BY <1>1, <1>2, <2>1
<1>9. g < b => IF g = 0 THEN u[1].part # 1 ELSE ~Follows(u[g], u[g + 1])
  <2>1. ASSUME g < b PROVE g + 1 \in 1..a /\ (g # 0 => g \in 1..a)
    BY <1>1, <1>3, <2>1
  <2> QED  BY <1>1, <1>2, <2>1
<1>10. u[b + 1].part = 1
  <2>1. CASE b < a
    <3>1. b + 1 \in 1..a
      BY <1>1, <1>3, <2>1
    <3> QED  BY <1>1, <1>2, <2>1, <3>1
  <2>2. CASE ~(b < a)
    <3>1. b = a /\ 1 \in 1..c
      BY <1>1, <1>3, <2>2
    <3> QED  BY <1>2, <1>4, <3>1
  <2> QED  BY <2>1, <2>2
<1>11. ASSUME NEW i \in (b + 1)..(Len(u) - 1) PROVE Follows(u[i], u[i + 1])
  <2>0. i \in Int /\ i >= 1 /\ i <= a + c - 1 /\ i >= b + 1
    BY <1>1, <1>2, <1>3
  <2>1. CASE i < a
    <3>1. i \in (b + 1)..(a - 1) /\ i \in 1..a /\ i + 1 \in 1..a /\ b < a
      BY <1>1, <1>3, <2>0, <2>1
    <3> QED  BY <1>1, <1>2, <3>1
  <2>2. CASE i = a
    <3>1. i \in 1..a /\ 1 \in 1..c /\ b < a /\ i + 1 = a + 1
      BY <1>1, <1>3, <2>0, <2>2
    <3>2. u[i] = s[a] /\ u[i + 1] = t[1]
      BY <1>2, <2>2, <3>1
    <3>3. s[a].part = RecordLen(s[a].rec) /\ RecordLen(s[a].rec) \in Nat
      BY <1>1, <1>5, <2>2, <3>1 DEF Complete
    <3> QED  BY <1>4, <3>2, <3>3 DEF Follows
  <2>3. CASE i > a
    <3> DEFINE j == i - a
    <3>1. j \in 1..(c - 1) /\ j \in 1..c /\ j + 1 \in 1..c /\ a + j = i /\ a + (j + 1) = i + 1
      BY <1>3, <2>0, <2>3
    <3>2. u[i] = t[j] /\ u[i + 1] = t[j + 1]
      BY <1>2, <3>1
    <3> HIDE DEF j
    <3> QED  BY <1>4, <3>1, <3>2
  <2> QED  BY <1>3, <2>0, <2>1, <2>2, <2>3
<1>12. Complete(u, Len(u))
  <2>1. c \in 1..c
    BY <1>3
  <2>2. u[a + c] = t[c]
    BY <1>2, <2>1
  <2> QED  BY <1>2, <1>4, <2>2 DEF Complete
<1>13. Parted(u, g, b)
  BY <1>6, <1>8, <1>9, <1>10, <1>11, <1>12 DEF Parted
<1> QED  BY <1>6, <1>13 DEF u

\* So they are added to what is legible.
LEMMA LegibleMore ==
  ASSUME NEW R, Sized(R), NEW s \in LogsOver(R), NEW t \in LogsOver(R), Chain(t), t # <<>>,
         NEW W, Legible(s, W)
  PROVE  Legible(s \o t, W \cup ((Len(s) + 1)..(Len(s) + Len(t))))
<1> DEFINE u == s \o t
           a == Len(s)
           c == Len(t)
           V == W \cup ((a + 1)..(a + c))
<1>1. PICK g \in 0..a, b \in 0..a : Parted(s, g, b) /\ W = (1..g) \cup ((b + 1)..a)
  BY DEF Legible
<1>2. Len(u) = a + c
  BY JoinIs DEF LogsOver
<1>3. a \in Nat /\ c \in Nat
  BY LenProperties DEF LogsOver
<1>4. g \in 0..Len(u) /\ b \in 0..Len(u) /\ Parted(u, g, b)
  BY <1>1, PartedMore
<1> HIDE DEF u, a, c
<1>5. V = (1..g) \cup ((b + 1)..Len(u))
  <2>1. (b + 1)..(a + c) = ((b + 1)..a) \cup ((a + 1)..(a + c))
    BY <1>1, <1>3
  <2> QED  BY <1>1, <1>2, <2>1
<1> HIDE DEF V
<1>6. Legible(u, V)
  BY <1>4, <1>5 DEF Legible
<1> QED  BY <1>6 DEF V, u, a, c

\* A truncation to where a legible record starts leaves what is legible after it.
LEMMA LegibleCut ==
  ASSUME NEW R, Sized(R), NEW s \in LogsOver(R), NEW W, Legible(s, W),
         NEW o \in Nat, o + 1 \in W, s[o + 1].part = 1
  PROVE  Legible(SubSeq(s, o + 1, Len(s)), {e \in 1..(Len(s) - o) : o + e \in W})
<1> DEFINE a == Len(s)
           u == SubSeq(s, o + 1, a)
           V == {e \in 1..(a - o) : o + e \in W}
<1>1. PICK g \in 0..Len(s), b \in 0..Len(s) :
        /\ g <= b
        /\ W = (1..g) \cup ((b + 1)..Len(s))
        /\ g > 0 => s[1].part = 1 /\ \A i \in 1..(g - 1) : Follows(s[i], s[i + 1])
        /\ g < b => IF g = 0 THEN s[1].part # 1 ELSE ~Follows(s[g], s[g + 1])
        /\ b < Len(s) => /\ s[b + 1].part = 1
                         /\ \A i \in (b + 1)..(Len(s) - 1) : Follows(s[i], s[i + 1])
                         /\ Complete(s, Len(s))
  BY DEF Legible, Parted
<1>2. a \in Nat
  BY LenProperties DEF LogsOver
<1>3. o + 1 \in 1..a /\ (o + 1 <= g \/ (b <= o /\ b < a))
  BY <1>1, <1>2
<1>4. /\ Len(u) = a - o
      /\ \A i \in 1..(a - o) : u[i] = s[o + i]
  <2>1. o + 1 \in Nat \ {0} /\ a \in Nat /\ a <= Len(s) /\ o + 1 <= a
    BY <1>2, <1>3
  <2>2. /\ Len(u) = IF o + 1 <= a THEN a - (o + 1) + 1 ELSE 0
        /\ \A i \in 1..Len(u) : u[i] = s[(o + 1) + i - 1]
    <3> HIDE DEF a
    <3> QED  BY <2>1, SubIs DEF LogsOver
  <2>3. Len(u) = a - o
    BY <1>2, <2>1, <2>2
  <2>4. \A i \in 1..(a - o) : (o + 1) + i - 1 = o + i
    OBVIOUS
  <2> HIDE DEF u, a
  <2> QED  BY <2>2, <2>3, <2>4
<1> HIDE DEF u, a
<1>5. CASE o + 1 <= g
  <2> DEFINE h == g - o
             c == b - o
  <2>1. h \in 0..Len(u) /\ c \in 0..Len(u) /\ h <= c /\ h > 0 /\ g <= a /\ b <= a
    BY <1>1, <1>2, <1>3, <1>4, <1>5 DEF a
  <2>2. V = (1..h) \cup ((c + 1)..Len(u))
    <3>1. ASSUME NEW e \in 1..(a - o) PROVE o + e \in W <=> e \in (1..h) \cup ((c + 1)..(a - o))
      BY <1>1, <1>2, <1>3 DEF a
    <3>2. (1..h) \cup ((c + 1)..(a - o)) \subseteq 1..(a - o)
      BY <1>1, <1>2, <1>3, <2>1, <1>4
    <3> HIDE DEF h, c
    <3> QED  BY <1>4, <3>1, <3>2
  <2>3. u[1].part = 1
    <3>1. 1 \in 1..(a - o)
      BY <1>2, <1>3
    <3> QED  BY <1>4, <3>1
  <2>4. ASSUME NEW i \in 1..(h - 1) PROVE Follows(u[i], u[i + 1])
    <3>1. i \in 1..(a - o) /\ i + 1 \in 1..(a - o) /\ o + i \in 1..(g - 1) /\ o + (i + 1) = (o + i) + 1
      BY <1>1, <1>2, <1>3, <2>1, <1>4
    <3>2. u[i] = s[o + i] /\ u[i + 1] = s[(o + i) + 1]
      BY <1>4, <3>1
    <3>3. g > 0
      BY <1>5, <1>1
    <3> QED  BY <1>1, <3>1, <3>2, <3>3
  <2>5. h < c => ~Follows(u[h], u[h + 1])
    <3> SUFFICES ASSUME h < c PROVE ~Follows(u[h], u[h + 1])
      OBVIOUS
    <3>1. h \in 1..(a - o) /\ h + 1 \in 1..(a - o) /\ o + h = g /\ o + (h + 1) = g + 1 /\ g < b /\ g # 0
      BY <1>1, <1>2, <1>3, <1>5, <2>1, <1>4
    <3> HIDE DEF h, c
    <3>2. u[h] = s[g] /\ u[h + 1] = s[g + 1]
      BY <1>4, <3>1
    <3> QED  BY <1>1, <3>1, <3>2
  <2>6. ASSUME c < Len(u)
        PROVE  /\ u[c + 1].part = 1
               /\ \A i \in (c + 1)..(Len(u) - 1) : Follows(u[i], u[i + 1])
               /\ Complete(u, Len(u))
    <3>1. b < a /\ c + 1 \in 1..(a - o) /\ o + (c + 1) = b + 1 /\ a - o \in 1..(a - o) /\ o + (a - o) = a
      BY <1>1, <1>2, <1>3, <1>4, <2>1, <2>6
    <3>2. ASSUME NEW i \in (c + 1)..(Len(u) - 1)
          PROVE  /\ i \in 1..(a - o) /\ i + 1 \in 1..(a - o)
                 /\ o + i \in (b + 1)..(a - 1) /\ o + (i + 1) = (o + i) + 1
      BY <1>1, <1>2, <1>3, <1>4, <2>1
    <3> HIDE DEF h, c
    <3>3. u[c + 1].part = 1 /\ Complete(u, Len(u))
      <4>1. u[c + 1] = s[b + 1] /\ u[a - o] = s[a]
        BY <1>4, <3>1
      <4> QED  BY <1>1, <1>4, <3>1, <4>1 DEF Complete, a
    <3>4. \A i \in (c + 1)..(Len(u) - 1) : Follows(u[i], u[i + 1])
      <4> SUFFICES ASSUME NEW i \in (c + 1)..(Len(u) - 1) PROVE Follows(u[i], u[i + 1])
        OBVIOUS
      <4>1. u[i] = s[o + i] /\ u[i + 1] = s[(o + i) + 1]
        BY <1>4, <3>2
      <4> QED  BY <1>1, <3>1, <3>2, <4>1 DEF a
    <3> QED  BY <3>3, <3>4
  <2> HIDE DEF h, c, V
  <2>7. h # 0
    BY <2>1
  <2>8. Legible(u, V)
    BY <2>1, <2>2, <2>3, <2>4, <2>5, <2>6, <2>7 DEF Legible, Parted
  <2> QED  BY <2>8 DEF V, u, a
<1>6. CASE b <= o /\ b < a
  <2>1. V = (1..0) \cup ((0 + 1)..Len(u))
    <3>1. ASSUME NEW e \in 1..(a - o) PROVE o + e \in W
      <4>1. o + e \in (b + 1)..a
        BY <1>1, <1>2, <1>6
      <4> QED  BY <1>1, <4>1 DEF a
    <3>2. V = 1..(a - o)
      BY <3>1
    <3> QED  BY <1>4, <3>2
  <2>2. 1 \in 1..(a - o) /\ a - o \in 1..(a - o) /\ o + (a - o) = a /\ 0 \in 0..Len(u)
    BY <1>2, <1>3, <1>4
  <2>3. u[1].part = 1 /\ Complete(u, Len(u))
    <3>1. u[1] = s[o + 1] /\ u[a - o] = s[a]
      BY <1>4, <2>2
    <3> QED  BY <1>1, <1>4, <1>6, <3>1 DEF Complete, a
  <2>4. ASSUME NEW i \in 1..(Len(u) - 1) PROVE Follows(u[i], u[i + 1])
    <3>1. /\ i \in 1..(a - o) /\ i + 1 \in 1..(a - o)
          /\ o + i \in (b + 1)..(a - 1) /\ o + (i + 1) = (o + i) + 1
      BY <1>1, <1>2, <1>3, <1>4, <1>6
    <3>2. u[i] = s[o + i] /\ u[i + 1] = s[(o + i) + 1]
      BY <1>4, <3>1
    <3> QED  BY <1>1, <1>6, <3>1, <3>2 DEF a
  <2> HIDE DEF V
  <2>5. Legible(u, V)
    <3> DEFINE none == 0
    <3>1. /\ \A i \in (none + 1)..(Len(u) - 1) : Follows(u[i], u[i + 1])
          /\ u[none + 1].part = 1
          /\ none <= none /\ ~(none > 0) /\ ~(none < none) /\ none \in 0..Len(u)
          /\ V = (1..none) \cup ((none + 1)..Len(u))
      BY <2>1, <2>2, <2>3, <2>4
    <3> HIDE DEF none
    <3> QED  BY <2>3, <3>1 DEF Legible, Parted
  <2> QED  BY <2>5 DEF V, u, a
<1> QED  BY <1>3, <1>5, <1>6

\* Replay reads as far as cells follow one another.
LEMMA GoodLenAt ==
  ASSUME NEW R, Sized(R), NEW s \in LogsOver(R), NEW n \in 0..Len(s),
         n > 0 => s[1].part = 1 /\ \A i \in 1..(n - 1) : Follows(s[i], s[i + 1]),
         n < Len(s) => IF n = 0 THEN s[1].part # 1 ELSE ~Follows(s[n], s[n + 1])
  PROVE  GoodLen(s) = n
<1> DEFINE g == GoodLen(s)
<1>1. /\ g \in 0..Len(s)
      /\ g # 0 => /\ s[1].part = 1
                  /\ \A i \in 1..(g - 1) : Follows(s[i], s[i + 1])
                  /\ g = Len(s) \/ ~Follows(s[g], s[g + 1])
      /\ g = 0 => s = <<>> \/ s[1].part # 1
  BY GoodLenIs
<1>2. Len(s) \in Nat /\ (s = <<>> => Len(s) = 0)
  BY LenProperties, EmptySeq DEF LogsOver
<1> HIDE DEF g
<1>3. ~(n < g)
  <2> SUFFICES ASSUME n < g PROVE FALSE
    OBVIOUS
  <2>1. n < Len(s) /\ (n = 0 \/ n \in 1..(g - 1)) /\ g # 0
    BY <1>1, <1>2
  <2> QED  BY <1>1, <2>1
<1>4. ~(g < n)
  <2> SUFFICES ASSUME g < n PROVE FALSE
    OBVIOUS
  <2>1. n > 0 /\ g # Len(s) /\ Len(s) # 0 /\ (g = 0 \/ g \in 1..(n - 1))
    BY <1>1, <1>2
  <2> QED  BY <1>1, <1>2, <2>1
<1>5. g = n
  BY <1>1, <1>2, <1>3, <1>4
<1> QED  BY <1>5 DEF g

\* When something is not read, it is from the first break on.
LEMMA PartedEnd ==
  ASSUME NEW R, Sized(R), NEW s \in LogsOver(R), NEW g \in 0..Len(s), NEW b \in 0..Len(s),
         Parted(s, g, b), GoodLen(s) < Len(s)
  PROVE  GoodLen(s) = g
<1>1. /\ g <= b
      /\ g > 0 => s[1].part = 1 /\ \A i \in 1..(g - 1) : Follows(s[i], s[i + 1])
      /\ g < b => IF g = 0 THEN s[1].part # 1 ELSE ~Follows(s[g], s[g + 1])
      /\ b < Len(s) => /\ s[b + 1].part = 1
                       /\ \A i \in (b + 1)..(Len(s) - 1) : Follows(s[i], s[i + 1])
  BY DEF Parted
<1>2. Len(s) \in Nat
  BY LenProperties DEF LogsOver
<1>3. ASSUME g < Len(s) PROVE IF g = 0 THEN s[1].part # 1 ELSE ~Follows(s[g], s[g + 1])
  <2>1. CASE g < b
    BY <1>1, <2>1
  <2>2. CASE b = g
    <3> SUFFICES ASSUME IF g = 0 THEN s[1].part = 1 ELSE Follows(s[g], s[g + 1]) PROVE FALSE
      OBVIOUS
    <3>1. s[1].part = 1
      BY <1>1, <1>2
    <3>2. ASSUME NEW i \in 1..(Len(s) - 1) PROVE Follows(s[i], s[i + 1])
      <4>1. i \in 1..(g - 1) \/ (i = g /\ g # 0) \/ i \in (g + 1)..(Len(s) - 1)
        BY <1>2
      <4> QED  BY <1>1, <1>3, <2>2, <4>1
    <3> DEFINE n == Len(s)
    <3>3. /\ n \in 0..Len(s) /\ ~(n < Len(s))
          /\ n > 0 => s[1].part = 1 /\ \A i \in 1..(n - 1) : Follows(s[i], s[i + 1])
      BY <1>2, <3>1, <3>2
    <3> HIDE DEF n
    <3>4. GoodLen(s) = n
      BY <3>3, GoodLenAt
    <3> QED  BY <1>2, <3>4 DEF n
  <2> QED  BY <1>1, <1>2, <2>1, <2>2
<1> QED  BY <1>1, <1>3, GoodLenAt

\* When everything is read, everything is legible.
LEMMA LegibleRead ==
  ASSUME NEW R, Sized(R), NEW s \in LogsOver(R), GoodLen(s) = Len(s), NEW W, Legible(s, W)
  PROVE  W = 1..Len(s)
<1>1. PICK g \in 0..Len(s), b \in 0..Len(s) : Parted(s, g, b) /\ W = (1..g) \cup ((b + 1)..Len(s))
  BY DEF Legible
<1>2. /\ GoodLen(s) # 0 => /\ s[1].part = 1
                           /\ \A i \in 1..(GoodLen(s) - 1) : Follows(s[i], s[i + 1])
      /\ Len(s) \in Nat
  BY GoodLenIs, LenProperties DEF LogsOver
<1>3. g <= b /\ (g < b => IF g = 0 THEN s[1].part # 1 ELSE ~Follows(s[g], s[g + 1]))
  BY <1>1 DEF Parted
<1>4. ~(g < b)
  <2> SUFFICES ASSUME g < b PROVE FALSE
    OBVIOUS
  <2>1. Len(s) # 0 /\ (g = 0 \/ g \in 1..(Len(s) - 1))
    BY <1>2
  <2> QED  BY <1>2, <1>3, <2>1
<1>5. g = b
  BY <1>3, <1>4
<1> QED  BY <1>1, <1>2, <1>5

\* When a truncation leaves cells that are not read, those before them were read.
LEMMA CutRead ==
  ASSUME NEW R, Sized(R), NEW s \in LogsOver(R), NEW W, Legible(s, W),
         NEW o \in Nat, o + 1 \in W, s[o + 1].part = 1,
         SubSeq(s, o + 1, Len(s)) \in LogsOver(R),
         GoodLen(SubSeq(s, o + 1, Len(s))) < Len(SubSeq(s, o + 1, Len(s)))
  PROVE  /\ GoodLen(s) = o + GoodLen(SubSeq(s, o + 1, Len(s)))
         /\ o < GoodLen(s) /\ GoodLen(s) < Len(s)
<1> DEFINE a == Len(s)
           u == SubSeq(s, o + 1, a)
           n == GoodLen(u)
<1>1. PICK g \in 0..Len(s), b \in 0..Len(s) : Parted(s, g, b) /\ W = (1..g) \cup ((b + 1)..Len(s))
  BY DEF Legible
<1>2. /\ g <= b
      /\ g > 0 => s[1].part = 1 /\ \A i \in 1..(g - 1) : Follows(s[i], s[i + 1])
      /\ b < Len(s) => \A i \in (b + 1)..(Len(s) - 1) : Follows(s[i], s[i + 1])
  BY <1>1 DEF Parted
<1>3. a \in Nat
  BY LenProperties DEF LogsOver
<1>4. o + 1 \in 1..a /\ (o + 1 <= g \/ (b <= o /\ b < a))
  BY <1>1, <1>3
<1>5. Len(u) = a - o /\ \A i \in 1..(a - o) : u[i] = s[o + i]
  <2>1. o + 1 \in Nat \ {0} /\ a \in Nat /\ a <= Len(s) /\ o + 1 <= a
    BY <1>3, <1>4
  <2>2. /\ Len(u) = IF o + 1 <= a THEN a - (o + 1) + 1 ELSE 0
        /\ \A i \in 1..Len(u) : u[i] = s[(o + 1) + i - 1]
    <3> HIDE DEF a
    <3> QED  BY <2>1, SubIs DEF LogsOver
  <2>3. Len(u) = a - o
    BY <1>3, <2>1, <2>2
  <2>4. \A i \in 1..(a - o) : (o + 1) + i - 1 = o + i
    OBVIOUS
  <2> HIDE DEF u, a
  <2> QED  BY <2>2, <2>3, <2>4
<1>6. u \in LogsOver(R) /\ n < Len(u)
  OBVIOUS
<1>7. /\ n \in 0..Len(u)
      /\ n # 0 => /\ u[1].part = 1
                  /\ \A i \in 1..(n - 1) : Follows(u[i], u[i + 1])
                  /\ n = Len(u) \/ ~Follows(u[n], u[n + 1])
      /\ n = 0 => u = <<>> \/ u[1].part # 1
  BY <1>6, GoodLenIs
<1> HIDE DEF u, n, a
<1>8. u[1].part = 1 /\ u # <<>>
  <2>1. 1 \in 1..(a - o)
    BY <1>3, <1>4
  <2>2. Len(<<>>) = 0
    OBVIOUS
  <2> QED  BY <1>3, <1>4, <1>5, <2>1, <2>2
<1>9. n \in 1..(a - o - 1) /\ ~Follows(u[n], u[n + 1])
  BY <1>3, <1>4, <1>5, <1>6, <1>7, <1>8
<1>10. ~(b <= o /\ b < a)
  <2> SUFFICES ASSUME b <= o, b < a PROVE FALSE
    OBVIOUS
  <2>0. b <= o
    OBVIOUS
  <2>1. /\ n \in 1..(a - o) /\ n + 1 \in 1..(a - o)
        /\ o + n \in (b + 1)..(a - 1) /\ o + (n + 1) = (o + n) + 1
    <3>1. b \in Int
      BY <1>1, <1>3 DEF a
    <3> QED  BY <1>3, <1>9, <2>0, <3>1
  <2>2. u[n] = s[o + n] /\ u[n + 1] = s[(o + n) + 1]
    BY <1>5, <2>1
  <2> QED  BY <1>2, <1>9, <2>1, <2>2 DEF a
<1> DEFINE h == o + n
<1>11. /\ h \in 0..a /\ h < a /\ h > 0 /\ o < h /\ g > 0 /\ o <= g - 1
  <2>1. o + 1 <= g /\ n \in Int /\ n >= 1 /\ n <= a - o - 1
    BY <1>3, <1>4, <1>9, <1>10
  <2>2. g \in Int
    BY <1>1, <1>3 DEF a
  <2> QED  BY <1>3, <2>1, <2>2
<1>12. ASSUME NEW i \in 1..(h - 1) PROVE Follows(s[i], s[i + 1])
  <2>1. CASE i <= o
    <3>1. i \in 1..(g - 1)
      BY <1>1, <1>11, <2>1
    <3> QED  BY <1>2, <1>11, <3>1
  <2>2. CASE i > o
    <3> DEFINE j == i - o
    <3>1. j \in 1..(n - 1) /\ j \in 1..(a - o) /\ j + 1 \in 1..(a - o) /\ o + j = i /\ o + (j + 1) = i + 1
      <4>1. n \in Int /\ n <= a - o - 1 /\ i \in Int /\ i <= o + n - 1
        BY <1>3, <1>9
      <4> QED  BY <1>3, <2>2, <4>1
    <3> HIDE DEF j
    <3>2. u[j] = s[i] /\ u[j + 1] = s[i + 1]
      BY <1>5, <3>1
    <3>3. n # 0
      BY <1>9
    <3> QED  BY <1>7, <3>1, <3>2, <3>3
  <2> QED  BY <1>11, <2>1, <2>2
<1>13. ~Follows(s[h], s[h + 1])
  <2>1. n \in 1..(a - o) /\ n + 1 \in 1..(a - o) /\ o + (n + 1) = h + 1
    BY <1>3, <1>9
  <2>2. u[n] = s[h] /\ u[n + 1] = s[h + 1]
    BY <1>5, <2>1
  <2> QED  BY <1>9, <2>2
<1> HIDE DEF h
<1>14. GoodLen(s) = h
  <2>1. s[1].part = 1 /\ h # 0
    BY <1>2, <1>11
  <2> QED  BY <1>11, <1>12, <1>13, <2>1, GoodLenAt DEF a
<1> QED  BY <1>11, <1>14 DEF h, u, n, a

\* What a truncation leaves of the ends of records.
LEMMA EndsCut ==
  ASSUME NEW R, Sized(R), NEW s \in LogsOver(R), NEW W \in SUBSET (1..Len(s)),
         NEW o \in Nat, o <= Len(s), NEW k
  PROVE  LET u == SubSeq(s, o + 1, Len(s))
             V == {e \in 1..(Len(s) - o) : o + e \in W}
         IN /\ \A e \in Ends(u, V, k) : o + e \in Ends(s, W, k) /\ u[e] = s[o + e]
            /\ \A e \in Ends(s, W, k) : e > o => e - o \in Ends(u, V, k)
<1> DEFINE a == Len(s)
           u == SubSeq(s, o + 1, a)
           V == {e \in 1..(a - o) : o + e \in W}
<1>1. a \in Nat
  BY LenProperties DEF LogsOver
<1>2. \A i \in 1..(a - o) : u[i] = s[o + i]
  <2>1. o + 1 \in Nat \ {0} /\ a \in Nat /\ a <= Len(s)
    BY <1>1
  <2>2. /\ Len(u) = IF o + 1 <= a THEN a - (o + 1) + 1 ELSE 0
        /\ \A i \in 1..Len(u) : u[i] = s[(o + 1) + i - 1]
    <3> HIDE DEF a
    <3> QED  BY <2>1, SubIs DEF LogsOver
  <2>3. Len(u) = a - o
    BY <1>1, <2>1, <2>2
  <2>4. \A i \in 1..(a - o) : (o + 1) + i - 1 = o + i
    OBVIOUS
  <2> HIDE DEF u, a
  <2> QED  BY <2>2, <2>3, <2>4
<1> HIDE DEF u, a
<1>3. ASSUME NEW e \in Ends(u, V, k) PROVE o + e \in Ends(s, W, k) /\ u[e] = s[o + e]
  <2>1. e \in 1..(a - o) /\ o + e \in W
    BY DEF Ends
  <2> QED  BY <1>2, <2>1 DEF Ends, Complete
<1>4. ASSUME NEW e \in Ends(s, W, k), e > o PROVE e - o \in Ends(u, V, k)
  <2>1. e \in W /\ e \in 1..a
    BY DEF Ends, a
  <2>2. e - o \in 1..(a - o) /\ o + (e - o) = e
    BY <1>1, <1>4, <2>1
  <2>3. e - o \in V /\ u[e - o] = s[e]
    BY <1>2, <2>1, <2>2
  <2> HIDE DEF V
  <2> QED  BY <2>3 DEF Ends, Complete
<1> QED  BY <1>3, <1>4 DEF u, a

-----------------------------------------------------------------------------
(* A log with part of a write at its end *)

\* Replay yields what the readable part of the log tells.
LEMMA ReplayTells ==
  ASSUME NEW R, Sized(R), NEW s \in LogsOver(R)
  PROVE  \E ends : Tells(R, s, GoodLen(s), ReplayedRecords(s), ends)
<1> DEFINE q == Replay(s)
           g == GoodLen(s)
<1>1. PICK ends : Lists(R, s, g, q, ends)
  BY ReplayIs
<1>2. q \in Seq(Listed(R))
  BY <1>1 DEF Lists
<1>3. ReplayedRecords(s) = [j \in DOMAIN q |-> q[j].rec]
  BY DEF ReplayedRecords
<1> HIDE DEF q, g
<1>4. DOMAIN q = 1..Len(q) /\ Len(q) \in Nat /\ \A j \in 1..Len(q) : q[j] \in Listed(R)
  BY <1>2, LenProperties, ElementOfSeq
<1>5. \A j \in 1..Len(q) : q[j].rec \in R
  BY <1>4 DEF Listed
<1> DEFINE n == Len(q)
           r == [j \in 1..n |-> q[j].rec]
<1>6. ReplayedRecords(s) = r /\ n \in Nat
  BY <1>3, <1>4
<1>7. r \in Seq(R) /\ Len(r) = n /\ \A j \in 1..n : r[j] = q[j].rec
  <2> HIDE DEF n
  <2> QED  BY <1>5, <1>6 DEF n
<1> HIDE DEF r
<1>8. ASSUME NEW j \in 1..n
      PROVE  ends[j] \in 1..g /\ Complete(s, ends[j]) /\ r[j] = s[ends[j]].rec
  <2>1. ends[j] \in 1..g /\ Complete(s, ends[j]) /\ q[j] = Entry(s, ends[j])
    BY <1>1 DEF Lists
  <2> QED  BY <1>7, <2>1 DEF Entry
<1>9. Tells(R, s, g, r, ends)
  BY <1>1, <1>7, <1>8 DEF Tells, Lists
<1> QED  BY <1>6, <1>9 DEF g

\* One part of a write is not the whole.
LEMMA TellsLess ==
  ASSUME NEW R, Sized(R), NEW t \in LogsOver(R), Chain(t), NEW ps, NEW ends,
         Tells(R, t, Len(t), ps, ends), NEW n \in Nat, n < Len(t)
  PROVE  \E l \in 0..Len(ps) : l < Len(ps) /\ Tells(R, t, n, SubSeq(ps, 1, l), ends)
<1>1. Len(t) \in Nat /\ ps \in Seq(R) /\ Len(ps) \in Nat
  BY LenProperties DEF LogsOver, Tells
<1>2. PICK l \in 0..Len(ps) : Tells(R, t, n, SubSeq(ps, 1, l), ends)
  BY <1>1, TellsFirst
<1>3. Complete(t, Len(t)) /\ Len(t) \in 1..Len(t)
  <2>1. t # <<>>
    BY <1>1, EmptySeq
  <2> QED  BY <1>1, <2>1 DEF Chain, Complete
<1>4. PICK j \in 1..Len(ps) : ends[j] = Len(t)
  BY <1>3 DEF Tells
<1>5. l # Len(ps)
  <2> SUFFICES ASSUME l = Len(ps) PROVE FALSE
    OBVIOUS
  <2>1. Len(SubSeq(ps, 1, l)) = l
    BY <1>1
  <2>2. ends[j] \in 1..n
    BY <1>2, <2>1 DEF Tells
  <2> QED  BY <1>1, <1>4, <2>2
<1> QED  BY <1>1, <1>2, <1>5

\* What is behind a log that is read to its end, when it is no record's next part.
LEMMA ReadToThere ==
  ASSUME NEW R, Sized(R), NEW v \in LogsOver(R), NEW y \in LogsOver(R),
         v # <<>> => v[1].part = 1,
         \A i \in 1..(Len(v) - 1) : Follows(v[i], v[i + 1]),
         \A i \in 1..Len(y) : y[i].part = 0
  PROVE  GoodLen(v \o y) = Len(v)
<1> DEFINE u == v \o y
           a == Len(v)
           g == GoodLen(u)
<1>1. /\ u \in LogsOver(R) /\ Len(u) = a + Len(y)
      /\ \A i \in 1..a : u[i] = v[i]
      /\ \A i \in 1..Len(y) : u[a + i] = y[i]
  BY JoinIs DEF LogsOver
<1>2. a \in Nat /\ Len(y) \in Nat /\ (v # <<>> => a \in Nat \ {0})
  BY LenProperties, EmptySeq DEF LogsOver
<1> HIDE DEF u
<1>3. /\ g \in 0..Len(u)
      /\ g # 0 => /\ u[1].part = 1
                  /\ \A i \in 1..(g - 1) : Follows(u[i], u[i + 1])
                  /\ g = Len(u) \/ ~Follows(u[g], u[g + 1])
      /\ g = 0 => u = <<>> \/ u[1].part # 1
  BY <1>1, GoodLenIs
<1> HIDE DEF g
<1>4. CASE a = 0
  <2>1. CASE Len(y) = 0
    BY <1>1, <1>2, <1>3, <1>4, <2>1 DEF g, u
  <2>2. CASE Len(y) # 0
    <3>1. 1 \in 1..Len(y) /\ a + 1 = 1
      BY <1>2, <1>4, <2>2
    <3>2. u[1].part = 0
      BY <1>1, <3>1
    <3> QED  BY <1>3, <1>4, <3>2 DEF g, u
  <2> QED  BY <2>1, <2>2
<1>5. CASE a # 0
  <2>1. v # <<>> /\ 1 \in 1..a
    BY <1>2, <1>5, EmptySeq
  <2>2. u[1].part = 1 /\ u # <<>>
    <3>1. Len(u) # 0
      BY <1>1, <1>2, <1>5
    <3> QED  BY <1>1, <2>1, <3>1, EmptySeq
  <2>3. g # 0
    BY <1>3, <2>2
  <2>4. ~(g < a)
    <3> SUFFICES ASSUME g < a PROVE FALSE
      OBVIOUS
    <3>1. g \in 1..(a - 1) /\ g \in 1..a /\ g + 1 \in 1..a /\ g # Len(u)
      BY <1>1, <1>2, <1>3, <2>3
    <3>2. Follows(u[g], u[g + 1])
      BY <1>1, <3>1
    <3> QED  BY <1>3, <2>3, <3>1, <3>2
  <2>5. ~(g > a)
    <3> SUFFICES ASSUME g > a PROVE FALSE
      OBVIOUS
    <3>1. a \in 1..(g - 1) /\ a \in 1..a /\ 1 \in 1..Len(y) /\ a \in 1..Len(u)
      BY <1>1, <1>2, <1>3, <1>5
    <3>2. Follows(u[a], u[a + 1])
      BY <1>3, <2>3, <3>1
    <3>3. u[a + 1].part = 0
      BY <1>1, <3>1
    <3>4. u[a].part \in Nat
      BY <1>1, <3>1, CellOf
    <3> QED  BY <3>2, <3>3, <3>4 DEF Follows, Cell
  <2>6. g = a
    BY <1>1, <1>2, <1>3, <2>4, <2>5
  <2> QED  BY <2>6 DEF g, u
<1> QED  BY <1>4, <1>5

\* A tail is the first cells of a write, perhaps with some bytes of a prefix.
LEMMA TailIs ==
  ASSUME NEW R, Sized(R), NEW t \in LogsOver(R), NEW tail \in {<<>>} \cup TornPrefixes(t)
  PROVE  \E n \in 0..Len(t), y \in LogsOver(R) :
           /\ tail = SubSeq(t, 1, n) \o y
           /\ \A i \in 1..Len(y) : y[i].part = 0
           /\ tail = <<>> => n = 0
           /\ tail # <<>> => n < Len(t)
<1> DEFINE none == <<>>
<1>1. Len(t) \in Nat /\ none \in LogsOver(R) /\ Len(none) = 0
  BY LenProperties, EmptySeq DEF LogsOver
<1>2. ASSUME NEW n \in 0..Len(t) PROVE SubSeq(t, 1, n) \in LogsOver(R) /\ Len(SubSeq(t, 1, n)) = n
  <2>1. n \in Nat /\ n <= Len(t) /\ 1 \in Nat \ {0}
    BY <1>1
  <2>2. SubSeq(t, 1, n) \in LogsOver(R) /\ Len(SubSeq(t, 1, n)) = IF 1 <= n THEN n - 1 + 1 ELSE 0
    BY <2>1, SubIs DEF LogsOver
  <2> QED  BY <2>1, <2>2
<1> HIDE DEF none
<1>3. ASSUME NEW n \in 0..Len(t) PROVE SubSeq(t, 1, n) \o none = SubSeq(t, 1, n)
  BY <1>2, ConcatEmptySeq DEF LogsOver, none
<1>4. CASE tail = none
  <2>1. SubSeq(t, 1, 0) = none
    <3>1. 0 \in 0..Len(t)
      BY <1>1
    <3> QED  BY <1>2, <3>1, EmptySeq DEF none, LogsOver
  <2>2. 0 \in 0..Len(t) /\ tail = SubSeq(t, 1, 0) \o none /\ \A i \in 1..Len(none) : none[i].part = 0
    BY <1>1, <1>3, <1>4, <2>1
  <2> QED  BY <1>1, <1>4, <2>2 DEF none
<1>5. ASSUME NEW n \in 1..(Len(t) - 1), tail = SubSeq(t, 1, n)
      PROVE  \E y \in LogsOver(R) : /\ n \in 0..Len(t) /\ n < Len(t) /\ tail # none
                                    /\ tail = SubSeq(t, 1, n) \o y
                                    /\ \A i \in 1..Len(y) : y[i].part = 0
  <2>1. n \in 0..Len(t) /\ n < Len(t) /\ n # 0
    BY <1>1
  <2>2. tail = SubSeq(t, 1, n) \o none /\ Len(tail) = n
    BY <1>2, <1>3, <1>5, <2>1
  <2>3. tail # none
    BY <1>1, <2>1, <2>2
  <2> QED  BY <1>1, <2>1, <2>2, <2>3
<1>6. ASSUME NEW n \in 0..(Len(t) - 1), tail = SubSeq(t, 1, n) \o <<Cell(t[n + 1].rec, 0)>>
      PROVE  \E y \in LogsOver(R) : /\ n \in 0..Len(t) /\ n < Len(t) /\ tail # none
                                    /\ tail = SubSeq(t, 1, n) \o y
                                    /\ \A i \in 1..Len(y) : y[i].part = 0
  <2> DEFINE c == Cell(t[n + 1].rec, 0)
             y == <<c>>
             x == SubSeq(t, 1, n)
  <2>1. n \in 0..Len(t) /\ n < Len(t) /\ n + 1 \in 1..Len(t)
    BY <1>1
  <2>2. c \in CellsOver(R) /\ c.part = 0
    <3>1. t[n + 1].rec \in R
      BY <2>1, CellOf
    <3> QED  BY <3>1 DEF Cell, CellsOver
  <2>3. x \in LogsOver(R) /\ Len(x) = n
    BY <1>2, <2>1
  <2> HIDE DEF c, x
  <2>4. y \in LogsOver(R) /\ Len(y) = 1 /\ y[1] = c
    BY <2>2 DEF LogsOver
  <2>5. Len(x \o y) = n + 1
    <3> HIDE DEF y
    <3>1. x \in Seq(CellsOver(R)) /\ y \in Seq(CellsOver(R))
      BY <2>3, <2>4 DEF LogsOver
    <3>2. Len(x \o y) = Len(x) + Len(y)
      BY <3>1, JoinIs
    <3> QED  BY <2>3, <2>4, <3>2
  <2>6. tail = x \o y
    BY <1>6 DEF x, c
  <2>7. tail # none
    BY <1>1, <2>1, <2>5, <2>6
  <2>8. \A i \in 1..Len(y) : y[i].part = 0
    BY <2>2, <2>4
  <2> HIDE DEF y
  <2> QED  BY <2>1, <2>4, <2>6, <2>7, <2>8 DEF x
<1>7. tail = none \/ (\E n \in 1..(Len(t) - 1) : tail = SubSeq(t, 1, n))
        \/ \E n \in 0..(Len(t) - 1) : tail = SubSeq(t, 1, n) \o <<Cell(t[n + 1].rec, 0)>>
  BY DEF TornPrefixes, none
<1> QED  BY <1>4, <1>5, <1>6, <1>7 DEF none

\* What replay makes of a log with whole records and part of a write behind them.
LEMMA RestartReads ==
  ASSUME NEW R, Sized(R), NEW s \in LogsOver(R), Chain(s), NEW t \in LogsOver(R), Chain(t),
         NEW tail \in {<<>>} \cup TornPrefixes(t)
  PROVE  \E n \in 0..Len(t) :
           /\ tail # <<>> => n < Len(t)
           /\ s \o tail \in LogsOver(R)
           /\ GoodLen(s \o tail) = Len(s) + n
           /\ \A i \in 1..(Len(s) + n) : (s \o tail)[i] = (s \o t)[i]
<1>1. PICK n \in 0..Len(t), y \in LogsOver(R) :
        /\ tail = SubSeq(t, 1, n) \o y
        /\ \A i \in 1..Len(y) : y[i].part = 0
        /\ tail # <<>> => n < Len(t)
  BY TailIs
<1> DEFINE x == SubSeq(t, 1, n)
           v == s \o x
           u == s \o tail
           w == s \o t
           a == Len(s)
<1>2. a \in Nat /\ Len(t) \in Nat /\ n \in Nat /\ n <= Len(t)
  BY LenProperties DEF LogsOver
<1>3. x \in LogsOver(R) /\ Len(x) = n /\ \A i \in 1..n : x[i] = t[i]
  <2>1. 1 \in Nat \ {0}
    OBVIOUS
  <2>2. /\ x \in LogsOver(R) /\ Len(x) = IF 1 <= n THEN n - 1 + 1 ELSE 0
        /\ \A i \in 1..Len(x) : x[i] = t[1 + i - 1]
    BY <1>2, <2>1, SubIs DEF LogsOver
  <2>3. \A i \in 1..n : 1 + i - 1 = i
    OBVIOUS
  <2> HIDE DEF x
  <2> QED  BY <1>2, <2>2, <2>3
<1>4. u = v \o y
  <2>1. s \in Seq(CellsOver(R)) /\ x \in Seq(CellsOver(R)) /\ y \in Seq(CellsOver(R))
    BY <1>3 DEF LogsOver
  <2> HIDE DEF x
  <2>2. s \o (x \o y) = (s \o x) \o y
    BY <2>1, ConcatAssociative
  <2> QED  BY <1>1, <2>2 DEF x
<1> HIDE DEF x
<1>5. /\ v \in LogsOver(R) /\ Len(v) = a + n
      /\ \A i \in 1..a : v[i] = s[i]
      /\ \A i \in 1..n : v[a + i] = x[i]
  <2>1. s \in Seq(CellsOver(R)) /\ x \in Seq(CellsOver(R))
    BY <1>3 DEF LogsOver
  <2>2. /\ s \o x \in Seq(CellsOver(R)) /\ Len(s \o x) = Len(s) + Len(x)
        /\ \A i \in 1..Len(s) : (s \o x)[i] = s[i]
        /\ \A i \in 1..Len(x) : (s \o x)[Len(s) + i] = x[i]
    <3> HIDE DEF a, v, u, w
    <3> QED  BY <2>1, JoinIs
  <2> QED  BY <1>3, <2>2 DEF LogsOver
<1>6. /\ Len(w) = a + Len(t)
      /\ \A i \in 1..a : w[i] = s[i]
      /\ \A i \in 1..Len(t) : w[a + i] = t[i]
  BY JoinIs DEF LogsOver
<1>7. Chain(w)
  BY JoinChain
<1> HIDE DEF v, w
<1>8. ASSUME NEW i \in 1..(a + n) PROVE v[i] = w[i]
  <2>1. CASE i <= a
    <3>1. i \in 1..a
      BY <1>2, <2>1
    <3> QED  BY <1>5, <1>6, <3>1
  <2>2. CASE i > a
    <3>1. i - a \in 1..n /\ i - a \in 1..Len(t) /\ a + (i - a) = i
      BY <1>2, <2>2
    <3> DEFINE j == i - a
    <3>2. v[a + j] = x[j] /\ w[a + j] = t[j] /\ x[j] = t[j]
      <4>1. j \in 1..n /\ j \in 1..Len(t)
        BY <3>1
      <4> HIDE DEF j
      <4> QED  BY <1>3, <1>5, <1>6, <4>1
    <3> QED  BY <3>1, <3>2
  <2> QED  BY <1>2, <2>1, <2>2
<1>9. v # <<>> => v[1].part = 1
  <2> SUFFICES ASSUME v # <<>> PROVE v[1].part = 1
    OBVIOUS
  <2>1. Len(v) # 0
    BY <1>5, EmptySeq DEF LogsOver
  <2>2. 1 \in 1..(a + n) /\ Len(w) # 0
    BY <1>2, <1>5, <1>6, <2>1
  <2>3. w # <<>>
    BY <2>2, EmptySeq
  <2> QED  BY <1>7, <1>8, <2>2, <2>3 DEF Chain
<1>10. ASSUME NEW i \in 1..(Len(v) - 1) PROVE Follows(v[i], v[i + 1])
  <2>1. i \in 1..(a + n) /\ i + 1 \in 1..(a + n) /\ i \in 1..(Len(w) - 1) /\ Len(w) # 0
    BY <1>2, <1>5, <1>6
  <2>2. w # <<>>
    BY <2>1, EmptySeq
  <2> QED  BY <1>7, <1>8, <2>1, <2>2 DEF Chain
<1>11. GoodLen(v \o y) = Len(v)
  <2> HIDE DEF a, u
  <2> QED  BY <1>1, <1>5, <1>9, <1>10, ReadToThere
<1>12. v \o y \in LogsOver(R) /\ \A i \in 1..Len(v) : (v \o y)[i] = v[i]
  <2>1. v \in Seq(CellsOver(R)) /\ y \in Seq(CellsOver(R))
    BY <1>5 DEF LogsOver
  <2> QED  BY <2>1, JoinIs DEF LogsOver
<1> QED  BY <1>1, <1>4, <1>5, <1>8, <1>11, <1>12 DEF a, w, u

\* Of every key the records rs say what those of first do, or else the last
\* record in the log s.
SaysOf(s, first, rs) ==
  \A k : IF k \in BatchKeys(first)
         THEN k \in BatchKeys(rs) /\ BatchValue(rs, k) = BatchValue(first, k)
         ELSE /\ k \in BatchKeys(rs) <=> Ends(s, 1..Len(s), k) # {}
              /\ \A e \in Ends(s, 1..Len(s), k) :
                   (\A d \in Ends(s, 1..Len(s), k) : d <= e)
                     => BatchValue(rs, k) = s[e].rec.value

\* What a process finds in such a log: the pairs up to some place in the write
\* that was cut short and, for other keys, what the log said before.
LEMMA RestartFinds ==
  ASSUME NEW R, Sized(R), NEW s \in LogsOver(R), Chain(s), NEW ps \in Seq(R),
         NEW tail \in {<<>>} \cup TornPrefixes(BatchCells(ps))
  PROVE  \E l \in 0..Len(ps) :
           /\ tail # <<>> => l < Len(ps)
           /\ SaysOf(s, SubSeq(ps, 1, l), ReplayedRecords(s \o tail))
<1> DEFINE t == BatchCells(ps)
           u == s \o tail
           w == s \o t
           a == Len(s)
           rs == ReplayedRecords(u)
<1>1. t \in LogsOver(R) /\ Chain(t) /\ Len(t) \in Nat /\ a \in Nat /\ Len(ps) \in Nat
  <2>1. t \in LogsOver(R) /\ Chain(t)
    BY BatchTells
  <2> HIDE DEF t
  <2> QED  BY <2>1, LenProperties DEF LogsOver
<1>2. PICK ends : Tells(R, t, Len(t), ps, ends)
  BY BatchTells
<1> HIDE DEF t
<1>3. PICK n \in 0..Len(t) :
        /\ tail # <<>> => n < Len(t)
        /\ u \in LogsOver(R)
        /\ GoodLen(u) = a + n
        /\ \A i \in 1..(a + n) : u[i] = w[i]
  BY <1>1, RestartReads DEF t
<1> HIDE DEF u
<1>4. PICK told : Tells(R, u, a + n, rs, told)
  BY <1>3, ReplayTells
<1>5. n \in Nat /\ n <= Len(t) /\ a + n \in Nat /\ (n = Len(t) \/ n < Len(t))
  BY <1>1
<1>6. PICK l \in 0..Len(ps) : (tail # <<>> => l < Len(ps)) /\ Tells(R, t, n, SubSeq(ps, 1, l), ends)
  <2>1. CASE n < Len(t)
    BY <1>1, <1>2, <1>5, <2>1, TellsLess
  <2>2. CASE n = Len(t)
    BY <1>1, <1>2, <1>3, <1>5, <2>2, TellsFirst
  <2> QED  BY <1>5, <2>1, <2>2
<1> DEFINE first == SubSeq(ps, 1, l)
           V == 1..(a + n)
<1> HIDE DEF rs, first
<1>7. (\A i \in 1..a : w[i] = s[i]) /\ \A i \in 1..Len(t) : w[a + i] = t[i]
  BY <1>1, JoinIs DEF LogsOver
<1>8. ASSUME NEW k
      PROVE  IF k \in BatchKeys(first)
             THEN k \in BatchKeys(rs) /\ BatchValue(rs, k) = BatchValue(first, k)
             ELSE /\ k \in BatchKeys(rs) <=> Ends(s, 1..a, k) # {}
                  /\ \A e \in Ends(s, 1..a, k) :
                       (\A d \in Ends(s, 1..a, k) : d <= e) => BatchValue(rs, k) = s[e].rec.value
  <2>1. Ends(u, V, k) = Ends(w, V, k)
    <3>1. \A e \in V : u[e] = w[e]
      BY <1>3
    <3> HIDE DEF V, w
    <3> QED  BY <3>1 DEF Ends, Complete
  <2>2. /\ \A e \in 1..a : (e \in Ends(w, V, k) <=> e \in Ends(s, 1..a, k)) /\ w[e] = s[e]
        /\ \A e \in 1..n : (a + e \in Ends(w, V, k) <=> e \in Ends(t, 1..n, k)) /\ w[a + e] = t[e]
        /\ \A e \in Ends(w, V, k) : e \in 1..a \/ (e - a \in 1..n /\ a + (e - a) = e)
    <3>1. ASSUME NEW e \in 1..a PROVE (e \in Ends(w, V, k) <=> e \in Ends(s, 1..a, k)) /\ w[e] = s[e]
      <4>1. e \in V /\ w[e] = s[e]
        BY <1>1, <1>5, <1>7
      <4> HIDE DEF V, w
      <4> QED  BY <4>1 DEF Ends, Complete
    <3>2. ASSUME NEW e \in 1..n
          PROVE  (a + e \in Ends(w, V, k) <=> e \in Ends(t, 1..n, k)) /\ w[a + e] = t[e]
      <4>1. a + e \in V /\ e \in 1..Len(t)
        BY <1>1, <1>5
      <4>2. w[a + e] = t[e]
        BY <1>7, <4>1
      <4> HIDE DEF V, w
      <4> QED  BY <4>1, <4>2 DEF Ends, Complete
    <3>3. ASSUME NEW e \in Ends(w, V, k) PROVE e \in 1..a \/ (e - a \in 1..n /\ a + (e - a) = e)
      <4>1. e \in V
        BY DEF Ends
      <4> QED  BY <1>1, <1>5, <4>1
    <3> QED  BY <3>1, <3>2, <3>3
  <2>3. /\ k \in BatchKeys(rs) <=> Ends(u, V, k) # {}
        /\ \A e \in Ends(u, V, k) :
             (\A d \in Ends(u, V, k) : d <= e) => BatchValue(rs, k) = u[e].rec.value
    BY <1>4, <1>5, TellsValue
  <2>4. /\ k \in BatchKeys(first) <=> Ends(t, 1..n, k) # {}
        /\ \A e \in Ends(t, 1..n, k) :
             (\A d \in Ends(t, 1..n, k) : d <= e) => BatchValue(first, k) = t[e].rec.value
    BY <1>5, <1>6, TellsValue DEF first
  <2>5. CASE k \in BatchKeys(first)
    <3>1. PICK e \in Ends(t, 1..n, k) : \A d \in Ends(t, 1..n, k) : d <= e
      <4>1. (1..n) \in SUBSET (1..n) /\ Ends(t, 1..n, k) # {}
        BY <2>4, <2>5
      <4> QED  BY <1>5, <4>1, LastEnd
    <3>2. e \in 1..n /\ a + e \in Ends(u, V, k)
      <4>1. e \in 1..n
        BY DEF Ends
      <4> QED  BY <2>1, <2>2, <4>1
    <3>3. ASSUME NEW d \in Ends(u, V, k) PROVE d <= a + e
      <4>1. CASE d \in 1..a
        BY <1>1, <3>2, <4>1
      <4>2. CASE d - a \in 1..n /\ a + (d - a) = d
        <5>1. d - a \in Ends(t, 1..n, k)
          BY <2>1, <2>2, <4>2
        <5>2. d - a <= e
          BY <3>1, <5>1
        <5>3. d \in V
          BY DEF Ends
        <5> QED  BY <1>1, <3>2, <5>2, <5>3
      <4> QED  BY <2>1, <2>2, <4>1, <4>2
    <3>4. u[a + e] = t[e]
      <4>1. a + e \in V
        BY <3>2 DEF Ends
      <4> QED  BY <1>3, <2>2, <3>2, <4>1
    <3>5. BatchValue(rs, k) = t[e].rec.value
      BY <2>3, <3>2, <3>3, <3>4
    <3> QED  BY <2>3, <2>4, <2>5, <3>1, <3>2, <3>5
  <2>6. CASE k \notin BatchKeys(first)
    <3>1. ASSUME NEW e \in Ends(u, V, k) PROVE e \in Ends(s, 1..a, k) /\ u[e] = s[e]
      <4>1. e \in 1..a
        BY <2>1, <2>2, <2>4, <2>6
      <4>2. e \in V
        BY DEF Ends
      <4> QED  BY <1>3, <2>1, <2>2, <4>1, <4>2
    <3>2. ASSUME NEW e \in Ends(s, 1..a, k) PROVE e \in Ends(u, V, k)
      <4>1. e \in 1..a
        BY DEF Ends
      <4> QED  BY <2>1, <2>2, <4>1
    <3> HIDE DEF V, w, a
    <3> QED  BY <2>3, <2>6, <3>1, <3>2
  <2> QED  BY <2>5, <2>6
<1>9. SaysOf(s, first, rs)
  BY <1>8 DEF SaysOf
<1> QED  BY <1>6, <1>9 DEF first, rs, u

\* What is legible after the cells t are added, and after a truncation to o.
More(s, W, t) == W \cup ((Len(s) + 1)..(Len(s) + Len(t)))

Left(s, W, o) == {e \in 1..(Len(s) - o) : o + e \in W}

\* A record that is legible starts at the offset o, or o is 0.
Start(s, W, o) == o = 0 \/ (o + 1 \in W /\ s[o + 1].part = 1)

\* So it does, and behind it the log has a record for every key of K.
Covers(s, W, o, K) == Start(s, W, o) /\ \A k \in K : \E e \in Ends(s, W, k) : e > o

\* The last record of every key has the value that F says.
Says(s, W, F) ==
  \A k \in DOMAIN F : \A e \in Ends(s, W, k) :
    (\A d \in Ends(s, W, k) : d <= e) => s[e].rec.value = F[k]

\* What records that are added end.
LEMMA MoreEnds ==
  ASSUME NEW R, Sized(R), NEW s \in LogsOver(R), NEW W \in SUBSET (1..Len(s)),
         NEW ps \in Seq(R), NEW k
  PROVE  LET t == BatchCells(ps)
             V == More(s, W, t)
         IN /\ \A e \in 1..Len(s) : e \in Ends(s \o t, V, k) <=> e \in Ends(s, W, k)
            /\ \A e \in Ends(s \o t, V, k) : e \in Int /\ (e \in 1..Len(s) \/ e > Len(s))
            /\ \A e \in 1..Len(s) : (s \o t)[e] = s[e]
            /\ (\E e \in Ends(s \o t, V, k) : e > Len(s)) <=> k \in BatchKeys(ps)
            /\ \A e \in Ends(s \o t, V, k) : e > Len(s) =>
                 e - Len(s) \in Ends(t, 1..Len(t), k) /\ (s \o t)[e] = t[e - Len(s)]
            /\ \A e \in Ends(t, 1..Len(t), k) : Len(s) + e \in Ends(s \o t, V, k)
<1> DEFINE t == BatchCells(ps)
           u == s \o t
           a == Len(s)
           n == Len(t)
           V == More(s, W, t)
<1>1. t \in LogsOver(R) /\ \E ends : Tells(R, t, n, ps, ends)
  BY BatchTells
<1> HIDE DEF t
<1>2. a \in Nat /\ n \in Nat
  BY <1>1, LenProperties DEF LogsOver
<1>3. (\A i \in 1..a : u[i] = s[i]) /\ \A i \in 1..n : u[a + i] = t[i]
  BY <1>1, JoinIs DEF LogsOver
<1>4. /\ k \in BatchKeys(ps) <=> Ends(t, 1..n, k) # {}
      /\ \A e \in Ends(t, 1..n, k) :
           (\A d \in Ends(t, 1..n, k) : d <= e) => BatchValue(ps, k) = t[e].rec.value
  BY <1>1, <1>2, TellsValue
<1>5. V = W \cup ((a + 1)..(a + n))
  BY DEF More
<1> HIDE DEF u, V
<1>6. ASSUME NEW e \in 1..a PROVE e \in Ends(u, V, k) <=> e \in Ends(s, W, k)
  <2>1. (e \in V <=> e \in W) /\ u[e] = s[e]
    BY <1>2, <1>3, <1>5
  <2> QED  BY <2>1 DEF Ends, Complete
<1>7. ASSUME NEW e \in 1..n
      PROVE  (a + e \in Ends(u, V, k) <=> e \in Ends(t, 1..n, k)) /\ u[a + e] = t[e] /\ a + e > a
  <2>1. a + e \in V /\ u[a + e] = t[e] /\ a + e > a
    BY <1>2, <1>3, <1>5
  <2> QED  BY <2>1 DEF Ends, Complete
<1>8. ASSUME NEW e \in Ends(u, V, k)
      PROVE  /\ e \in Int /\ (e \in 1..a \/ e > a)
             /\ e > a => e - a \in 1..n /\ a + (e - a) = e /\ e - a \in Ends(t, 1..n, k)
                         /\ u[e] = t[e - a]
  <2>1. e \in V
    BY DEF Ends
  <2>2. e \in Int /\ (e \in 1..a \/ e > a) /\ (e > a => e - a \in 1..n /\ a + (e - a) = e)
    BY <1>2, <1>5, <2>1
  <2> DEFINE f == e - a
  <2>3. ASSUME e > a PROVE f \in Ends(t, 1..n, k) /\ u[e] = t[f]
    <3>1. f \in 1..n /\ a + f = e
      BY <2>2, <2>3
    <3> HIDE DEF f
    <3> QED  BY <1>7, <3>1
  <2> QED  BY <2>2, <2>3
<1>9. (\E e \in Ends(u, V, k) : e > a) <=> k \in BatchKeys(ps)
  <2>1. ASSUME NEW e \in Ends(t, 1..n, k) PROVE a + e \in Ends(u, V, k) /\ a + e > a
    <3>1. e \in 1..n
      BY DEF Ends
    <3> QED  BY <1>7, <3>1
  <2> QED  BY <1>4, <1>8, <2>1
<1>10. ASSUME NEW e \in Ends(t, 1..n, k) PROVE a + e \in Ends(u, V, k)
  <2>1. e \in 1..n
    BY DEF Ends
  <2> QED  BY <1>7, <2>1
<1> QED  BY <1>3, <1>6, <1>8, <1>9, <1>10 DEF u, V, t

\* A write behind it covers its keys, for every offset there was.
LEMMA CoversMore ==
  ASSUME NEW R, Sized(R), NEW s \in LogsOver(R), NEW W \in SUBSET (1..Len(s)),
         NEW ps \in Seq(R), NEW o \in Nat, NEW K, Covers(s, W, o, K)
  PROVE  Covers(s \o BatchCells(ps), More(s, W, BatchCells(ps)), o, K \cup BatchKeys(ps))
<1> DEFINE t == BatchCells(ps)
           u == s \o t
           V == More(s, W, t)
<1>1. Len(s) \in Nat
  BY LenProperties DEF LogsOver
<1>2. o <= Len(s)
  BY <1>1 DEF Covers, Start
<1>3. \A e \in 1..Len(s) : u[e] = s[e]
  BY MoreEnds
<1>4. Start(u, V, o)
  <2>1. CASE o # 0
    <3>1. o + 1 \in 1..Len(s) /\ o + 1 \in W /\ s[o + 1].part = 1
      BY <2>1 DEF Covers, Start
    <3>2. o + 1 \in V
      BY <3>1 DEF More
    <3> HIDE DEF u, V
    <3> QED  BY <1>3, <3>1, <3>2 DEF Start
  <2> QED  BY <2>1 DEF Start
<1>5. ASSUME NEW k \in K \cup BatchKeys(ps) PROVE \E e \in Ends(u, V, k) : e > o
  <2>1. /\ \A e \in 1..Len(s) : e \in Ends(u, V, k) <=> e \in Ends(s, W, k)
        /\ \A e \in Ends(u, V, k) : e \in Int
        /\ (\E e \in Ends(u, V, k) : e > Len(s)) <=> k \in BatchKeys(ps)
    BY MoreEnds
  <2> HIDE DEF u, V, t
  <2>2. CASE k \in K
    <3>1. PICK e \in Ends(s, W, k) : e > o
      BY <2>2 DEF Covers
    <3>2. e \in 1..Len(s)
      BY DEF Ends
    <3> QED  BY <2>1, <3>1, <3>2
  <2>3. CASE k \in BatchKeys(ps)
    <3>1. PICK e \in Ends(u, V, k) : e > Len(s)
      BY <2>1, <2>3
    <3> QED  BY <1>1, <1>2, <2>1, <3>1
  <2> QED  BY <2>2, <2>3
<1> QED  BY <1>4, <1>5 DEF Covers

\* And says what it wrote.
LEMMA SaysMore ==
  ASSUME NEW R, Sized(R), NEW s \in LogsOver(R), NEW W \in SUBSET (1..Len(s)),
         NEW ps \in Seq(R), NEW F, NEW G, Says(s, W, F), DOMAIN G = DOMAIN F,
         \A k \in DOMAIN F : G[k] = IF k \in BatchKeys(ps) THEN BatchValue(ps, k) ELSE F[k]
  PROVE  Says(s \o BatchCells(ps), More(s, W, BatchCells(ps)), G)
<1> DEFINE t == BatchCells(ps)
           u == s \o t
           V == More(s, W, t)
<1> SUFFICES ASSUME NEW k \in DOMAIN F, NEW e \in Ends(u, V, k), \A d \in Ends(u, V, k) : d <= e
             PROVE  u[e].rec.value = G[k]
  BY DEF Says
<1>1. /\ \A d \in 1..Len(s) : d \in Ends(u, V, k) <=> d \in Ends(s, W, k)
      /\ \A d \in Ends(u, V, k) : d \in Int /\ (d \in 1..Len(s) \/ d > Len(s))
      /\ \A d \in 1..Len(s) : u[d] = s[d]
      /\ (\E d \in Ends(u, V, k) : d > Len(s)) <=> k \in BatchKeys(ps)
      /\ \A d \in Ends(u, V, k) : d > Len(s) =>
           d - Len(s) \in Ends(t, 1..Len(t), k) /\ u[d] = t[d - Len(s)]
      /\ \A d \in Ends(t, 1..Len(t), k) : Len(s) + d \in Ends(u, V, k)
  BY MoreEnds
<1>2. Len(s) \in Nat /\ Len(t) \in Nat
  <2>1. t \in LogsOver(R)
    BY BatchTells
  <2> HIDE DEF t
  <2> QED  BY <2>1, LenProperties DEF LogsOver
<1>5. \A c \in Ends(t, 1..Len(t), k) :
        (\A d \in Ends(t, 1..Len(t), k) : d <= c) => BatchValue(ps, k) = t[c].rec.value
  <2>1. PICK ends : Tells(R, t, Len(t), ps, ends)
    BY BatchTells
  <2> HIDE DEF t
  <2> QED  BY <1>2, <2>1, TellsValue
<1> HIDE DEF u, V, t
<1>3. CASE e > Len(s)
  <2> DEFINE f == e - Len(s)
  <2>1. f \in Ends(t, 1..Len(t), k) /\ u[e] = t[f] /\ e \in Int
    BY <1>1, <1>3
  <2>2. ASSUME NEW d \in Ends(t, 1..Len(t), k) PROVE d <= f
    <3>1. Len(s) + d <= e /\ d \in Int
      BY <1>1 DEF Ends
    <3> QED  BY <1>2, <2>1, <3>1
  <2>3. k \in BatchKeys(ps)
    BY <1>1, <1>3
  <2> HIDE DEF f
  <2> QED  BY <1>5, <2>1, <2>2, <2>3
<1>4. CASE e \in 1..Len(s)
  <2>1. k \notin BatchKeys(ps)
    <3> SUFFICES ASSUME NEW d \in Ends(u, V, k), d > Len(s) PROVE FALSE
      BY <1>1
    <3> QED  BY <1>1, <1>2, <1>4
  <2>2. e \in Ends(s, W, k) /\ u[e] = s[e]
    BY <1>1, <1>4
  <2>3. ASSUME NEW d \in Ends(s, W, k) PROVE d <= e
    <3>1. d \in 1..Len(s)
      BY DEF Ends
    <3> QED  BY <1>1, <3>1
  <2>4. s[e].rec.value = F[k]
    BY <2>2, <2>3 DEF Says
  <2> QED  BY <2>1, <2>2, <2>4
<1> QED  BY <1>1, <1>3, <1>4

\* A truncation to an offset keeps what lies behind it.
LEMMA CoversLeft ==
  ASSUME NEW R, Sized(R), NEW s \in LogsOver(R), NEW W \in SUBSET (1..Len(s)),
         NEW o \in Nat, o <= Len(s), NEW K, Covers(s, W, o, K)
  PROVE  Covers(SubSeq(s, o + 1, Len(s)), Left(s, W, o), 0, K)
<1> DEFINE u == SubSeq(s, o + 1, Len(s))
           V == Left(s, W, o)
<1>1. ASSUME NEW k \in K PROVE \E e \in Ends(u, V, k) : e > 0
  <2>1. PICK e \in Ends(s, W, k) : e > o
    BY DEF Covers
  <2>2. e - o \in Ends(u, V, k)
    BY <2>1, EndsCut DEF Left
  <2>3. e \in 1..Len(s) /\ e - o > 0
    BY <2>1 DEF Ends
  <2> QED  BY <2>2, <2>3
<1> QED  BY <1>1 DEF Covers, Start

\* A truncation leaves what the log says.
LEMMA SaysLeft ==
  ASSUME NEW R, Sized(R), NEW s \in LogsOver(R), NEW W \in SUBSET (1..Len(s)),
         NEW o \in Nat, o <= Len(s), NEW F, Says(s, W, F)
  PROVE  Says(SubSeq(s, o + 1, Len(s)), Left(s, W, o), F)
<1> DEFINE u == SubSeq(s, o + 1, Len(s))
           V == Left(s, W, o)
<1> SUFFICES ASSUME NEW k \in DOMAIN F, NEW e \in Ends(u, V, k), \A d \in Ends(u, V, k) : d <= e
             PROVE  u[e].rec.value = F[k]
  BY DEF Says
<1>1. /\ \A c \in Ends(u, V, k) : o + c \in Ends(s, W, k) /\ u[c] = s[o + c]
      /\ \A c \in Ends(s, W, k) : c > o => c - o \in Ends(u, V, k)
  BY EndsCut DEF Left
<1>2. e \in Nat
  BY DEF Ends, Left
<1> HIDE DEF u, V
<1>3. ASSUME NEW d \in Ends(s, W, k) PROVE d <= o + e
  <2>1. d \in Nat
    BY DEF Ends
  <2>2. CASE d > o
    <3>1. d - o <= e
      BY <1>1, <2>2
    <3> QED  BY <1>2, <2>1, <3>1
  <2> QED  BY <1>2, <2>1, <2>2
<1> QED  BY <1>1, <1>3 DEF Says

\* The last record of a batch starts where LastOffset says.
LEMMA LastStarts ==
  ASSUME NEW R, Sized(R), NEW ps \in Seq(R), ps # <<>>
  PROVE  /\ Front(ps) \in Seq(R)
         /\ Len(BatchCells(Front(ps))) \in 0..(Len(BatchCells(ps)) - 1)
         /\ BatchCells(ps)[Len(BatchCells(Front(ps))) + 1].part = 1
<1> DEFINE n == Len(ps)
           f == SubSeq(ps, 1, n - 1)
           r == ps[n]
<1>1. n \in Nat \ {0} /\ n \in 1..n
  BY LenProperties, EmptySeq
<1>2. f \in Seq(R) /\ r \in R /\ ps = Append(f, r) /\ Front(ps) = f
  <2>1. f \in Seq(R) /\ r \in R /\ Len(f) = n - 1
    <3>1. r \in R
      BY <1>1, ElementOfSeq
    <3>2. n - 1 \in Nat /\ n - 1 <= Len(ps) /\ 1 \in Nat \ {0} /\ n - 1 - 1 + 1 = n - 1
      BY <1>1
    <3>3. f \in Seq(R) /\ Len(f) = IF 1 <= n - 1 THEN n - 1 - 1 + 1 ELSE 0
      BY <3>2, SubIs
    <3> QED  BY <3>1, <3>2, <3>3
  <2>2. ps = Append(f, r)
    BY <1>1
  <2> QED  BY <2>1, <2>2 DEF Front
<1> HIDE DEF f, r
<1>3. BatchCells(ps) = BatchCells(f) \o Cells(r)
  BY <1>2, BatchMore
<1>4. BatchCells(f) \in LogsOver(R)
  BY <1>2, BatchTells
<1>5. /\ Cells(r) \in LogsOver(R) /\ Len(Cells(r)) = RecordLen(r) /\ RecordLen(r) \in Nat \ {0}
      /\ \A i \in 1..RecordLen(r) : Cells(r)[i] = Cell(r, i)
  BY <1>2, CellsAre
<1> DEFINE x == BatchCells(f)
           y == Cells(r)
<1>6. /\ Len(x \o y) = Len(x) + Len(y) /\ Len(x) \in Nat
      /\ \A i \in 1..Len(y) : (x \o y)[Len(x) + i] = y[i]
  <2>1. x \in Seq(CellsOver(R)) /\ y \in Seq(CellsOver(R))
    BY <1>4, <1>5 DEF LogsOver
  <2> HIDE DEF x, y
  <2> QED  BY <2>1, JoinIs, LenProperties
<1>7. 1 \in 1..Len(y) /\ y[1].part = 1
  <2>1. 1 \in 1..RecordLen(r)
    BY <1>5
  <2> QED  BY <1>5, <2>1 DEF Cell
<1> HIDE DEF x, y
<1>8. Len(x) \in 0..(Len(x \o y) - 1) /\ (x \o y)[Len(x) + 1].part = 1
  BY <1>5, <1>6, <1>7 DEF y
<1> QED  BY <1>2, <1>3, <1>8 DEF x, y

-----------------------------------------------------------------------------
(* What the log and the disk hold while the engine runs *)

\* The one thread that writes.
Owner == CHOOSE t \in Writers : TRUE

\* The pairs it has logged and not put into the MemTable yet.
Logged == IF writer[Owner].pc \in {"put", "delete", "batch"} THEN writer[Owner].pairs ELSE <<>>

\* The keys of pairs, which are logged, and of the buffers of m after the i-th.
Beyond(m, pairs, i) ==
  BatchKeys(pairs) \cup DOMAIN m.data
    \cup UNION {DOMAIN m.frozen[j].data : j \in (i + 1)..Len(m.frozen)}

\* A truncation to a buffer's offset leaves a record of every key of the buffers
\* after it, and of the pairs.
OffsetsOf(s, W, m, pairs) ==
  /\ Covers(s, W, m.off, BatchKeys(pairs))
  /\ \A i \in 1..Len(m.frozen) : Covers(s, W, m.frozen[i].off, Beyond(m, pairs, i))

\* Neither does one to an offset that a flush or a writer keeps.
OffsetsHold(W) ==
  /\ OffsetsOf(wal.file, W, mem, Logged)
  /\ writer[Owner].pc \in {"put", "delete", "setOffset", "batch"} =>
       Start(wal.file, W, writer[Owner].off)
  /\ flush.pc = "cleared" => Covers(wal.file, W, flush.off, Beyond(mem, Logged, 0))

\* The log has a record for every key in a buffer, and the last one of a key
\* says what was written last. A handle that has lost the file leaves it so.
LogHolds(W) ==
  /\ Legible(wal.file, W)
  /\ Covers(wal.file, W, 0, Beyond(mem, Logged, 0))
  /\ Says(wal.file, W, Applied(Logged))
  /\ wal.handle # "detached" => OffsetsHold(W)

\* The table t has what the last record of every key in the first g cells says.
KeepsRead(s, g, t) ==
  \A k \in Keys : \A e \in Ends(s, 1..g, k) :
    (\A d \in Ends(s, 1..g, k) : d <= e) => k \in DOMAIN t /\ t[k] = s[e].rec.value

\* So has a buffer whose offset is among these cells: a truncation to it leaves
\* the part of them behind it, and the buffer's SSTable has the rest.
Keeps(s, g, o, t) == 0 < o /\ o < g => KeepsRead(s, g, t)

QueueKeeps(s, g, m) ==
  \A i \in 1..Len(m.frozen) : Keeps(s, g, m.frozen[i].off, m.frozen[i].data)

\* The buffers, and a flush until it has truncated the log. (A delete has put its
\* tombstone into the active one before its offset.)
BuffersKeep(g) ==
  /\ writer[Owner].pc # "setOffset" => Keeps(wal.file, g, mem.off, mem.data)
  /\ QueueKeeps(wal.file, g, mem)
  /\ flush.pc = "cleared" => Keeps(wal.file, g, flush.off, flush.items)
  /\ writer[Owner].pc \in {"put", "delete", "setOffset", "batch"} => writer[Owner].off >= g

\* What a process has read of the log before a break ends there for its life:
\* what it writes goes behind it.
BreakOK ==
  wal.handle # "detached" =>
    \E g, b \in 0..Len(wal.file) : Parted(wal.file, g, b) /\ BuffersKeep(g)

LogOK == ~strayed => \E W \in SUBSET (1..Len(wal.file)) : LogHolds(W)

\* Where the handle is, and what a step of a writer or a flush tells of it.
HandleOK ==
  /\ wal.handle = "attached" => wal.pos = Len(wal.file)
  /\ wal.handle = "closed" => /\ mem.frozen = <<>> /\ flush.pc = "free"
                              /\ writer[Owner].pc \in {"idle", "measuring"}
  /\ strayed => wal.handle = "detached"
  /\ writer[Owner].pc \in {"measuring", "batch"} => writer[Owner].pairs # <<>>
  /\ flush.pc \in {"taken", "written", "installed", "saved"} =>
       mem.frozen # <<>> /\ flush.off = Head(mem.frozen).off

\* Where a flush is while it has its SSTable in both manifests.
Installed == {"installed", "saved", "cleared"}

\* A failed save leaves an SSTable in memory alone: its keys are in the buffer
\* it is made of, or in the SSTables it is merged from, still.
UnsavedOK ==
  /\ flush.pc \in Installed => manifest.mem[0] \subseteq manifest.disk[0]
  /\ \A e \in manifest.mem[0] \ manifest.disk[0] : \A k :
       Holds(files, e.path, k) => k \in DOMAIN FrozenItems(mem)
  /\ \A e \in manifest.mem[1] \ manifest.disk[1] : \A k :
       Holds(files, e.path, k) => \E f \in manifest.mem[0] : Holds(files, f.path, k)

-----------------------------------------------------------------------------
(* What a step does to the MemTable *)

\* The fields after each operation.
LEMMA PutParts ==
  ASSUME NEW m \in MemTables, NEW k, NEW v
  PROVE  /\ DOMAIN PutUnlocked(m, k, v).data = DOMAIN m.data \cup {k}
         /\ PutUnlocked(m, k, v).off = m.off /\ PutUnlocked(m, k, v).frozen = m.frozen
<1> DEFINE data == [x \in DOMAIN m.data \cup {k} |-> IF x = k THEN v ELSE m.data[x]]
           size == m.size - HeldSize(m.data, k) + SizeOf(v)
           n == PutUnlocked(m, k, v)
<1>1. n = [m EXCEPT !.size = size, !.data = data] /\ DOMAIN data = DOMAIN m.data \cup {k}
  BY DEF PutUnlocked
<1>2. IsMem(m)
  BY MemTableIs
<1> HIDE DEF n, size, data
<1>3. n = [data |-> data, size |-> size, off |-> m.off, frozen |-> m.frozen]
  BY <1>1, <1>2, Refilled
<1>4. n.data = data /\ n.off = m.off /\ n.frozen = m.frozen
  BY <1>3
<1> QED  BY <1>1, <1>4 DEF n

\* What a raise of the offset, a batch and a rotation do to the parts.
LEMMA RaiseParts ==
  ASSUME NEW m \in MemTables, NEW o
  PROVE  /\ RaiseOffset(m, o).data = m.data /\ RaiseOffset(m, o).frozen = m.frozen
         /\ RaiseOffset(m, o).off = IF o > m.off THEN o ELSE m.off
<1> DEFINE r == IF o > m.off THEN o ELSE m.off
<1>1. RaiseOffset(m, o) = [m EXCEPT !.off = r]
  BY DEF RaiseOffset
<1> HIDE DEF r
<1>2. RaiseOffset(m, o) = [data |-> m.data, size |-> m.size, off |-> r, frozen |-> m.frozen]
  BY <1>1 DEF MemTables
<1> QED  BY <1>2 DEF r

LEMMA BatchParts ==
  ASSUME NEW m \in MemTables, NEW pairs, NEW o
  PROVE  /\ DOMAIN BatchMem(m, pairs, o).data = DOMAIN m.data \cup BatchKeys(pairs)
         /\ BatchMem(m, pairs, o).off = o /\ BatchMem(m, pairs, o).frozen = m.frozen
<1> DEFINE ks == BatchKeys(pairs)
           data == [x \in DOMAIN m.data \cup ks |->
                      IF x \in ks THEN BatchValue(pairs, x) ELSE m.data[x]]
           size == m.size + MapThenSumSet(
                       LAMBDA x : SizeOf(BatchValue(pairs, x)) - HeldSize(m.data, x), ks)
           all == PutAllUnlocked(m, pairs)
           n == BatchMem(m, pairs, o)
<1>0. DOMAIN data = DOMAIN m.data \cup ks
  OBVIOUS
<1>1. all = [data |-> data, size |-> size, off |-> m.off, frozen |-> m.frozen]
  <2>1. all = [m EXCEPT !.size = size, !.data = data] /\ IsMem(m)
    BY MemTableIs DEF PutAllUnlocked
  <2> HIDE DEF all, size, data
  <2> QED  BY <2>1, Refilled
<1>2. n = [all EXCEPT !.off = o]
  BY DEF BatchMem
<1> HIDE DEF n, all, size, data
<1>3. n = [data |-> data, size |-> size, off |-> o, frozen |-> m.frozen]
  BY <1>1, <1>2
<1>4. n.data = data /\ n.off = o /\ n.frozen = m.frozen
  BY <1>3
<1> QED  BY <1>0, <1>4 DEF n

LEMMA RotateParts ==
  ASSUME NEW m \in MemTables
  PROVE  LET n == RotateUnlocked(m) IN
         /\ DOMAIN n.data = {} /\ n.off = 0
         /\ Len(m.frozen) \in Nat /\ Len(n.frozen) = Len(m.frozen) + 1
         /\ \A i \in 1..Len(m.frozen) : n.frozen[i] = m.frozen[i]
         /\ n.frozen[Len(m.frozen) + 1].data = m.data
         /\ n.frozen[Len(m.frozen) + 1].off = m.off
<1> DEFINE b == [data |-> m.data, off |-> m.off]
           n == RotateUnlocked(m)
           q == m.frozen
<1>1. /\ n.data = EmptyTable /\ n.off = 0 /\ n.frozen = Append(q, b)
      /\ DOMAIN EmptyTable = {} /\ b.data = m.data /\ b.off = m.off
  BY DEF RotateUnlocked, EmptyTable
<1>2. q \in Seq(Buffers) /\ b \in Buffers
  BY MemTableIs DEF Buffers
<1> HIDE DEF b, n, q
<1>3. /\ Len(q) \in Nat /\ Len(Append(q, b)) = Len(q) + 1
      /\ \A i \in 1..Len(q) : Append(q, b)[i] = q[i]
      /\ Append(q, b)[Len(q) + 1] = b
  BY <1>2, LenProperties, AppendProperties
<1> QED  BY <1>1, <1>3 DEF n, q

\* clear_frozen takes the head off the queue.
LEMMA ClearParts ==
  ASSUME NEW m \in MemTables, m.frozen # <<>>
  PROVE  LET n == ClearFrozen(m) IN
         /\ n.data = m.data /\ n.off = m.off
         /\ Len(m.frozen) \in Nat /\ Len(n.frozen) = Len(m.frozen) - 1
         /\ \A i \in 1..Len(n.frozen) : n.frozen[i] = m.frozen[i + 1]
<1> DEFINE n == ClearFrozen(m)
           q == m.frozen
           r == Tail(q)
<1>1. q \in Seq(Buffers) /\ q # <<>>
  BY MemTableIs
<1>2. n = [m EXCEPT !.frozen = r]
  BY DEF ClearFrozen
<1> HIDE DEF q, r, n
<1>3. n = [data |-> m.data, size |-> m.size, off |-> m.off, frozen |-> r]
  BY <1>2 DEF MemTables
<1>4. n.data = m.data /\ n.off = m.off /\ n.frozen = r
  BY <1>3
<1>5. Len(q) \in Nat /\ Len(r) = Len(q) - 1 /\ \A i \in 1..Len(r) : r[i] = q[i + 1]
  BY <1>1, LenProperties, HeadTailProperties DEF r
<1> QED  BY <1>4, <1>5 DEF n, q

\* A write leaves the head of the queue where it is.
LEMMA HeadStays ==
  ASSUME TInv, NEW t \in Writers,
         PutApply(t) \/ DeleteApply(t) \/ DeleteSetOffset(t) \/ BatchApply(t)
  PROVE  mem.frozen # <<>> => mem'.frozen # <<>> /\ Head(mem'.frozen) = Head(mem.frozen)
<1>0. mem \in MemTables /\ writer[t] \in CallLocals
  BY DEF TInv, MemoryTyped, WritersTyped
<1>1. writer[t].pairs \in Seq(Pairs) /\ writer[t].off \in Nat /\ IsMem(mem)
  BY <1>0, LocalsIs, MemTableIs
<1>2. CASE PutApply(t)
  <2> DEFINE p == writer[t].pairs[1]
             n == PutUnlocked(mem, p.key, p.value)
             m == RaiseOffset(n, writer[t].off)
  <2>1. p.key \in Keys /\ p.value \in Stored
    <3>1. Len(writer[t].pairs) = 1
      BY <1>2 DEF TInv, WritersTyped, PutApply, WriterAt
    <3>2. p \in Pairs
      BY <1>1, <3>1, ElementOfSeq
    <3> QED  BY <3>2 DEF Pairs
  <2>2. mem' = IF IsFull(m) THEN RotateUnlocked(m) ELSE m
    BY <1>2 DEF PutApply
  <2> HIDE DEF p
  <2>3. n \in MemTables /\ n.frozen = mem.frozen
    BY <1>0, <2>1, PutType, PutParts
  <2> HIDE DEF n
  <2>4. m.frozen = mem.frozen /\ IsMem(m)
    BY <2>3, RaiseParts, RaiseOffsetMem, MemTableIs
  <2> HIDE DEF m
  <2> QED  BY <2>2, <2>4, RotateMem
<1>3. CASE DeleteApply(t)
  BY <1>0, <1>3, PutParts DEF DeleteApply
<1>4. CASE DeleteSetOffset(t)
  BY <1>0, <1>4, RaiseParts DEF DeleteSetOffset
<1>5. CASE BatchApply(t)
  <2> DEFINE full == BatchWouldExceed(mem, writer[t].bytes)
             room == IF full THEN RotateUnlocked(mem) ELSE mem
             q == writer[t].pairs
  <2>1. mem' = BatchMem(room, q, writer[t].off)
    BY <1>5 DEF BatchApply, BatchMem
  <2>2. room \in MemTables
    BY <1>0, RotateType
  <2>3. mem.frozen # <<>> => room.frozen # <<>> /\ Head(room.frozen) = Head(mem.frozen)
    BY <1>1, RotateMem
  <2> HIDE DEF room, q
  <2> QED  BY <2>1, <2>2, <2>3, BatchParts
<1> QED  BY <1>2, <1>3, <1>4, <1>5

-----------------------------------------------------------------------------
(* What a failed save of the manifest leaves to the restart *)

\* The manifest on disk becomes the one in memory, or what is added to memory
\* alone holds keys of the oldest buffer, or of level 0.
AddsHeld ==
  \/ manifest'.disk = manifest'.mem
  \/ /\ manifest'.disk = manifest.disk /\ manifest.mem[0] \subseteq manifest'.mem[0]
     /\ flush'.pc \in Installed =>
          flush.pc \in Installed /\ manifest'.mem[0] = manifest.mem[0]
     /\ \A e \in manifest'.mem[0] \ manifest.mem[0] : \A k :
          Holds(files', e.path, k) => k \in DOMAIN FrozenItems(mem')
     /\ \A e \in manifest'.mem[1] \ manifest.mem[1] : \A k :
          Holds(files', e.path, k) => \E f \in manifest.mem[0] : Holds(files, f.path, k)
     /\ \/ flush.pc \in Installed
        \/ DOMAIN FrozenItems(mem) \subseteq DOMAIN FrozenItems(mem')

\* A step of the manifest that adds only what is held keeps UnsavedOK.
LEMMA UnsavedStep ==
  ASSUME UnsavedOK, DiskStep, AddsHeld
  PROVE  UnsavedOK'
<1>1. CASE manifest'.disk = manifest'.mem
  BY <1>1 DEF UnsavedOK
<1>2. CASE manifest'.disk # manifest'.mem
  <2>0. \A l \in Levels : \A e \in manifest.mem[l] : \A k :
          Holds(files', e.path, k) <=> Holds(files, e.path, k)
    BY DEF DiskStep, NamedFilesStay, SameFile, SameIn, Holds
  <2>1. flush'.pc \in Installed => manifest'.mem[0] \subseteq manifest'.disk[0]
    BY <1>2 DEF AddsHeld, UnsavedOK
  <2>2. ASSUME NEW e \in manifest'.mem[0] \ manifest'.disk[0], NEW k, Holds(files', e.path, k)
        PROVE  k \in DOMAIN FrozenItems(mem')
    <3>1. CASE e \in manifest.mem[0]
      <4>1. e \in manifest.mem[0] \ manifest.disk[0] /\ Holds(files, e.path, k)
        BY <1>2, <2>0, <2>2, <3>1, TwoLevels DEF AddsHeld
      <4>2. flush.pc \notin Installed /\ k \in DOMAIN FrozenItems(mem)
        BY <4>1 DEF UnsavedOK
      <4> QED  BY <1>2, <4>2 DEF AddsHeld
    <3> QED  BY <1>2, <2>2, <3>1 DEF AddsHeld
  <2>3. ASSUME NEW e \in manifest'.mem[1] \ manifest'.disk[1], NEW k, Holds(files', e.path, k)
        PROVE  \E f \in manifest'.mem[0] : Holds(files', f.path, k)
    <3>1. \E f \in manifest.mem[0] : Holds(files, f.path, k)
      <4>1. CASE e \in manifest.mem[1]
        <5>1. e \in manifest.mem[1] \ manifest.disk[1] /\ Holds(files, e.path, k)
          BY <1>2, <2>0, <2>3, <4>1, TwoLevels DEF AddsHeld
        <5> QED  BY <5>1 DEF UnsavedOK
      <4> QED  BY <1>2, <2>3, <4>1 DEF AddsHeld
    <3> QED  BY <1>2, <2>0, <3>1, TwoLevels DEF AddsHeld
  <2> QED  BY <2>1, <2>2, <2>3 DEF UnsavedOK
<1> QED  BY <1>1, <1>2

\* Most steps leave the manifest alone.
LEMMA ManifestAside ==
  ASSUME UNCHANGED manifest,
         flush'.pc \in Installed => flush.pc \in Installed,
         \/ flush.pc \in Installed
         \/ DOMAIN FrozenItems(mem) \subseteq DOMAIN FrozenItems(mem')
  PROVE  AddsHeld
BY DEF AddsHeld

\* No writer touches the manifest or the head of the queue.
LEMMA WriterAddsHeld ==
  ASSUME TInv, NEW t \in Writers, WriterCalls(t) \/ WriterReturns(t)
  PROVE  AddsHeld
<1>1. UNCHANGED <<manifest, flush>>
  BY DEF WriterCalls, WriterReturns, Put, Delete, BatchPut, PutApply, SpawnFlush, DeleteApply,
      DeleteSetOffset, BatchMeasure, BatchReject, BatchLog, BatchApply, compactionVars
<1>2. \/ mem' = mem
      \/ PutApply(t) \/ DeleteApply(t) \/ DeleteSetOffset(t) \/ BatchApply(t)
  BY DEF WriterCalls, WriterReturns, Put, Delete, BatchPut, SpawnFlush, BatchMeasure,
      BatchReject, BatchLog
<1>3. DOMAIN FrozenItems(mem) \subseteq DOMAIN FrozenItems(mem')
  <2>1. CASE mem' # mem /\ mem.frozen # <<>>
    BY <1>2, <2>1, HeadStays DEF FrozenItems
  <2>2. CASE mem' = mem
    BY <2>2
  <2>3. CASE mem.frozen = <<>>
    BY <2>3 DEF FrozenItems, EmptyTable
  <2> QED  BY <2>1, <2>2, <2>3
<1> QED  BY <1>1, <1>3, ManifestAside

\* An SSTable whose manifest entry is not saved is the oldest buffer's.
LEMMA FlushInstallHeld ==
  ASSUME ClockAdvances, IInv, FlushInstall \/ FlushInstallFails
  PROVE  AddsHeld
<1> DEFINE e == [path |-> flush.path, created |-> clock']
<1>1. /\ manifest \in [mem : LevelSets, disk : LevelSets]
      /\ flush.path \in Paths /\ flush.path \in DOMAIN files /\ files[flush.path] = flush.items
      /\ FrozenItems(mem) = flush.items
      /\ UNCHANGED <<files, mem>>
  BY DEF FlushInstall, FlushInstallFails, FlushAt, IInv, Shapes, FlushOK, FrozenItems
<1>2. e \in Entries /\ e.path = flush.path
  <2>1. clock' \in Int
    BY PastPaths, TickAdvances DEF FlushInstall, FlushInstallFails
  <2> QED  BY <1>1, <2>1 DEF Entries
<1>3. \/ manifest' = AddSSTable(manifest, 0, e)
      \/ manifest' = AddSSTableUnsaved(manifest, 0, e) /\ flush' = NoFlush
  BY DEF FlushInstall, FlushInstallFails, Leave, SaveRaised, AddSSTable
<1> HIDE DEF e
<1>4. /\ manifest'.mem[0] = manifest.mem[0] \cup {e}
      /\ manifest'.mem[1] = manifest.mem[1]
  BY <1>1, <1>2, <1>3, TwoLevels, AddEntry
<1>5. CASE manifest' = AddSSTable(manifest, 0, e)
  BY <1>1, <1>2, <1>5, TwoLevels, AddedOnDisk DEF AddsHeld
<1>6. CASE manifest' = AddSSTableUnsaved(manifest, 0, e) /\ flush' = NoFlush
  <2>1. manifest'.disk = manifest.disk
    BY <1>1, <1>2, <1>6, TwoLevels, AddedOnDisk
  <2>2. \A k : Holds(files', e.path, k) => k \in DOMAIN FrozenItems(mem')
    BY <1>1, <1>2 DEF Holds
  <2> QED  BY <1>1, <1>4, <1>6, <2>1, <2>2, LeftFlush DEF AddsHeld, Installed
<1> QED  BY <1>3, <1>5, <1>6

\* No step of a flush adds anything but the head of the queue.
LEMMA FlusherAddsHeld ==
  ASSUME ClockAdvances, IInv, Flusher
  PROVE  AddsHeld
<1>1. ASSUME NEW by, FlushNothing(by) \/ FlushTake(by) PROVE AddsHeld
  BY <1>1, ManifestAside DEF FlushNothing, FlushTake, NoFlush, compactionVars, Installed
<1>2. CASE FlushInstall \/ FlushInstallFails
  BY <1>2, FlushInstallHeld
<1>3. CASE FlushSave \/ FlushSaveFails
  <2>1. manifest \in [mem : LevelSets, disk : LevelSets] /\ UNCHANGED mem
    BY <1>3 DEF FlushSave, FlushSaveFails, IInv, Shapes
  <2>2. CASE manifest' = Save(manifest)
    <3>1. manifest'.disk = manifest'.mem
      BY <2>1, <2>2 DEF Save
    <3> QED  BY <3>1 DEF AddsHeld
  <2>3. CASE manifest' = manifest /\ flush' = NoFlush
    BY <2>1, <2>3, LeftFlush, ManifestAside DEF Installed
  <2> QED  BY <1>3, <2>2, <2>3 DEF FlushSave, FlushSaveFails, Leave, SaveRaised
<1>4. CASE FlushClear
  <2>1. flush' = [flush EXCEPT !.pc = "cleared"] /\ UNCHANGED manifest /\ flush.pc = "saved"
    BY <1>4 DEF FlushClear, FlushAt, compactionVars
  <2> QED  BY <2>1, FlushMoves, ManifestAside DEF Installed
<1>5. CASE FlushWrite \/ FlushTruncate
  <2>1. flush'.pc \notin Installed
    <3>1. flush = [pc |-> flush.pc, by |-> flush.by, items |-> flush.items,
                   off |-> flush.off, path |-> flush.path]
      BY DEF IInv, Shapes
    <3>2. CASE FlushWrite
      <4> DEFINE x == [flush EXCEPT !.pc = "written"]
      <4>1. flush' = [x EXCEPT !.path = <<0, clock'>>]
        BY <3>2 DEF FlushWrite
      <4>2. x = [pc |-> "written", by |-> flush.by, items |-> flush.items,
                 off |-> flush.off, path |-> flush.path]
        BY <3>1
      <4> HIDE DEF x
      <4> QED  BY <4>1, <4>2 DEF Installed
    <3>3. CASE FlushTruncate
      BY <3>1, <3>3 DEF FlushTruncate, Installed
    <3> QED  BY <1>5, <3>2, <3>3
  <2> QED  BY <1>5, <2>1, ManifestAside DEF FlushWrite, FlushTruncate, compactionVars
<1>6. CASE FlushWriteFails \/ FlushTruncateFails \/ FlushCompact
  <2>1. flush' = NoFlush
    BY <1>6 DEF FlushWriteFails, FlushTruncateFails, FlushCompact, Leave
  <2> QED  BY <1>6, <2>1, LeftFlush, ManifestAside
           DEF FlushWriteFails, FlushTruncateFails, FlushCompact, Installed
<1> QED  BY <1>1, <1>2, <1>3, <1>4, <1>5, <1>6 DEF Flusher, FlushStep

\* A merged file holds no key that its inputs do not.
LEMMA OfAnInput ==
  ASSUME IInv, compaction.pc = "written", NEW k, Holds(files, compaction.out, k)
  PROVE  \E f \in manifest.mem[0] : Holds(files, f.path, k)
<1>1. /\ compaction.inputs \subseteq manifest.mem[0]
      /\ files[compaction.out] = MergeTables(compaction.inputs)
  BY DEF IInv, CompactionOK, CompactAt
<1>2. FirstHit(files, compaction.inputs, k) # {}
  BY <1>1 DEF Holds, MergeTables
<1> QED  BY <1>1, <1>2 DEF FirstHit

\* No step of compact adds anything but what its inputs hold.
LEMMA CompactorAddsHeld ==
  ASSUME ClockAdvances, IInv, Compactor, ~CompactRemoveFails
  PROVE  AddsHeld
<1>0. UNCHANGED <<mem, flush>> /\ manifest \in [mem : LevelSets, disk : LevelSets]
  BY DEF Compactor, engineVars, IInv, Shapes
<1>1. CASE CompactInstall \/ CompactInstallFails
  <2> DEFINE e == [path |-> compaction.out, created |-> clock']
  <2>1. compaction.out \in Paths /\ compaction.pc = "written" /\ UNCHANGED files
    BY <1>1 DEF CompactInstall, CompactInstallFails, CompactAt, IInv, Shapes, Compactions
  <2>2. e \in Entries /\ e.path = compaction.out
    <3>1. clock' \in Int
      BY <1>1, PastPaths, TickAdvances DEF CompactInstall, CompactInstallFails
    <3> QED  BY <2>1, <3>1 DEF Entries
  <2>3. \/ manifest' = AddSSTable(manifest, 1, e)
        \/ manifest' = AddSSTableUnsaved(manifest, 1, e)
    BY <1>1 DEF CompactInstall, CompactInstallFails, SaveRaised, AddSSTable
  <2> HIDE DEF e
  <2>4. /\ manifest'.mem[1] = manifest.mem[1] \cup {e}
        /\ manifest'.mem[0] = manifest.mem[0]
    BY <1>0, <2>2, <2>3, TwoLevels, AddEntry
  <2>5. \A k : Holds(files', e.path, k) => \E f \in manifest.mem[0] : Holds(files, f.path, k)
    BY <2>1, <2>2, OfAnInput
  <2>6. manifest'.disk = manifest'.mem \/ manifest'.disk = manifest.disk
    BY <1>0, <2>2, <2>3, TwoLevels, AddedOnDisk
  <2> QED  BY <1>0, <2>4, <2>5, <2>6 DEF AddsHeld
<1>2. CASE CompactRemove
  <2>1. manifest' = RemoveSSTable(manifest, 0, ThisInput.path)
    BY <1>2 DEF CompactRemove
  <2> QED  BY <1>0, <2>1, RemovedOnDisk DEF AddsHeld
<1>3. CASE \/ CompactSnapshot \/ CompactWrite \/ CompactWriteFails
           \/ CompactDelete \/ CompactDeleteFails
  BY <1>0, <1>3, ManifestAside
  DEF CompactSnapshot, CompactWrite, CompactWriteFails, CompactDelete, CompactDeleteFails
<1> QED  BY <1>1, <1>2, <1>3 DEF Compactor, CompactionNext

\* Every step of the engine keeps UnsavedOK.
LEMMA NextUnsaved ==
  ASSUME ClockAdvances, RInvariant, UnsavedOK, Next, ~CompactRemoveFails
  PROVE  UnsavedOK'
<1>0. TInv /\ IInv /\ DInv
  BY DEF RInvariant
<1>1. DiskStep
  BY <1>0, NextIsDiskStep
<1>2. AddsHeld
  <2>1. ASSUME NEW t \in Writers, WriterCalls(t) \/ WriterReturns(t) PROVE AddsHeld
    BY <1>0, <2>1, WriterAddsHeld
  <2>2. CASE Flusher
    BY <1>0, <2>2, FlusherAddsHeld
  <2>3. CASE FlushAllCall \/ FlushAllLoop
    BY <2>3, ManifestAside DEF FlushAllCall, FlushAllLoop, compactionVars
  <2>4. ASSUME NEW r \in Readers, ReaderStep(r) PROVE AddsHeld
    BY <2>4, ManifestAside DEF ReaderStep, Get, GetSnapshot, GetProbe, GetRead, compactionVars
  <2>5. CASE Compactor
    BY <1>0, <2>5, CompactorAddsHeld
  <2> QED  BY <2>1, <2>2, <2>3, <2>4, <2>5 DEF Next
<1> QED  BY <1>1, <1>2, UnsavedStep

\* What a restart loads is what it has saved.
LEMMA CrashUnsaved ==
  ASSUME RInvariant, Crash
  PROVE  UnsavedOK'
<1>1. manifest'.mem = manifest'.disk
  BY DEF Crash, StartsWith, Load, RInvariant, IInv, Shapes
<1> QED  BY <1>1 DEF UnsavedOK

\* When no file that the saved level 0 does not name holds k, a restart finds for
\* it on disk what a get finds there now.
LEMMA DiskIsMemory ==
  ASSUME RInvariant, UnsavedOK, ~CompactAt("removing"), NEW k,
         \A e \in manifest.mem[0] : Holds(files, e.path, k) => e \in manifest.disk[0]
  PROVE  SearchLevels(files, manifest.disk, k) = OnDisk(k)
<1> DEFINE U == manifest.mem[0]
           L == manifest.mem[1]
           V == manifest.disk[0]
           M == manifest.disk[1]
<1>1. V \subseteq U /\ M \subseteq L
  BY TwoLevels DEF RInvariant, DInv, DiskBehind
<1>2. \A e \in U : Holds(files, e.path, k) => e \in V
  OBVIOUS
<1>3. \A e \in L : Holds(files, e.path, k) => e \in M \/ \E f \in U : Holds(files, f.path, k)
  BY DEF UnsavedOK
<1>4. Dated(U, clock) /\ Dated(L, clock) /\ FilesOK(files) /\ clock \in Int
  BY DEF RInvariant, IInv, LevelsOK, Shapes, Dated, Inputs
<1>5. OnDisk(k) = Find(files, U, L, k)
  BY DEF OnDisk, Upper
<1> HIDE DEF U, L, V, M
<1>6. FirstHit(files, U, k) = FirstHit(files, V, k)
  BY <1>1, <1>2 DEF FirstHit
<1>7. SearchLevel(files, U, k) = SearchLevel(files, V, k)
  BY <1>6 DEF SearchLevel
<1>8. CASE SearchLevel(files, U, k) # None
  BY <1>5, <1>7, <1>8 DEF Find, SearchLevels, V
<1>9. CASE SearchLevel(files, U, k) = None
  <2>1. \A e \in U : ~Holds(files, e.path, k)
    BY <1>4, <1>9, SearchLevelNone
  <2>2. FirstHit(files, L, k) = FirstHit(files, M, k)
    BY <1>1, <1>3, <2>1 DEF FirstHit
  <2>3. SearchLevel(files, L, k) = SearchLevel(files, M, k)
    BY <2>2 DEF SearchLevel
  <2> QED  BY <1>5, <1>7, <1>9, <2>3 DEF Find, SearchLevels, V, M
<1> QED  BY <1>8, <1>9

\* Of a key that no buffer holds, the SSTables on disk say what was written last.
LEMMA DiskSays ==
  ASSUME RInvariant, UnsavedOK, ~CompactAt("removing"),
         NEW k \in Keys, k \notin DOMAIN FrozenItems(mem), MemGet(mem, k) = None
  PROVE  SearchLevels(files, manifest.disk, k) = applied[k]
<1>1. \A e \in manifest.mem[0] : Holds(files, e.path, k) => e \in manifest.disk[0]
  BY DEF UnsavedOK
<1>2. applied[k] = OnDisk(k)
  BY DEF RInvariant, IInv, NothingLost
<1> QED  BY <1>1, <1>2, DiskIsMemory

\* Of a key that a flush has just written, they say what it has written, until
\* it has truncated the log.
LEMMA DiskHasFlushed ==
  ASSUME RInvariant, UnsavedOK, ~CompactAt("removing"), flush.pc = "cleared",
         NEW k \in DOMAIN flush.items
  PROVE  SearchLevels(files, manifest.disk, k) = flush.items[k]
<1>1. \A e \in manifest.mem[0] : Holds(files, e.path, k) => e \in manifest.disk[0]
  BY DEF UnsavedOK, Installed
<1>2. OnDisk(k) = flush.items[k]
  BY DEF RInvariant, IInv, FlushOK
<1> QED  BY <1>1, <1>2, DiskIsMemory

-----------------------------------------------------------------------------
(* What buffers and offsets a step leaves the log to cover *)

\* Fewer keys, and an earlier offset.
LEMMA CoversLess ==
  ASSUME NEW s, NEW W \in SUBSET (1..Len(s)), NEW o, NEW K, Covers(s, W, o, K)
  PROVE  /\ \A L \in SUBSET K : Covers(s, W, o, L)
         /\ o \in Nat => Covers(s, W, 0, K)
<1>1. ASSUME o \in Nat, NEW k \in K PROVE \E e \in Ends(s, W, k) : e > 0
  <2>1. PICK e \in Ends(s, W, k) : e > o
    BY DEF Covers
  <2>2. e \in 1..Len(s)
    BY DEF Ends
  <2> QED  BY <1>1, <2>1, <2>2
<1> QED  BY <1>1 DEF Covers, Start

\* An empty batch has no keys.
LEMMA NoKeys == BatchKeys(<<>>) = {}
BY DEF BatchKeys

\* Logged pairs that a put or a batch takes into the buffer are no new keys.
LEMMA PutOffsets ==
  ASSUME NEW m \in MemTables, NEW pairs, NEW k \in BatchKeys(pairs), NEW v
  PROVE  LET n == PutUnlocked(m, k, v) IN
         /\ \A i : Beyond(n, pairs, i) = Beyond(m, pairs, i)
         /\ \A s, W : OffsetsOf(s, W, m, pairs) => OffsetsOf(s, W, n, pairs)
<1> DEFINE n == PutUnlocked(m, k, v)
<1>1. DOMAIN n.data = DOMAIN m.data \cup {k} /\ n.off = m.off /\ n.frozen = m.frozen
  BY PutParts
<1> HIDE DEF n
<1>2. ASSUME NEW i PROVE Beyond(n, pairs, i) = Beyond(m, pairs, i)
  BY <1>1 DEF Beyond
<1>3. \A s, W : OffsetsOf(s, W, m, pairs) => OffsetsOf(s, W, n, pairs)
  BY <1>1, <1>2 DEF OffsetsOf
<1> QED  BY <1>2, <1>3 DEF n

\* Pairs that are in the buffer need not be covered twice.
LEMMA DoneOffsets ==
  ASSUME NEW m, NEW pairs
  PROVE  /\ \A i : Beyond(m, <<>>, i) \subseteq Beyond(m, pairs, i)
         /\ \A s : \A W \in SUBSET (1..Len(s)) :
              OffsetsOf(s, W, m, pairs) => OffsetsOf(s, W, m, <<>>)
<1>1. \A i : Beyond(m, <<>>, i) \subseteq Beyond(m, pairs, i)
  BY NoKeys DEF Beyond
<1>2. ASSUME NEW s, NEW W \in SUBSET (1..Len(s)), OffsetsOf(s, W, m, pairs)
      PROVE  OffsetsOf(s, W, m, <<>>)
  <2>1. Covers(s, W, m.off, BatchKeys(<<>>))
    BY <1>2, NoKeys, CoversLess DEF OffsetsOf
  <2>2. ASSUME NEW i \in 1..Len(m.frozen)
        PROVE  Covers(s, W, m.frozen[i].off, Beyond(m, <<>>, i))
    <3>1. Covers(s, W, m.frozen[i].off, Beyond(m, pairs, i))
      BY <1>2 DEF OffsetsOf
    <3> QED  BY <1>1, <3>1, CoversLess
  <2> QED  BY <2>1, <2>2 DEF OffsetsOf
<1> QED  BY <1>1, <1>2

\* A raise of the offset to one whose record is legible.
LEMMA RaiseOffsets ==
  ASSUME NEW m \in MemTables, NEW o
  PROVE  LET n == RaiseOffset(m, o) IN
         /\ \A i : Beyond(n, <<>>, i) = Beyond(m, <<>>, i)
         /\ \A s, W : OffsetsOf(s, W, m, <<>>) /\ Start(s, W, o) => OffsetsOf(s, W, n, <<>>)
<1> DEFINE n == RaiseOffset(m, o)
<1>1. n.data = m.data /\ n.off \in {o, m.off} /\ n.frozen = m.frozen
  BY RaiseParts
<1> HIDE DEF n
<1>2. ASSUME NEW i PROVE Beyond(n, <<>>, i) = Beyond(m, <<>>, i)
  BY <1>1 DEF Beyond
<1>3. ASSUME NEW s, NEW W, OffsetsOf(s, W, m, <<>>), Start(s, W, o)
      PROVE  OffsetsOf(s, W, n, <<>>)
  <2>1. Covers(s, W, n.off, BatchKeys(<<>>))
    BY <1>1, <1>3, NoKeys DEF Covers, OffsetsOf
  <2> QED  BY <1>1, <1>2, <1>3, <2>1 DEF OffsetsOf
<1> QED  BY <1>2, <1>3 DEF n

\* The buffer takes its offset along into the queue.
LEMMA RotateOffsets ==
  ASSUME NEW m \in MemTables, NEW pairs
  PROVE  LET n == RotateUnlocked(m) IN
         /\ Beyond(n, pairs, 0) = Beyond(m, pairs, 0)
         /\ \A s : \A W \in SUBSET (1..Len(s)) :
              OffsetsOf(s, W, m, pairs) => OffsetsOf(s, W, n, pairs)
<1> DEFINE n == RotateUnlocked(m)
           l == Len(m.frozen)
<1>1. /\ DOMAIN n.data = {} /\ n.off = 0 /\ l \in Nat /\ Len(n.frozen) = l + 1
      /\ \A i \in 1..l : n.frozen[i] = m.frozen[i]
      /\ n.frozen[l + 1].data = m.data /\ n.frozen[l + 1].off = m.off
  BY RotateParts
<1> HIDE DEF n, l
<1>2. ASSUME NEW i \in 0..l PROVE Beyond(n, pairs, i) = Beyond(m, pairs, i)
  <2>1. (i + 1)..(l + 1) = ((i + 1)..l) \cup {l + 1} /\ \A j \in (i + 1)..l : j \in 1..l
    BY <1>1
  <2>2. UNION {DOMAIN n.frozen[j].data : j \in (i + 1)..(l + 1)} =
          DOMAIN m.data \cup UNION {DOMAIN m.frozen[j].data : j \in (i + 1)..l}
    BY <1>1, <2>1
  <2> QED  BY <1>1, <2>2 DEF Beyond, l
<1>3. Beyond(n, pairs, l + 1) = BatchKeys(pairs)
  <2>1. (l + 1 + 1)..(l + 1) = {}
    BY <1>1
  <2> QED  BY <1>1, <2>1 DEF Beyond
<1>4. ASSUME NEW s, NEW W \in SUBSET (1..Len(s)), OffsetsOf(s, W, m, pairs)
      PROVE  OffsetsOf(s, W, n, pairs)
  <2>1. Covers(s, W, n.off, BatchKeys(pairs))
    <3>1. m.off \in Nat /\ Covers(s, W, m.off, BatchKeys(pairs))
      BY <1>4, MemTableIs DEF OffsetsOf
    <3>2. Covers(s, W, 0, BatchKeys(pairs))
      BY <3>1, CoversLess
    <3> QED  BY <1>1, <3>2
  <2>2. ASSUME NEW i \in 1..(l + 1) PROVE Covers(s, W, n.frozen[i].off, Beyond(n, pairs, i))
    <3>1. CASE i \in 1..l
      <4>1. i \in 0..l
        BY <1>1, <3>1
      <4>2. Covers(s, W, m.frozen[i].off, Beyond(m, pairs, i))
        BY <1>4, <3>1 DEF OffsetsOf, l
      <4> QED  BY <1>1, <1>2, <3>1, <4>1, <4>2
    <3>2. CASE i = l + 1
      BY <1>1, <1>3, <1>4, <3>2 DEF OffsetsOf
    <3> QED  BY <1>1, <3>1, <3>2
  <2> QED  BY <1>1, <2>1, <2>2 DEF OffsetsOf
<1>5. 0 \in 0..l
  BY <1>1
<1> QED  BY <1>2, <1>4, <1>5 DEF n

\* A batch's offset replaces the active buffer's.
LEMMA BatchOffsets ==
  ASSUME NEW m \in MemTables, NEW pairs, NEW o
  PROVE  LET n == BatchMem(m, pairs, o) IN
         /\ Beyond(n, <<>>, 0) = Beyond(m, pairs, 0)
         /\ \A s : \A W \in SUBSET (1..Len(s)) :
              OffsetsOf(s, W, m, pairs) /\ Start(s, W, o) => OffsetsOf(s, W, n, <<>>)
<1> DEFINE n == BatchMem(m, pairs, o)
<1>1. DOMAIN n.data = DOMAIN m.data \cup BatchKeys(pairs) /\ n.off = o /\ n.frozen = m.frozen
  BY BatchParts
<1> HIDE DEF n
<1>2. ASSUME NEW i PROVE Beyond(n, <<>>, i) = Beyond(m, pairs, i)
  BY <1>1, NoKeys DEF Beyond
<1>3. ASSUME NEW s, NEW W, OffsetsOf(s, W, m, pairs), Start(s, W, o)
      PROVE  OffsetsOf(s, W, n, <<>>)
  <2>1. Covers(s, W, n.off, BatchKeys(<<>>))
    BY <1>1, <1>3, NoKeys DEF Covers
  <2> QED  BY <1>1, <1>2, <1>3, <2>1 DEF OffsetsOf
<1> QED  BY <1>2, <1>3 DEF n

\* What the head held is covered no more, and what was behind it still is.
LEMMA ClearOffsets ==
  ASSUME NEW m \in MemTables, m.frozen # <<>>, NEW pairs
  PROVE  LET n == ClearFrozen(m) IN
         /\ Beyond(n, pairs, 0) \subseteq Beyond(m, pairs, 0)
         /\ \A s, W : OffsetsOf(s, W, m, pairs) =>
              OffsetsOf(s, W, n, pairs) /\ Covers(s, W, Head(m.frozen).off, Beyond(n, pairs, 0))
<1> DEFINE n == ClearFrozen(m)
           l == Len(n.frozen)
<1>1. /\ n.data = m.data /\ n.off = m.off
      /\ Len(m.frozen) \in Nat /\ l = Len(m.frozen) - 1
      /\ \A i \in 1..l : n.frozen[i] = m.frozen[i + 1]
  BY ClearParts
<1>2. Len(m.frozen) # 0 /\ Head(m.frozen) = m.frozen[1]
  BY MemTableIs, EmptySeq, HeadTailProperties
<1> HIDE DEF n, l
<1>3. l \in Nat /\ Len(m.frozen) = l + 1
  BY <1>1, <1>2
<1>4. ASSUME NEW i \in 0..l PROVE Beyond(n, pairs, i) = Beyond(m, pairs, i + 1)
  <2>1. /\ \A j \in (i + 1)..l : j \in 1..l /\ j + 1 \in (i + 1 + 1)..(l + 1)
        /\ \A j \in (i + 1 + 1)..(l + 1) : j - 1 \in (i + 1)..l /\ (j - 1) + 1 = j
    BY <1>3
  <2>2. UNION {DOMAIN n.frozen[j].data : j \in (i + 1)..l} =
          UNION {DOMAIN m.frozen[j].data : j \in (i + 1 + 1)..(l + 1)}
    <3> DEFINE held(j) == DOMAIN n.frozen[j].data
               was(h) == DOMAIN m.frozen[h].data
    <3>0. \A j \in (i + 1)..l : held(j) = was(j + 1)
      BY <1>1, <2>1
    <3> HIDE DEF held, was
    <3>1. UNION {held(j) : j \in (i + 1)..l} = UNION {was(h) : h \in (i + 1 + 1)..(l + 1)}
      <4>1. \A j \in (i + 1)..l : \E h \in (i + 1 + 1)..(l + 1) : held(j) = was(h)
        BY <2>1, <3>0
      <4>2. \A h \in (i + 1 + 1)..(l + 1) : \E j \in (i + 1)..l : held(j) = was(h)
        BY <2>1, <3>0
      <4> QED  BY <4>1, <4>2
    <3> QED  BY <3>1 DEF held, was
  <2> QED  BY <1>1, <1>3, <2>2 DEF Beyond, l
<1>5. 0 \in 0..l /\ 0 + 1 = 1 /\ Beyond(n, pairs, 0) = Beyond(m, pairs, 1)
  <2> DEFINE z == 0
  <2>1. z \in 0..l
    BY <1>3
  <2> HIDE DEF z
  <2>2. Beyond(n, pairs, z) = Beyond(m, pairs, z + 1)
    BY <1>4, <2>1
  <2> QED  BY <2>1, <2>2 DEF z
<1>6. Beyond(m, pairs, 1) \subseteq Beyond(m, pairs, 0)
  BY <1>3 DEF Beyond
<1>7. ASSUME NEW s, NEW W, OffsetsOf(s, W, m, pairs)
      PROVE  OffsetsOf(s, W, n, pairs) /\ Covers(s, W, Head(m.frozen).off, Beyond(n, pairs, 0))
  <2>1. ASSUME NEW i \in 1..l PROVE Covers(s, W, n.frozen[i].off, Beyond(n, pairs, i))
    <3>1. i \in 0..l /\ i + 1 \in 1..Len(m.frozen)
      BY <1>3
    <3> QED  BY <1>1, <1>4, <1>7, <3>1 DEF OffsetsOf
  <2>2. 1 \in 1..Len(m.frozen)
    BY <1>3
  <2> QED  BY <1>1, <1>2, <1>5, <1>7, <2>1, <2>2 DEF OffsetsOf, l
<1> QED  BY <1>5, <1>6, <1>7 DEF n

\* One thread writes, as the server does from its event loop.
OneWriter == \E t : Writers = {t}

\* A batch of the server's has an entry: BatchPutOperation.validate.
NonEmptyBatches == \A b \in Batches : b # <<>>

LInv == LogOK /\ HandleOK /\ BreakOK /\ strayed \in BOOLEAN

\* The owner is the one writer.
LEMMA OwnerIs ==
  ASSUME OneWriter
  PROVE  Owner \in Writers /\ \A t \in Writers : t = Owner
BY DEF OneWriter, Owner

\* Nothing is pending.
LEMMA AppliedNone ==
  ASSUME NEW F, applied = [k \in Keys |-> F[k]]
  PROVE  Applied(<<>>) = applied
BY NoKeys DEF Applied

-----------------------------------------------------------------------------
(* Steps that leave the log alone *)

\* A step that leaves the log and what is written.
LEMMA QuietLog ==
  ASSUME LogOK, wal' = wal, strayed' = strayed,
         Applied(Logged)' = Applied(Logged),
         Beyond(mem', Logged', 0) \subseteq Beyond(mem, Logged, 0),
         \A W \in SUBSET (1..Len(wal.file)) : OffsetsHold(W) => OffsetsHold(W)'
  PROVE  LogOK'
<1> SUFFICES ASSUME ~strayed PROVE \E W \in SUBSET (1..Len(wal'.file)) : LogHolds(W)'
  BY DEF LogOK
<1>1. PICK W \in SUBSET (1..Len(wal.file)) : LogHolds(W)
  BY DEF LogOK
<1>2. Covers(wal.file, W, 0, Beyond(mem', Logged', 0))
  BY <1>1, CoversLess DEF LogHolds
<1>3. LogHolds(W)'
  BY <1>1, <1>2 DEF LogHolds
<1> QED  BY <1>3

\* A step that leaves the log and what the buffers keep.
LEMMA QuietBreak ==
  ASSUME BreakOK, wal' = wal,
         \A g \in 0..Len(wal.file) : BuffersKeep(g) => BuffersKeep(g)'
  PROVE  BreakOK'
BY DEF BreakOK

\* A writer outside the write itself.
LEMMA WriterAside ==
  ASSUME LInv, UNCHANGED <<wal, mem, applied, flush>>, strayed' = strayed,
         writer[Owner].pc \notin {"put", "delete", "setOffset", "batch"},
         writer'[Owner].pc \in {"idle", "measuring"},
         writer'[Owner].pc = "measuring" => writer'[Owner].pairs # <<>>
  PROVE  LInv'
<1>1. Logged = <<>> /\ Logged' = <<>>
  BY DEF Logged
<1>2. Applied(Logged)' = Applied(Logged)
  BY <1>1 DEF Applied
<1>3. \A W : OffsetsHold(W) => OffsetsHold(W)'
  BY <1>1 DEF OffsetsHold
<1>4. LogOK'
  BY <1>1, <1>2, <1>3, QuietLog DEF LInv
<1>5. HandleOK'
  BY DEF LInv, HandleOK
<1>6. BreakOK'
  BY QuietBreak DEF LInv, BuffersKeep
<1> QED  BY <1>4, <1>5, <1>6 DEF LInv

\* A flush that does not touch the queue or the log, and everybody else.
LEMMA OthersAside ==
  ASSUME LInv, UNCHANGED <<wal, mem, applied, writer>>, strayed' = strayed,
         \/ flush' = flush
         \/ /\ flush'.pc # "cleared"
            /\ flush'.pc \in {"taken", "written", "installed", "saved"} =>
                 mem.frozen # <<>> /\ flush'.off = Head(mem.frozen).off
            /\ wal.handle = "closed" => flush'.pc = "free"
  PROVE  LInv'
<1>1. Logged' = Logged
  BY DEF Logged
<1>2. Applied(Logged)' = Applied(Logged)
  BY <1>1 DEF Applied
<1>3. \A W : OffsetsHold(W) => OffsetsHold(W)'
  BY <1>1 DEF OffsetsHold
<1>4. LogOK'
  BY <1>1, <1>2, <1>3, QuietLog DEF LInv
<1>5. HandleOK'
  BY DEF LInv, HandleOK
<1>6. BreakOK'
  BY QuietBreak DEF LInv, BuffersKeep
<1> QED  BY <1>4, <1>5, <1>6 DEF LInv

-----------------------------------------------------------------------------
(* The write under the MemTable's lock *)

\* A sequence of one element.
LEMMA OneOfOne ==
  ASSUME NEW S, NEW q \in Seq(S), Len(q) = 1
  PROVE  q = <<q[1]>> /\ q[1] \in S
<1>1. q[1] \in S
  BY ElementOfSeq
<1>2. <<q[1]>> \in Seq(S) /\ Len(<<q[1]>>) = 1 /\ <<q[1]>>[1] = q[1]
  BY <1>1
<1>3. q = <<q[1]>>
  BY <1>2, SeqEqual
<1> QED  BY <1>1, <1>3

\* What is logged is in the active buffer, and its offset with it.
LEMMA ApplyOffsets ==
  ASSUME TInv, NEW t \in Writers, PutApply(t) \/ DeleteApply(t) \/ BatchApply(t)
  PROVE  /\ Beyond(mem', <<>>, 0) \subseteq Beyond(mem, writer[t].pairs, 0)
         /\ \A W \in SUBSET (1..Len(wal.file)) :
              /\ OffsetsOf(wal.file, W, mem, writer[t].pairs)
              /\ Start(wal.file, W, writer[t].off)
              => OffsetsOf(wal.file, W, mem', <<>>)
         /\ applied' = Applied(writer[t].pairs)
<1> DEFINE q == writer[t].pairs
           p == q[1]
           o == writer[t].off
           s == wal.file
<1>0. mem \in MemTables /\ q \in Seq(Pairs) /\ o \in Nat
  BY LocalsIs DEF TInv, MemoryTyped, WritersTyped
<1>1. ASSUME PutApply(t) \/ DeleteApply(t)
      PROVE  q = <<p>> /\ p.key \in Keys /\ p.value \in Stored /\ p.key \in BatchKeys(q)
  <2>1. Len(q) = 1
    BY <1>1 DEF TInv, WritersTyped, PutApply, DeleteApply, WriterAt
  <2>2. q = <<p>> /\ p \in Pairs
    BY <1>0, <2>1, OneOfOne
  <2>3. BatchKeys(<<p>>) = {p.key}
    BY <2>2, OnePair
  <2> QED  BY <2>2, <2>3 DEF Pairs
<1>2. CASE PutApply(t)
  <2> DEFINE n == PutUnlocked(mem, p.key, p.value)
             m == RaiseOffset(n, o)
  <2>1. mem' = (IF IsFull(m) THEN RotateUnlocked(m) ELSE m) /\ applied' = Applied(<<p>>)
    BY <1>2 DEF PutApply, Apply
  <2> HIDE DEF q, p, o, s
  <2>2. n \in MemTables /\ m \in MemTables
    BY <1>0, <1>1, <1>2, PutType, RaiseOffsetType
  <2>3. /\ Beyond(n, q, 0) = Beyond(mem, q, 0)
        /\ \A W : OffsetsOf(s, W, mem, q) => OffsetsOf(s, W, n, q)
    BY <1>0, <1>1, <1>2, PutOffsets
  <2> HIDE DEF n
  <2>4. /\ Beyond(m, <<>>, 0) = Beyond(n, <<>>, 0)
        /\ \A W : OffsetsOf(s, W, n, <<>>) /\ Start(s, W, o) => OffsetsOf(s, W, m, <<>>)
    BY <2>2, RaiseOffsets
  <2>5. /\ Beyond(n, <<>>, 0) \subseteq Beyond(n, q, 0)
        /\ \A W \in SUBSET (1..Len(s)) : OffsetsOf(s, W, n, q) => OffsetsOf(s, W, n, <<>>)
    BY DoneOffsets
  <2> HIDE DEF m
  <2>6. /\ Beyond(RotateUnlocked(m), <<>>, 0) = Beyond(m, <<>>, 0)
        /\ \A W \in SUBSET (1..Len(s)) :
             OffsetsOf(s, W, m, <<>>) => OffsetsOf(s, W, RotateUnlocked(m), <<>>)
    BY <2>2, RotateOffsets
  <2>7. Beyond(mem', <<>>, 0) \subseteq Beyond(mem, q, 0)
    BY <2>1, <2>3, <2>4, <2>5, <2>6
  <2>8. \A W \in SUBSET (1..Len(s)) :
          OffsetsOf(s, W, mem, q) /\ Start(s, W, o) => OffsetsOf(s, W, mem', <<>>)
    BY <2>1, <2>3, <2>4, <2>5, <2>6
  <2> QED  BY <1>1, <1>2, <2>1, <2>7, <2>8 DEF q, o, s
<1>3. CASE DeleteApply(t)
  <2> DEFINE n == PutUnlocked(mem, p.key, Tombstone)
  <2>1. mem' = n /\ applied' = Applied(q)
    BY <1>3 DEF DeleteApply, Apply
  <2> HIDE DEF q, p, o, s
  <2>2. /\ Beyond(n, q, 0) = Beyond(mem, q, 0)
        /\ \A W : OffsetsOf(s, W, mem, q) => OffsetsOf(s, W, n, q)
    BY <1>0, <1>1, <1>3, PutOffsets
  <2> HIDE DEF n
  <2>3. /\ Beyond(n, <<>>, 0) \subseteq Beyond(n, q, 0)
        /\ \A W \in SUBSET (1..Len(s)) : OffsetsOf(s, W, n, q) => OffsetsOf(s, W, n, <<>>)
    BY DoneOffsets
  <2> QED  BY <2>1, <2>2, <2>3 DEF q, o, s
<1>4. CASE BatchApply(t)
  <2> DEFINE full == BatchWouldExceed(mem, writer[t].bytes)
             room == IF full THEN RotateUnlocked(mem) ELSE mem
             n == BatchMem(room, q, o)
  <2>1. mem' = n /\ applied' = Applied(q)
    BY <1>4 DEF BatchApply, BatchMem, Apply
  <2> HIDE DEF q, p, o, s, full
  <2>2. /\ Beyond(RotateUnlocked(mem), q, 0) = Beyond(mem, q, 0)
        /\ \A W \in SUBSET (1..Len(s)) :
             OffsetsOf(s, W, mem, q) => OffsetsOf(s, W, RotateUnlocked(mem), q)
    BY <1>0, RotateOffsets
  <2>3. /\ room \in MemTables /\ Beyond(room, q, 0) = Beyond(mem, q, 0)
        /\ \A W \in SUBSET (1..Len(s)) : OffsetsOf(s, W, mem, q) => OffsetsOf(s, W, room, q)
    BY <1>0, <2>2, RotateType
  <2> HIDE DEF room
  <2>4. /\ Beyond(n, <<>>, 0) = Beyond(room, q, 0)
        /\ \A W \in SUBSET (1..Len(s)) :
             OffsetsOf(s, W, room, q) /\ Start(s, W, o) => OffsetsOf(s, W, n, <<>>)
    BY <2>3, BatchOffsets
  <2> HIDE DEF n
  <2> QED  BY <2>1, <2>3, <2>4 DEF q, o, s
<1> QED  BY <1>2, <1>3, <1>4

\* What a write leaves of the writer's locals.
LEMMA ApplyLocals ==
  ASSUME TInv, NEW t \in Writers,
         PutApply(t) \/ DeleteApply(t) \/ DeleteSetOffset(t) \/ BatchApply(t)
  PROVE  /\ writer'[t].pc \in {"idle", "spawn", "setOffset"}
         /\ writer'[t].pc = "setOffset" => DeleteApply(t) /\ writer'[t].off = writer[t].off
<1>1. writer \in [Writers -> CallLocals] /\ writer[t] \in CallLocals
  BY DEF TInv, WritersTyped
<1>2. ASSUME PutApply(t) \/ BatchApply(t) \/ DeleteSetOffset(t)
      PROVE  writer'[t].pc \in {"idle", "spawn"}
  <2>1. PICK pc \in {"idle", "spawn"} : \/ writer' = [writer EXCEPT ![t] = [IdleWriter EXCEPT !.pc = pc]]
                                        \/ writer' = [writer EXCEPT ![t] = IdleWriter]
    BY <1>2 DEF PutApply, BatchApply, DeleteSetOffset
  <2>2. IdleWriter.pc = "idle" /\ [IdleWriter EXCEPT !.pc = pc].pc = pc
    BY IdleType DEF IdleWriter
  <2> QED  BY <1>1, <2>1, <2>2
<1>3. ASSUME DeleteApply(t)
      PROVE  writer'[t].pc = "setOffset" /\ writer'[t].off = writer[t].off
  <2> DEFINE w == [writer[t] EXCEPT !.pc = "setOffset"]
  <2>1. writer' = [writer EXCEPT ![t] = w]
    BY <1>3 DEF DeleteApply
  <2>2. w.pc = "setOffset" /\ w.off = writer[t].off
    BY <1>1, LocalsIs, SetPC
  <2> HIDE DEF w
  <2> QED  BY <1>1, <2>1, <2>2
<1> QED  BY <1>2, <1>3

\* An offset behind what this process has read cuts off all of it.
LEMMA KeptBehind ==
  ASSUME NEW o \in Int, NEW g \in Int, o >= g
  PROVE  \A s, t : Keeps(s, g, o, t)
BY DEF Keeps

\* A rotation takes table and offset along into the queue.
LEMMA RotateKeeps ==
  ASSUME NEW m \in MemTables, NEW s, NEW g, Keeps(s, g, m.off, m.data), QueueKeeps(s, g, m)
  PROVE  LET n == RotateUnlocked(m) IN Keeps(s, g, n.off, n.data) /\ QueueKeeps(s, g, n)
<1> DEFINE n == RotateUnlocked(m)
           l == Len(m.frozen)
<1>1. /\ n.off = 0 /\ l \in Nat /\ Len(n.frozen) = l + 1
      /\ \A i \in 1..l : n.frozen[i] = m.frozen[i]
      /\ n.frozen[l + 1].data = m.data /\ n.frozen[l + 1].off = m.off
  BY RotateParts
<1> HIDE DEF n
<1>2. Keeps(s, g, n.off, n.data)
  BY <1>1 DEF Keeps
<1>3. ASSUME NEW i \in 1..(l + 1) PROVE Keeps(s, g, n.frozen[i].off, n.frozen[i].data)
  <2>1. CASE i \in 1..l
    BY <1>1, <2>1 DEF QueueKeeps
  <2>2. CASE i = l + 1
    BY <1>1, <2>2
  <2> HIDE DEF l
  <2> QED  BY <1>1, <2>1, <2>2
<1> QED  BY <1>1, <1>2, <1>3 DEF QueueKeeps, n

\* A write under the lock goes with an offset behind what this process has read.
LEMMA ApplyKeeps ==
  ASSUME TInv, OneWriter, NEW t \in Writers, NEW g \in Nat, BuffersKeep(g),
         PutApply(t) \/ DeleteApply(t) \/ DeleteSetOffset(t) \/ BatchApply(t)
  PROVE  BuffersKeep(g)'
<1> DEFINE s == wal.file
           o == writer[t].off
           q == writer[t].pairs
           p == q[1]
<1>1. t = Owner /\ mem \in MemTables /\ q \in Seq(Pairs) /\ o \in Nat
  BY OwnerIs, LocalsIs DEF TInv, MemoryTyped, WritersTyped
<1>2. /\ wal' = wal /\ flush' = flush
      /\ DeleteApply(t) => writer[t].pc = "delete"
      /\ PutApply(t) => writer[t].pc = "put"
      /\ BatchApply(t) => writer[t].pc = "batch"
      /\ DeleteSetOffset(t) => writer[t].pc = "setOffset"
  BY DEF PutApply, DeleteApply, DeleteSetOffset, BatchApply, WriterAt
<1>3. /\ writer'[Owner].pc \in {"idle", "spawn", "setOffset"}
      /\ writer'[Owner].pc = "setOffset" => DeleteApply(t) /\ writer'[Owner].off = o
  BY <1>1, ApplyLocals
<1>4. /\ o >= g /\ QueueKeeps(s, g, mem)
      /\ writer[t].pc # "setOffset" => Keeps(s, g, mem.off, mem.data)
      /\ flush.pc = "cleared" => Keeps(s, g, flush.off, flush.items)
  BY <1>1, <1>2 DEF BuffersKeep
<1>5. /\ ~DeleteApply(t) => Keeps(s, g, mem'.off, mem'.data)
      /\ QueueKeeps(s, g, mem')
  <2>1. CASE PutApply(t)
    <3> DEFINE n == PutUnlocked(mem, p.key, p.value)
               m == RaiseOffset(n, o)
    <3>1. p.key \in Keys /\ p.value \in Stored
      <4>1. Len(q) = 1
        BY <2>1 DEF TInv, WritersTyped, PutApply, WriterAt
      <4>2. p \in Pairs
        BY <1>1, <4>1, ElementOfSeq
      <4> QED  BY <4>2 DEF Pairs
    <3>2. mem' = IF IsFull(m) THEN RotateUnlocked(m) ELSE m
      BY <2>1 DEF PutApply
    <3> HIDE DEF p, s, o, q
    <3>3. n \in MemTables /\ n.frozen = mem.frozen /\ n.off = mem.off
      BY <1>1, <3>1, PutType, PutParts
    <3> HIDE DEF n
    <3>4. m \in MemTables /\ m.frozen = mem.frozen /\ m.off = IF o > mem.off THEN o ELSE mem.off
      BY <1>1, <3>3, RaiseParts, RaiseOffsetType
    <3> HIDE DEF m
    <3>5. m.off \in Int /\ m.off >= g
      BY <1>1, <1>4, <3>4, MemTableIs
    <3>6. Keeps(s, g, m.off, m.data) /\ QueueKeeps(s, g, m)
      BY <1>4, <3>4, <3>5, KeptBehind DEF QueueKeeps
    <3>7. Keeps(s, g, RotateUnlocked(m).off, RotateUnlocked(m).data) /\ QueueKeeps(s, g, RotateUnlocked(m))
      BY <3>4, <3>6, RotateKeeps
    <3> QED  BY <3>2, <3>6, <3>7
  <2>2. CASE DeleteApply(t)
    <3>1. mem'.frozen = mem.frozen
      BY <1>1, <2>2, PutParts DEF DeleteApply
    <3> QED  BY <1>4, <2>2, <3>1 DEF QueueKeeps
  <2>3. CASE DeleteSetOffset(t)
    <3>1. mem' = RaiseOffset(mem, o)
      BY <2>3 DEF DeleteSetOffset
    <3> HIDE DEF p, s, o, q
    <3>2. mem'.frozen = mem.frozen /\ mem'.off = IF o > mem.off THEN o ELSE mem.off
      BY <1>1, <3>1, RaiseParts
    <3>3. mem'.off \in Int /\ mem'.off >= g
      BY <1>1, <1>4, <3>2, MemTableIs
    <3> QED  BY <1>4, <3>2, <3>3, KeptBehind DEF QueueKeeps
  <2>4. CASE BatchApply(t)
    <3> DEFINE full == BatchWouldExceed(mem, writer[t].bytes)
               room == IF full THEN RotateUnlocked(mem) ELSE mem
    <3>1. mem' = BatchMem(room, q, o)
      BY <2>4 DEF BatchApply, BatchMem
    <3>2. Keeps(s, g, mem.off, mem.data)
      BY <1>2, <1>4, <2>4
    <3> HIDE DEF p, s, o, q, full
    <3>3. room \in MemTables /\ QueueKeeps(s, g, room)
      BY <1>1, <1>4, <3>2, RotateType, RotateKeeps
    <3> HIDE DEF room
    <3>4. mem'.frozen = room.frozen /\ mem'.off = o
      BY <3>1, <3>3, BatchParts
    <3>5. o \in Int
      BY <1>1
    <3> QED  BY <1>4, <3>3, <3>4, <3>5, KeptBehind DEF QueueKeeps
  <2> QED  BY <2>1, <2>2, <2>3, <2>4
<1> HIDE DEF s, o, q
<1>6. writer'[Owner].pc # "setOffset" => ~DeleteApply(t)
  <2>1. ASSUME DeleteApply(t) PROVE writer'[t].pc = "setOffset"
    <3> DEFINE w == [writer[t] EXCEPT !.pc = "setOffset"]
    <3>1. writer' = [writer EXCEPT ![t] = w] /\ writer \in [Writers -> CallLocals]
      BY <2>1 DEF DeleteApply, TInv, WritersTyped
    <3>2. w.pc = "setOffset"
      BY <3>1, LocalsIs, SetPC
    <3> HIDE DEF w
    <3> QED  BY <3>1, <3>2
  <2> QED  BY <1>1, <2>1
<1> QED  BY <1>2, <1>3, <1>4, <1>5, <1>6 DEF BuffersKeep, s

\* So the write under the lock keeps what the log holds.
LEMMA ApplyLog ==
  ASSUME TInv, LInv, OneWriter, NEW t \in Writers, strayed' = strayed,
         PutApply(t) \/ DeleteApply(t) \/ DeleteSetOffset(t) \/ BatchApply(t)
  PROVE  LInv'
<1>0. t = Owner
  BY OwnerIs
<1>1. /\ wal' = wal /\ flush' = flush
      /\ writer[Owner].pc \in {"put", "delete", "setOffset", "batch"}
      /\ DeleteApply(t) => writer[Owner].pc = "delete"
      /\ PutApply(t) => writer[Owner].pc = "put"
      /\ BatchApply(t) => writer[Owner].pc = "batch"
      /\ DeleteSetOffset(t) => writer[Owner].pc = "setOffset"
  BY <1>0 DEF PutApply, DeleteApply, DeleteSetOffset, BatchApply, WriterAt
<1>2. /\ writer'[Owner].pc \in {"idle", "spawn", "setOffset"}
      /\ writer'[Owner].pc = "setOffset" => writer'[Owner].off = writer[Owner].off
  BY <1>0, ApplyLocals
<1>3. Logged' = <<>>
  BY <1>2 DEF Logged
<1>4. /\ Beyond(mem', <<>>, 0) \subseteq Beyond(mem, Logged, 0)
      /\ \A W \in SUBSET (1..Len(wal.file)) :
           OffsetsOf(wal.file, W, mem, Logged) /\ Start(wal.file, W, writer[Owner].off)
             => OffsetsOf(wal.file, W, mem', <<>>)
      /\ applied' = Applied(Logged)
  <2>1. CASE PutApply(t) \/ DeleteApply(t) \/ BatchApply(t)
    <3>1. Logged = writer[t].pairs
      BY <1>0, <1>1, <2>1 DEF Logged
    <3> QED  BY <1>0, <2>1, <3>1, ApplyOffsets
  <2>2. CASE DeleteSetOffset(t)
    <3>1. Logged = <<>>
      BY <1>1, <2>2 DEF Logged
    <3>2. mem' = RaiseOffset(mem, writer[Owner].off) /\ applied' = applied
      BY <1>0, <2>2 DEF DeleteSetOffset
    <3>3. Applied(<<>>) = applied
      BY AppliedNone DEF TInv, MemoryTyped
    <3>4. mem \in MemTables
      BY DEF TInv, MemoryTyped
    <3> QED  BY <3>1, <3>2, <3>3, <3>4, RaiseOffsets
  <2> QED  BY <2>1, <2>2
<1>5. Applied(Logged)' = Applied(Logged)
  <2>1. \A k \in Keys : Applied(Logged)'[k] = applied'[k]
    BY <1>3, NoKeys DEF Applied
  <2>2. Applied(Logged)' = [k \in Keys |-> applied'[k]]
    BY <1>3, NoKeys DEF Applied
  <2>3. applied' = [k \in Keys |-> applied'[k]]
    BY <1>4 DEF Applied
  <2> QED  BY <1>4, <2>2, <2>3
<1>6. ASSUME NEW W \in SUBSET (1..Len(wal.file)), OffsetsHold(W) PROVE OffsetsHold(W)'
  <2>1. OffsetsOf(wal.file, W, mem, Logged) /\ Start(wal.file, W, writer[Owner].off)
    BY <1>1, <1>6 DEF OffsetsHold
  <2>2. OffsetsOf(wal.file, W, mem', <<>>)
    BY <1>4, <2>1
  <2>3. flush.pc = "cleared" => Covers(wal.file, W, flush.off, Beyond(mem', <<>>, 0))
    <3>1. flush.pc = "cleared" => Covers(wal.file, W, flush.off, Beyond(mem, Logged, 0))
      BY <1>6 DEF OffsetsHold
    <3> QED  BY <1>4, <3>1, CoversLess
  <2> QED  BY <1>1, <1>2, <1>3, <2>1, <2>2, <2>3 DEF OffsetsHold
<1>7. LogOK'
  BY <1>1, <1>3, <1>4, <1>5, <1>6, QuietLog DEF LInv
<1>8. HandleOK'
  <2>1. mem.frozen # <<>> => mem'.frozen # <<>> /\ Head(mem'.frozen) = Head(mem.frozen)
    BY HeadStays
  <2>2. wal.handle # "closed"
    BY <1>1 DEF LInv, HandleOK
  <2> QED  BY <1>1, <1>2, <2>1, <2>2 DEF LInv, HandleOK
<1>9. BreakOK'
  <2>1. ASSUME NEW g \in 0..Len(wal.file), BuffersKeep(g) PROVE BuffersKeep(g)'
    BY <2>1, ApplyKeeps
  <2> QED  BY <1>1, <2>1, QuietBreak DEF LInv
<1> QED  BY <1>7, <1>8, <1>9 DEF LInv

-----------------------------------------------------------------------------
(* The write to the log *)

\* What an append does to the log, wherever the handle is.
LEMMA AppendIs ==
  ASSUME NEW w \in WALs, NEW pairs \in Seq(Pairs), pairs # <<>>
  PROVE  LET t == BatchCells(pairs)
             v == AppendBatch(w, pairs)
         IN IF w.handle = "detached"
            THEN v.file = w.file /\ v.handle = w.handle /\ v.pos = w.pos + Len(t)
            ELSE v.file = w.file \o t /\ v.handle = "attached" /\ v.pos = Len(w.file) + Len(t)
<1> DEFINE t == BatchCells(pairs)
           o == Open(w)
           v == AppendBatch(w, pairs)
<1>1. t \in Seq(CellSet) /\ w.file \in Seq(CellSet) /\ Len(w.file) \in Nat
  BY BatchCellsType, LenProperties DEF WALs
<1>2. /\ o \in WALs /\ o.file = w.file
      /\ w.handle = "detached" => o.handle = "detached" /\ o.pos = w.pos
      /\ w.handle # "detached" => o.handle = "attached"
  BY <1>1 DEF Open, WALs
<1>3. ToWrite(w, t) = t
  <2>1. o.buffer = <<>>
    BY <1>2 DEF WALs
  <2> HIDE DEF t, o
  <2> QED  BY <1>1, <2>1 DEF ToWrite, o
<1>4. v = WriteCells(w, t)
  BY DEF AppendBatch
<1> HIDE DEF t, o, v
<1>5. CASE w.handle = "detached"
  <2> DEFINE pos == o.pos + Len(t)
  <2>1. v = [o EXCEPT !.pos = pos]
    BY <1>2, <1>4, <1>5 DEF WriteCells, o
  <2> HIDE DEF pos
  <2>2. v.pos = pos /\ v.file = o.file /\ v.handle = o.handle
    BY <1>2, <2>1 DEF WALs
  <2> QED  BY <1>2, <1>5, <2>2 DEF pos, t, v
<1>6. CASE w.handle # "detached"
  <2> DEFINE file == o.file \o t
             pos == Len(o.file) + Len(t)
             none == <<>>
  <2>1. v = [o EXCEPT !.file = file, !.buffer = none, !.pos = pos]
    BY <1>2, <1>3, <1>4, <1>6 DEF WriteCells, o
  <2> HIDE DEF file, pos, none
  <2>2. v.file = file /\ v.handle = o.handle /\ v.pos = pos
    BY <1>2, <2>1 DEF WALs
  <2> QED  BY <1>2, <1>6, <2>2 DEF file, pos, t, v
<1> QED  BY <1>5, <1>6

\* The offset an append returns when the handle has the file.
LEMMA OffsetIs ==
  ASSUME NEW w \in WALs, w.handle # "detached", w.handle = "attached" => w.pos = Len(w.file),
         NEW pairs \in Seq(Pairs), pairs # <<>>
  PROVE  LastOffset(w, pairs) = Len(w.file) + Len(BatchCells(Front(pairs)))
<1>1. NextOffset(w) = Len(w.file)
  BY DEF NextOffset, Open, WALs
<1> QED  BY <1>1 DEF LastOffset

\* Cells within a log that grows.
LEMMA InMore ==
  ASSUME NEW a \in Nat, NEW b \in Nat, NEW W \in SUBSET (1..a)
  PROVE  W \cup ((a + 1)..(a + b)) \in SUBSET (1..(a + b))
<1>1. ASSUME NEW e \in W \cup ((a + 1)..(a + b)) PROVE e \in 1..(a + b)
  <2>1. CASE e \in W
    BY <2>1
  <2>2. CASE e \in (a + 1)..(a + b)
    BY <2>2
  <2> QED  BY <2>1, <2>2
<1> QED  BY <1>1

\* What is read already stays as it is.
LEMMA KeepsMore ==
  ASSUME NEW R, NEW s \in LogsOver(R), NEW t \in LogsOver(R), NEW g \in 0..Len(s),
         NEW o, NEW x, Keeps(s, g, o, x)
  PROVE  Keeps(s \o t, g, o, x)
<1> DEFINE u == s \o t
<1>1. \A i \in 1..Len(s) : u[i] = s[i]
  BY JoinIs DEF LogsOver
<1>2. Len(s) \in Nat
  BY LenProperties DEF LogsOver
<1> HIDE DEF u
<1>3. \A i \in 1..g : u[i] = s[i]
  BY <1>1, <1>2
<1>4. \A k : Ends(u, 1..g, k) = Ends(s, 1..g, k)
  BY <1>3 DEF Ends, Complete
<1>5. ASSUME NEW k, NEW e \in Ends(s, 1..g, k) PROVE u[e] = s[e]
  BY <1>3 DEF Ends
<1>6. Keeps(u, g, o, x)
  BY <1>4, <1>5 DEF Keeps, KeepsRead
<1> QED  BY <1>6 DEF u

\* What is appended goes behind what this process has read.
LEMMA AppendKeeps ==
  ASSUME TInv, BreakOK, NEW ps \in Seq(Pairs), ps # <<>>, wal.handle # "detached",
         writer[Owner].pc # "setOffset", UNCHANGED <<mem, flush>>,
         wal'.file = wal.file \o BatchCells(ps),
         writer'[Owner].off \in Int, writer'[Owner].off >= Len(wal.file),
         writer'[Owner].pc # "setOffset"
  PROVE  BreakOK'
<1> DEFINE s == wal.file
           t == BatchCells(ps)
           u == s \o t
<1>1. s \in LogsOver(Pairs) /\ Sized(Pairs) /\ t \in LogsOver(Pairs) /\ Chain(t) /\ t # <<>>
  <2>1. Sized(Pairs) /\ t \in LogsOver(Pairs) /\ Chain(t)
    BY PairsSized, BatchTells
  <2>2. s \in LogsOver(Pairs)
    BY PairsSized DEF TInv, WALs
  <2>3. Len(t) # 0
    <3>1. Len(BatchCells(Front(ps))) \in 0..(Len(t) - 1)
      BY PairsSized, LastStarts
    <3>2. Len(t) \in Nat
      BY <2>1, LenProperties DEF LogsOver
    <3> HIDE DEF t
    <3> QED  BY <3>1, <3>2
  <2> QED  BY <2>1, <2>2, <2>3
<1>2. PICK g, b \in 0..Len(s) : Parted(s, g, b) /\ BuffersKeep(g)
  BY DEF BreakOK
<1>3. Len(s) \in Nat
  BY <1>1, LenProperties DEF LogsOver
<1>4. wal'.file = u
  OBVIOUS
<1> HIDE DEF t
<1>5. g \in 0..Len(u) /\ b \in 0..Len(u) /\ Parted(u, g, b)
  BY <1>1, <1>2, PartedMore
<1>6. \A o, x : Keeps(s, g, o, x) => Keeps(u, g, o, x)
  BY <1>1, <1>2, KeepsMore
<1>7. writer'[Owner].off >= g
  BY <1>2, <1>3
<1> HIDE DEF u
<1>8. BuffersKeep(g)'
  BY <1>2, <1>4, <1>6, <1>7 DEF BuffersKeep, QueueKeeps
<1> QED  BY <1>4, <1>5, <1>8 DEF BreakOK

\* What the log holds before an append, it holds behind it.
LEMMA LogStep ==
  ASSUME TInv, LInv, writer[Owner].pc \in {"idle", "measuring"}, NEW ps \in Seq(Pairs), ps # <<>>, Logged = <<>>, Logged' = ps,
         wal' = AppendBatch(wal, ps), UNCHANGED <<mem, applied, flush>>,
         writer'[Owner].off = LastOffset(wal, ps),
         writer'[Owner].pc \in {"put", "delete", "batch"}, writer'[Owner].pairs = ps,
         strayed' = (strayed \/ (wal.handle = "detached" /\ wal' # wal))
  PROVE  LInv'
<1> DEFINE s == wal.file
           t == BatchCells(ps)
           n == Len(BatchCells(Front(ps)))
<1>1. /\ Sized(Pairs) /\ wal \in WALs /\ s \in LogsOver(Pairs)
      /\ t \in LogsOver(Pairs) /\ Chain(t) /\ Len(t) \in Nat /\ Len(s) \in Nat
      /\ n \in 0..(Len(t) - 1) /\ t[n + 1].part = 1
  <2>1. t \in LogsOver(Pairs) /\ Chain(t) /\ Sized(Pairs)
    BY PairsSized, BatchTells
  <2>2. n \in 0..(Len(t) - 1) /\ t[n + 1].part = 1
    BY PairsSized, LastStarts
  <2>3. wal \in WALs /\ s \in LogsOver(Pairs)
    BY PairsSized DEF TInv, WALs
  <2> HIDE DEF s, t, n
  <2> QED  BY <2>1, <2>2, <2>3, LenProperties DEF LogsOver
<1>2. CASE wal.handle = "detached"
  <2>1. wal'.pos = wal.pos + Len(t) /\ wal'.handle = "detached"
    BY <1>1, <1>2, AppendIs
  <2>2. wal'.pos # wal.pos
    BY <1>1, <2>1 DEF WALs
  <2>3. strayed'
    BY <1>2, <2>2
  <2> QED  BY <2>1, <2>3 DEF LInv, LogOK, HandleOK, BreakOK
<1>3. CASE wal.handle # "detached"
  <2>1. /\ wal'.file = s \o t /\ wal'.handle = "attached" /\ wal'.pos = Len(s) + Len(t)
    BY <1>1, <1>3, AppendIs
  <2>2. ~strayed /\ ~strayed' /\ (wal.handle = "attached" => wal.pos = Len(s))
    BY <1>3 DEF LInv, HandleOK
  <2>3. PICK W \in SUBSET (1..Len(s)) : LogHolds(W)
    BY <2>2 DEF LInv, LogOK
  <2>4. PICK V : V = More(s, W, t)
    OBVIOUS
  <2>5. PICK o : o = Len(s) + n
    OBVIOUS
  <2> DEFINE u == s \o t
  <2>6. /\ Len(u) = Len(s) + Len(t) /\ \A i \in 1..Len(t) : u[Len(s) + i] = t[i]
    <3>1. s \in Seq(CellsOver(Pairs)) /\ t \in Seq(CellsOver(Pairs))
      BY <1>1 DEF LogsOver
    <3> HIDE DEF s, t
    <3> QED  BY <3>1, JoinIs
  <2>7. writer'[Owner].off = o
    BY <1>1, <1>3, <2>5, <2>2, OffsetIs
  <2>8. Legible(u, V)
    <3>1. t # <<>>
      BY <1>1, EmptySeq
    <3>2. Legible(s, W)
      BY <2>3 DEF LogHolds
    <3> HIDE DEF s, t
    <3> QED  BY <1>1, <2>4, <3>1, <3>2, LegibleMore DEF More
  <2>9. ASSUME NEW x \in Nat, NEW K, Covers(s, W, x, K)
        PROVE  Covers(u, V, x, K \cup BatchKeys(ps))
    BY <1>1, <2>4, <2>9, CoversMore
  <2>10. ASSUME NEW i PROVE Beyond(mem, ps, i) = Beyond(mem, <<>>, i) \cup BatchKeys(ps)
    BY NoKeys DEF Beyond
  <2>11. /\ mem \in MemTables /\ mem.off \in Nat /\ flush.off \in Nat
        /\ \A i \in 1..Len(mem.frozen) : mem.frozen[i].off \in Nat
    <3>1. mem \in MemTables
      BY DEF TInv, MemoryTyped
    <3>2. mem.off \in Nat /\ mem.frozen \in Seq(Buffers)
      BY <3>1, MemTableIs
    <3>3. \A i \in 1..Len(mem.frozen) : mem.frozen[i] \in Buffers
      BY <3>2, ElementOfSeq
    <3> QED  BY <3>1, <3>2, <3>3 DEF Buffers, TInv, FlushTyped, Flushes
  <2>12. Covers(u, V, 0, Beyond(mem, ps, 0))
    <3>1. Covers(s, W, 0, Beyond(mem, <<>>, 0))
      BY <2>3 DEF LogHolds
    <3>2. Covers(u, V, 0, Beyond(mem, <<>>, 0) \cup BatchKeys(ps))
      BY <2>9, <3>1
    <3> QED  BY <2>10, <3>2
  <2>13. Says(u, V, Applied(Logged)')
    <3> DEFINE F == Applied(<<>>)
               G == Applied(Logged)'
    <3>1. Says(s, W, F)
      BY <2>3 DEF LogHolds
    <3>2. /\ DOMAIN G = Keys /\ DOMAIN F = Keys
          /\ \A k \in Keys : G[k] = IF k \in BatchKeys(ps) THEN BatchValue(ps, k) ELSE F[k]
      BY NoKeys DEF Applied
    <3>3. Sized(Pairs) /\ s \in LogsOver(Pairs)
      BY <1>1
    <3> HIDE DEF F, G, s, n
    <3>4. Says(s \o BatchCells(ps), More(s, W, BatchCells(ps)), G)
      BY <3>1, <3>2, <3>3, SaysMore
    <3> QED  BY <2>4, <3>4 DEF G
  <2>14. OffsetsHold(W)
    BY <1>3, <2>3 DEF LogHolds
  <2>15. OffsetsOf(u, V, mem, ps)
    <3>1. Covers(u, V, mem.off, BatchKeys(ps))
      <4>1. Covers(s, W, mem.off, {})
        BY <2>14, NoKeys DEF OffsetsHold, OffsetsOf
      <4>2. Covers(u, V, mem.off, {} \cup BatchKeys(ps))
        BY <2>9, <2>11, <4>1
      <4> QED  BY <4>2
    <3>2. ASSUME NEW i \in 1..Len(mem.frozen)
          PROVE  Covers(u, V, mem.frozen[i].off, Beyond(mem, ps, i))
      <4>1. Covers(s, W, mem.frozen[i].off, Beyond(mem, <<>>, i))
        BY <2>14 DEF OffsetsHold, OffsetsOf
      <4>2. Covers(u, V, mem.frozen[i].off, Beyond(mem, <<>>, i) \cup BatchKeys(ps))
        BY <2>9, <2>11, <4>1
      <4> QED  BY <2>10, <4>2
    <3> QED  BY <3>1, <3>2 DEF OffsetsOf
  <2>16. Start(u, V, o)
    <3>1. o + 1 \in (Len(s) + 1)..(Len(s) + Len(t)) /\ n + 1 \in 1..Len(t) /\ o + 1 = Len(s) + (n + 1)
      <4> HIDE DEF s, t, n
      <4> QED  BY <1>1, <2>5
    <3>2. u[o + 1] = t[n + 1]
      <4> HIDE DEF s, t, n, u
      <4> QED  BY <2>6, <3>1
    <3>3. u[o + 1].part = 1
      BY <1>1, <3>2
    <3> HIDE DEF s, t, n, u
    <3> QED  BY <2>4, <3>1, <3>3 DEF Start, More
  <2>17. flush.pc = "cleared" => Covers(u, V, flush.off, Beyond(mem, ps, 0))
    <3>1. flush.pc = "cleared" => Covers(s, W, flush.off, Beyond(mem, <<>>, 0))
      BY <2>14 DEF OffsetsHold
    <3>2. flush.pc = "cleared" => Covers(u, V, flush.off, Beyond(mem, <<>>, 0) \cup BatchKeys(ps))
      BY <2>9, <2>11, <3>1
    <3> QED  BY <2>10, <3>2
  <2>18. BreakOK'
    <3>1. o \in Int /\ o >= Len(s)
      <4> HIDE DEF s, t, n
      <4> QED  BY <1>1, <2>5
    <3> QED  BY <1>3, <2>1, <2>7, <3>1, AppendKeeps DEF LInv
  <2>19. V \in SUBSET (1..Len(u))
    <3> HIDE DEF s, t, n, u
    <3>1. Len(s) \in Nat /\ Len(t) \in Nat /\ Len(u) = Len(s) + Len(t)
      BY <1>1, <2>6
    <3>2. V = W \cup ((Len(s) + 1)..(Len(s) + Len(t))) /\ W \in SUBSET (1..Len(s))
      BY <2>4, <2>3 DEF More
    <3> QED  BY <3>1, <3>2, InMore
  <2>20. wal'.file = u
    BY <2>1
  <2> HIDE DEF s, t, n, u
  <2>21. OffsetsHold(V)'
    BY <2>20, <2>7, <2>15, <2>16, <2>17 DEF OffsetsHold
  <2>22. LogHolds(V)'
    BY <2>20, <2>8, <2>12, <2>13, <2>21 DEF LogHolds
  <2>23. LogOK'
    BY <2>20, <2>19, <2>22 DEF LogOK
  <2>24. HandleOK'
    BY <1>1, <2>20, <2>1, <2>2, <2>6 DEF LInv, HandleOK
  <2> QED  BY <2>23, <2>24, <2>18 DEF LInv
<1> QED  BY <1>2, <1>3

\* One pair, in a record of its own.
LEMMA OneRecord ==
  ASSUME NEW p \in Pairs
  PROVE  BatchCells(<<p>>) = Cells(p) /\ <<p>> # <<>> /\ Front(<<p>>) = <<>>
<1> DEFINE none == <<>>
<1>1. none \in Seq(Pairs) /\ Append(none, p) = <<p>>
  OBVIOUS
<1>2. BatchCells(none) = <<>>
  BY BatchOfNone
<1> HIDE DEF none
<1>3. BatchCells(Append(none, p)) = BatchCells(none) \o Cells(p)
  BY <1>1, PairsSized, BatchMore
<1>4. Cells(p) \in Seq(CellSet)
  BY CellsType
<1> DEFINE c == Cells(p)
<1>5. <<>> \o c = c
  <2>1. c \in Seq(CellSet)
    BY <1>4
  <2> HIDE DEF c
  <2> QED  BY <2>1
<1>6. BatchCells(<<p>>) = Cells(p)
  BY <1>1, <1>2, <1>3, <1>5
<1>7. Front(<<p>>) = <<>>
  BY DEF Front
<1> QED  BY <1>6, <1>7

\* put and delete, up to the record in the log.
LEMMA LogOne ==
  ASSUME TInv, LInv, OneWriter, NEW t \in Writers, WriterAt(t, "idle"),
         NEW pc \in {"put", "delete"}, NEW p \in Pairs, Log(t, pc, p),
         UNCHANGED <<mem, applied, flush>>,
         strayed' = (strayed \/ (wal.handle = "detached" /\ wal' # wal))
  PROVE  LInv'
<1> DEFINE w == [IdleWriter EXCEPT !.pc = pc, !.pairs = <<p>>, !.off = NextOffset(wal)]
<1>1. w = [pc |-> pc, pairs |-> <<p>>, n |-> 0, bytes |-> 0, off |-> NextOffset(wal)]
  <2>1. w = [pc |-> pc, pairs |-> <<p>>, n |-> IdleWriter.n, bytes |-> IdleWriter.bytes,
             off |-> NextOffset(wal)]
    <3>1. IsLocals(IdleWriter) /\ IdleWriter.n = IdleWriter.n
      BY IdleLocals
    <3> QED  BY <3>1, SetCall, ZenonT(30)
  <2> HIDE DEF w
  <2> QED  BY <2>1, IdleLocals
<1>2. writer' = [writer EXCEPT ![t] = w] /\ wal' = Append1(wal, p)
  BY DEF Log
<1> DEFINE ps == <<p>>
<1>3. /\ BatchCells(ps) = Cells(p) /\ ps # <<>> /\ Front(ps) = <<>> /\ ps \in Seq(Pairs)
  BY OneRecord
<1> HIDE DEF w, ps
<1>4. w.pc = pc /\ w.pairs = ps /\ w.off = NextOffset(wal)
  BY <1>1 DEF ps
<1>5. t = Owner /\ t \in Writers
  BY OwnerIs
<1>6. writer'[Owner] = w
  BY <1>2, <1>5 DEF TInv, WritersTyped
<1>7. Logged = <<>> /\ Logged' = ps
  BY <1>4, <1>5, <1>6 DEF Logged, WriterAt
<1>8. wal' = AppendBatch(wal, ps)
  BY <1>2, <1>3 DEF Append1, AppendBatch
<1>9. LastOffset(wal, ps) = NextOffset(wal)
  <2>1. BatchCells(Front(ps)) = <<>> /\ NextOffset(wal) \in Nat
    BY <1>3, BatchOfNone, OffsetType DEF TInv
  <2>2. Len(BatchCells(Front(ps))) = 0
    BY <2>1
  <2> QED  BY <1>3, <2>1, <2>2 DEF LastOffset
<1>10. /\ writer'[Owner].pc \in {"put", "delete", "batch"} /\ writer'[Owner].pairs = ps
       /\ writer[Owner].pc \in {"idle", "measuring"}
  BY <1>4, <1>5, <1>6 DEF WriterAt
<1>11. writer'[Owner].off = LastOffset(wal, ps)
  BY <1>4, <1>6, <1>9
<1> QED  BY <1>3, <1>7, <1>8, <1>10, <1>11, LogStep

\* batch_put, from the measuring to the records in the log.
LEMMA LogBatch ==
  ASSUME TInv, LInv, OneWriter, NEW t \in Writers, BatchLog(t),
         strayed' = (strayed \/ (wal.handle = "detached" /\ wal' # wal))
  PROVE  LInv'
<1> DEFINE ps == writer[t].pairs
           o == LastOffset(wal, ps)
           w == [writer[t] EXCEPT !.pc = "batch", !.off = o]
<1>1. writer[t] \in CallLocals /\ IsLocals(writer[t]) /\ ps \in Seq(Pairs)
  BY LocalsIs DEF TInv, WritersTyped
<1>2. /\ writer' = [writer EXCEPT ![t].pc = "batch", ![t].off = o]
      /\ wal' = AppendBatch(wal, ps) /\ UNCHANGED <<mem, applied, flush>>
      /\ writer[t].pc = "measuring"
  BY DEF BatchLog, Measured, WriterAt
<1>3. t = Owner /\ t \in Writers
  BY OwnerIs
<1>4. ps # <<>>
  BY <1>2, <1>3 DEF LInv, HandleOK
<1> HIDE DEF o
<1>5. writer'[Owner] = [pc |-> "batch", pairs |-> ps, n |-> writer[t].n,
                        bytes |-> writer[t].bytes, off |-> o]
  <2>1. writer'[t] = w
    BY <1>2, <1>3 DEF TInv, WritersTyped
  <2>2. w = [pc |-> "batch", pairs |-> ps, n |-> writer[t].n,
             bytes |-> writer[t].bytes, off |-> o]
    BY <1>1, SetOff
  <2> HIDE DEF w, ps
  <2> QED  BY <1>3, <2>1, <2>2
<1>6. /\ writer'[Owner].pc = "batch" /\ writer'[Owner].pairs = ps /\ writer'[Owner].off = o
      /\ writer[Owner].pc \in {"idle", "measuring"}
  BY <1>2, <1>3, <1>5
<1>7. Logged = <<>> /\ Logged' = ps
  BY <1>2, <1>3, <1>6 DEF Logged
<1> HIDE DEF ps
<1> QED  BY <1>1, <1>2, <1>4, <1>6, <1>7, LogStep DEF o

-----------------------------------------------------------------------------
(* All that a writer does *)

\* Every call of put, delete and batch_put keeps what the log holds.
LEMMA CallsLog ==
  ASSUME TInv, LInv, OneWriter, NonEmptyBatches, NEW t \in Writers, WriterCalls(t),
         strayed' = (strayed \/ (wal.handle = "detached" /\ wal' # wal))
  PROVE  LInv'
<1>1. CASE \E k \in Keys, v \in Values : Put(t, k, v)
  <2>1. PICK k \in Keys, v \in Values : Put(t, k, v)
    BY <1>1
  <2> DEFINE p == [key |-> k, value |-> v]
  <2>2. p \in Pairs
    BY DEF Pairs, Stored
  <2>3. /\ WriterAt(t, "idle") /\ Log(t, "put", p) /\ UNCHANGED <<mem, applied, flush>>
    BY <2>1 DEF Put, Call
  <2> HIDE DEF p
  <2> QED  BY <2>2, <2>3, LogOne
<1>2. CASE \E k \in Keys : Delete(t, k)
  <2>1. PICK k \in Keys : Delete(t, k)
    BY <1>2
  <2> DEFINE p == [key |-> k, value |-> Tombstone]
  <2>2. p \in Pairs
    BY DEF Pairs, Stored
  <2>3. /\ WriterAt(t, "idle") /\ Log(t, "delete", p) /\ UNCHANGED <<mem, applied, flush>>
    BY <2>1 DEF Delete, Call
  <2> HIDE DEF p
  <2> QED  BY <2>2, <2>3, LogOne
<1>3. CASE \E b \in Batches : BatchPut(t, b)
  <2>1. PICK b \in Batches : BatchPut(t, b)
    BY <1>3
  <2> DEFINE w == [IdleWriter EXCEPT !.pc = "measuring", !.pairs = b]
  <2>2. /\ writer' = [writer EXCEPT ![t] = w] /\ WriterAt(t, "idle")
        /\ UNCHANGED <<wal, mem, applied, flush>>
    BY <2>1 DEF BatchPut, Call
  <2>3. w.pc = "measuring" /\ w.pairs = b
    BY IdleLocals, SetPairs
  <2>4. b # <<>>
    BY DEF NonEmptyBatches
  <2> HIDE DEF w
  <2>5. writer'[Owner] = w /\ writer[Owner].pc = "idle"
    BY <2>2, OwnerIs DEF TInv, WritersTyped, WriterAt
  <2>6. strayed' = strayed
    BY <2>2 DEF LInv
  <2> QED  BY <2>2, <2>3, <2>4, <2>5, <2>6, WriterAside
<1> QED  BY <1>1, <1>2, <1>3 DEF WriterCalls

\* So does every step a writer takes to return.
LEMMA ReturnsLog ==
  ASSUME TInv, LInv, OneWriter, NEW t \in Writers, WriterReturns(t),
         strayed' = (strayed \/ (wal.handle = "detached" /\ wal' # wal))
  PROVE  LInv'
<1>1. CASE PutApply(t) \/ DeleteApply(t) \/ DeleteSetOffset(t) \/ BatchApply(t)
  <2>1. wal' = wal
    BY <1>1 DEF PutApply, DeleteApply, DeleteSetOffset, BatchApply
  <2>2. strayed' = strayed
    BY <2>1 DEF LInv
  <2> QED  BY <1>1, <2>2, ApplyLog
<1>2. CASE BatchLog(t)
  BY <1>2, LogBatch
<1>3. CASE SpawnFlush(t) \/ BatchReject(t) \/ BatchMeasure(t)
  <2>1. /\ UNCHANGED <<wal, mem, applied, flush>> /\ t = Owner
        /\ writer[Owner].pc \notin {"put", "delete", "setOffset", "batch"}
    BY <1>3, OwnerIs DEF SpawnFlush, BatchReject, BatchMeasure, Measured, WriterAt
  <2>2. strayed' = strayed
    BY <2>1 DEF LInv
  <2>3. writer \in [Writers -> CallLocals] /\ IsLocals(writer[t])
    BY LocalsIs DEF TInv, WritersTyped
  <2>4. CASE SpawnFlush(t) \/ BatchReject(t)
    <3>1. writer'[Owner] = IdleWriter
      BY <2>1, <2>3, <2>4 DEF SpawnFlush, BatchReject
    <3>2. writer'[Owner].pc = "idle"
      BY <3>1 DEF IdleWriter
    <3> QED  BY <2>1, <2>2, <3>2, WriterAside
  <2>5. CASE BatchMeasure(t)
    <3> DEFINE n == writer[t].n + 1
               bytes == writer[t].bytes + PairSize(mem, writer[t].pairs[writer[t].n + 1])
               w == [writer[t] EXCEPT !.n = n, !.bytes = bytes]
    <3>1. writer'[t] = w /\ writer[t].pc = "measuring"
      BY <2>3, <2>5 DEF BatchMeasure, WriterAt
    <3> HIDE DEF n, bytes
    <3>2. w = [pc |-> writer[t].pc, pairs |-> writer[t].pairs, n |-> n, bytes |-> bytes,
               off |-> writer[t].off]
      BY <2>3, SetMeasured
    <3> HIDE DEF w
    <3>3. w.pc = writer[t].pc /\ w.pairs = writer[t].pairs
      BY <3>2
    <3>4. writer[Owner].pairs # <<>>
      BY <2>1, <3>1 DEF LInv, HandleOK
    <3> QED  BY <2>1, <2>2, <3>1, <3>3, <3>4, WriterAside
  <2> QED  BY <1>3, <2>4, <2>5
<1> QED  BY <1>1, <1>2, <1>3 DEF WriterReturns

-----------------------------------------------------------------------------
(* A flush *)

\* Its step leaves the rest of its locals.
LEMMA FlushPC ==
  ASSUME TInv, NEW pc, flush' = [flush EXCEPT !.pc = pc]
  PROVE  flush'.pc = pc /\ flush'.off = flush.off /\ flush'.items = flush.items
<1>1. flush \in Flushes
  BY DEF TInv, FlushTyped
<1>2. flush = [pc |-> flush.pc, by |-> flush.by, items |-> flush.items,
               off |-> flush.off, path |-> flush.path]
  BY <1>1 DEF Flushes
<1>3. flush' = [pc |-> pc, by |-> flush.by, items |-> flush.items,
                off |-> flush.off, path |-> flush.path]
  BY <1>2
<1> QED  BY <1>3

\* The flush keeps what the buffer kept that it takes off the queue.
LEMMA ClearKeeps ==
  ASSUME TInv, IInv, LInv, FlushClear, NEW g, BuffersKeep(g)
  PROVE  BuffersKeep(g)'
<1> DEFINE s == wal.file
           q == mem.frozen
<1>1. /\ flush.pc = "saved" /\ mem' = ClearFrozen(mem) /\ UNCHANGED <<wal, writer>>
      /\ flush' = [flush EXCEPT !.pc = "cleared"]
  BY DEF FlushClear, FlushAt
<1>2. flush'.off = flush.off /\ flush'.items = flush.items
  BY <1>1, FlushPC
<1>3. mem \in MemTables /\ q # <<>> /\ flush.off = Head(q).off /\ flush.items = Head(q).data
  BY <1>1 DEF TInv, MemoryTyped, LInv, HandleOK, IInv, FlushOK
<1>4. /\ mem'.data = mem.data /\ mem'.off = mem.off
      /\ Len(q) \in Nat /\ Len(mem'.frozen) = Len(q) - 1
      /\ \A i \in 1..Len(mem'.frozen) : mem'.frozen[i] = q[i + 1]
  BY <1>1, <1>3, ClearParts
<1>5. Head(q) = q[1] /\ Len(q) # 0
  BY <1>3, MemTableIs, EmptySeq, HeadTailProperties
<1>6. QueueKeeps(s, g, mem)
  BY DEF BuffersKeep
<1>7. Keeps(s, g, flush.off, flush.items)
  <2>1. 1 \in 1..Len(q)
    BY <1>4, <1>5
  <2> QED  BY <1>3, <1>5, <1>6, <2>1 DEF QueueKeeps
<1>8. QueueKeeps(s, g, mem')
  <2>1. ASSUME NEW i \in 1..Len(mem'.frozen) PROVE i + 1 \in 1..Len(q)
    BY <1>4
  <2> QED  BY <1>4, <1>6, <2>1 DEF QueueKeeps
<1> QED  BY <1>1, <1>2, <1>4, <1>7, <1>8 DEF BuffersKeep

\* The buffer it has made durable leaves the queue.
LEMMA ClearLog ==
  ASSUME TInv, IInv, LInv, FlushClear, strayed' = strayed
  PROVE  LInv'
<1>1. /\ flush.pc = "saved" /\ mem' = ClearFrozen(mem) /\ UNCHANGED <<wal, writer, applied>>
      /\ flush' = [flush EXCEPT !.pc = "cleared"]
  BY DEF FlushClear, FlushAt
<1>2. flush'.pc = "cleared" /\ flush'.off = flush.off
  BY <1>1, FlushPC
<1>3. mem \in MemTables /\ mem.frozen # <<>> /\ flush.off = Head(mem.frozen).off
  BY <1>1 DEF TInv, MemoryTyped, LInv, HandleOK
<1>4. /\ Beyond(mem', Logged, 0) \subseteq Beyond(mem, Logged, 0)
      /\ \A s, W : OffsetsOf(s, W, mem, Logged) =>
           OffsetsOf(s, W, mem', Logged) /\ Covers(s, W, flush.off, Beyond(mem', Logged, 0))
  BY <1>1, <1>3, ClearOffsets
<1>5. Logged' = Logged
  BY <1>1 DEF Logged
<1>6. Applied(Logged)' = Applied(Logged)
  BY <1>1, <1>5 DEF Applied
<1>7. \A W \in SUBSET (1..Len(wal.file)) : OffsetsHold(W) => OffsetsHold(W)'
  BY <1>1, <1>2, <1>4, <1>5 DEF OffsetsHold
<1>8. LogOK'
  BY <1>1, <1>4, <1>5, <1>6, <1>7, QuietLog DEF LInv
<1>9. HandleOK'
  BY <1>1, <1>2 DEF LInv, HandleOK
<1>10. BreakOK'
  BY <1>1, ClearKeeps, QuietBreak DEF LInv
<1> QED  BY <1>8, <1>9, <1>10 DEF LInv

\* Legible cells are cells.
LEMMA LegibleWithin ==
  ASSUME NEW s, Len(s) \in Nat, NEW W, Legible(s, W)
  PROVE  W \in SUBSET (1..Len(s))
<1>1. PICK g, b \in 0..Len(s) : W = (1..g) \cup ((b + 1)..Len(s))
  BY DEF Legible
<1>2. ASSUME NEW e \in W PROVE e \in 1..Len(s)
  <2>1. CASE e \in 1..g
    BY <1>1, <2>1
  <2>2. CASE e \in (b + 1)..Len(s)
    BY <1>1, <2>2
  <2> QED  BY <1>1, <2>1, <2>2
<1> QED  BY <1>2

\* A truncation within the file leaves what is behind the offset to a handle
\* on another file.
LEMMA TruncateIs ==
  ASSUME NEW w \in WALs, NEW o \in Nat, w.handle # "closed"
  PROVE  LET v == TruncateUpto(w, o) IN
         /\ o = 0 => v = w
         /\ v.handle \in {w.handle, "detached"}
         /\ o > 0 /\ o < Len(w.file) =>
              v.file = SubSeq(w.file, o + 1, Len(w.file)) /\ v.handle = "detached"
<1> DEFINE v == TruncateUpto(w, o)
           s == SubSeq(w.file, o + 1, Len(w.file))
           none == <<>>
<1>1. Len(w.file) \in Nat
  BY LenProperties DEF WALs
<1>2. CASE o = 0
  <2>1. v = w
    BY <1>2 DEF TruncateUpto
  <2> QED  BY <1>2, <2>1
<1>3. CASE o > 0 /\ o >= Len(w.file)
  <2>1. v = [w EXCEPT !.file = none]
    BY <1>1, <1>3 DEF TruncateUpto
  <2> HIDE DEF none
  <2>2. v.handle = w.handle
    BY <2>1 DEF WALs
  <2> HIDE DEF v
  <2> QED  BY <1>1, <1>3, <2>2 DEF v
<1>4. CASE o > 0 /\ o < Len(w.file)
  <2> DEFINE h == "detached"
  <2>1. v = [w EXCEPT !.file = s, !.handle = h]
    BY <1>1, <1>4 DEF TruncateUpto
  <2> HIDE DEF s, h
  <2>2. v.file = s /\ v.handle = h
    BY <2>1 DEF WALs
  <2> HIDE DEF v
  <2> QED  BY <1>4, <2>2 DEF v, s, h
<1> QED  BY <1>1, <1>2, <1>3, <1>4

\* What a truncation cuts off, a later record overrides or the SSTables hold.
LEMMA TruncateLog ==
  ASSUME TInv, LInv, flush.pc = "cleared", wal' \in {wal, TruncateUpto(wal, flush.off)},
         UNCHANGED <<mem, writer, applied>>, flush'.pc \in {"truncated", "free"},
         strayed' = (strayed \/ (wal.handle = "detached" /\ wal' # wal))
  PROVE  LInv'
<1>1. /\ wal.handle # "closed" /\ wal \in WALs /\ flush.off \in Nat
      /\ wal.handle \in {"attached", "detached"}
  BY DEF LInv, HandleOK, TInv, WALs, FlushTyped, Flushes
<1>2. CASE wal' = wal
  <2>1. strayed' = strayed
    BY <1>2 DEF LInv
  <2> QED  BY <1>1, <1>2, <2>1, OthersAside
<1>3. CASE wal' # wal /\ wal.handle = "detached"
  <2>1. strayed' /\ wal'.handle = "detached"
    BY <1>1, <1>3, TruncateIs
  <2> QED  BY <2>1 DEF LInv, LogOK, HandleOK, BreakOK
<1>4. CASE wal' # wal /\ wal.handle = "attached"
  <2> DEFINE s == wal.file
             o == flush.off
             u == SubSeq(s, o + 1, Len(s))
  <2>1. ~strayed /\ strayed' = strayed
    BY <1>4 DEF LInv, HandleOK
  <2>2. PICK W \in SUBSET (1..Len(s)) : LogHolds(W)
    BY <2>1 DEF LInv, LogOK
  <2>3. /\ Legible(s, W) /\ Says(s, W, Applied(Logged))
        /\ Covers(s, W, o, Beyond(mem, Logged, 0))
    BY <1>4, <2>2 DEF LogHolds, OffsetsHold
  <2>4. o # 0
    BY <1>1, <1>4, TruncateIs
  <2>5. o + 1 \in W /\ s[o + 1].part = 1
    BY <2>3, <2>4 DEF Covers, Start
  <2>6. Len(s) \in Nat /\ s \in LogsOver(Pairs) /\ Sized(Pairs)
    BY <1>1, PairsSized, LenProperties DEF WALs
  <2>7. o > 0 /\ o < Len(s) /\ o <= Len(s)
    <3>1. o + 1 \in 1..Len(s)
      BY <2>2, <2>5
    <3> HIDE DEF s, o
    <3>2. o \in Nat
      BY <1>1 DEF o
    <3> QED  BY <2>4, <2>6, <3>1, <3>2
  <2>8. wal'.file = u /\ wal'.handle = "detached"
    BY <1>1, <1>4, <2>7, TruncateIs
  <2>9. PICK V : V = Left(s, W, o)
    OBVIOUS
  <2>10. Logged' = Logged /\ Applied(Logged)' = Applied(Logged) /\ mem' = mem
    BY DEF Logged, Applied
  <2>11. o \in Nat
    BY <1>1
  <2>12. Beyond(mem, Logged, 0)' = Beyond(mem, Logged, 0)
    BY <2>10
  <2>13. PICK F : F = Applied(Logged)
    OBVIOUS
  <2>14. PICK K : K = Beyond(mem, Logged, 0)
    OBVIOUS
  <2> HIDE DEF s, o, u
  <2>15. Legible(u, V)
    <3>1. Legible(SubSeq(s, o + 1, Len(s)), {e \in 1..(Len(s) - o) : o + e \in W})
      BY <2>3, <2>5, <2>6, <2>11, LegibleCut
    <3> QED  BY <2>9, <3>1 DEF Left, u
  <2>16. Covers(u, V, 0, K)
    <3>1. Covers(s, W, o, K)
      BY <2>3, <2>14
    <3>2. Covers(SubSeq(s, o + 1, Len(s)), Left(s, W, o), 0, K)
      BY <2>2, <2>6, <2>7, <2>11, <3>1, CoversLeft
    <3> QED  BY <2>9, <3>2 DEF u
  <2>17. Says(u, V, F)
    <3>1. Says(s, W, F)
      BY <2>3, <2>13
    <3>2. Says(SubSeq(s, o + 1, Len(s)), Left(s, W, o), F)
      BY <2>2, <2>6, <2>7, <2>11, <3>1, SaysLeft
    <3> QED  BY <2>9, <3>2 DEF u
  <2>18. V \in SUBSET (1..Len(u))
    <3>1. wal' \in WALs
      BY <1>1, TruncateType
    <3>2. Len(u) \in Nat
      BY <2>8, <3>1, LenProperties DEF WALs
    <3> QED  BY <2>15, <3>2, LegibleWithin
  <2>19. LogHolds(V)'
    BY <2>8, <2>10, <2>12, <2>13, <2>14, <2>15, <2>16, <2>17 DEF LogHolds
  <2>20. LogOK'
    BY <2>8, <2>18, <2>19 DEF LogOK
  <2>21. HandleOK'
    BY <2>8 DEF LInv, HandleOK
  <2> QED  BY <2>1, <2>8, <2>20, <2>21 DEF LInv, BreakOK
<1> QED  BY <1>1, <1>2, <1>3, <1>4

\* A flush goes on with the offset it took.
LEMMA FlushGoesOn ==
  ASSUME LInv, flush.pc \in {"taken", "written", "installed"},
         flush'.pc \in {"written", "installed", "saved"}, flush'.off = flush.off,
         UNCHANGED <<wal, mem, applied, writer>>, strayed' = strayed
  PROVE  LInv'
<1>1. /\ mem.frozen # <<>> /\ flush'.off = Head(mem.frozen).off
      /\ wal.handle # "closed" /\ flush'.pc # "cleared"
  BY DEF LInv, HandleOK
<1> QED  BY <1>1, OthersAside

\* A flush that ends, or fails.
LEMMA FlushEnds ==
  ASSUME LInv, Leave, UNCHANGED <<wal, mem, applied, writer>>, strayed' = strayed
  PROVE  LInv'
<1>1. flush'.pc = "free"
  BY DEF Leave, NoFlush
<1> QED  BY <1>1, OthersAside

\* Every step of a flush keeps what the log holds.
LEMMA FlusherLog ==
  ASSUME TInv, IInv, LInv, Flusher,
         strayed' = (strayed \/ (wal.handle = "detached" /\ wal' # wal))
  PROVE  LInv'
<1>1. ASSUME wal' = wal PROVE strayed' = strayed
  BY <1>1 DEF LInv
<1>2. CASE \E by \in {"thread", "flushAll"} : FlushNothing(by)
  <2>1. UNCHANGED <<wal, mem, applied, writer, flush>>
    BY <1>2 DEF FlushNothing
  <2> QED  BY <1>1, <2>1, OthersAside
<1>3. CASE \E by \in {"thread", "flushAll"} : FlushTake(by)
  <2>1. PICK by \in {"thread", "flushAll"} : FlushTake(by)
    BY <1>3
  <2> DEFINE items == FrozenItems(mem)
             off == FrozenOffset(mem)
  <2>2. /\ flush' = [NoFlush EXCEPT !.pc = "taken", !.by = by, !.items = items, !.off = off]
        /\ items # EmptyTable /\ UNCHANGED <<wal, mem, applied, writer>>
    BY <2>1 DEF FlushTake
  <2>3. mem.frozen # <<>> /\ off = Head(mem.frozen).off
    BY <2>2 DEF FrozenItems, FrozenOffset
  <2> HIDE DEF items, off
  <2>4. flush'.pc = "taken" /\ flush'.off = off
    BY <2>2 DEF NoFlush
  <2>5. wal.handle # "closed"
    BY <2>3 DEF LInv, HandleOK
  <2> QED  BY <1>1, <2>2, <2>3, <2>4, <2>5, OthersAside
<1>4. CASE FlushWrite
  <2> DEFINE path == <<0, clock'>>
             pc == "written"
  <2>1. /\ flush.pc = "taken" /\ flush' = [flush EXCEPT !.pc = pc, !.path = path]
        /\ UNCHANGED <<wal, mem, applied, writer>>
    BY <1>4 DEF FlushWrite, FlushAt
  <2>2. flush \in Flushes
    BY DEF TInv, FlushTyped
  <2> HIDE DEF path, pc
  <2>3. flush'.pc = pc /\ flush'.off = flush.off
    BY <2>1, <2>2 DEF Flushes
  <2>4. flush'.pc = "written"
    BY <2>3 DEF pc
  <2> QED  BY <1>1, <2>1, <2>3, <2>4, FlushGoesOn
<1>5. CASE FlushInstall \/ FlushSave
  <2>1. PICK pc \in {"installed", "saved"} :
          /\ flush.pc \in {"written", "installed"} /\ flush' = [flush EXCEPT !.pc = pc]
          /\ UNCHANGED <<wal, mem, applied, writer>>
    BY <1>5 DEF FlushInstall, FlushSave, FlushAt
  <2>2. flush'.pc = pc /\ flush'.off = flush.off
    BY <2>1, FlushPC
  <2> QED  BY <1>1, <2>1, <2>2, FlushGoesOn
<1>6. CASE FlushWriteFails \/ FlushInstallFails \/ FlushSaveFails \/ FlushCompact
  <2>1. Leave /\ UNCHANGED <<wal, mem, applied, writer>>
    BY <1>6 DEF FlushWriteFails, FlushInstallFails, FlushSaveFails, FlushCompact
  <2> QED  BY <1>1, <2>1, FlushEnds
<1>7. CASE FlushClear
  <2>1. wal' = wal
    BY <1>7 DEF FlushClear
  <2> QED  BY <1>1, <1>7, <2>1, ClearLog
<1>8. CASE FlushTruncate
  <2>1. /\ flush.pc = "cleared" /\ wal' = TruncateUpto(wal, flush.off)
        /\ flush' = [flush EXCEPT !.pc = "truncated"] /\ UNCHANGED <<mem, writer, applied>>
    BY <1>8 DEF FlushTruncate, FlushAt
  <2>2. flush'.pc = "truncated"
    BY <2>1, FlushPC
  <2> QED  BY <2>1, <2>2, TruncateLog
<1>9. CASE FlushTruncateFails
  <2>1. /\ flush.pc = "cleared" /\ wal' \in {wal, TruncateUpto(wal, flush.off)}
        /\ flush' = NoFlush /\ UNCHANGED <<mem, writer, applied>>
    BY <1>9 DEF FlushTruncateFails, FlushAt, Leave
  <2>2. flush'.pc = "free"
    BY <2>1 DEF NoFlush
  <2> QED  BY <2>1, <2>2, TruncateLog
<1> QED  BY <1>2, <1>3, <1>4, <1>5, <1>6, <1>7, <1>8, <1>9 DEF Flusher, FlushStep

\* So does every step of the engine, while its log does not stray.
LEMMA NextLog ==
  ASSUME TInv, IInv, LInv, OneWriter, NonEmptyBatches, Next,
         strayed' = (strayed \/ (wal.handle = "detached" /\ wal' # wal))
  PROVE  LInv'
<1>1. CASE \E t \in Writers : WriterCalls(t) \/ WriterReturns(t)
  BY <1>1, CallsLog, ReturnsLog
<1>2. CASE Flusher
  BY <1>2, FlusherLog
<1>3. ASSUME UNCHANGED <<wal, mem, applied, writer, flush>> PROVE LInv'
  <2>1. strayed' = strayed
    BY <1>3 DEF LInv
  <2> QED  BY <1>3, <2>1, OthersAside
<1>4. CASE FlushAllCall \/ FlushAllLoop
  BY <1>3, <1>4 DEF FlushAllCall, FlushAllLoop
<1>5. CASE \E r \in Readers : ReaderStep(r)
  BY <1>3, <1>5 DEF ReaderStep, Get, GetSnapshot, GetProbe, GetRead
<1>6. CASE Compactor
  BY <1>3, <1>6 DEF Compactor, engineVars
<1> QED  BY <1>1, <1>2, <1>4, <1>5, <1>6 DEF Next

-----------------------------------------------------------------------------
(* A process that starts *)

\* On a log it has read, with a MemTable of nothing but what it has read.
LEMMA FreshHolds ==
  ASSUME NEW s \in Seq(CellSet), NEW m, m.frozen = <<>>,
         \A k \in DOMAIN m.data : Ends(s, 1..GoodLen(s), k) # {},
         Start(s, 1..GoodLen(s), m.off)
  PROVE  /\ 1..GoodLen(s) \in SUBSET (1..Len(s))
         /\ Legible(s, 1..GoodLen(s))
         /\ Covers(s, 1..GoodLen(s), 0, Beyond(m, <<>>, 0))
         /\ OffsetsOf(s, 1..GoodLen(s), m, <<>>)
<1> DEFINE W == 1..GoodLen(s)
<1>1. Sized(Pairs) /\ s \in LogsOver(Pairs)
  BY PairsSized
<1>2. GoodLen(s) \in 0..Len(s) /\ Len(s) \in Nat
  BY <1>1, GoodLenIs, LenProperties
<1>3. W \in SUBSET (1..Len(s))
  BY <1>2
<1>4. Legible(s, W)
  BY <1>1, LegibleAnew
<1>5. \A i \in 1..Len(m.frozen) : FALSE
  BY EmptySeq
<1>6. ASSUME NEW k \in Beyond(m, <<>>, 0) PROVE \E e \in Ends(s, W, k) : e > 0
  <2>1. k \in DOMAIN m.data
    <3>1. Len(m.frozen) = 0
      BY EmptySeq
    <3>2. \A j \in (0 + 1)..Len(m.frozen) : FALSE
      BY <3>1
    <3> QED  BY <1>6, <3>2, NoKeys DEF Beyond
  <2>2. PICK e \in Ends(s, W, k) : TRUE
    BY <2>1
  <2>3. e \in 1..GoodLen(s)
    BY <2>2 DEF Ends
  <2> QED  BY <1>2, <2>2, <2>3
<1> DEFINE z == 0
<1>7. Covers(s, W, z, Beyond(m, <<>>, 0))
  <2>1. Start(s, W, z)
    BY DEF Start
  <2>2. \A k \in Beyond(m, <<>>, 0) : \E e \in Ends(s, W, k) : e > z
    BY <1>6
  <2> HIDE DEF W, z
  <2> QED  BY <2>1, <2>2 DEF Covers
<1>8. OffsetsOf(s, W, m, <<>>)
  <2>1. Covers(s, W, m.off, BatchKeys(<<>>))
    BY NoKeys DEF Covers
  <2> HIDE DEF W
  <2> QED  BY <1>5, <2>1 DEF OffsetsOf
<1> QED  BY <1>3, <1>4, <1>7, <1>8

\* An engine on a new directory.
LEMMA InitLog ==
  ASSUME OneWriter, RecoveryInit
  PROVE  LInv
<1>1. /\ mem = NewMemTable /\ wal = EmptyWAL /\ strayed = FALSE
      /\ writer = [t \in Writers |-> IdleWriter] /\ flush = NoFlush
  BY DEF RecoveryInit, Init
<1>2. writer[Owner].pc = "idle" /\ flush.pc = "free"
  BY <1>1, OwnerIs DEF IdleWriter, NoFlush
<1> DEFINE s == wal.file
<1>3. s = <<>> /\ s \in Seq(CellSet) /\ wal.handle = "closed"
  BY <1>1, EmptySeq DEF EmptyWAL
<1>4. mem.frozen = <<>> /\ mem.off = 0 /\ \A k : k \notin DOMAIN mem.data
  <2>1. mem.data = EmptyTable /\ mem.frozen = <<>> /\ mem.off = 0
    BY <1>1 DEF NewMemTable
  <2> QED  BY <2>1 DEF EmptyTable
<1> HIDE DEF s
<1>5. Start(s, 1..GoodLen(s), mem.off)
  BY <1>4 DEF Start
<1>6. PICK W \in SUBSET (1..Len(s)) : /\ Legible(s, W) /\ Covers(s, W, 0, Beyond(mem, <<>>, 0))
                                      /\ OffsetsOf(s, W, mem, <<>>)
  BY <1>3, <1>4, <1>5, FreshHolds
<1>7. Logged = <<>>
  BY <1>2 DEF Logged
<1>8. Says(s, W, Applied(<<>>))
  <2>1. \A e : e \notin W
    <3>1. \A e : e \notin 1..Len(s)
      <4>1. Len(s) = 0
        BY <1>3
      <4> QED  BY <4>1
    <3> QED  BY <1>6, <3>1
  <2>2. \A k : Ends(s, W, k) = {}
    BY <2>1 DEF Ends
  <2> QED  BY <2>2 DEF Says
<1>9. OffsetsHold(W)
  BY <1>2, <1>6, <1>7 DEF OffsetsHold, s
<1>10. LogHolds(W)
  BY <1>6, <1>7, <1>8, <1>9 DEF LogHolds, s
<1>11. LogOK
  BY <1>6, <1>10 DEF LogOK, s
<1>12. HandleOK
  BY <1>1, <1>2, <1>3, <1>4 DEF HandleOK
<1>13. BreakOK
  <2> DEFINE z == 0
  <2>1. Len(s) = z /\ z \in 0..z
    BY <1>3
  <2>2. Parted(s, z, z)
    <3>1. ~(z > 0) /\ ~(z < z) /\ z <= z /\ ~(z < Len(s))
      BY <2>1
    <3> HIDE DEF z
    <3> QED  BY <3>1 DEF Parted
  <2>3. BuffersKeep(z)
    <3>1. Len(mem.frozen) = 0
      BY <1>4
    <3>2. QueueKeeps(s, z, mem)
      BY <3>1 DEF QueueKeeps
    <3>3. Keeps(s, z, mem.off, mem.data)
      BY <1>4 DEF Keeps
    <3> QED  BY <1>2, <3>2, <3>3 DEF BuffersKeep, s
  <2> HIDE DEF z
  <2> QED  BY <2>1, <2>2, <2>3 DEF BreakOK, s
<1> QED  BY <1>1, <1>11, <1>12, <1>13 DEF LInv

\* An engine on what a crash leaves.
LEMMA CrashLog ==
  ASSUME OneWriter, TInv, Crash
  PROVE  LInv'
<1>1. PICK s \in Seq(CellSet) :
        /\ StartsWith(s, ReplayWal(s))
        /\ wal' = [file |-> s, handle |-> "closed", buffer |-> <<>>, pos |-> 0]
  BY CrashIs
<1> DEFINE rs == ReplayedRecords(s)
           m == ReplayWal(s)
           W == 1..GoodLen(s)
           n == GoodLen(s)
<1>2. /\ mem' = m /\ applied' = [k \in Keys |-> RestoredValue(m, k)]
      /\ wal'.file = s /\ wal'.handle = "closed" /\ strayed' = FALSE
  BY <1>1 DEF StartsWith, Crash
<1>3. writer'[Owner].pc = "idle" /\ flush'.pc = "free"
  BY OwnerIs DEF Crash, IdleWriter, NoFlush
<1>4. /\ m = BatchMem(NewMemTable, rs, ReplayedOffset(s)) /\ m \in MemTables /\ m.frozen = <<>>
      /\ \A k : MemGet(m, k) = IF k \in BatchKeys(rs) THEN BatchValue(rs, k) ELSE None
  BY RestoredIs
<1>5. n \in Nat /\ Sized(Pairs) /\ s \in LogsOver(Pairs) /\ rs \in Seq(Pairs)
  BY PairsSized, GoodLenIs, ReplayedType
<1>6. PICK ends : Tells(Pairs, s, n, rs, ends)
  BY <1>5, ReplayTells
<1>7. \A k : /\ k \in BatchKeys(rs) <=> Ends(s, W, k) # {}
             /\ \A e \in Ends(s, W, k) :
                  (\A d \in Ends(s, W, k) : d <= e) => BatchValue(rs, k) = s[e].rec.value
  <2> HIDE DEF rs, n
  <2> QED  BY <1>5, <1>6, TellsValue DEF n
<1>8. KeepsRead(s, n, m.data)
  <2> SUFFICES ASSUME NEW k \in Keys, NEW e \in Ends(s, W, k), \A d \in Ends(s, W, k) : d <= e
               PROVE  k \in DOMAIN m.data /\ m.data[k] = s[e].rec.value
    BY DEF KeepsRead
  <2>1. k \in BatchKeys(rs) /\ BatchValue(rs, k) = s[e].rec.value
    BY <1>7
  <2>2. BatchValue(rs, k) \in Stored
    BY <1>5, <2>1, BatchValueStored DEF Pairs
  <2> HIDE DEF rs, m
  <2>3. MemGet(m, k) = BatchValue(rs, k) /\ MemGet(m, k) # None
    BY <1>4, <2>1, <2>2, ValueAssumption
  <2>4. NewestHolder(m.frozen, k) = {}
    BY <1>4 DEF NewestHolder
  <2> QED  BY <2>1, <2>3, <2>4 DEF MemGet, SearchQueue
<1>9. DOMAIN m.data = BatchKeys(rs) /\ m.off = ReplayedOffset(s)
  <2>1. NewMemTable \in MemTables /\ DOMAIN NewMemTable.data = {}
    BY NewMemTableIs DEF EmptyTable
  <2> DEFINE o == ReplayedOffset(s)
  <2>2. m = BatchMem(NewMemTable, rs, o)
    BY <1>4
  <2> HIDE DEF rs, m, o
  <2>3. /\ DOMAIN BatchMem(NewMemTable, rs, o).data = DOMAIN NewMemTable.data \cup BatchKeys(rs)
        /\ BatchMem(NewMemTable, rs, o).off = o
        /\ BatchMem(NewMemTable, rs, o).frozen = NewMemTable.frozen
    <3>1. NewMemTable \in MemTables
      BY <2>1
    <3> QED  BY <3>1, BatchParts, Zenon
  <2>4. DOMAIN m.data = BatchKeys(rs) /\ m.off = o
    BY <2>1, <2>2, <2>3
  <2> QED  BY <2>4 DEF o
<1>10. Start(s, W, m.off)
  BY <1>9, ReplayedOffsetIs DEF Start
<1> HIDE DEF m, rs
<1>11. /\ W \in SUBSET (1..Len(s)) /\ Legible(s, W) /\ Covers(s, W, 0, Beyond(m, <<>>, 0))
       /\ OffsetsOf(s, W, m, <<>>)
  BY <1>4, <1>7, <1>9, <1>10, FreshHolds
<1>12. PICK V : V = W
  OBVIOUS
<1> HIDE DEF W
<1>13. ASSUME NEW k \in Keys, k \in BatchKeys(rs)
       PROVE  RestoredValue(m, k) = BatchValue(rs, k)
  <2>1. BatchValue(rs, k) \in Stored
    BY <1>5, <1>13, BatchValueStored DEF Pairs
  <2>2. MemGet(m, k) = BatchValue(rs, k) /\ MemGet(m, k) # None
    BY <1>4, <1>13, <2>1, ValueAssumption
  <2> QED  BY <2>2 DEF RestoredValue
<1>14. Logged' = <<>> /\ \A k : k \notin BatchKeys(Logged')
  BY <1>3, NoKeys DEF Logged
<1>15. Says(s, V, Applied(Logged)')
  <2>1. /\ DOMAIN Applied(Logged)' = Keys
        /\ \A k \in Keys : Applied(Logged)'[k] = applied'[k]
    BY <1>14 DEF Applied
  <2>2. ASSUME NEW k \in Keys, NEW e \in Ends(s, V, k), \A d \in Ends(s, V, k) : d <= e
        PROVE  s[e].rec.value = applied'[k]
    <3>1. k \in BatchKeys(rs) /\ BatchValue(rs, k) = s[e].rec.value
      BY <1>7, <1>12, <2>2
    <3>2. applied'[k] = BatchValue(rs, k)
      BY <1>2, <1>13, <3>1
    <3> QED  BY <3>1, <3>2
  <2> QED  BY <2>1, <2>2 DEF Says
<1>16. OffsetsHold(V)'
  BY <1>2, <1>3, <1>11, <1>12, <1>14 DEF OffsetsHold
<1>17. LogHolds(V)'
  BY <1>2, <1>11, <1>12, <1>14, <1>15, <1>16 DEF LogHolds
<1>18. LogOK'
  BY <1>2, <1>11, <1>12, <1>17 DEF LogOK
<1>19. HandleOK'
  BY <1>2, <1>3, <1>4 DEF HandleOK
<1>20. BreakOK'
  <2>1. n \in 0..Len(s) /\ Len(s) \in 0..Len(s) /\ Parted(s, n, Len(s))
    BY <1>5, PartedAnew
  <2>2. QueueKeeps(s, n, m)
    <3>1. Len(m.frozen) = 0
      BY <1>4
    <3> QED  BY <3>1 DEF QueueKeeps
  <2>3. Keeps(s, n, m.off, m.data)
    BY <1>8 DEF Keeps
  <2> HIDE DEF n
  <2>4. BuffersKeep(n)'
    BY <1>2, <1>3, <2>2, <2>3 DEF BuffersKeep
  <2> QED  BY <1>2, <2>1, <2>4 DEF BreakOK
<1> QED  BY <1>2, <1>18, <1>19, <1>20 DEF LInv

-----------------------------------------------------------------------------
(* What a new process finds *)

\* A key in no buffer.
LEMMA NotBuffered ==
  ASSUME NEW m \in MemTables, NEW pairs, NEW k, k \notin Beyond(m, pairs, 0)
  PROVE  k \notin BatchKeys(pairs) /\ MemGet(m, k) = None /\ k \notin DOMAIN FrozenItems(m)
<1> DEFINE q == m.frozen
<1>1. q \in Seq(Buffers) /\ Len(q) \in Nat /\ DOMAIN q = 1..Len(q)
  BY MemTableIs, LenProperties
<1>2. k \notin BatchKeys(pairs) /\ k \notin DOMAIN m.data
  BY DEF Beyond
<1>3. ASSUME NEW i \in DOMAIN q PROVE k \notin DOMAIN q[i].data
  <2>1. i \in (0 + 1)..Len(q)
    BY <1>1
  <2> QED  BY <2>1 DEF Beyond
<1>4. NewestHolder(q, k) = {}
  BY <1>3 DEF NewestHolder
<1>5. MemGet(m, k) = None
  BY <1>2, <1>4 DEF MemGet, SearchQueue
<1>6. k \notin DOMAIN FrozenItems(m)
  <2>1. CASE q = <<>>
    BY <2>1 DEF FrozenItems, EmptyTable
  <2>2. CASE q # <<>>
    <3>1. Head(q) = q[1] /\ 1 \in DOMAIN q
      <4> HIDE DEF q
      <4> QED  BY <1>1, <2>2, EmptySeq
    <3>2. k \notin DOMAIN Head(q).data
      BY <1>3, <3>1
    <3> QED  BY <2>2, <3>2 DEF FrozenItems
  <2> QED  BY <2>1, <2>2
<1> QED  BY <1>2, <1>5, <1>6

\* A log that replay reads to its end.
LEMMA ReadableChain ==
  ASSUME NEW s \in Seq(CellSet), Readable(s)
  PROVE  Chain(s)
<1>1. ReplayedRecords(s) \in Seq(Pairs) /\ Sized(Pairs)
  BY ReplayedType, PairsSized
<1>2. Chain(BatchCells(ReplayedRecords(s)))
  BY <1>1, BatchTells
<1> QED  BY <1>2 DEF Readable

\* What a process finds for a key that the whole log is read for.
LEMMA LogFinds ==
  ASSUME RInvariant, UnsavedOK, ~CompactAt("removing"), LogHolds(1..Len(wal.file)),
         NEW k \in Keys, NEW m, NEW rs \in Seq(Pairs),
         MemGet(m, k) = IF k \in BatchKeys(rs) THEN BatchValue(rs, k) ELSE None,
         k \in BatchKeys(rs) <=> Ends(wal.file, 1..Len(wal.file), k) # {},
         \A e \in Ends(wal.file, 1..Len(wal.file), k) :
           (\A d \in Ends(wal.file, 1..Len(wal.file), k) : d <= e) =>
             BatchValue(rs, k) = wal.file[e].rec.value
  PROVE  RestoredValue(m, k) = Applied(Logged)[k]
<1> DEFINE s == wal.file
           W == 1..Len(s)
<1>1. Len(s) \in Nat /\ mem \in MemTables
  BY LenProperties DEF RInvariant, TInv, WALs, MemoryTyped
<1>2. CASE Ends(s, W, k) # {}
  <2>1. PICK e \in Ends(s, W, k) : \A d \in Ends(s, W, k) : d <= e
    BY <1>1, <1>2, LastEnd
  <2>2. k \in BatchKeys(rs) /\ BatchValue(rs, k) = s[e].rec.value
    BY <1>2, <2>1
  <2>3. s[e].rec.value = Applied(Logged)[k]
    <3>1. Says(s, W, Applied(Logged)) /\ DOMAIN Applied(Logged) = Keys
      BY DEF LogHolds, Applied
    <3> HIDE DEF s, W
    <3> QED  BY <2>1, <3>1 DEF Says
  <2>4. BatchValue(rs, k) \in Stored
    BY <2>2, BatchValueStored DEF Pairs
  <2> QED  BY <2>2, <2>3, <2>4, ValueAssumption DEF RestoredValue
<1>3. CASE Ends(s, W, k) = {}
  <2>1. k \notin Beyond(mem, Logged, 0)
    BY <1>3 DEF LogHolds, Covers
  <2>2. k \notin BatchKeys(Logged) /\ MemGet(mem, k) = None /\ k \notin DOMAIN FrozenItems(mem)
    BY <1>1, <2>1, NotBuffered
  <2>3. SearchLevels(files, manifest.disk, k) = applied[k]
    BY <2>2, DiskSays
  <2>4. Load(manifest).mem = manifest.disk
    BY DEF RInvariant, TInv, DiskTyped, Manifests, Load
  <2>5. RestoredValue(m, k) = applied[k]
    BY <1>3, <2>3, <2>4 DEF RestoredValue
  <2> QED  BY <2>2, <2>5 DEF Applied
<1> QED  BY <1>2, <1>3

\* What replay finds, and where it finds nothing the SSTables.
LEMMA FoundAgain ==
  ASSUME RInvariant, UnsavedOK, LInv, ~strayed, Readable(wal.file), ~CompactAt("removing"),
         NEW ps \in Seq(Pairs), NEW tail \in {<<>>} \cup TornPrefixes(BatchCells(ps))
  PROVE  \E l \in 0..Len(ps) :
           /\ tail # <<>> => l < Len(ps)
           /\ \A k \in Keys : RestoredValue(ReplayWal(wal.file \o tail), k) =
                IF k \in BatchKeys(SubSeq(ps, 1, l)) THEN BatchValue(SubSeq(ps, 1, l), k)
                ELSE Applied(Logged)[k]
<1> DEFINE s == wal.file
           f == s \o tail
           rs == ReplayedRecords(f)
           m == ReplayWal(f)
           W == 1..Len(s)
<1>1. /\ s \in Seq(CellSet) /\ Sized(Pairs) /\ s \in LogsOver(Pairs) /\ mem \in MemTables
      /\ Len(s) \in Nat
  BY PairsSized, LenProperties DEF RInvariant, TInv, WALs, MemoryTyped
<1>2. Chain(s)
  BY <1>1, ReadableChain
<1>3. LogHolds(W)
  <2>1. PICK V \in SUBSET (1..Len(wal.file)) : LogHolds(V)
    BY DEF LInv, LogOK
  <2>2. V = W
    BY <1>1, <1>2, <2>1, LegibleWhole DEF LogHolds
  <2> QED  BY <2>1, <2>2
<1>4. PICK l \in 0..Len(ps) :
        /\ tail # <<>> => l < Len(ps)
        /\ SaysOf(s, SubSeq(ps, 1, l), rs)
  <2>1. Sized(Pairs) /\ s \in LogsOver(Pairs) /\ Chain(s)
    BY <1>1, <1>2
  <2> HIDE DEF s
  <2> QED  BY <2>1, RestartFinds
<1>5. f \in Seq(CellSet)
  <2>1. tail \in Seq(CellSet)
    <3>1. BatchCells(ps) \in Seq(CellSet)
      BY BatchCellsType
    <3> QED  BY <3>1, TornType, EmptySeq
  <2>2. s \in Seq(CellSet)
    BY <1>1
  <2> HIDE DEF s
  <2> QED  BY <2>1, <2>2, ConcatProperties
<1> DEFINE first == SubSeq(ps, 1, l)
<1> HIDE DEF f, first
<1>6. /\ \A k : MemGet(m, k) = IF k \in BatchKeys(rs) THEN BatchValue(rs, k) ELSE None
      /\ rs \in Seq([key : Keys, value : Stored])
  BY <1>5, RestoredIs, ReplayedType DEF Pairs
<1> HIDE DEF rs, m, W
<1>7. ASSUME NEW k \in Keys, k \in BatchKeys(rs) PROVE RestoredValue(m, k) = BatchValue(rs, k)
  <2>1. BatchValue(rs, k) \in Stored
    BY <1>6, <1>7, BatchValueStored
  <2> QED  BY <1>6, <1>7, <2>1, ValueAssumption DEF RestoredValue
<1>8. ASSUME NEW k \in Keys
      PROVE  RestoredValue(m, k) =
               IF k \in BatchKeys(first) THEN BatchValue(first, k) ELSE Applied(Logged)[k]
  <2>1. CASE k \in BatchKeys(first)
    <3>1. k \in BatchKeys(rs) /\ BatchValue(rs, k) = BatchValue(first, k)
      BY <1>4, <2>1 DEF first, SaysOf
    <3> QED  BY <1>7, <2>1, <3>1
  <2>2. CASE k \notin BatchKeys(first)
    <3>0. /\ k \in BatchKeys(rs) <=> Ends(s, W, k) # {}
          /\ \A e \in Ends(s, W, k) :
               (\A d \in Ends(s, W, k) : d <= e) => BatchValue(rs, k) = s[e].rec.value
      BY <1>4, <2>2 DEF first, W, SaysOf
    <3>1. RestoredValue(m, k) = Applied(Logged)[k]
      BY <1>3, <1>6, <3>0, LogFinds DEF W, Pairs
    <3> QED  BY <2>2, <3>1
  <2> QED  BY <2>1, <2>2
<1> QED  BY <1>4, <1>8 DEF first, m, f

\* What has been written is what a client may find.
LEMMA AppliedAllowed ==
  ASSUME OneWriter, NEW k \in Keys
  PROVE  Applied(Logged)[k] \in Allowed(k)
<1>1. CASE k \in BatchKeys(Logged)
  <2>1. /\ Logged = writer[Owner].pairs /\ Owner \in Writers
        /\ writer[Owner].pc \in {"put", "delete", "batch"}
    BY <1>1, OwnerIs, NoKeys DEF Logged
  <2>2. BatchValue(Logged, k) \in Unreturned(k)
    BY <1>1, <2>1 DEF Unreturned
  <2> QED  BY <1>1, <2>2 DEF Applied, Allowed
<1>2. CASE k \notin BatchKeys(Logged)
  BY <1>2 DEF Applied, Allowed
<1> QED  BY <1>1, <1>2

\* A process that reads the whole log finds what a client may find.
LEMMA ReadFinds ==
  ASSUME OneWriter, RInvariant, UnsavedOK, LInv, ~strayed, ~CompactAt("removing"),
         GoodLen(wal.file) = Len(wal.file)
  PROVE  RestoresWrites(wal.file)
<1> DEFINE s == wal.file
           n == Len(s)
           rs == ReplayedRecords(s)
           m == ReplayWal(s)
           W == 1..n
<1>1. s \in Seq(CellSet) /\ Sized(Pairs) /\ s \in LogsOver(Pairs) /\ n \in Nat /\ GoodLen(s) = n
  BY PairsSized, LenProperties DEF RInvariant, TInv, WALs
<1>2. LogHolds(W)
  <2>1. PICK V \in SUBSET (1..Len(wal.file)) : LogHolds(V)
    BY DEF LInv, LogOK
  <2>2. V = W
    BY <1>1, <2>1, LegibleRead DEF LogHolds
  <2> QED  BY <2>1, <2>2
<1> HIDE DEF s
<1>3. /\ rs \in Seq(Pairs)
      /\ \A k : MemGet(m, k) = IF k \in BatchKeys(rs) THEN BatchValue(rs, k) ELSE None
  BY <1>1, RestoredIs, ReplayedType
<1>4. PICK ends : Tells(Pairs, s, n, rs, ends)
  BY <1>1, ReplayTells
<1> HIDE DEF rs, m
<1>5. \A k : /\ k \in BatchKeys(rs) <=> Ends(s, W, k) # {}
             /\ \A e \in Ends(s, W, k) :
                  (\A d \in Ends(s, W, k) : d <= e) => BatchValue(rs, k) = s[e].rec.value
  <2> HIDE DEF n
  <2> QED  BY <1>1, <1>4, TellsValue
<1>6. ASSUME NEW k \in Keys PROVE RestoredValue(m, k) = Applied(Logged)[k]
  BY <1>2, <1>3, <1>5, LogFinds DEF s
<1> QED  BY <1>6, AppliedAllowed DEF RestoresWrites, m, s

\* Of a sequence, nothing and all of it.
LEMMA AllAndNone ==
  ASSUME NEW S, NEW q \in Seq(S)
  PROVE  SubSeq(q, 1, 0) = <<>> /\ SubSeq(q, 1, Len(q)) = q
OBVIOUS

\* What a crash leaves is what has returned, and part of what has not.
LEMMA RestartStep ==
  ASSUME OneWriter, RInvariant, UnsavedOK, LInv, Crash, ~strayed, Readable(wal.file),
         ~CompactAt("removing")
  PROVE  \E t \in Writers : \E n \in 0..Len(InFlight(t)) :
           applied' = Applied(SubSeq(InFlight(t), 1, n))
<1> DEFINE fly == InFlight(Owner)
           none == <<>>
<1>1. PICK tail \in Tails : applied' = [k \in Keys |-> RestoredValue(ReplayWal(wal.file \o tail), k)]
  BY DEF Crash, StartsWith
<1>2. /\ Owner \in Writers /\ \A t \in Writers : t = Owner
      /\ writer[Owner].pairs \in Seq(Pairs) /\ WritersTyped
  BY OwnerIs, LocalsIs DEF RInvariant, TInv, WritersTyped
<1>3. fly \in Seq(Pairs) /\ Len(fly) \in Nat /\ none \in Seq(Pairs)
  <2>1. fly \in Seq(Pairs) /\ none \in Seq(Pairs)
    BY <1>2, EmptySeq DEF InFlight
  <2> HIDE DEF fly, none
  <2> QED  BY <2>1, LenProperties
<1>4. ASSUME NEW ps \in Seq(Pairs), NEW l \in 0..Len(ps), NEW n \in 0..Len(fly),
             \A k \in Keys : RestoredValue(ReplayWal(wal.file \o tail), k) =
                IF k \in BatchKeys(SubSeq(ps, 1, l)) THEN BatchValue(SubSeq(ps, 1, l), k)
                ELSE Applied(Logged)[k],
             \/ SubSeq(ps, 1, l) = none /\ SubSeq(fly, 1, n) = Logged
             \/ SubSeq(ps, 1, l) = SubSeq(fly, 1, n) /\ Logged = none
      PROVE  \E t \in Writers : \E i \in 0..Len(InFlight(t)) :
               applied' = Applied(SubSeq(InFlight(t), 1, i))
  <2> DEFINE G == Applied(SubSeq(fly, 1, n))
  <2>1. \A k \in Keys : RestoredValue(ReplayWal(wal.file \o tail), k) = G[k]
    BY <1>4, NoKeys DEF Applied
  <2>2. applied' = G
    BY <1>1, <2>1 DEF Applied
  <2> QED  BY <1>2, <2>2
<1>5. CASE tail = none
  <2>1. PICK l \in 0..Len(none) :
          \A k \in Keys : RestoredValue(ReplayWal(wal.file \o tail), k) =
                IF k \in BatchKeys(SubSeq(none, 1, l)) THEN BatchValue(SubSeq(none, 1, l), k)
                ELSE Applied(Logged)[k]
    BY <1>3, <1>5, FoundAgain
  <2>2. l = 0 /\ SubSeq(none, 1, l) = none
    BY <2>1
  <2>3. PICK n \in 0..Len(fly) : SubSeq(fly, 1, n) = Logged
    <3>1. CASE writer[Owner].pc \in {"put", "delete", "batch"}
      <4>1. Logged = fly
        BY <3>1 DEF Logged, InFlight
      <4> HIDE DEF fly
      <4>2. SubSeq(fly, 1, Len(fly)) = fly /\ Len(fly) \in 0..Len(fly)
        BY <1>3, AllAndNone
      <4> QED  BY <4>1, <4>2
    <3>2. CASE writer[Owner].pc \notin {"put", "delete", "batch"}
      <4>1. Logged = none
        BY <3>2 DEF Logged
      <4> HIDE DEF fly, none
      <4>2. SubSeq(fly, 1, 0) = none /\ 0 \in 0..Len(fly)
        BY <1>3, AllAndNone DEF none
      <4> QED  BY <4>1, <4>2
    <3> QED  BY <3>1, <3>2
  <2> HIDE DEF fly, none
  <2> QED  BY <1>3, <1>4, <2>1, <2>2, <2>3
<1>6. CASE tail # none
  <2>1. PICK ps \in LogWrites : tail \in TornPrefixes(BatchCells(ps))
    BY <1>6 DEF Tails
  <2>2. ps \in Seq(Pairs)
    BY <1>2, <2>1, LogWritesType
  <2>3. PICK l \in 0..Len(ps) :
          /\ l < Len(ps)
          /\ \A k \in Keys : RestoredValue(ReplayWal(wal.file \o tail), k) =
                IF k \in BatchKeys(SubSeq(ps, 1, l)) THEN BatchValue(SubSeq(ps, 1, l), k)
                ELSE Applied(Logged)[k]
    BY <1>6, <2>1, <2>2, FoundAgain
  <2>4. CASE ps \in {<<p>> : p \in TornPairs} /\ \E t \in Writers : WriterAt(t, "idle")
    <3>1. writer[Owner].pc = "idle" /\ Len(ps) = 1
      BY <1>2, <2>4 DEF WriterAt
    <3>2. Logged = none /\ fly = none
      BY <3>1 DEF Logged, InFlight
    <3>3. l = 0
      BY <2>3, <3>1
    <3>4. SubSeq(ps, 1, l) = none /\ SubSeq(fly, 1, l) = none /\ l \in 0..Len(fly)
      <4> HIDE DEF fly
      <4> QED  BY <1>3, <2>2, <3>3, AllAndNone
    <3> HIDE DEF fly, none
    <3> QED  BY <1>4, <2>2, <2>3, <3>2, <3>4
  <2>5. CASE \E t \in Writers : Measured(t) /\ ps = writer[t].pairs
    <3>1. ps = writer[Owner].pairs /\ writer[Owner].pc = "measuring"
      BY <1>2, <2>5 DEF Measured, WriterAt
    <3>2. Logged = none /\ fly = ps
      BY <3>1 DEF Logged, InFlight
    <3> HIDE DEF fly, none
    <3> QED  BY <1>4, <2>2, <2>3, <3>2
  <2>6. \/ ps \in {<<p>> : p \in TornPairs} /\ \E t \in Writers : WriterAt(t, "idle")
        \/ \E t \in Writers : Measured(t) /\ ps = writer[t].pairs
    BY <2>1 DEF LogWrites
  <2> QED  BY <2>4, <2>5, <2>6
<1> QED  BY <1>5, <1>6

\* On a new directory the manifest in memory is the one on disk.
LEMMA InitUnsaved == Init => UnsavedOK
<1> SUFFICES ASSUME Init PROVE UnsavedOK
  OBVIOUS
<1>1. manifest = NewManifest /\ flush.pc = "free"
  BY DEF Init, NoFlush
<1>2. manifest.mem[0] = {} /\ manifest.mem[1] = {}
  BY <1>1, TwoLevels DEF NewManifest, NoLevels
<1> QED  BY <1>1, <1>2 DEF UnsavedOK

\* Together they hold in every life.
LEMMA LivesInvariant ==
  ASSUME ClockAdvances, OneWriter, NonEmptyBatches
  PROVE  RecoverySpec /\ RemovalsSucceed => [](UnsavedOK /\ LInv)
<1>1. RecoveryInit => UnsavedOK /\ LInv
  BY InitUnsaved, InitLog DEF RecoveryInit
<1>2. RInvariant /\ UnsavedOK /\ LInv /\ [RecoveryNext]_recoveryVars /\ [~CompactRemoveFails]_vars
        => UnsavedOK' /\ LInv'
  <2> SUFFICES ASSUME RInvariant, UnsavedOK, LInv, [RecoveryNext]_recoveryVars,
                      [~CompactRemoveFails]_vars
               PROVE  UnsavedOK' /\ LInv'
    OBVIOUS
  <2>1. ASSUME UNCHANGED vars PROVE UnsavedOK'
    BY <2>1 DEF vars, engineVars, compactionVars, UnsavedOK
  <2>2. ASSUME UNCHANGED <<vars, strayed>> PROVE LInv'
    BY <2>2, OthersAside DEF vars, engineVars
  <2>3. CASE EngineRuns
    <3>1. LInv'
      BY <2>3, NextLog DEF EngineRuns, RInvariant
    <3>2. CASE UNCHANGED vars
      BY <2>1, <3>1, <3>2
    <3>3. CASE ~UNCHANGED vars
      BY <2>3, <3>1, <3>3, NextUnsaved DEF EngineRuns
    <3> QED  BY <3>2, <3>3
  <2>4. CASE Crash
    BY <2>4, CrashUnsaved, CrashLog DEF RInvariant
  <2>5. CASE UNCHANGED recoveryVars
    BY <2>1, <2>2, <2>5 DEF recoveryVars
  <2> QED  BY <2>3, <2>4, <2>5 DEF RecoveryNext
<1> QED  BY <1>1, <1>2, RecoveryInvariant, PTL DEF RecoverySpec, RemovalsSucceed

\* One thread writes and no batch is empty, as in the server; every file
\* operation may fail but the saves that take compact's inputs out of the
\* manifest. Then a process that starts after a crash, at any step and in the
\* middle of any write to the log, finds every write that has returned and a
\* prefix of the pairs of the one under way ("no data loss in case of failure",
\* wal.py), with the three exceptions RestartKeepsWrites names.
THEOREM NoWriteLostInCrash ==
  ASSUME ClockAdvances, OneWriter, NonEmptyBatches
  PROVE  RecoverySpec /\ RemovalsSucceed => RestartKeepsWrites
<1>1. RInvariant /\ UnsavedOK /\ LInv /\ [RecoveryNext]_recoveryVars
        => [/\ crashes' # crashes
            /\ up'
            /\ ~strayed /\ Readable(wal.file) /\ ~CompactAt("removing")
            => \E t \in Writers : \E n \in 0..Len(InFlight(t)) :
                 applied' = Applied(SubSeq(InFlight(t), 1, n))]_recoveryVars
  <2> SUFFICES ASSUME RInvariant, UnsavedOK, LInv, [RecoveryNext]_recoveryVars,
                      crashes' # crashes, ~strayed, Readable(wal.file), ~CompactAt("removing")
               PROVE  \E t \in Writers : \E n \in 0..Len(InFlight(t)) :
                        applied' = Applied(SubSeq(InFlight(t), 1, n))
    OBVIOUS
  <2>1. Crash
    BY DEF RecoveryNext, EngineRuns, recoveryVars
  <2> QED  BY <2>1, RestartStep
<1> QED  BY <1>1, RecoveryInvariant, LivesInvariant, PTL DEF RecoverySpec, RestartKeepsWrites

-----------------------------------------------------------------------------
(* What a truncation leaves for a new process to read *)

\* A process that reads the whole log finds what a client may find.
ReadFindsAll ==
  ~strayed /\ ~CompactAt("removing") /\ GoodLen(wal.file) = Len(wal.file)
    => RestoresWrites(wal.file)

\* What a process that starts on the file s finds: what the last record of the
\* key says, or else the SSTables.
LEMMA RestoredTells ==
  ASSUME TInv, NEW s \in Seq(CellSet), NEW k
  PROVE  /\ Ends(s, 1..GoodLen(s), k) = {} =>
              RestoredValue(ReplayWal(s), k) = SearchLevels(files, manifest.disk, k)
         /\ \A e \in Ends(s, 1..GoodLen(s), k) :
              (\A d \in Ends(s, 1..GoodLen(s), k) : d <= e) =>
                RestoredValue(ReplayWal(s), k) = s[e].rec.value
<1> DEFINE n == GoodLen(s)
           rs == ReplayedRecords(s)
           m == ReplayWal(s)
<1>1. Sized(Pairs) /\ s \in LogsOver(Pairs) /\ n \in Nat /\ rs \in Seq(Pairs)
  BY PairsSized, GoodLenIs, ReplayedType
<1>2. MemGet(m, k) = IF k \in BatchKeys(rs) THEN BatchValue(rs, k) ELSE None
  BY RestoredIs
<1>3. PICK ends : Tells(Pairs, s, n, rs, ends)
  BY <1>1, ReplayTells
<1>4. Load(manifest).mem = manifest.disk
  BY DEF TInv, DiskTyped, Manifests, Load
<1> HIDE DEF n, rs, m
<1>5. /\ k \in BatchKeys(rs) <=> Ends(s, 1..n, k) # {}
      /\ \A e \in Ends(s, 1..n, k) :
           (\A d \in Ends(s, 1..n, k) : d <= e) => BatchValue(rs, k) = s[e].rec.value
  BY <1>1, <1>3, TellsValue
<1>6. Ends(s, 1..n, k) = {} => RestoredValue(m, k) = SearchLevels(files, manifest.disk, k)
  BY <1>2, <1>4, <1>5 DEF RestoredValue
<1>7. ASSUME NEW e \in Ends(s, 1..n, k), \A d \in Ends(s, 1..n, k) : d <= e
      PROVE  RestoredValue(m, k) = s[e].rec.value
  <2>1. k \in BatchKeys(rs) /\ BatchValue(rs, k) = s[e].rec.value
    BY <1>5, <1>7
  <2>2. BatchValue(rs, k) \in Stored
    BY <1>1, <2>1, BatchValueStored DEF Pairs
  <2> QED  BY <1>2, <2>1, <2>2, ValueAssumption DEF RestoredValue
<1> QED  BY <1>6, <1>7 DEF n, m

\* When a truncation leaves cells that no process reads, a new process finds
\* after it what one finds before it: of what is cut off, it has the last
\* record of a key still, or the SSTable of the flush has it.
LEMMA CutFinds ==
  ASSUME TInv, NEW s \in Seq(CellSet), NEW o \in Nat, NEW u \in Seq(CellSet),
         u = SubSeq(s, o + 1, Len(s)), o < Len(s),
         GoodLen(s) = o + GoodLen(u), NEW k,
         \A e \in Ends(s, 1..GoodLen(s), k) :
           (\A d \in Ends(s, 1..GoodLen(s), k) : d <= e) =>
             SearchLevels(files, manifest.disk, k) = s[e].rec.value \/ o < e
  PROVE  RestoredValue(ReplayWal(u), k) = RestoredValue(ReplayWal(s), k)
<1> DEFINE g == GoodLen(s)
           n == GoodLen(u)
<1>1. /\ Sized(Pairs) /\ s \in LogsOver(Pairs) /\ u \in LogsOver(Pairs)
      /\ g \in 0..Len(s) /\ n \in Nat /\ Len(s) \in Nat /\ g = o + n
  <2>1. Sized(Pairs) /\ s \in LogsOver(Pairs) /\ u \in LogsOver(Pairs)
    BY PairsSized
  <2>2. Len(s) \in Nat /\ Len(u) \in Nat
    BY LenProperties
  <2>3. g \in 0..Len(s) /\ n \in 0..Len(u)
    BY <2>1, GoodLenIs
  <2>4. n \in Nat
    <3> HIDE DEF g, n
    <3> QED  BY <2>2, <2>3
  <2>5. g = o + n
    OBVIOUS
  <2> QED  BY <2>1, <2>2, <2>3, <2>4, <2>5
<1> DEFINE V == {e \in 1..(Len(s) - o) : o + e \in 1..g}
<1>2. V = 1..n
  <2> HIDE DEF g, n
  <2>1. ASSUME NEW e \in 1..(Len(s) - o) PROVE o + e \in 1..g <=> e \in 1..n
    BY <1>1
  <2>2. \A e \in 1..n : e \in 1..(Len(s) - o)
    BY <1>1
  <2> QED  BY <2>1, <2>2
<1>3. /\ \A e \in Ends(u, 1..n, k) : o + e \in Ends(s, 1..g, k) /\ u[e] = s[o + e]
      /\ \A e \in Ends(s, 1..g, k) : e > o => e - o \in Ends(u, 1..n, k)
  <2>1. 1..g \in SUBSET (1..Len(s))
    BY <1>1
  <2>2. /\ \A e \in Ends(u, V, k) : o + e \in Ends(s, 1..g, k) /\ u[e] = s[o + e]
        /\ \A e \in Ends(s, 1..g, k) : e > o => e - o \in Ends(u, V, k)
    <3>1. PICK h : h = g
      OBVIOUS
    <3>2. /\ 1..h \in SUBSET (1..Len(s)) /\ o <= Len(s) /\ Sized(Pairs)
          /\ s \in LogsOver(Pairs) /\ o \in Nat /\ V = {e \in 1..(Len(s) - o) : o + e \in 1..h}
      <4> HIDE DEF g, n
      <4> QED  BY <1>1, <2>1, <3>1 DEF V
    <3> HIDE DEF g, n, V
    <3>3. LET X == {e \in 1..(Len(s) - o) : o + e \in 1..h}
          IN  /\ \A e \in Ends(u, X, k) : o + e \in Ends(s, 1..h, k) /\ u[e] = s[o + e]
              /\ \A e \in Ends(s, 1..h, k) : e > o => e - o \in Ends(u, X, k)
      BY <3>2, EndsCut
    <3> QED  BY <3>1, <3>2, <3>3
  <2> HIDE DEF V
  <2> QED  BY <1>2, <2>2
<1>4. /\ Ends(s, 1..g, k) = {} => RestoredValue(ReplayWal(s), k) = SearchLevels(files, manifest.disk, k)
      /\ \A e \in Ends(s, 1..g, k) : (\A d \in Ends(s, 1..g, k) : d <= e) =>
           /\ RestoredValue(ReplayWal(s), k) = s[e].rec.value
           /\ SearchLevels(files, manifest.disk, k) = s[e].rec.value \/ o < e
  BY RestoredTells
<1>5. /\ Ends(u, 1..n, k) = {} => RestoredValue(ReplayWal(u), k) = SearchLevels(files, manifest.disk, k)
      /\ \A e \in Ends(u, 1..n, k) : (\A d \in Ends(u, 1..n, k) : d <= e) =>
           RestoredValue(ReplayWal(u), k) = u[e].rec.value
  BY RestoredTells
<1>6. \A e \in Ends(s, 1..g, k) : e \in Int
  BY DEF Ends
<1>7. \A e \in Ends(u, 1..n, k) : e \in Int
  BY DEF Ends
<1> HIDE DEF g, n, V
<1>8. CASE Ends(u, 1..n, k) # {}
  <2>1. PICK e \in Ends(u, 1..n, k) : \A d \in Ends(u, 1..n, k) : d <= e
    BY <1>1, <1>8, LastEnd
  <2>2. ASSUME NEW d \in Ends(s, 1..g, k) PROVE d <= o + e
    <3>0. d \in Int /\ e \in Int /\ e > 0 /\ o \in Int
      BY <1>1, <1>6, <2>1 DEF Ends
    <3>1. CASE d > o
      <4>1. d - o <= e
        BY <1>3, <2>1, <3>1
      <4> QED  BY <3>0, <4>1
    <3> QED  BY <3>0, <3>1
  <2>3. RestoredValue(ReplayWal(s), k) = s[o + e].rec.value
    BY <1>3, <1>4, <2>1, <2>2
  <2> QED  BY <1>3, <1>5, <2>1, <2>3
<1>9. CASE Ends(u, 1..n, k) = {}
  <2>1. CASE Ends(s, 1..g, k) = {}
    BY <1>4, <1>5, <1>9, <2>1
  <2>2. CASE Ends(s, 1..g, k) # {}
    <3>1. PICK e \in Ends(s, 1..g, k) : \A d \in Ends(s, 1..g, k) : d <= e
      <4>1. g \in Nat
        BY <1>1
      <4> QED  BY <4>1, <2>2, LastEnd
    <3>2. ~(o < e)
      BY <1>3, <1>6, <1>9
    <3> QED  BY <1>4, <1>5, <1>9, <3>1, <3>2
  <2> QED  BY <2>1, <2>2
<1> QED  BY <1>8, <1>9

\* The truncation at the end of a flush.
LEMMA TruncationStep ==
  ASSUME OneWriter, RInvariant, UnsavedOK, LInv, ReadFindsAll',
         FlushTruncate \/ FlushTruncateFails,
         strayed' = (strayed \/ (wal.handle = "detached" /\ wal' # wal)),
         wal.handle = "attached", ~CompactAt("removing"), Len(wal'.file) < Len(wal.file),
         NoDataLoss
  PROVE  RestoresWrites(wal'.file)
<1> DEFINE s == wal.file
           o == flush.off
           u == SubSeq(s, o + 1, Len(s))
<1>1. /\ wal \in WALs /\ o \in Nat /\ TInv /\ flush.pc = "cleared"
      /\ wal' \in {wal, TruncateUpto(wal, o)}
      /\ UNCHANGED <<writer, applied, manifest, files, compaction>>
  BY DEF RInvariant, TInv, FlushTyped, Flushes, FlushTruncate, FlushTruncateFails, FlushAt,
      compactionVars
<1>2. ~strayed /\ ~strayed'
  BY DEF LInv, HandleOK
<1>3. PICK W \in SUBSET (1..Len(s)) : LogHolds(W)
  BY <1>2 DEF LInv, LogOK
<1>4. Legible(s, W) /\ Start(s, W, o)
  BY <1>1, <1>3 DEF LogHolds, OffsetsHold, Covers
<1>5. /\ Len(s) \in Nat /\ s \in LogsOver(Pairs) /\ s \in Seq(CellSet) /\ Sized(Pairs)
      /\ wal' = TruncateUpto(wal, o)
  BY <1>1, PairsSized, LenProperties DEF WALs
<1>6. o # 0
  <2> SUFFICES ASSUME o = 0 PROVE FALSE
    OBVIOUS
  <2>1. wal' = wal
    BY <1>1, <1>5, TruncateIs
  <2> QED  BY <1>5, <2>1
<1>7. o + 1 \in W /\ s[o + 1].part = 1
  BY <1>4, <1>6 DEF Start
<1>8. o > 0 /\ o < Len(s)
  <2>1. o + 1 \in 1..Len(s)
    BY <1>3, <1>7
  <2> HIDE DEF s, o
  <2> QED  BY <1>1, <1>5, <1>6, <2>1
<1>9. wal'.file = u
  BY <1>1, <1>5, <1>8, TruncateIs
<1>10. u \in Seq(CellSet) /\ u \in LogsOver(Pairs)
  <2>1. wal' \in WALs
    BY <1>1, <1>5, TruncateType
  <2> QED  BY <1>9, <2>1, PairsSized DEF WALs
<1>11. GoodLen(u) \in Int /\ Len(u) \in Int /\ GoodLen(u) <= Len(u)
  <2>1. PICK v : v = u
    OBVIOUS
  <2>2. v \in LogsOver(Pairs) /\ v \in Seq(CellSet)
    BY <1>10, <2>1
  <2>3. GoodLen(v) \in 0..Len(v) /\ Len(v) \in Nat
    BY <1>5, <2>2, GoodLenIs, LenProperties
  <2>4. GoodLen(v) \in Int /\ Len(v) \in Int /\ GoodLen(v) <= Len(v)
    BY <2>3
  <2> QED  BY <2>1, <2>4
<1>12. CASE GoodLen(u) = Len(u)
  <2>1. RestoresWrites(wal.file)'
    BY <1>1, <1>2, <1>9, <1>12 DEF ReadFindsAll, CompactAt
  <2> QED  BY <1>1, <2>1 DEF RestoresWrites, RestoredValue, Allowed, Unreturned
<1>13. CASE GoodLen(u) < Len(u)
  <2> DEFINE g == GoodLen(s)
  <2>1. g = o + GoodLen(u) /\ o < g /\ g < Len(s)
    <3> HIDE DEF s, o
    <3> QED  BY <1>1, <1>4, <1>5, <1>7, <1>10, <1>13, CutRead
  <2>2. BuffersKeep(g)
    <3>1. PICK h, b \in 0..Len(s) : Parted(s, h, b) /\ BuffersKeep(h)
      BY DEF LInv, BreakOK
    <3>2. g = h
      BY <1>5, <2>1, <3>1, PartedEnd
    <3> QED  BY <3>1, <3>2
  <2>3. KeepsRead(s, g, flush.items)
    BY <1>1, <1>8, <2>1, <2>2 DEF BuffersKeep, Keeps
  <2>4. ASSUME NEW k \in Keys
        PROVE  RestoredValue(ReplayWal(u), k) = RestoredValue(ReplayWal(s), k)
    <3>1. ASSUME NEW e \in Ends(s, 1..g, k), \A d \in Ends(s, 1..g, k) : d <= e
          PROVE  SearchLevels(files, manifest.disk, k) = s[e].rec.value
      <4>1. k \in DOMAIN flush.items /\ flush.items[k] = s[e].rec.value
        BY <2>3, <3>1 DEF KeepsRead
      <4> QED  BY <1>1, <4>1, DiskHasFlushed
    <3> HIDE DEF s, o
    <3> QED  BY <1>1, <1>5, <1>8, <1>10, <2>1, <3>1, CutFinds
  <2> QED  BY <1>9, <2>4 DEF NoDataLoss, RestoresWrites
<1> HIDE DEF u
<1> QED  BY <1>11, <1>12, <1>13

\* Nothing else makes the log shorter.
LEMMA OnlyTruncation ==
  ASSUME TInv, RecoveryNext, Len(wal'.file) < Len(wal.file)
  PROVE  /\ FlushTruncate \/ FlushTruncateFails
         /\ strayed' = (strayed \/ (wal.handle = "detached" /\ wal' # wal))
<1>1. wal \in WALs /\ wal.file \in Seq(CellSet) /\ Len(wal.file) \in Nat
  BY LenProperties DEF TInv, WALs
<1>2. ASSUME NEW t \in Seq(CellSet), wal'.file = wal.file \o t PROVE FALSE
  <2> DEFINE s == wal.file
  <2>1. Len(s \o t) = Len(s) + Len(t) /\ Len(t) \in Nat
    <3>1. s \in Seq(CellSet)
      BY <1>1
    <3> HIDE DEF s
    <3> QED  BY <3>1, LenProperties
  <2> QED  BY <1>1, <1>2, <2>1
<1>3. ASSUME NEW ps \in Seq(Pairs), wal' = AppendBatch(wal, ps) PROVE FALSE
  <2>1. BatchCells(ps) \in Seq(CellSet)
    BY BatchCellsType
  <2>2. CASE ps = <<>>
    <3>1. wal' = Open(wal)
      BY <1>3, <2>2 DEF AppendBatch
    <3>2. wal'.file = wal.file
      BY <1>1, <3>1 DEF Open, WALs
    <3> QED  BY <1>1, <3>2
  <2>3. CASE ps # <<>>
    <3>1. wal'.file = wal.file \/ wal'.file = wal.file \o BatchCells(ps)
      BY <1>1, <1>3, <2>3, AppendIs
    <3> QED  BY <1>1, <1>2, <2>1, <3>1
  <2> QED  BY <2>2, <2>3
<1>4. wal' # wal
  BY <1>1
<1>5. ~Crash
  <2> SUFFICES ASSUME Crash PROVE FALSE
    OBVIOUS
  <2>1. PICK tail \in Tails : wal'.file = wal.file \o tail
    BY CrashIs
  <2> QED  BY <1>2, <2>1, TailsType DEF TInv
<1>6. ASSUME NEW t \in Writers, WriterCalls(t) PROVE FALSE
  <2>1. PICK p \in Pairs : wal' = Append1(wal, p)
    <3>1. CASE \E k \in Keys, v \in Values : Put(t, k, v)
      <4>1. PICK k \in Keys, v \in Values : Put(t, k, v)
        BY <3>1
      <4>2. [key |-> k, value |-> v] \in Pairs
        BY DEF Pairs, Stored
      <4> QED  BY <4>1, <4>2 DEF Put, Log
    <3>2. CASE \E k \in Keys : Delete(t, k)
      <4>1. PICK k \in Keys : Delete(t, k)
        BY <3>2
      <4>2. [key |-> k, value |-> Tombstone] \in Pairs
        BY DEF Pairs, Stored
      <4> QED  BY <4>1, <4>2 DEF Delete, Log
    <3>3. ASSUME NEW b \in Batches, BatchPut(t, b) PROVE FALSE
      BY <1>4, <3>3 DEF BatchPut
    <3> QED  BY <1>6, <3>1, <3>2, <3>3 DEF WriterCalls
  <2>2. BatchCells(<<p>>) = Cells(p) /\ <<p>> \in Seq(Pairs)
    BY OneRecord
  <2>3. wal' = AppendBatch(wal, <<p>>)
    BY <2>1, <2>2 DEF Append1, AppendBatch
  <2> QED  BY <1>3, <2>2, <2>3
<1>7. ASSUME NEW t \in Writers, WriterReturns(t) PROVE FALSE
  <2>1. BatchLog(t)
    BY <1>4, <1>7 DEF WriterReturns, PutApply, SpawnFlush, DeleteApply, DeleteSetOffset,
        BatchMeasure, BatchReject, BatchApply
  <2>2. writer[t].pairs \in Seq(Pairs)
    BY LocalsIs DEF TInv, WritersTyped
  <2> QED  BY <1>3, <2>1, <2>2 DEF BatchLog
<1>8. Next /\ strayed' = (strayed \/ (wal.handle = "detached" /\ wal' # wal))
  BY <1>5 DEF RecoveryNext, EngineRuns
<1>9. Flusher
  BY <1>4, <1>6, <1>7, <1>8 DEF Next, FlushAllCall, FlushAllLoop, ReaderStep, Get, GetSnapshot,
      GetProbe, GetRead, Compactor, engineVars
<1>10. FlushTruncate \/ FlushTruncateFails
  BY <1>4, <1>9 DEF Flusher, FlushStep, FlushNothing, FlushTake, FlushWrite, FlushWriteFails,
      FlushInstall, FlushInstallFails, FlushSave, FlushSaveFails, FlushClear, FlushCompact
<1> QED  BY <1>8, <1>10

\* One thread writes and no batch is empty, as in the server; every file
\* operation may fail but the saves that take compact's inputs out of the
\* manifest. Then wal.truncate_upto at the end of a flush loses nothing, in
\* whatever state crashes and failures have left the log: when a process that
\* starts just before it would find all writes, one that starts just after it
\* does (what flush cuts off is in saved SSTables or overridden: "ensuring no
\* data loss in case of failure", wal.py).
THEOREM TruncationIsSafe ==
  ASSUME ClockAdvances, OneWriter, NonEmptyBatches
  PROVE  RecoverySpec /\ RemovalsSucceed => TruncationLosesNothing
<1>1. RInvariant /\ UnsavedOK /\ LInv => ReadFindsAll
  BY ReadFinds DEF ReadFindsAll
<1>2. /\ RInvariant /\ UnsavedOK /\ LInv /\ ReadFindsAll'
      /\ [RecoveryNext]_recoveryVars
      => [/\ wal.handle = "attached" /\ ~CompactAt("removing")
          /\ Len(wal'.file) < Len(wal.file)
          /\ NoDataLoss
          => RestoresWrites(wal'.file)]_vars
  <2> SUFFICES ASSUME RInvariant, UnsavedOK, LInv, ReadFindsAll', [RecoveryNext]_recoveryVars,
                      wal.handle = "attached", ~CompactAt("removing"),
                      Len(wal'.file) < Len(wal.file), NoDataLoss
               PROVE  RestoresWrites(wal'.file)
    OBVIOUS
  <2>1. TInv
    BY DEF RInvariant
  <2>2. wal' # wal
    <3>1. Len(wal.file) \in Nat
      BY <2>1, LenProperties DEF TInv, WALs
    <3> QED  BY <3>1
  <2>3. RecoveryNext
    BY <2>2 DEF recoveryVars, vars, engineVars
  <2> QED  BY <2>1, <2>3, OnlyTruncation, TruncationStep
<1> QED  BY <1>1, <1>2, RecoveryInvariant, LivesInvariant, PTL
         DEF RecoverySpec, TruncationLosesNothing
=============================================================================
