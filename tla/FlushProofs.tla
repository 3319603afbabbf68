---------------------------- MODULE FlushProofs ----------------------------
(***************************************************************************)
(* What flushes and compactions leave on disk and in the queue, for every   *)
(* number of threads, keys, values, batches, thresholds and failures.       *)
(*                                                                         *)
(* The disk: no entry is without its file (NoDanglingEntry), no SSTable is  *)
(* given up before its merged copy is named (SupersededBeforeRemoved), and  *)
(* no buffer before its data is (DurableBeforeCleared). Assumed are, as in  *)
(* EngineProofs, a clock that advances and no failing save in the middle of *)
(* compact's removals.                                                     *)
(*                                                                         *)
(* The queue: every buffer in it is owed a flush (FlushOwed), as long as no *)
(* file operation fails and no batch rotates an empty buffer.              *)
(***************************************************************************)
EXTENDS EngineProofs, FiniteSetTheorems

-----------------------------------------------------------------------------
(* The inductive invariant *)

\* The manifest on disk is never ahead of the one in memory.
DiskBehind == \A l \in Levels : manifest.disk[l] \subseteq manifest.mem[l]

\* Every entry in memory names a file.
Named == \A l \in Levels : \A e \in manifest.mem[l] : e.path \in DOMAIN files

\* Every key of table t is in some file that the levels name on level 1.
Below(fs, levels, t) == \A k \in DOMAIN t : \E e \in levels[1] : Holds(fs, e.path, k)

\* While compact removes its inputs, what is left of them is merged on level 1
\* of the manifest on disk.
MergedBelow ==
  CompactAt("removing") =>
    \A i \in compaction.todo : Below(files, manifest.disk, files[i.path])

\* Some file that the levels name holds v for k.
Durable(fs, levels, k, v) ==
  \E l \in Levels : \E e \in levels[l] : Holds(fs, e.path, k) /\ fs[e.path][k] = v

\* Once the manifest with its SSTable is saved, a flush's data is on disk.
FlushedOnDisk ==
  flush.pc \in {"installed", "saved"} =>
    \A k \in DOMAIN flush.items : Durable(files, manifest.disk, k, flush.items[k])

DInv == DiskBehind /\ Named /\ MergedBelow /\ FlushedOnDisk

-----------------------------------------------------------------------------
(* What every step keeps to *)

\* The files that entries name stay as they are.
NamedFilesStay ==
  \A l \in Levels : \A e \in manifest.mem[l] : SameFile(e.path)

\* An entry is added for a file that is there.
NewEntriesNamed ==
  \A l \in Levels : \A e \in manifest'.mem[l] : e \in manifest.mem[l] \/ e.path \in DOMAIN files'

\* Only compact takes entries out of level 0, and nobody out of level 1.
OnlyCompactRemoves ==
  /\ manifest.mem[1] \subseteq manifest'.mem[1]
  /\ \A e \in manifest.mem[0] : e \notin manifest'.mem[0] =>
       compaction.pc = "removing" /\ e \in compaction.todo

\* The manifest on disk is replaced by the one in memory, or left; when it is
\* left, nothing goes out of memory and no flush gets past its save.
SavedOrLeft ==
  \/ manifest'.disk = manifest'.mem
  \/ /\ manifest'.disk = manifest.disk
     /\ manifest.mem[0] \subseteq manifest'.mem[0]
     /\ flush'.pc \in {"installed", "saved"} =>
          flush.pc \in {"installed", "saved"} /\ flush'.items = flush.items

\* compact starts to remove what is merged in a file the saved manifest names.
RemovesMerged ==
  compaction'.pc = "removing" =>
    \/ compaction.pc = "removing" /\ compaction'.todo \subseteq compaction.todo
    \/ \A i \in compaction'.todo : Below(files', manifest'.disk, files'[i.path])

DiskStep ==
  NamedFilesStay /\ NewEntriesNamed /\ OnlyCompactRemoves /\ SavedOrLeft /\ RemovesMerged

\* The numbers of the levels.
LEMMA TwoLevels == 0 \in Levels /\ 1 \in Levels /\ \A l \in Levels : l = 0 \/ l = 1
BY DEF Levels

\* What a search finds is in one of the files its entries name.
LEMMA FoundSomewhere ==
  ASSUME NEW fs, NEW c, NEW S, Dated(S, c), NEW k, SearchLevel(fs, S, k) # None
  PROVE  \E e \in S : Holds(fs, e.path, k) /\ fs[e.path][k] = SearchLevel(fs, S, k)
<1>1. PICK e \in FirstHit(fs, S, k) : TRUE
  BY DEF SearchLevel
<1>2. SearchLevel(fs, S, k) = fs[e.path][k]
  BY <1>1, FirstHitOnly
<1>3. e \in S /\ Holds(fs, e.path, k)
  BY <1>1 DEF FirstHit
<1> QED  BY <1>2, <1>3

\* A step that keeps to DiskStep keeps the invariant.
LEMMA DiskStepInv ==
  ASSUME IInv, IInv', DInv, DiskStep
  PROVE  DInv'
<1>1. DiskBehind'
  <2>1. CASE manifest'.disk = manifest'.mem
    BY <2>1 DEF DiskBehind
  <2>2. CASE manifest'.disk = manifest.disk /\ manifest.mem[0] \subseteq manifest'.mem[0]
    BY <2>2, TwoLevels DEF DInv, DiskStep, DiskBehind, OnlyCompactRemoves
  <2> QED  BY <2>1, <2>2 DEF DiskStep, SavedOrLeft
<1>2. Named'
  <2> SUFFICES ASSUME NEW l \in Levels, NEW e \in manifest'.mem[l]
               PROVE  e.path \in DOMAIN files'
    BY DEF Named
  <2>1. CASE e \in manifest.mem[l]
    BY <2>1 DEF DInv, Named, DiskStep, NamedFilesStay, SameFile, SameIn
  <2> QED  BY <2>1 DEF DiskStep, NewEntriesNamed
<1>3. manifest.disk[1] \subseteq manifest'.disk[1]
  BY TwoLevels DEF DInv, DiskBehind, DiskStep, OnlyCompactRemoves, SavedOrLeft
<1>4. MergedBelow'
  <2> SUFFICES ASSUME compaction'.pc = "removing", NEW i \in compaction'.todo
               PROVE  Below(files', manifest'.disk, files'[i.path])
    BY DEF MergedBelow, CompactAt
  <2>1. CASE compaction.pc = "removing" /\ compaction'.todo \subseteq compaction.todo
    <3>1. Below(files, manifest.disk, files[i.path])
      BY <2>1 DEF DInv, MergedBelow, CompactAt
    <3>2. files'[i.path] = files[i.path]
      <4>1. i \in manifest.mem[0]
        BY <2>1 DEF IInv, CompactionOK, CompactAt
      <4> QED  BY <4>1, TwoLevels
               DEF DInv, Named, DiskStep, NamedFilesStay, SameFile, SameIn
    <3>3. ASSUME NEW k \in DOMAIN files[i.path]
          PROVE  \E e \in manifest'.disk[1] : Holds(files', e.path, k)
      <4>1. PICK e \in manifest.disk[1] : Holds(files, e.path, k)
        BY <3>1 DEF Below
      <4>2. SameFile(e.path)
        BY <4>1, TwoLevels DEF DInv, DiskBehind, DiskStep, NamedFilesStay
      <4>3. Holds(files', e.path, k)
        BY <4>1, <4>2 DEF Holds, SameFile, SameIn
      <4> QED  BY <1>3, <4>1, <4>3
    <3> QED  BY <3>2, <3>3 DEF Below
  <2> QED  BY <2>1 DEF DiskStep, RemovesMerged
<1>5. FlushedOnDisk'
  <2> SUFFICES ASSUME flush'.pc \in {"installed", "saved"}, NEW k \in DOMAIN flush'.items
               PROVE  Durable(files', manifest'.disk, k, flush'.items[k])
    BY DEF FlushedOnDisk
  <2>1. CASE manifest'.disk = manifest'.mem
    <3> DEFINE U == Upper'
               L == manifest'.mem[1]
               v == flush'.items[k]
    <3>1. Find(files', U, L, k) = v
      BY DEF IInv, FlushOK, OnDisk
    <3>2. v # None
      BY TableValue DEF IInv, Shapes
    <3>3. U \subseteq manifest'.mem[0] /\ Dated(U, clock') /\ Dated(L, clock')
      BY DEF IInv, LevelsOK, Upper, Inputs, Dated
    <3>4. \E e \in U \cup L : Holds(files', e.path, k) /\ files'[e.path][k] = v
      <4> HIDE DEF U, L, v
      <4>1. CASE SearchLevel(files', U, k) # None
        BY <3>1, <3>3, <4>1, FoundSomewhere DEF Find
      <4>2. CASE SearchLevel(files', U, k) = None
        BY <3>1, <3>2, <3>3, <4>2, FoundSomewhere DEF Find
      <4> QED  BY <4>1, <4>2
    <3> QED  BY <2>1, <3>3, <3>4, TwoLevels DEF Durable
  <2>2. CASE /\ manifest'.disk = manifest.disk
             /\ flush.pc \in {"installed", "saved"} /\ flush'.items = flush.items
    <3>0. PICK l \in Levels : \E e \in manifest.disk[l] :
            Holds(files, e.path, k) /\ files[e.path][k] = flush.items[k]
      BY <2>2 DEF DInv, FlushedOnDisk, Durable
    <3>1. PICK e \in manifest.disk[l] :
            Holds(files, e.path, k) /\ files[e.path][k] = flush.items[k]
      BY <3>0
    <3>2. SameFile(e.path)
      BY <3>1 DEF DInv, DiskBehind, DiskStep, NamedFilesStay
    <3>3. Holds(files', e.path, k) /\ files'[e.path][k] = flush'.items[k]
      BY <2>2, <3>1, <3>2 DEF Holds, SameFile, SameIn
    <3> QED  BY <2>2, <3>1, <3>3 DEF Durable
  <2> QED  BY <2>1, <2>2 DEF DiskStep, SavedOrLeft
<1> QED  BY <1>1, <1>2, <1>4, <1>5 DEF DInv

-----------------------------------------------------------------------------
(* Every step is one *)

\* A step that leaves the manifest in memory as it is.
LEMMA MemKept ==
  ASSUME manifest'.mem = manifest.mem, NamedFilesStay, SavedOrLeft, RemovesMerged
  PROVE  DiskStep
BY TwoLevels DEF DiskStep, NewEntriesNamed, OnlyCompactRemoves

\* One that also leaves the manifest on disk and what is saved of a flush.
LEMMA ManifestKept ==
  ASSUME manifest' = manifest, NamedFilesStay, RemovesMerged,
         flush'.pc \in {"installed", "saved"} =>
           flush.pc \in {"installed", "saved"} /\ flush'.items = flush.items
  PROVE  DiskStep
BY MemKept DEF SavedOrLeft

\* A step that writes or removes only files whose paths are later than clock.
LEMMA PastFilesStay ==
  ASSUME IInv, \A q : q[2] \in Int /\ q[2] <= clock => SameFile(q)
  PROVE  NamedFilesStay
<1>1. \A l \in Levels : manifest.mem[l] \subseteq Inputs \cup manifest.mem[1]
  BY TwoLevels DEF Inputs
<1> QED  BY <1>1, PastPaths DEF NamedFilesStay

\* A step that does not come near the manifest, the files or compact.
LEMMA AwayFromDisk ==
  ASSUME UNCHANGED <<manifest, files, compaction>>,
         flush'.pc \in {"installed", "saved"} =>
           flush.pc \in {"installed", "saved"} /\ flush'.items = flush.items
  PROVE  DiskStep
<1>1. NamedFilesStay
  BY DEF NamedFilesStay, SameFile, SameIn
<1>2. RemovesMerged
  BY DEF RemovesMerged
<1> QED  BY <1>1, <1>2, ManifestKept

\* The manifest on disk after add_sstable, with and without its save.
LEMMA AddedOnDisk ==
  ASSUME NEW m \in [mem : LevelSets, disk : LevelSets], NEW l \in Levels, NEW e \in Entries
  PROVE  /\ AddSSTable(m, l, e).disk = AddSSTable(m, l, e).mem
         /\ AddSSTableUnsaved(m, l, e).disk = m.disk
<1> DEFINE levels == [m.mem EXCEPT ![l] = @ \cup {e}]
           u == AddSSTableUnsaved(m, l, e)
<1>1. u = [m EXCEPT !.mem = levels]
  BY DEF AddSSTableUnsaved
<1> HIDE DEF levels, u
<1>2. u = [mem |-> levels, disk |-> m.disk]
  BY <1>1
<1>3. AddSSTable(m, l, e) = [mem |-> levels, disk |-> levels]
  BY <1>2 DEF AddSSTable, Save, u
<1> QED  BY <1>2, <1>3 DEF u

\* The manifest on disk after remove_sstable.
LEMMA RemovedOnDisk ==
  ASSUME NEW m \in [mem : LevelSets, disk : LevelSets], NEW l, NEW p
  PROVE  RemoveSSTable(m, l, p).disk = RemoveSSTable(m, l, p).mem
<1> DEFINE levels == [m.mem EXCEPT ![l] = {e \in @ : e.path # p}]
           u == RemoveSSTableUnsaved(m, l, p)
<1>1. u = [m EXCEPT !.mem = levels]
  BY DEF RemoveSSTableUnsaved
<1> HIDE DEF levels, u
<1>2. u = [mem |-> levels, disk |-> m.disk]
  BY <1>1
<1> QED  BY <1>2 DEF RemoveSSTable, Save, u

\* A flusher that leaves has nothing installed.
LEMMA LeftFlush == NoFlush.pc \notin {"installed", "saved", "cleared"}
BY DEF NoFlush

\* The flusher's step becomes pc, and its items stay.
LEMMA FlushMoves ==
  ASSUME IInv, NEW pc, flush' = [flush EXCEPT !.pc = pc]
  PROVE  flush'.pc = pc /\ flush'.items = flush.items
<1>1. flush' = [pc |-> pc, by |-> flush.by, items |-> flush.items,
                off |-> flush.off, path |-> flush.path]
  BY DEF IInv, Shapes
<1> QED  BY <1>1

\* A flush's steps before add_sstable and after the second save.
LEMMA FlushAsideStep ==
  ASSUME ClockAdvances, IInv,
         \/ FlushWrite \/ FlushWriteFails \/ FlushClear
         \/ FlushTruncate \/ FlushTruncateFails \/ FlushCompact
  PROVE  DiskStep
<1>1. CASE FlushWrite
  <2>1. clock' \in Int /\ clock' > clock /\ clock \in Int
    BY <1>1, PastPaths, TickAdvances DEF FlushWrite
  <2>2. flush.items \in Tables /\ FilesOK(files)
    BY DEF IInv, Shapes
  <2>3. \A q : q[2] \in Int /\ q[2] <= clock => SameFile(q)
    <3>1. files' = WriteFile(files, <<0, clock'>>, flush.items)
      BY <1>1 DEF FlushWrite
    <3> QED  BY <2>1, <2>2, <3>1, FreshFile DEF SameFile
  <2>4. flush'.pc = "written"
    <3> DEFINE x == [flush EXCEPT !.pc = "written"]
    <3>1. flush' = [x EXCEPT !.path = <<0, clock'>>]
      BY <1>1 DEF FlushWrite
    <3>2. x = [pc |-> "written", by |-> flush.by, items |-> flush.items,
               off |-> flush.off, path |-> flush.path]
      BY DEF IInv, Shapes
    <3> HIDE DEF x
    <3> QED  BY <3>1, <3>2
  <2>5. manifest' = manifest /\ compaction' = compaction
    BY <1>1 DEF FlushWrite
  <2> QED  BY <2>3, <2>4, <2>5, PastFilesStay, ManifestKept DEF RemovesMerged
<1>2. CASE FlushWriteFails
  <2>1. clock' \in Int /\ clock' > clock /\ clock \in Int
    BY <1>2, PastPaths, TickAdvances DEF FlushWriteFails
  <2>2. flush.items \in Tables /\ FilesOK(files)
    BY DEF IInv, Shapes
  <2>3. \A q : q[2] \in Int /\ q[2] <= clock => SameFile(q)
    <3>1. files' = Unlinked(files, <<0, clock'>>)
      BY <1>2 DEF FlushWriteFails
    <3> QED  BY <2>1, <2>2, <3>1, FreshFile DEF SameFile
  <2>4. manifest' = manifest /\ compaction' = compaction /\ flush' = NoFlush
    BY <1>2 DEF FlushWriteFails, Leave
  <2> QED  BY <2>3, <2>4, PastFilesStay, LeftFlush, ManifestKept DEF RemovesMerged
<1>3. CASE FlushClear
  <2>1. flush' = [flush EXCEPT !.pc = "cleared"] /\ UNCHANGED <<manifest, files, compaction>>
    BY <1>3 DEF FlushClear, compactionVars
  <2> QED  BY <2>1, FlushMoves, AwayFromDisk
<1>4. CASE FlushTruncate
  <2>1. flush' = [flush EXCEPT !.pc = "truncated"] /\ UNCHANGED <<manifest, files, compaction>>
    BY <1>4 DEF FlushTruncate, compactionVars
  <2> QED  BY <2>1, FlushMoves, AwayFromDisk
<1>5. CASE FlushTruncateFails
  <2>1. flush' = NoFlush /\ UNCHANGED <<manifest, files, compaction>>
    BY <1>5 DEF FlushTruncateFails, Leave
  <2> QED  BY <2>1, LeftFlush, AwayFromDisk
<1>6. CASE FlushCompact
  <2>1. flush' = NoFlush /\ UNCHANGED <<manifest, files>>
    BY <1>6 DEF FlushCompact, Leave
  <2>2. compaction' = compaction \/ compaction'.pc = "started"
    BY <1>6 DEF FlushCompact, MayStartCompaction, NoCompaction
  <2>3. NamedFilesStay
    BY <2>1 DEF NamedFilesStay, SameFile, SameIn
  <2> QED  BY <2>1, <2>2, <2>3, LeftFlush, ManifestKept DEF RemovesMerged
<1> QED  BY <1>1, <1>2, <1>3, <1>4, <1>5, <1>6

\* add_sstable of a flush, whose file is there.
LEMMA FlushInstallStep ==
  ASSUME ClockAdvances, IInv, FlushInstall \/ FlushInstallFails
  PROVE  DiskStep
<1> DEFINE e == [path |-> flush.path, created |-> clock']
<1>1. /\ manifest \in [mem : LevelSets, disk : LevelSets]
      /\ flush.path \in Paths /\ flush.path \in DOMAIN files
      /\ UNCHANGED <<files, compaction>>
  BY DEF FlushInstall, FlushInstallFails, FlushAt, IInv, Shapes, FlushOK
<1>2. e \in Entries /\ e.path = flush.path
  <2>1. clock' \in Int
    BY PastPaths, TickAdvances DEF FlushInstall, FlushInstallFails
  <2> QED  BY <1>1, <2>1 DEF Entries
<1>3. \/ manifest' = AddSSTable(manifest, 0, e)
      \/ manifest' = AddSSTableUnsaved(manifest, 0, e) /\ flush' = NoFlush
  BY DEF FlushInstall, FlushInstallFails, Leave, SaveRaised, AddSSTable
<1> HIDE DEF e
<1>4. /\ manifest'.mem[0] = manifest.mem[0] \cup {e}
      /\ manifest'.mem[1] = manifest.mem[1]
  BY <1>1, <1>2, <1>3, TwoLevels, AddEntry
<1>5. SavedOrLeft
  BY <1>1, <1>2, <1>3, <1>4, TwoLevels, AddedOnDisk, LeftFlush DEF SavedOrLeft
<1>6. NamedFilesStay /\ RemovesMerged
  BY <1>1 DEF NamedFilesStay, SameFile, SameIn, RemovesMerged
<1>7. NewEntriesNamed /\ OnlyCompactRemoves
  BY <1>1, <1>2, <1>4, TwoLevels DEF NewEntriesNamed, OnlyCompactRemoves
<1> QED  BY <1>5, <1>6, <1>7 DEF DiskStep

\* The second save.
LEMMA FlushSaveStep ==
  ASSUME IInv, FlushSave \/ FlushSaveFails
  PROVE  DiskStep
<1>1. manifest \in [mem : LevelSets, disk : LevelSets] /\ UNCHANGED <<files, compaction>>
  BY DEF FlushSave, FlushSaveFails, IInv, Shapes
<1>2. \/ manifest' = Save(manifest)
      \/ manifest' = manifest /\ flush' = NoFlush
  BY DEF FlushSave, FlushSaveFails, Leave, SaveRaised
<1>3. manifest'.mem = manifest.mem /\ SavedOrLeft
  BY <1>1, <1>2, LeftFlush DEF Save, SavedOrLeft
<1>4. NamedFilesStay /\ RemovesMerged
  BY <1>1 DEF NamedFilesStay, SameFile, SameIn, RemovesMerged
<1> QED  BY <1>3, <1>4, MemKept

\* Every step of a flusher.
LEMMA FlusherStep ==
  ASSUME ClockAdvances, IInv, Flusher
  PROVE  DiskStep
<1>1. ASSUME NEW by, FlushNothing(by) PROVE DiskStep
  BY <1>1, AwayFromDisk DEF FlushNothing, compactionVars
<1>2. ASSUME NEW by, FlushTake(by) PROVE DiskStep
  <2>1. flush'.pc = "taken"
    BY <1>2 DEF FlushTake, NoFlush
  <2> QED  BY <1>2, <2>1, AwayFromDisk DEF FlushTake, compactionVars
<1>3. CASE FlushStep
  BY <1>3, FlushAsideStep, FlushInstallStep, FlushSaveStep DEF FlushStep
<1> QED  BY <1>1, <1>2, <1>3 DEF Flusher

\* The merged file holds every key of every input.
LEMMA MergedHolds ==
  ASSUME IInv, DInv, compaction.pc = "written",
         NEW i \in compaction.inputs, NEW k \in DOMAIN files[i.path]
  PROVE  Holds(files, compaction.out, k)
<1> DEFINE S == compaction.inputs
<1>1. /\ clock \in Int /\ FilesOK(files) /\ Dated(S, clock)
      /\ S \subseteq manifest.mem[0]
      /\ compaction.out \in DOMAIN files /\ files[compaction.out] = MergeTables(S)
  BY DEF IInv, Shapes, LevelsOK, CompactionOK, CompactAt, Dated, Inputs
<1>2. i \in S /\ i.path \in DOMAIN files
  BY <1>1, TwoLevels DEF DInv, Named
<1> HIDE DEF S
<1>3. Holds(files, i.path, k) /\ k \in Keys
  BY <1>1, <1>2, TablesAre DEF Holds, FilesOK
<1>4. SearchLevel(files, S, k) # None
  BY <1>1, <1>2, <1>3, SearchLevelNone
<1>5. k \in DOMAIN MergeTables(S)
  BY <1>1, <1>3, <1>4, MergeIs
<1> QED  BY <1>1, <1>5 DEF Holds

\* add_sstable of compact, after which it starts to remove what is merged.
LEMMA CompactInstallStep ==
  ASSUME ClockAdvances, IInv, DInv, CompactInstall \/ CompactInstallFails,
         UNCHANGED engineVars
  PROVE  DiskStep
<1> DEFINE e == [path |-> compaction.out, created |-> clock']
<1>1. /\ manifest \in [mem : LevelSets, disk : LevelSets]
      /\ compaction.out \in Paths /\ compaction.out \in DOMAIN files
      /\ compaction.pc = "written" /\ compaction \in Compactions
      /\ UNCHANGED <<files, flush>>
  BY DEF CompactInstall, CompactInstallFails, engineVars, CompactAt,
         IInv, Shapes, CompactionOK, Compactions
<1>2. e \in Entries /\ e.path = compaction.out
  <2>1. clock' \in Int
    BY PastPaths, TickAdvances DEF CompactInstall, CompactInstallFails
  <2> QED  BY <1>1, <2>1 DEF Entries
<1>3. \/ /\ manifest' = AddSSTable(manifest, 1, e)
         /\ \/ compaction' = NoCompaction
            \/ compaction' = [compaction EXCEPT !.pc = "removing", !.todo = compaction.inputs]
      \/ manifest' = AddSSTableUnsaved(manifest, 1, e) /\ compaction' = NoCompaction
  BY DEF CompactInstall, CompactInstallFails, SaveRaised, AddSSTable
<1> HIDE DEF e
<1>4. /\ manifest'.mem[1] = manifest.mem[1] \cup {e}
      /\ manifest'.mem[0] = manifest.mem[0]
  BY <1>1, <1>2, <1>3, TwoLevels, AddEntry
<1>5. SavedOrLeft
  BY <1>1, <1>2, <1>3, <1>4, TwoLevels, AddedOnDisk DEF SavedOrLeft
<1>6. NamedFilesStay
  BY <1>1 DEF NamedFilesStay, SameFile, SameIn
<1>7. NewEntriesNamed /\ OnlyCompactRemoves
  BY <1>1, <1>2, <1>4, TwoLevels DEF NewEntriesNamed, OnlyCompactRemoves
<1>8. RemovesMerged
  <2>1. CASE compaction' = NoCompaction
    BY <2>1 DEF NoCompaction, RemovesMerged
  <2>2. CASE /\ manifest' = AddSSTable(manifest, 1, e)
             /\ compaction' = [compaction EXCEPT !.pc = "removing", !.todo = compaction.inputs]
    <3>1. compaction'.todo = compaction.inputs
      BY <1>1, <2>2 DEF Compactions
    <3>2. e \in manifest'.disk[1]
      BY <1>1, <1>2, <1>4, <2>2, TwoLevels, AddedOnDisk
    <3>3. ASSUME NEW i \in compaction'.todo, NEW k \in DOMAIN files'[i.path]
          PROVE  Holds(files', e.path, k)
      BY <1>1, <1>2, <3>1, MergedHolds
    <3> QED  BY <3>2, <3>3 DEF RemovesMerged, Below
  <2> QED  BY <1>3, <2>1, <2>2
<1> QED  BY <1>5, <1>6, <1>7, <1>8 DEF DiskStep

\* remove_sstable of one input.
LEMMA CompactRemoveStep ==
  ASSUME IInv, CompactRemove, UNCHANGED engineVars
  PROVE  DiskStep
<1> DEFINE i == ThisInput
           p == i.path
<1>1. /\ manifest \in [mem : LevelSets, disk : LevelSets] /\ compaction \in Compactions
      /\ compaction.pc = "removing" /\ compaction.todo \subseteq Inputs
      /\ i \in compaction.todo
      /\ \A e, f \in Inputs : e.path = f.path => e = f
      /\ manifest' = RemoveSSTable(manifest, 0, p)
      /\ UNCHANGED <<files, flush>>
  BY ThisInputIs DEF CompactRemove, CompactAt, engineVars, IInv, Shapes, LevelsOK, Inputs
<1>2. compaction'.pc = "removing" => compaction'.todo \subseteq compaction.todo
  <2>1. CASE compaction.todo = {i}
    BY <1>1, <2>1 DEF CompactRemove, NextInput, Compactions
  <2>2. CASE compaction.todo # {i}
    <3>1. compaction' = [compaction EXCEPT !.todo = compaction.todo \ {i}]
      BY <2>2 DEF CompactRemove, NextInput
    <3> HIDE DEF i
    <3> QED  BY <1>1, <3>1 DEF Compactions
  <2> QED  BY <2>1, <2>2
<1> HIDE DEF p
<1>3. /\ manifest'.mem[0] = {e \in manifest.mem[0] : e.path # p}
      /\ manifest'.mem[1] = manifest.mem[1]
      /\ manifest'.disk = manifest'.mem
  BY <1>1, TwoLevels, RemoveEntry, RemovedOnDisk
<1>4. OnlyCompactRemoves
  <2>1. \A e \in manifest.mem[0] : e.path = p => e = i
    BY <1>1 DEF Inputs, p
  <2> QED  BY <1>1, <1>3, <2>1 DEF OnlyCompactRemoves
<1>5. NamedFilesStay /\ SavedOrLeft
  BY <1>1, <1>3 DEF NamedFilesStay, SameFile, SameIn, SavedOrLeft
<1>6. NewEntriesNamed
  BY <1>3, TwoLevels DEF NewEntriesNamed
<1>7. RemovesMerged
  BY <1>1, <1>2 DEF RemovesMerged
<1> QED  BY <1>4, <1>5, <1>6, <1>7 DEF DiskStep

\* compact's other steps leave the manifest alone; it unlinks files that no
\* entry names.
LEMMA CompactFilesStep ==
  ASSUME ClockAdvances, IInv, UNCHANGED engineVars,
         \/ CompactSnapshot \/ CompactWrite \/ CompactWriteFails
         \/ CompactDelete \/ CompactDeleteFails
  PROVE  DiskStep
<1>1. UNCHANGED <<manifest, flush>> /\ compaction \in Compactions /\ FilesOK(files)
  BY DEF CompactSnapshot, CompactWrite, CompactWriteFails, CompactDelete, CompactDeleteFails,
         engineVars, IInv, Shapes
<1>2. RemovesMerged
  <2>1. \/ compaction' = NoCompaction
        \/ compaction' = [compaction EXCEPT !.pc = "merging", !.inputs = manifest.mem[0]]
        \/ compaction' = [compaction EXCEPT !.pc = "written", !.out = <<1, clock'>>]
        \/ /\ compaction.pc = "deleting"
           /\ compaction' = [compaction EXCEPT !.todo = compaction.todo \ {ThisInput}]
    BY DEF CompactSnapshot, CompactWrite, CompactWriteFails, CompactDelete,
           CompactDeleteFails, CompactAt, NextInput
  <2>2. compaction'.pc # "removing"
    <3>1. /\ NoCompaction.pc = "idle"
          /\ [compaction EXCEPT !.pc = "merging", !.inputs = manifest.mem[0]].pc = "merging"
          /\ [compaction EXCEPT !.pc = "written", !.out = <<1, clock'>>].pc = "written"
          /\ [compaction EXCEPT !.todo = compaction.todo \ {ThisInput}].pc = compaction.pc
      BY <1>1 DEF Compactions, NoCompaction
    <3> QED  BY <2>1, <3>1
  <2> QED  BY <2>2 DEF RemovesMerged
<1>3. NamedFilesStay
  <2>1. CASE CompactSnapshot \/ CompactDeleteFails
    BY <2>1 DEF CompactSnapshot, CompactDeleteFails, NamedFilesStay, SameFile, SameIn
  <2>2. CASE CompactWrite
    <3> DEFINE t == MergeTables(compaction.inputs)
    <3>1. clock' \in Int /\ clock' > clock /\ clock \in Int
      BY <2>2, PastPaths, TickAdvances DEF CompactWrite
    <3>2. t \in Tables
      <4> DEFINE S == compaction.inputs
      <4>1. Dated(S, clock)
        BY DEF IInv, LevelsOK, Dated, Inputs
      <4> HIDE DEF S
      <4>2. MergeTables(S) \in Tables
        BY <1>1, <3>1, <4>1, MergeIs
      <4> QED  BY <4>2 DEF S
    <3>3. files' = WriteFile(files, <<1, clock'>>, t)
      BY <2>2 DEF CompactWrite
    <3> HIDE DEF t
    <3>4. \A q : q[2] \in Int /\ q[2] <= clock => SameFile(q)
      BY <1>1, <3>1, <3>2, <3>3, FreshFile DEF SameFile
    <3> QED  BY <3>4, PastFilesStay
  <2>3. CASE CompactWriteFails
    <3>1. clock' \in Int /\ clock' > clock /\ clock \in Int
      BY <2>3, PastPaths, TickAdvances DEF CompactWriteFails
    <3>2. files' = Unlinked(files, <<1, clock'>>) /\ flush.items \in Tables
      BY <2>3 DEF CompactWriteFails, IInv, Shapes
    <3>3. \A q : q[2] \in Int /\ q[2] <= clock => SameFile(q)
      BY <1>1, <3>1, <3>2, FreshFile DEF SameFile
    <3> QED  BY <3>3, PastFilesStay
  <2>4. CASE CompactDelete
    <3> DEFINE i == ThisInput
    <3>1. /\ compaction.pc = "deleting"
          /\ manifest.mem[0] \cap compaction.inputs = {}
          /\ files' = Unlinked(files, i.path)
          /\ \A e, f \in Inputs : e.path = f.path => e = f
      BY <2>4 DEF CompactDelete, CompactAt, IInv, CompactionOK, LevelsOK
    <3>2. i \in compaction.inputs /\ i \in Inputs
      BY <3>1, ThisInputIs
    <3> HIDE DEF i
    <3>3. \A p : p # i.path => SameFile(p)
      BY <3>1 DEF Unlinked, SameFile, SameIn
    <3>4. \A e \in manifest.mem[0] : e.path # i.path
      BY <3>1, <3>2 DEF Inputs
    <3>5. \A e \in manifest.mem[1] : e.path # i.path
      BY <3>2, PastPaths
    <3> QED  BY <3>3, <3>4, <3>5, TwoLevels DEF NamedFilesStay
  <2> QED  BY <2>1, <2>2, <2>3, <2>4
<1> QED  BY <1>1, <1>2, <1>3, ManifestKept

\* Every step of the engine but a failed removal.
LEMMA NextIsDiskStep ==
  ASSUME ClockAdvances, IInv, DInv, [Next]_vars, ~CompactRemoveFails
  PROVE  DiskStep
<1>1. ASSUME NEW t \in Writers, WriterCalls(t) \/ WriterReturns(t) PROVE DiskStep
  BY <1>1, AwayFromDisk
  DEF WriterCalls, WriterReturns, Put, Delete, BatchPut, PutApply, SpawnFlush, DeleteApply,
      DeleteSetOffset, BatchMeasure, BatchReject, BatchLog, BatchApply, compactionVars
<1>2. CASE Flusher
  BY <1>2, FlusherStep
<1>3. CASE FlushAllCall \/ FlushAllLoop
  BY <1>3, AwayFromDisk DEF FlushAllCall, FlushAllLoop, compactionVars
<1>4. ASSUME NEW r \in Readers, ReaderStep(r) PROVE DiskStep
  BY <1>4, AwayFromDisk DEF ReaderStep, Get, GetSnapshot, GetProbe, GetRead, compactionVars
<1>5. CASE Compactor
  BY <1>5, CompactFilesStep, CompactInstallStep, CompactRemoveStep
  DEF Compactor, CompactionNext
<1>6. CASE UNCHANGED vars
  BY <1>6, AwayFromDisk DEF vars, engineVars, compactionVars
<1> QED  BY <1>1, <1>2, <1>3, <1>4, <1>5, <1>6 DEF Next

\* An engine with empty directories.
LEMMA InitDInv == Init => DInv
<1> SUFFICES ASSUME Init PROVE DInv
  OBVIOUS
<1>1. \A l \in Levels : manifest.mem[l] = {} /\ manifest.disk[l] = {}
  BY DEF Init, NewManifest, NoLevels
<1>2. compaction.pc = "idle" /\ flush.pc = "free"
  BY DEF Init, NoCompaction, NoFlush
<1> QED  BY <1>1, <1>2 DEF DInv, DiskBehind, Named, MergedBelow, CompactAt, FlushedOnDisk

\* Both invariants together are inductive.
LEMMA NextDInv ==
  ASSUME ClockAdvances, IInv, DInv, [Next]_vars, ~CompactRemoveFails
  PROVE  IInv' /\ DInv' /\ DiskStep
BY NextIInv, NextIsDiskStep, DiskStepInv

-----------------------------------------------------------------------------
(* The theorems *)

\* A rotation makes the queue longer.
LEMMA RotateGrows ==
  ASSUME NEW m, IsMem(m)
  PROVE  ~(Len(RotateUnlocked(m).frozen) < Len(m.frozen))
<1> DEFINE b == [data |-> m.data, off |-> m.off]
<1>1. RotateUnlocked(m).frozen = Append(m.frozen, b)
  BY DEF RotateUnlocked
<1> HIDE DEF b
<1>2. Len(m.frozen) \in Nat /\ Len(Append(m.frozen, b)) = Len(m.frozen) + 1
  BY DEF IsMem, IsQueue
<1> QED  BY <1>1, <1>2

\* No write under the MemTable's lock takes a buffer off the queue.
LEMMA WritesKeepQueue ==
  ASSUME IInv, NEW t \in Writers,
         PutApply(t) \/ DeleteApply(t) \/ DeleteSetOffset(t) \/ BatchApply(t)
  PROVE  ~(Len(mem'.frozen) < Len(mem.frozen))
<1>0. /\ IsMem(mem) /\ writer[t].pairs \in Seq(Pairs)
      /\ WriterAt(t, "put") \/ WriterAt(t, "delete") => Len(writer[t].pairs) = 1
      /\ Len(mem.frozen) \in Nat
  BY DEF IInv, Shapes, WritersOK, WriterAt, IsMem, IsQueue
<1>1. CASE PutApply(t)
  <2> DEFINE p == writer[t].pairs[1]
             n == PutUnlocked(mem, p.key, p.value)
             m == RaiseOffset(n, writer[t].off)
  <2>1. p.key \in Keys /\ p.value \in Stored
    <3>1. p \in Pairs
      BY <1>0, <1>1 DEF PutApply
    <3> QED  BY <3>1 DEF Pairs
  <2>2. mem' = IF IsFull(m) THEN RotateUnlocked(m) ELSE m
    BY <1>1 DEF PutApply
  <2> HIDE DEF p
  <2>3. IsMem(n) /\ n.frozen = mem.frozen
    BY <1>0, <2>1, PutMem
  <2> HIDE DEF n
  <2>4. IsMem(m) /\ m.frozen = mem.frozen
    BY <2>3, RaiseOffsetMem
  <2> HIDE DEF m
  <2> QED  BY <1>0, <2>2, <2>4, RotateGrows
<1>2. CASE DeleteApply(t)
  <2> DEFINE p == writer[t].pairs[1]
  <2>1. p.key \in Keys /\ Tombstone \in Stored
    <3>1. p \in Pairs
      BY <1>0, <1>2 DEF DeleteApply
    <3> QED  BY <3>1 DEF Pairs, Stored
  <2>2. mem' = PutUnlocked(mem, p.key, Tombstone)
    BY <1>2 DEF DeleteApply
  <2> HIDE DEF p
  <2> QED  BY <1>0, <2>1, <2>2, PutMem
<1>3. CASE DeleteSetOffset(t)
  BY <1>0, <1>3, RaiseOffsetMem DEF DeleteSetOffset
<1>4. CASE BatchApply(t)
  <2> DEFINE full == BatchWouldExceed(mem, writer[t].bytes)
             room == IF full THEN RotateUnlocked(mem) ELSE mem
             q == writer[t].pairs
  <2>1. mem' = BatchMem(room, q, writer[t].off)
    BY <1>4 DEF BatchApply, BatchMem
  <2>2. q \in Seq([key : Keys, value : Stored])
    BY <1>0 DEF Pairs
  <2>3. IsMem(room) /\ ~(Len(room.frozen) < Len(mem.frozen))
    BY <1>0, RotateMem, RotateGrows
  <2> HIDE DEF room, q
  <2> QED  BY <2>1, <2>2, <2>3, PutAllMem
<1> QED  BY <1>1, <1>2, <1>3, <1>4

\* Only clear_frozen takes a buffer off the queue.
LEMMA OnlyClearShortens ==
  ASSUME IInv, [Next]_vars, Len(mem'.frozen) < Len(mem.frozen)
  PROVE  FlushClear
<1>0. mem' # mem
  <2>1. Len(mem.frozen) \in Nat
    BY DEF IInv, Shapes, IsMem, IsQueue
  <2> QED  BY <2>1
<1>1. ASSUME NEW t \in Writers, WriterCalls(t) \/ WriterReturns(t) PROVE FALSE
  BY <1>0, <1>1, WritesKeepQueue
  DEF WriterCalls, WriterReturns, Put, Delete, BatchPut, SpawnFlush, BatchMeasure,
      BatchReject, BatchLog
<1>2. ASSUME Flusher, ~FlushClear PROVE FALSE
  BY <1>0, <1>2
  DEF Flusher, FlushNothing, FlushTake, FlushStep, FlushWrite, FlushWriteFails,
      FlushInstall, FlushInstallFails, FlushSave, FlushSaveFails,
      FlushTruncate, FlushTruncateFails, FlushCompact
<1>3. ~(FlushAllCall \/ FlushAllLoop)
  BY <1>0 DEF FlushAllCall, FlushAllLoop
<1>4. ASSUME NEW r \in Readers, ReaderStep(r) PROVE FALSE
  BY <1>0, <1>4 DEF ReaderStep, Get, GetSnapshot, GetProbe, GetRead
<1>5. ~Compactor
  BY <1>0 DEF Compactor, engineVars
<1>6. ~UNCHANGED vars
  BY <1>0 DEF vars, engineVars
<1> QED  BY <1>1, <1>2, <1>3, <1>4, <1>5, <1>6 DEF Next

\* What clear_frozen drops is on disk.
LEMMA ClearedIsDurable ==
  ASSUME IInv, DInv, FlushClear
  PROVE  \A k \in DOMAIN FrozenItems(mem) :
           Durable(files, manifest.disk, k, FrozenItems(mem)[k])
<1>1. flush.pc = "saved" /\ FrozenItems(mem) = flush.items
  BY DEF FlushClear, FlushAt, IInv, FlushOK, FrozenItems
<1> QED  BY <1>1 DEF DInv, FlushedOnDisk

\* What leaves level 0 on disk is merged below.
LEMMA RemovedIsMerged ==
  ASSUME DInv, DiskStep, NEW e \in manifest.disk[0] \ manifest'.disk[0]
  PROVE  HeldBelow(manifest.disk, files[e.path])
<1>1. e \in manifest.mem[0] /\ manifest'.disk = manifest'.mem
  BY TwoLevels DEF DInv, DiskBehind, DiskStep, SavedOrLeft
<1>2. compaction.pc = "removing" /\ e \in compaction.todo
  BY <1>1 DEF DiskStep, OnlyCompactRemoves
<1> QED  BY <1>2 DEF DInv, MergedBelow, CompactAt, Below, HeldBelow

\* The assumption of the theorems: no save of the manifest raises while compact
\* takes its inputs out of it.
RemovalsSucceed == [][~CompactRemoveFails]_vars

\* IInv and DInv hold throughout.
LEMMA DiskInvariant ==
  ASSUME ClockAdvances
  PROVE  Spec /\ RemovalsSucceed => [](IInv /\ DInv)
<1>1. Init => IInv /\ DInv
  BY InitIInv, InitDInv
<1>2. IInv /\ DInv /\ [Next]_vars /\ [~CompactRemoveFails]_vars => (IInv /\ DInv)'
  <2>1. ASSUME IInv, DInv, UNCHANGED vars PROVE IInv' /\ DInv'
    <3>1. IInv'
      BY <2>1, UntouchedInv DEF vars, engineVars, compactionVars
    <3>2. DiskStep
      BY <2>1, AwayFromDisk DEF vars, engineVars, compactionVars
    <3> QED  BY <2>1, <3>1, <3>2, DiskStepInv
  <2> QED  BY <2>1, NextDInv
<1> QED  BY <1>1, <1>2, PTL DEF Spec, RemovalsSucceed

\* Whatever else fails, the manifest in memory and the one a crash would leave
\* on disk name only files that exist: _remove_old_sstable_files
\* (compaction.py:142) comes after the inputs are out of both.
THEOREM NoEntryDangles ==
  ASSUME ClockAdvances
  PROVE  Spec /\ RemovalsSucceed => []NoDanglingEntry
<1>1. IInv /\ DInv => NoDanglingEntry
  BY DEF DInv, DiskBehind, Named, NoDanglingEntry
<1> QED  BY <1>1, DiskInvariant, PTL

\* Whatever else fails, an SSTable leaves level 0 of the manifest on disk only
\* when the same manifest names, on level 1, a file with each of its keys:
\* add_sstable of the merged file comes before remove_sstable of its inputs
\* (compaction.py:138).
THEOREM SupersededFirst ==
  ASSUME ClockAdvances
  PROVE  Spec /\ RemovalsSucceed => SupersededBeforeRemoved
<1>1. /\ IInv /\ DInv /\ [Next]_vars /\ [~CompactRemoveFails]_vars
      => [\A e \in manifest.disk[0] \ manifest'.disk[0] :
            HeldBelow(manifest.disk, files[e.path])]_compactionVars
  <2>1. CASE UNCHANGED vars
    BY <2>1 DEF vars
  <2>2. ASSUME IInv, DInv, [Next]_vars, ~CompactRemoveFails
        PROVE  \A e \in manifest.disk[0] \ manifest'.disk[0] :
                 HeldBelow(manifest.disk, files[e.path])
    BY <2>2, NextIsDiskStep, RemovedIsMerged
  <2> QED  BY <2>1, <2>2
<1> QED  BY <1>1, DiskInvariant, PTL DEF Spec, RemovalsSucceed, SupersededBeforeRemoved

\* Whatever else fails, clear_frozen drops a buffer only when each of its pairs is
\* in a file that the manifest on disk names (engine.py:313).
THEOREM DurableFirst ==
  ASSUME ClockAdvances
  PROVE  Spec /\ RemovalsSucceed => DurableBeforeCleared
<1>1. /\ IInv /\ DInv /\ [Next]_vars
      => [Len(mem'.frozen) < Len(mem.frozen) =>
            \A k \in DOMAIN FrozenItems(mem) :
              \E l \in Levels : \E e \in manifest.disk[l] :
                Holds(files, e.path, k) /\ files[e.path][k] = FrozenItems(mem)[k]]_vars
  BY OnlyClearShortens, ClearedIsDurable DEF Durable
<1> QED  BY <1>1, DiskInvariant, PTL DEF Spec, DurableBeforeCleared

-----------------------------------------------------------------------------
(* The queue *)

\* The writers that have rotated a buffer and not yet started its thread.
Spawning == {t \in Writers : WriterAt(t, "spawn")}

\* The buffer that the flusher works on counts until it is cleared.
AtWork == IF flush.pc \in {"taken", "written", "installed", "saved"} THEN 1 ELSE 0

NoEmptyBuffer ==
  \A i \in DOMAIN mem.frozen : mem.frozen[i].data # EmptyTable

Counters == spawned \in Nat /\ failures \in Nat

\* A buffer that holds nothing leaves its flusher with nothing to do, and stays.
QInv == Counters /\ NoEmptyBuffer /\ FlushOwed

\* The step rotates no empty buffer: only batch_put rotates one without a look
\* at what it holds (memtable.py:240).
RotatesData ==
  \A t \in Writers :
    BatchApply(t) /\ BatchWouldExceed(mem, writer[t].bytes) => mem.data # EmptyTable

NoEmptyRotation == [][RotatesData]_vars

-----------------------------------------------------------------------------

\* FlushOwed in these words.
LEMMA OwedIs ==
  FlushOwed <=> (failures = 0 => Len(mem.frozen) <= spawned + Cardinality(Spawning) + AtWork)
BY DEF FlushOwed, Spawning, AtWork

\* The number of spawning writers is a number.
LEMMA SpawningCount ==
  ASSUME IsFiniteSet(Writers)
  PROVE  IsFiniteSet(Spawning) /\ Cardinality(Spawning) \in Nat
<1>1. Spawning \subseteq Writers
  BY DEF Spawning
<1>2. IsFiniteSet(Spawning)
  BY <1>1, FS_Subset
<1> QED  BY <1>2, FS_CardinalityType

\* A step of a writer changes its own place only.
LEMMA WriterTurns ==
  ASSUME WritersOK, NEW t \in Writers, NEW w, writer' = [writer EXCEPT ![t] = w]
  PROVE  Spawning' = IF w.pc = "spawn" THEN Spawning \cup {t} ELSE Spawning \ {t}
<1>1. writer'[t] = w /\ \A u \in Writers : u # t => writer'[u] = writer[u]
  BY DEF WritersOK
<1> QED  BY <1>1 DEF Spawning, WriterAt

\* A step that leaves the queue and the counters alone, and takes no flusher
\* from its work.
LEMMA QueueFrame ==
  ASSUME QInv, IsFiniteSet(Writers), mem'.frozen = mem.frozen,
         UNCHANGED <<spawned, failures>>, Spawning' = Spawning, AtWork' = AtWork
  PROVE  QInv'
<1>1. Counters' /\ NoEmptyBuffer'
  BY DEF QInv, Counters, NoEmptyBuffer
<1>2. FlushOwed'
  BY OwedIs DEF QInv, FlushOwed, Spawning, AtWork
<1> QED  BY <1>1, <1>2 DEF QInv

\* A step in which some file operation fails.
LEMMA QueueFails ==
  ASSUME QInv, mem'.frozen = mem.frozen, spawned' = spawned, Fail
  PROVE  QInv'
<1>1. failures' \in Nat /\ failures' # 0
  BY DEF QInv, Counters, Fail
<1> QED  BY <1>1 DEF QInv, Counters, NoEmptyBuffer, FlushOwed

\* A rotation of a buffer that holds something, by a writer that goes on to
\* start a thread for it.
LEMMA QueueRotates ==
  ASSUME QInv, IsFiniteSet(Writers), IsMem(mem), NEW t \in Writers, t \notin Spawning,
         Spawning' = Spawning \cup {t}, UNCHANGED <<spawned, failures, flush>>,
         NEW b, b.data # EmptyTable, mem'.frozen = Append(mem.frozen, b)
  PROVE  QInv'
<1> DEFINE q == mem.frozen
           S == Spawning
<1>1. /\ Len(q) \in Nat /\ DOMAIN q = 1..Len(q)
      /\ Len(Append(q, b)) = Len(q) + 1
      /\ \A i \in 1..Len(q) : Append(q, b)[i] = q[i]
      /\ Append(q, b)[Len(q) + 1] = b
      /\ DOMAIN Append(q, b) = 1..(Len(q) + 1)
  BY DEF IsMem, IsQueue
<1>2. Cardinality(S \cup {t}) = Cardinality(S) + 1 /\ Cardinality(S) \in Nat
  BY SpawningCount, FS_AddElement
<1>3. NoEmptyBuffer'
  <2> SUFFICES ASSUME NEW i \in 1..(Len(q) + 1)
               PROVE  Append(q, b)[i].data # EmptyTable
    BY <1>1 DEF NoEmptyBuffer
  <2>1. CASE i \in 1..Len(q)
    BY <1>1, <2>1 DEF QInv, NoEmptyBuffer
  <2> QED  BY <1>1, <2>1
<1>4. Counters' /\ AtWork' = AtWork /\ AtWork \in Nat
  BY DEF QInv, Counters, AtWork
<1>5. FlushOwed'
  <2>1. FlushOwed' <=>
          (failures = 0 => Len(mem'.frozen) <= spawned + Cardinality(Spawning') + AtWork)
    BY <1>4, OwedIs DEF FlushOwed, Spawning, AtWork
  <2>2. failures = 0 => Len(q) <= spawned + Cardinality(S) + AtWork
    BY OwedIs DEF QInv
  <2>3. spawned \in Nat
    BY DEF QInv, Counters
  <2> QED  BY <1>1, <1>2, <1>4, <2>1, <2>2, <2>3
<1> QED  BY <1>3, <1>4, <1>5 DEF QInv

-----------------------------------------------------------------------------
(* The writers *)

\* A writer that neither rotates nor is about to start a thread.
LEMMA QueueTurn ==
  ASSUME QInv, IsFiniteSet(Writers), WritersOK, NEW t \in Writers, writer[t].pc # "spawn",
         NEW w, w.pc # "spawn", writer' = [writer EXCEPT ![t] = w],
         mem'.frozen = mem.frozen, UNCHANGED <<spawned, failures, flush>>
  PROVE  QInv'
<1>1. Spawning' = Spawning
  <2>1. t \notin Spawning
    BY DEF Spawning, WriterAt
  <2> QED  BY <2>1, WriterTurns
<1>2. AtWork' = AtWork
  BY DEF AtWork
<1> QED  BY <1>1, <1>2, QueueFrame

\* One that has rotated, if room says so, before its write.
LEMMA QueueMayRotate ==
  ASSUME QInv, IsFiniteSet(Writers), WritersOK, IsMem(mem), NEW t \in Writers,
         writer[t].pc # "spawn", NEW full \in BOOLEAN, NEW b, full => b.data # EmptyTable,
         mem'.frozen = IF full THEN Append(mem.frozen, b) ELSE mem.frozen,
         writer' = [writer EXCEPT ![t] =
                      [IdleWriter EXCEPT !.pc = IF full THEN "spawn" ELSE "idle"]],
         UNCHANGED <<spawned, failures, flush>>
  PROVE  QInv'
<1> DEFINE w == [IdleWriter EXCEPT !.pc = IF full THEN "spawn" ELSE "idle"]
<1>1. w.pc = IF full THEN "spawn" ELSE "idle"
  BY DEF IdleWriter
<1>2. writer' = [writer EXCEPT ![t] = w]
  OBVIOUS
<1> HIDE DEF w
<1>3. CASE full
  <2>1. Spawning' = Spawning \cup {t} /\ t \notin Spawning
    BY <1>1, <1>2, <1>3, WriterTurns DEF Spawning, WriterAt
  <2> QED  BY <1>3, <2>1, QueueRotates
<1>4. CASE ~full
  BY <1>1, <1>2, <1>4, QueueTurn
<1> QED  BY <1>3, <1>4

\* What RotateUnlocked puts into the queue.
LEMMA RotatedQueue ==
  ASSUME NEW m
  PROVE  RotateUnlocked(m).frozen = Append(m.frozen, [data |-> m.data, off |-> m.off])
BY DEF RotateUnlocked

\* put rotates a buffer that holds its key.
LEMMA QueuePut ==
  ASSUME QInv, IsFiniteSet(Writers), IInv, NEW t \in Writers, PutApply(t)
  PROVE  QInv'
<1> DEFINE p == writer[t].pairs[1]
           n == PutUnlocked(mem, p.key, p.value)
           m == RaiseOffset(n, writer[t].off)
<1>0. WritersOK /\ IsMem(mem) /\ writer[t].pc = "put"
  BY DEF PutApply, WriterAt, IInv, Shapes
<1>1. p.key \in Keys /\ p.value \in Stored
  <2>1. p \in Pairs
    BY <1>0 DEF WritersOK
  <2> QED  BY <2>1 DEF Pairs
<1>2. /\ mem' = IF IsFull(m) THEN RotateUnlocked(m) ELSE m
      /\ writer' = [writer EXCEPT ![t] = [IdleWriter EXCEPT
                                            !.pc = IF IsFull(m) THEN "spawn" ELSE "idle"]]
      /\ UNCHANGED <<spawned, failures, flush>>
  BY DEF PutApply, compactionVars
<1>3. p.key \in DOMAIN n.data /\ IsMem(n) /\ n.frozen = mem.frozen
  <2> DEFINE size == mem.size - HeldSize(mem.data, p.key) + SizeOf(p.value)
             data == [x \in DOMAIN mem.data \cup {p.key} |->
                        IF x = p.key THEN p.value ELSE mem.data[x]]
  <2>1. n = [mem EXCEPT !.size = size, !.data = data]
    BY DEF PutUnlocked
  <2>2. p.key \in DOMAIN data
    OBVIOUS
  <2>3. IsMem(n) /\ n.frozen = mem.frozen
    <3> HIDE DEF p
    <3> QED  BY <1>0, <1>1, PutMem
  <2> HIDE DEF n, size, data
  <2>4. n.data = data
    <3>1. n = [data |-> data, size |-> size, off |-> mem.off, frozen |-> mem.frozen]
      BY <1>0, <2>1, Refilled
    <3> QED  BY <3>1
  <2> QED  BY <2>2, <2>3, <2>4
<1> HIDE DEF n
<1>4. m.data = n.data /\ m.frozen = mem.frozen
  BY <1>3 DEF RaiseOffset, IsMem
<1> HIDE DEF m
<1> DEFINE b == [data |-> m.data, off |-> m.off]
           full == IsFull(m)
<1>5. b.data # EmptyTable
  BY <1>3, <1>4 DEF EmptyTable
<1>6. mem'.frozen = IF full THEN Append(mem.frozen, b) ELSE mem.frozen
  BY <1>2, <1>4, RotatedQueue
<1>7. full \in BOOLEAN
  BY DEF IsFull
<1> HIDE DEF b, full
<1>8. writer' = [writer EXCEPT ![t] = [IdleWriter EXCEPT
                                         !.pc = IF full THEN "spawn" ELSE "idle"]]
  BY <1>2 DEF full
<1> QED  BY <1>0, <1>2, <1>5, <1>6, <1>7, <1>8, QueueMayRotate

\* batch_put rotates before it writes.
LEMMA QueueBatch ==
  ASSUME QInv, IsFiniteSet(Writers), IInv, NEW t \in Writers, BatchApply(t), RotatesData
  PROVE  QInv'
<1> DEFINE full == BatchWouldExceed(mem, writer[t].bytes)
           room == IF full THEN RotateUnlocked(mem) ELSE mem
           q == writer[t].pairs
           b == [data |-> mem.data, off |-> mem.off]
<1>0. WritersOK /\ IsMem(mem) /\ writer[t].pc # "spawn"
  BY DEF BatchApply, WriterAt, IInv, Shapes
<1>1. /\ mem' = BatchMem(room, q, writer[t].off)
      /\ writer' = [writer EXCEPT ![t] = [IdleWriter EXCEPT
                                            !.pc = IF full THEN "spawn" ELSE "idle"]]
      /\ UNCHANGED <<spawned, failures, flush>>
  BY DEF BatchApply, BatchMem, compactionVars
<1>2. q \in Seq([key : Keys, value : Stored])
  BY <1>0 DEF WritersOK, Pairs
<1>3. IsMem(room)
  BY <1>0, RotateMem
<1>4. full => b.data # EmptyTable
  BY DEF RotatesData
<1>5. room.frozen = IF full THEN Append(mem.frozen, b) ELSE mem.frozen
  BY RotatedQueue
<1>6. full \in BOOLEAN
  BY DEF BatchWouldExceed
<1> HIDE DEF full, room, q, b
<1>7. mem'.frozen = room.frozen
  BY <1>1, <1>2, <1>3, PutAllMem
<1> QED  BY <1>0, <1>1, <1>4, <1>5, <1>6, <1>7, QueueMayRotate

\* The thread that is started takes over from the writer.
LEMMA QueueSpawn ==
  ASSUME QInv, IsFiniteSet(Writers), WritersOK, NEW t \in Writers, SpawnFlush(t)
  PROVE  QInv'
<1>1. /\ writer' = [writer EXCEPT ![t] = IdleWriter]
      /\ spawned' = spawned + 1
      /\ UNCHANGED <<mem, failures, flush>>
      /\ t \in Spawning
  BY DEF SpawnFlush, compactionVars, Spawning
<1>2. Spawning' = Spawning \ {t}
  <2>1. IdleWriter.pc = "idle"
    BY DEF IdleWriter
  <2> QED  BY <1>1, <2>1, WriterTurns
<1>3. /\ Cardinality(Spawning \ {t}) = Cardinality(Spawning) - 1
      /\ Cardinality(Spawning) \in Nat
  BY <1>1, SpawningCount, FS_RemoveElement
<1>4. Counters' /\ NoEmptyBuffer' /\ AtWork' = AtWork /\ AtWork \in Nat
  BY <1>1 DEF QInv, Counters, NoEmptyBuffer, AtWork
<1>5. FlushOwed'
  <2>1. FlushOwed' <=>
          (failures = 0 => Len(mem.frozen) <= spawned' + Cardinality(Spawning') + AtWork)
    BY <1>1, <1>4 DEF FlushOwed, Spawning, AtWork
  <2>2. failures = 0 => Len(mem.frozen) <= spawned + Cardinality(Spawning) + AtWork
    BY OwedIs DEF QInv
  <2>3. spawned \in Nat
    BY DEF QInv, Counters
  <2>4. spawned' + Cardinality(Spawning') = spawned + Cardinality(Spawning)
    BY <1>1, <1>2, <1>3, <2>3
  <2> QED  BY <2>1, <2>2, <2>4
<1> QED  BY <1>4, <1>5 DEF QInv

\* Every step of every writer.
LEMMA QueueWriter ==
  ASSUME QInv, IsFiniteSet(Writers), IInv, NEW t \in Writers, RotatesData,
         WriterCalls(t) \/ WriterReturns(t)
  PROVE  QInv'
<1>0. /\ WritersOK /\ IsMem(mem)
      /\ writer[t] = [pc |-> writer[t].pc, pairs |-> writer[t].pairs, n |-> writer[t].n,
                      bytes |-> writer[t].bytes, off |-> writer[t].off]
      /\ writer = [u \in Writers |-> writer[u]]
      /\ writer[t].pairs \in Seq(Pairs)
      /\ WriterAt(t, "delete") => Len(writer[t].pairs) = 1
  BY DEF IInv, Shapes, WritersOK, WriterAt
<1>1. ASSUME NEW k \in Keys, NEW v \in Values, Put(t, k, v) PROVE QInv'
  <2> DEFINE p == [key |-> k, value |-> v]
             w == [IdleWriter EXCEPT !.pc = "put", !.pairs = <<p>>, !.off = NextOffset(wal)]
  <2>1. /\ writer' = [writer EXCEPT ![t] = w] /\ writer[t].pc = "idle"
        /\ UNCHANGED <<mem, spawned, failures, flush>>
    BY <1>1 DEF Put, Call, Log, WriterAt, compactionVars
  <2>2. w.pc = "put"
    BY DEF IdleWriter
  <2> HIDE DEF w
  <2> QED  BY <1>0, <2>1, <2>2, QueueTurn
<1>2. ASSUME NEW k \in Keys, Delete(t, k) PROVE QInv'
  <2> DEFINE p == [key |-> k, value |-> Tombstone]
             w == [IdleWriter EXCEPT !.pc = "delete", !.pairs = <<p>>, !.off = NextOffset(wal)]
  <2>1. /\ writer' = [writer EXCEPT ![t] = w] /\ writer[t].pc = "idle"
        /\ UNCHANGED <<mem, spawned, failures, flush>>
    BY <1>2 DEF Delete, Call, Log, WriterAt, compactionVars
  <2>2. w.pc = "delete"
    BY DEF IdleWriter
  <2> HIDE DEF w
  <2> QED  BY <1>0, <2>1, <2>2, QueueTurn
<1>3. ASSUME NEW c \in Batches, BatchPut(t, c) PROVE QInv'
  <2> DEFINE w == [IdleWriter EXCEPT !.pc = "measuring", !.pairs = c]
  <2>1. /\ writer' = [writer EXCEPT ![t] = w] /\ writer[t].pc = "idle"
        /\ UNCHANGED <<mem, spawned, failures, flush>>
    BY <1>3 DEF BatchPut, Call, WriterAt, compactionVars
  <2>2. w.pc = "measuring"
    BY DEF IdleWriter
  <2> HIDE DEF w
  <2> QED  BY <1>0, <2>1, <2>2, QueueTurn
<1>4. CASE PutApply(t)
  BY <1>4, QueuePut
<1>5. CASE SpawnFlush(t)
  BY <1>0, <1>5, QueueSpawn
<1>6. CASE DeleteApply(t)
  <2> DEFINE w == [writer[t] EXCEPT !.pc = "setOffset"]
             k == writer[t].pairs[1].key
  <2>1. /\ writer' = [writer EXCEPT ![t] = w] /\ writer[t].pc = "delete"
        /\ mem' = PutUnlocked(mem, k, Tombstone)
        /\ UNCHANGED <<spawned, failures, flush>>
    BY <1>6 DEF DeleteApply, WriterAt, compactionVars
  <2>2. w.pc = "setOffset"
    BY <1>0
  <2>3. k \in Keys /\ Tombstone \in Stored
    <3>1. writer[t].pairs[1] \in Pairs
      BY <1>0, <1>6 DEF DeleteApply
    <3> QED  BY <3>1 DEF Pairs, Stored
  <2> HIDE DEF w, k
  <2>4. mem'.frozen = mem.frozen
    BY <1>0, <2>1, <2>3, PutMem
  <2> QED  BY <1>0, <2>1, <2>2, <2>4, QueueTurn
<1>7. CASE DeleteSetOffset(t)
  <2>1. /\ writer' = [writer EXCEPT ![t] = IdleWriter] /\ writer[t].pc = "setOffset"
        /\ mem' = RaiseOffset(mem, writer[t].off)
        /\ UNCHANGED <<spawned, failures, flush>>
    BY <1>7 DEF DeleteSetOffset, WriterAt, compactionVars
  <2>2. mem'.frozen = mem.frozen /\ IdleWriter.pc = "idle"
    BY <1>0, <2>1, RaiseOffsetMem DEF IdleWriter
  <2> QED  BY <1>0, <2>1, <2>2, QueueTurn
<1>8. CASE BatchMeasure(t)
  <2> DEFINE w == [writer[t] EXCEPT !.n = @ + 1,
                     !.bytes = @ + PairSize(mem, writer[t].pairs[writer[t].n + 1])]
  <2>1. writer' = [writer EXCEPT ![t] = w]
    BY <1>0, <1>8 DEF BatchMeasure
  <2>2. writer[t].pc = "measuring" /\ UNCHANGED <<mem, spawned, failures, flush>>
    BY <1>8 DEF BatchMeasure, WriterAt, compactionVars
  <2>3. w.pc = "measuring"
    <3> DEFINE x == [writer[t] EXCEPT !.n = @ + 1]
    <3>1. x.pc = "measuring"
      BY <1>0, <2>2
    <3> QED  BY <1>0, <2>2, <3>1
  <2> HIDE DEF w
  <2> QED  BY <1>0, <2>1, <2>2, <2>3, QueueTurn
<1>9. CASE BatchReject(t)
  <2>1. /\ writer' = [writer EXCEPT ![t] = IdleWriter] /\ writer[t].pc = "measuring"
        /\ UNCHANGED <<mem, spawned, failures, flush>>
    BY <1>9 DEF BatchReject, Measured, WriterAt, compactionVars
  <2>2. IdleWriter.pc = "idle"
    BY DEF IdleWriter
  <2> QED  BY <1>0, <2>1, <2>2, QueueTurn
<1>10. CASE BatchLog(t)
  <2> DEFINE w == [writer[t] EXCEPT !.pc = "batch", !.off = LastOffset(wal, writer[t].pairs)]
  <2>1. writer' = [writer EXCEPT ![t] = w]
    BY <1>0, <1>10 DEF BatchLog
  <2>2. writer[t].pc = "measuring" /\ UNCHANGED <<mem, spawned, failures, flush>>
    BY <1>10 DEF BatchLog, Measured, WriterAt, compactionVars
  <2>3. w.pc = "batch"
    <3> DEFINE x == [writer[t] EXCEPT !.pc = "batch"]
    <3>1. x.pc = "batch"
      BY <1>0
    <3> QED  BY <1>0, <3>1
  <2> HIDE DEF w
  <2> QED  BY <1>0, <2>1, <2>2, <2>3, QueueTurn
<1>11. CASE BatchApply(t)
  BY <1>11, QueueBatch
<1> QED
  BY <1>1, <1>2, <1>3, <1>4, <1>5, <1>6, <1>7, <1>8, <1>9, <1>10, <1>11
  DEF WriterCalls, WriterReturns

-----------------------------------------------------------------------------
(* The flusher and the rest *)

\* A flusher finds nothing to do only when the queue is empty.
LEMMA QueueNothing ==
  ASSUME QInv, IsFiniteSet(Writers), IInv, NEW by, FlushNothing(by)
  PROVE  QInv'
<1> DEFINE q == mem.frozen
<1>1. q = <<>>
  <2>1. ASSUME q # <<>> PROVE FALSE
    <3>1. 1 \in DOMAIN q /\ Head(q) = q[1]
      BY <2>1 DEF IInv, Shapes, IsMem, IsQueue
    <3>2. Head(q).data = EmptyTable
      BY <2>1 DEF FlushNothing, FrozenItems
    <3> QED  BY <3>1, <3>2 DEF QInv, NoEmptyBuffer
  <2> QED  BY <2>1
<1>2. /\ UNCHANGED <<mem, writer, flush, failures>>
      /\ spawned' \in Nat
  BY DEF FlushNothing, Enter, QInv, Counters, compactionVars
<1>3. Counters' /\ NoEmptyBuffer'
  BY <1>2 DEF QInv, Counters, NoEmptyBuffer
<1>4. Spawning' = Spawning /\ AtWork' = AtWork /\ AtWork \in Nat
  BY <1>2 DEF Spawning, WriterAt, AtWork
<1>5. FlushOwed'
  <2>1. FlushOwed' <=>
          (failures = 0 => Len(q) <= spawned' + Cardinality(Spawning') + AtWork')
    BY <1>2 DEF FlushOwed, Spawning, AtWork
  <2>2. Len(q) = 0 /\ Cardinality(Spawning) \in Nat
    BY <1>1, SpawningCount
  <2> QED  BY <1>2, <1>4, <2>1, <2>2
<1> QED  BY <1>3, <1>5 DEF QInv

\* The flusher that takes the head counts from then on, instead of its thread.
LEMMA QueueTake ==
  ASSUME QInv, IsFiniteSet(Writers), IInv, NEW by, FlushTake(by)
  PROVE  QInv'
<1>1. /\ UNCHANGED <<mem, writer, failures>>
      /\ spawned' \in Nat /\ spawned' >= spawned - 1 /\ spawned \in Nat
      /\ flush.pc = "free" /\ flush'.pc = "taken"
  BY DEF FlushTake, Enter, FlushAt, NoFlush, QInv, Counters, compactionVars
<1>2. Counters' /\ NoEmptyBuffer'
  BY <1>1 DEF QInv, Counters, NoEmptyBuffer
<1>3. Spawning' = Spawning /\ AtWork' = 1 /\ AtWork = 0
  BY <1>1 DEF Spawning, WriterAt, AtWork
<1>4. FlushOwed'
  <2>1. FlushOwed' <=>
          (failures = 0 => Len(mem.frozen) <= spawned' + Cardinality(Spawning') + AtWork')
    BY <1>1 DEF FlushOwed, Spawning, AtWork
  <2>2. failures = 0 => Len(mem.frozen) <= spawned + Cardinality(Spawning) + AtWork
    BY OwedIs DEF QInv
  <2>3. Cardinality(Spawning) \in Nat /\ Len(mem.frozen) \in Nat
    BY SpawningCount DEF IInv, Shapes, IsMem, IsQueue
  <2> QED  BY <1>1, <1>3, <2>1, <2>2, <2>3
<1> QED  BY <1>2, <1>4 DEF QInv

\* clear_frozen takes the buffer and the flusher off the account.
LEMMA QueueClear ==
  ASSUME QInv, IsFiniteSet(Writers), IInv, FlushClear
  PROVE  QInv'
<1> DEFINE q == mem.frozen
<1>1. /\ IsMem(mem) /\ q # <<>> /\ mem' = ClearFrozen(mem)
      /\ flush.pc = "saved" /\ flush' = [flush EXCEPT !.pc = "cleared"]
      /\ UNCHANGED <<writer, spawned, failures>>
  BY DEF FlushClear, FlushAt, IInv, Shapes, FlushOK, compactionVars
<1>2. mem'.frozen = Tail(q)
  BY <1>1 DEF ClearFrozen, IsMem
<1>3. /\ Len(q) \in Nat /\ DOMAIN q = 1..Len(q)
      /\ Len(Tail(q)) = Len(q) - 1 /\ DOMAIN Tail(q) = 1..(Len(q) - 1)
      /\ \A i \in 1..(Len(q) - 1) : Tail(q)[i] = q[i + 1]
  BY <1>1 DEF IsMem, IsQueue
<1>4. NoEmptyBuffer'
  <2>1. \A i \in 1..(Len(q) - 1) : i + 1 \in 1..Len(q)
    BY <1>3
  <2> QED  BY <1>2, <1>3, <2>1 DEF QInv, NoEmptyBuffer
<1>5. Counters' /\ Spawning' = Spawning
  BY <1>1 DEF QInv, Counters, Spawning, WriterAt
<1>6. AtWork = 1 /\ AtWork' = 0
  <2>1. flush'.pc = "cleared"
    BY <1>1, FlushMoves
  <2> QED  BY <1>1, <2>1 DEF AtWork
<1>7. FlushOwed'
  <2>1. FlushOwed' <=>
          (failures = 0 => Len(mem'.frozen) <= spawned + Cardinality(Spawning') + AtWork')
    BY <1>1 DEF FlushOwed, Spawning, AtWork
  <2>2. failures = 0 => Len(q) <= spawned + Cardinality(Spawning) + AtWork
    BY OwedIs DEF QInv
  <2>3. Cardinality(Spawning) \in Nat /\ spawned \in Nat
    BY SpawningCount DEF QInv, Counters
  <2> QED  BY <1>2, <1>3, <1>5, <1>6, <2>1, <2>2, <2>3
<1> QED  BY <1>4, <1>5, <1>7 DEF QInv

\* A step of the flusher's that keeps it, or does not get it back, to work.
LEMMA QueueGoesOn ==
  ASSUME QInv, IsFiniteSet(Writers), UNCHANGED <<mem, writer, spawned, failures>>,
         AtWork' = AtWork
  PROVE  QInv'
<1>1. Spawning' = Spawning
  BY DEF Spawning, WriterAt
<1> QED  BY <1>1, QueueFrame

\* Every step of every flusher.
LEMMA QueueFlusher ==
  ASSUME QInv, IsFiniteSet(Writers), IInv, Flusher
  PROVE  QInv'
<1>1. ASSUME NEW by, FlushNothing(by) PROVE QInv'
  BY <1>1, QueueNothing
<1>2. ASSUME NEW by, FlushTake(by) PROVE QInv'
  BY <1>2, QueueTake
<1>3. CASE FlushWrite
  <2> DEFINE x == [flush EXCEPT !.pc = "written"]
  <2>1. /\ flush.pc = "taken" /\ flush' = [x EXCEPT !.path = <<0, clock'>>]
        /\ UNCHANGED <<mem, writer, spawned, failures>>
    BY <1>3 DEF FlushWrite, FlushAt
  <2>2. x = [pc |-> "written", by |-> flush.by, items |-> flush.items,
             off |-> flush.off, path |-> flush.path]
    BY DEF IInv, Shapes
  <2> HIDE DEF x
  <2>3. flush'.pc = "written"
    BY <2>1, <2>2
  <2>4. AtWork' = AtWork
    BY <2>1, <2>3 DEF AtWork
  <2> QED  BY <2>1, <2>4, QueueGoesOn
<1>4. CASE FlushInstall
  <2>1. /\ flush.pc = "written" /\ flush' = [flush EXCEPT !.pc = "installed"]
        /\ UNCHANGED <<mem, writer, spawned, failures>>
    BY <1>4 DEF FlushInstall, FlushAt
  <2>2. AtWork' = AtWork
    BY <2>1, FlushMoves DEF AtWork
  <2> QED  BY <2>1, <2>2, QueueGoesOn
<1>5. CASE FlushSave
  <2>1. /\ flush.pc = "installed" /\ flush' = [flush EXCEPT !.pc = "saved"]
        /\ UNCHANGED <<mem, writer, spawned, failures>>
    BY <1>5 DEF FlushSave, FlushAt
  <2>2. AtWork' = AtWork
    BY <2>1, FlushMoves DEF AtWork
  <2> QED  BY <2>1, <2>2, QueueGoesOn
<1>6. CASE FlushClear
  BY <1>6, QueueClear
<1>7. CASE FlushTruncate
  <2>1. /\ flush.pc = "cleared" /\ flush' = [flush EXCEPT !.pc = "truncated"]
        /\ UNCHANGED <<mem, writer, spawned, failures>>
    BY <1>7 DEF FlushTruncate, FlushAt, compactionVars
  <2>2. AtWork' = AtWork
    BY <2>1, FlushMoves DEF AtWork
  <2> QED  BY <2>1, <2>2, QueueGoesOn
<1>8. CASE FlushCompact
  <2>1. /\ flush.pc = "truncated" /\ flush' = NoFlush
        /\ UNCHANGED <<mem, writer, spawned, failures>>
    BY <1>8 DEF FlushCompact, FlushAt, Leave
  <2>2. AtWork' = AtWork
    BY <2>1 DEF AtWork, NoFlush
  <2> QED  BY <2>1, <2>2, QueueGoesOn
<1>9. CASE FlushWriteFails \/ FlushInstallFails \/ FlushSaveFails \/ FlushTruncateFails
  BY <1>9, QueueFails DEF FlushWriteFails, FlushInstallFails, FlushSaveFails, FlushTruncateFails
<1> QED
  BY <1>1, <1>2, <1>3, <1>4, <1>5, <1>6, <1>7, <1>8, <1>9 DEF Flusher, FlushStep

\* compact has nothing to do with the queue.
LEMMA QueueCompactor ==
  ASSUME QInv, IsFiniteSet(Writers), Compactor
  PROVE  QInv'
<1>1. UNCHANGED <<mem, writer, spawned, flush>>
  BY DEF Compactor, engineVars
<1>2. failures' = failures \/ Fail
  BY DEF Compactor, CompactionNext, CompactSnapshot, CompactWrite, CompactWriteFails,
         CompactInstall, CompactInstallFails, CompactRemove, CompactRemoveFails,
         CompactDelete, CompactDeleteFails
<1>3. AtWork' = AtWork
  BY <1>1 DEF AtWork
<1> QED  BY <1>1, <1>2, <1>3, QueueGoesOn, QueueFails

\* Every step that rotates no empty buffer.
LEMMA NextQInv ==
  ASSUME QInv, IsFiniteSet(Writers), IInv, [Next]_vars, RotatesData \/ UNCHANGED vars
  PROVE  QInv'
<1>1. ASSUME UNCHANGED <<mem, writer, spawned, flush, failures>> PROVE QInv'
  <2>1. AtWork' = AtWork
    BY <1>1 DEF AtWork
  <2> QED  BY <1>1, <2>1, QueueGoesOn
<1>2. CASE UNCHANGED vars
  BY <1>1, <1>2 DEF vars, engineVars, compactionVars
<1>3. ASSUME RotatesData, NEW t \in Writers, WriterCalls(t) \/ WriterReturns(t) PROVE QInv'
  BY <1>3, QueueWriter
<1>4. CASE Flusher
  BY <1>4, QueueFlusher
<1>5. CASE FlushAllCall \/ FlushAllLoop
  BY <1>1, <1>5 DEF FlushAllCall, FlushAllLoop, compactionVars
<1>6. ASSUME NEW r \in Readers, ReaderStep(r) PROVE QInv'
  BY <1>1, <1>6 DEF ReaderStep, Get, GetSnapshot, GetProbe, GetRead, compactionVars
<1>7. CASE Compactor
  BY <1>7, QueueCompactor
<1> QED  BY <1>2, <1>3, <1>4, <1>5, <1>6, <1>7 DEF Next

\* A queue that is empty.
LEMMA InitQInv ==
  ASSUME IsFiniteSet(Writers), Init
  PROVE  QInv
<1>1. mem.frozen = <<>> /\ spawned = 0 /\ failures = 0
  BY DEF Init, NewMemTable
<1>2. Counters /\ NoEmptyBuffer
  BY <1>1 DEF Counters, NoEmptyBuffer
<1>3. FlushOwed
  <2>1. Cardinality(Spawning) \in Nat /\ AtWork \in Nat /\ Len(<<>>) = 0
    BY SpawningCount DEF AtWork
  <2> QED  BY <1>1, <2>1, OwedIs
<1> QED  BY <1>2, <1>3 DEF QInv

\* As long as no file operation fails and no batch rotates an empty buffer, there
\* are never more buffers in the queue than threads on their way to flush one:
\* the one thread that put and batch_put start for each rotation
\* (engine.py:166) is enough, whichever of them, or flush_all, takes which head.
THEOREM EveryBufferIsOwed ==
  ASSUME ClockAdvances, IsFiniteSet(Writers)
  PROVE  Spec /\ RemovalsSucceed /\ NoEmptyRotation => []FlushOwed
<1>1. Init => QInv
  BY InitQInv
<1>2. IInv /\ QInv /\ [Next]_vars /\ [RotatesData]_vars => QInv'
  BY NextQInv
<1>3. QInv => FlushOwed
  BY DEF QInv
<1> QED  BY <1>1, <1>2, <1>3, DiskInvariant, PTL DEF Spec, NoEmptyRotation
=============================================================================
