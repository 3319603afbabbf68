----------------------------- MODULE Compaction -----------------------------
(***************************************************************************)
(* The compaction thread (compaction.py) over the manifest and the SSTable  *)
(* files it shares with the flush and the readers of Engine. At most one    *)
(* runs at a time: _compaction_in_progress is compaction.pc # "idle".       *)
(*                                                                         *)
(* compaction.pc says which step the thread takes next:                     *)
(*   started   read the list of level-0 SSTables                           *)
(*   merging   merge them into a new file                                  *)
(*   written   add the new file to level 1 of the manifest                 *)
(*   removing  take the inputs out of level 0, one manifest save for each   *)
(*   deleting  unlink the inputs' files                                    *)
(*                                                                         *)
(* failures counts the file operations that have raised; a run allows       *)
(* MaxFailures of them.                                                    *)
(***************************************************************************)
EXTENDS Manifest

CONSTANTS
  L0Threshold,   \* L0_THRESHOLD
  ClockSteps,    \* what time() may advance by between two readings of it
  MaxFailures    \* bound: file operations that raise

ASSUME CompactionAssumption ==
  /\ L0Threshold \in Nat
  /\ ClockSteps \subseteq Int
  /\ MaxFailures \in Nat

VARIABLES
  manifest,     \* [mem, disk]
  files,        \* the SSTable files
  clock,        \* the last time read
  compaction,   \* [pc, inputs, todo, out]: todo, the inputs the current loop
                \* has not come to; out, the path of the merged file
  failures

compactionVars == <<manifest, files, clock, compaction, failures>>

NoCompaction == [pc |-> "idle", inputs |-> {}, todo |-> {}, out |-> <<1, 0>>]

CompactionPCs == {"idle", "started", "merging", "written", "removing", "deleting"}

Compactions ==
  [pc : CompactionPCs, inputs : SUBSET Entries, todo : SUBSET Entries, out : Paths]

\* int(time() * 1000), or time_ns().
Tick(now) == \E d \in ClockSteps : now = clock + d

\* A file operation raises.
Fail == failures < MaxFailures /\ failures' = failures + 1

CompactAt(pc) == compaction.pc = pc

-----------------------------------------------------------------------------

NeedsCompaction == Cardinality(manifest.mem[0]) > L0Threshold

\* may_start_compaction, called at the end of a flush: it does nothing while
\* a compaction runs, whatever has been added since.
MayStartCompaction ==
  compaction' = IF CompactAt("idle") /\ NeedsCompaction
                THEN [NoCompaction EXCEPT !.pc = "started"] ELSE compaction

CompactSnapshot ==
  /\ CompactAt("started")
  /\ compaction' = IF manifest.mem[0] = {} THEN NoCompaction
                   ELSE [compaction EXCEPT !.pc = "merging", !.inputs = manifest.mem[0]]
  /\ UNCHANGED <<manifest, files, clock, failures>>

\* Mutant: the merge drops tombstones.
MergeValues(inputs) ==
  [k \in {x \in Keys : SearchLevel(files, inputs, x) \notin {None, Tombstone}} |->
     SearchLevel(files, inputs, k)]

\* What merge_sstables yields: each key once, with the value of the newest
\* input that holds it. An input whose file is missing counts as empty.
MergeTables(inputs) ==
  [k \in {x \in Keys : FirstHit(files, inputs, x) # {}} |-> SearchLevel(files, inputs, k)]

CompactWrite ==
  /\ CompactAt("merging")
  /\ Tick(clock')
  /\ files' = WriteFile(files, <<1, clock'>>, MergeTables(compaction.inputs))
  /\ compaction' = [compaction EXCEPT !.pc = "written", !.out = <<1, clock'>>]
  /\ UNCHANGED <<manifest, failures>>

\* SSTable.write raises and unlinks what it wrote.
CompactWriteFails ==
  /\ CompactAt("merging")
  /\ Fail
  /\ Tick(clock')
  /\ files' = Unlinked(files, <<1, clock'>>)
  /\ compaction' = NoCompaction
  /\ UNCHANGED manifest

\* Mutant: the inputs' files are unlinked before the manifest forgets them.
CompactInstallAndDelete ==
  /\ CompactAt("written")
  /\ Tick(clock')
  /\ manifest' = AddSSTable(manifest, 1, [path |-> compaction.out, created |-> clock'])
  /\ compaction' = [compaction EXCEPT !.pc = "deleting", !.todo = compaction.inputs]
  /\ UNCHANGED <<files, failures>>

\* build_metadata, which would raise for an SSTable without keys, and
\* add_sstable. The inputs exist and hold keys (NoDanglingEntry).
CompactInstall ==
  /\ CompactAt("written")
  /\ Tick(clock')
  /\ manifest' = AddSSTable(manifest, 1, [path |-> compaction.out, created |-> clock'])
  /\ compaction' = [compaction EXCEPT !.pc = "removing", !.todo = compaction.inputs]
  /\ UNCHANGED <<files, failures>>

CompactInstallFails ==
  /\ CompactAt("written")
  /\ Fail
  /\ Tick(clock')
  /\ manifest' \in SaveRaised(AddSSTableUnsaved(manifest, 1,
                                               [path |-> compaction.out, created |-> clock']))
  /\ compaction' = NoCompaction
  /\ UNCHANGED files

\* The loops over the inputs go from the newest to the oldest.
ThisInput == Newest(compaction.todo)

\* After the last one the thread goes on with what follows.
NextInput(following) ==
  compaction' = IF compaction.todo = {ThisInput} THEN following
                ELSE [compaction EXCEPT !.todo = @ \ {ThisInput}]

CompactRemove ==
  /\ CompactAt("removing")
  /\ manifest' = RemoveSSTable(manifest, 0, ThisInput.path)
  /\ NextInput([compaction EXCEPT !.pc = "deleting", !.todo = compaction.inputs])
  /\ UNCHANGED <<files, clock, failures>>

CompactRemoveFails ==
  /\ CompactAt("removing")
  /\ Fail
  /\ manifest' \in SaveRaised(RemoveSSTableUnsaved(manifest, 0, ThisInput.path))
  /\ compaction' = NoCompaction
  /\ UNCHANGED <<files, clock>>

\* _remove_old_sstable_files goes on after a file it cannot unlink.
CompactDelete ==
  /\ CompactAt("deleting")
  /\ files' = Unlinked(files, ThisInput.path)
  /\ NextInput(NoCompaction)
  /\ UNCHANGED <<manifest, clock, failures>>

CompactDeleteFails ==
  /\ CompactAt("deleting")
  /\ Fail
  /\ NextInput(NoCompaction)
  /\ UNCHANGED <<manifest, files, clock>>

CompactionNext ==
  \/ CompactSnapshot
  \/ CompactWrite   \/ CompactWriteFails
  \/ CompactInstall \/ CompactInstallFails
  \/ CompactRemove  \/ CompactRemoveFails
  \/ CompactDelete  \/ CompactDeleteFails

-----------------------------------------------------------------------------
(* Properties *)

\* Whatever fails or is cut short, the manifest in memory and the one a crash
\* would leave on disk name only files that exist: compact unlinks its inputs
\* when they are out of both.
NoDanglingEntry ==
  \A levels \in {manifest.mem, manifest.disk} : \A l \in Levels :
    \A e \in levels[l] : e.path \in DOMAIN files

\* Every key of table t is in some file that the levels name on level 1.
HeldBelow(levels, t) ==
  \A k \in DOMAIN t : \E e \in levels[1] : Holds(files, e.path, k)

\* An SSTable leaves level 0 of the manifest on disk only when the same
\* manifest says where the merged copies of its keys are, tombstones included.
SupersededBeforeRemoved ==
  [][\A e \in manifest.disk[0] \ manifest'.disk[0] :
       HeldBelow(manifest.disk, files[e.path])]_compactionVars
=============================================================================
