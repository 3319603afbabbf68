----------------------------- MODULE Durability -----------------------------
(***************************************************************************)
(* What a crash at any moment would leave of the engine's data. The         *)
(* operators below compute, from the log file and the manifest that are on  *)
(* disk in a state of Engine, what LSMStorageEngine.__init__ restores from  *)
(* them in a new process; the properties compare it with what the clients   *)
(* have been told. Here a write reaches the disk as a whole or not at all;  *)
(* WAL and Recovery also have those a crash cuts short.                    *)
(***************************************************************************)
EXTENDS Engine

\* replay_wal: every record is put into a new MemTable, which is not rotated
\* however large it grows, and the offset of the last one is its offset.
ReplayWal(file) ==
  LET replay == Replay(file) IN
  [PutAllUnlocked(NewMemTable, ReplayedRecords(file)) EXCEPT
     !.off = IF replay = <<>> THEN 0 ELSE Last(replay).off]

\* What get finds for k in the process that starts on this disk, once it has
\* replayed the log into the MemTable restored.
RestoredValue(restored, k) ==
  IF MemGet(restored, k) # None THEN MemGet(restored, k)
  ELSE SearchLevels(files, Load(manifest).mem, k)

\* A write of k whose call has not returned may or may not have reached the log.
Unreturned(k) ==
  {BatchValue(writer[t].pairs, k) :
     t \in {u \in Writers : /\ writer[u].pc \in {"put", "delete", "batch"}
                            /\ k \in BatchKeys(writer[u].pairs)}}

\* The values a client may find for k after a crash now.
Allowed(k) == {applied[k]} \cup Unreturned(k)

-----------------------------------------------------------------------------
(* Properties *)

\* A new process that finds this log and the manifest finds for every key the
\* last value written.
RestoresWrites(file) ==
  LET restored == ReplayWal(file)
  IN \A k \in Keys : RestoredValue(restored, k) \in Allowed(k)

\* "Durably records all writes before they are applied to the MemTable,
\* ensuring no data loss in case of failure" (wal.py).
NoDataLoss == RestoresWrites(wal.file)

\* The truncation at the end of a flush loses nothing itself: what it drops
\* from the log, the SSTables on disk hold, or a later record overrides. (While
\* compact takes its inputs out of the manifest, the log may hide a stale value.)
TruncationLosesNothing ==
  [][/\ wal.handle = "attached" /\ ~CompactAt("removing")
     /\ Len(wal'.file) < Len(wal.file)
     /\ NoDataLoss
     => RestoresWrites(wal'.file)]_vars
=============================================================================
