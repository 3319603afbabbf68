------------------------------ MODULE Recovery ------------------------------
(***************************************************************************)
(* Engine over several lives: the process ends at any step, between two     *)
(* file operations of a flush or of compact, or in the middle of the write  *)
(* of a log record, and a new LSMStorageEngine on the same directory loads  *)
(* the manifest, replays the log and goes on. What Durability computes is   *)
(* what the new process starts from.                                       *)
(*                                                                         *)
(* The manifest and a truncated log are replaced by a rename, and an        *)
(* SSTable is named by no manifest before it is written: a crash in the     *)
(* middle of these leaves what one before or after them does.              *)
(***************************************************************************)
EXTENDS Durability

CONSTANTS
  MaxCrashes,   \* bound: crashes
  TornPairs     \* bound: the puts and deletes whose record a crash may cut short

ASSUME RecoveryAssumption == MaxCrashes \in Nat /\ TornPairs \subseteq Pairs

VARIABLES
  up,       \* FALSE once replay has raised: the engine does not start
  crashes,
  strayed   \* history: this process has appended to a file that wal.log does
            \* not name, or used an offset of it to truncate

recoveryVars == <<vars, up, crashes, strayed>>

\* The pairs t has called to write, not in the MemTable yet.
InFlight(t) ==
  IF writer[t].pc \in {"put", "delete", "measuring", "batch"} THEN writer[t].pairs ELSE <<>>

\* The writes to the log that may be going on: of the record of a put or delete
\* somebody calls, or of the records of a batch.
LogWrites ==
  (IF calls < MaxCalls /\ \E t \in Writers : WriterAt(t, "idle")
   THEN {<<p>> : p \in TornPairs} ELSE {})
    \cup {writer[t].pairs :
            t \in {u \in Writers : Measured(u) /\ writer[u].bytes <= MaxSize}}

\* What a crash can leave at the end of wal.log: nothing, or part of a write,
\* unless that goes to the file that wal.log does not name any more.
Tails ==
  {<<>>} \cup (IF Open(wal).handle = "detached" THEN {}
               ELSE UNION {TornPrefixes(BatchCells(ps)) : ps \in LogWrites})

\* The engine starts on this log with this MemTable. The history restarts from
\* what its clients find.
StartsWith(file, restored) ==
  /\ up' = ~ReplayRaises(file)
  /\ mem' = restored
  /\ wal' = [Crashed(wal) EXCEPT !.file = file]
  /\ manifest' = Load(manifest)
  /\ applied' = [k \in Keys |-> RestoredValue(restored, k)]

Crash ==
  /\ up
  /\ crashes < MaxCrashes
  /\ crashes' = crashes + 1
  /\ \E tail \in Tails : StartsWith(wal.file \o tail, ReplayWal(wal.file \o tail))
  /\ writer' = [t \in Writers |-> IdleWriter]
  /\ spawned' = 0
  /\ flush' = NoFlush
  /\ flushAll' = "idle"
  /\ reader' = [r \in Readers |-> NotReading]
  /\ compaction' = NoCompaction
  /\ strayed' = FALSE
  /\ UNCHANGED <<files, clock, calls, failures>>

EngineRuns ==
  /\ up
  /\ Next
  /\ strayed' = (strayed \/ (wal.handle = "detached" /\ wal' # wal))
  /\ UNCHANGED <<up, crashes>>

RecoveryInit == Init /\ up = TRUE /\ crashes = 0 /\ strayed = FALSE

RecoveryNext == EngineRuns \/ Crash

RecoverySpec == RecoveryInit /\ [][RecoveryNext]_recoveryVars

-----------------------------------------------------------------------------
(* Properties *)

\* Replay reads the file to its end.
Readable(file) == BatchCells(ReplayedRecords(file)) = file

\* "no data loss in case of failure" (wal.py), over any number of lives: the
\* process that starts after a crash finds every write that has returned, and
\* of the one under way the pairs up to some place, whichever step of a flush
\* or of compact the crash falls upon. Excepted are a process whose log has
\* strayed from wal.log, one that goes on behind a torn record, and a crash while
\* compact takes its inputs out of the manifest.
RestartKeepsWrites ==
  [][/\ crashes' # crashes
     /\ up'
     /\ ~strayed /\ Readable(wal.file) /\ ~CompactAt("removing")
     => \E t \in Writers : \E n \in 0..Len(InFlight(t)) :
          applied' = Applied(SubSeq(InFlight(t), 1, n))]_recoveryVars
=============================================================================
