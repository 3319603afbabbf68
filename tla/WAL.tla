-------------------------------- MODULE WAL ---------------------------------
(***************************************************************************)
(* The write-ahead log (wal.py) on its own: one caller appends records and  *)
(* batches and truncates, the process crashes, perhaps in the middle of a   *)
(* write, and a new one replays the log and goes on with it. Each method    *)
(* holds the WAL's lock from beginning to end and is one step; what several *)
(* callers do between the methods is Engine's subject.                      *)
(*                                                                         *)
(* Records are numbered 1, 2, ... in the order they are appended. The       *)
(* caller only truncates to an offset that this process got from an append  *)
(* or from replay, as flush does, or to the end of the file, as the tests   *)
(* do.                                                                     *)
(***************************************************************************)
EXTENDS WALFile

CONSTANTS
  MaxRecords,   \* bound: records appended
  MaxCrashes    \* bound: crashes

ASSUME WALAssumption ==
  /\ MaxRecords \in Nat /\ MaxCrashes \in Nat
  /\ \A r \in 1..MaxRecords : RecordLen(r) \in Nat \ {0}

VARIABLES
  wal,       \* the WAL
  appended,  \* records appended so far, those of a failed write included
  acked,     \* the records whose append has returned
  offset,    \* the offsets this process knows: a function from its records
  written,   \* history: the acked records that went to the file wal.log names
  kept,      \* history: the first record no truncation has covered
  damage,    \* history: "torn" once a write was cut short for good, by a crash
             \* or because wal.log was replaced under the handle that held its
             \* rest; "stale" once a truncation used an offset of a file that
             \* was replaced since; "emptied" once the file was emptied,
             \* perhaps under the handle
  crashes,
  running    \* FALSE once replay has raised: the engine does not start

vars == <<wal, appended, acked, offset, written, kept, damage, crashes, running>>

\* The next n records.
Fresh(n) == [i \in 1..n |-> appended + i]

\* append, and append_batch of two records.
AppendRecords(n) ==
  /\ running
  /\ appended + n <= MaxRecords
  /\ appended' = appended + n
  /\ acked' = acked \cup {Fresh(n)[i] : i \in 1..n}
  /\ wal' = AppendBatch(wal, Fresh(n))
  /\ offset' = [r \in DOMAIN offset \cup {appended'} |->
                  IF r = appended' THEN LastOffset(wal, Fresh(n)) ELSE offset[r]]
  /\ written' = IF Open(wal).handle = "attached" THEN written \cup (acked' \ acked) ELSE written
  /\ UNCHANGED <<kept, damage, crashes, running>>

\* An append that raises: for its caller the records are not written, but a part
\* of them may be, and the rest may still follow. (A detached handle's part is
\* of no interest any more.)
AppendRaises(n) ==
  /\ running
  /\ appended + n <= MaxRecords
  /\ Open(wal).handle = "attached"
  /\ appended' = appended + n
  /\ \E m \in 0..Len(ToWrite(wal, BatchCells(Fresh(n)))) :
       wal' = WriteCellsRaised(wal, BatchCells(Fresh(n)), m)
  /\ UNCHANGED <<acked, offset, written, kept, damage, crashes, running>>

\* What the handle still holds is torn off when it loses the file.
TornOff == IF wal.buffer # <<>> THEN {"torn"} ELSE {}

\* truncate_upto(offset[r]): what comes before r is in SSTables now. A flush
\* has a buffer to write only after a write of this process filled one.
Truncate(r) ==
  /\ running
  /\ wal.handle # "closed"
  /\ wal' = TruncateUpto(wal, offset[r])
  /\ kept' = IF r > kept THEN r ELSE kept
  /\ damage' = damage \cup TornOff \cup (IF wal.handle = "detached" THEN {"stale"} ELSE {})
  /\ UNCHANGED <<appended, acked, offset, written, crashes, running>>

\* truncate_upto of an offset at the end of the file: everything is to go.
TruncateAll ==
  /\ running
  /\ wal.file # <<>>
  /\ wal' = TruncateUpto(wal, Len(wal.file))
  /\ kept' = appended + 1
  /\ damage' = damage \cup {"emptied"}
  /\ UNCHANGED <<appended, acked, offset, written, crashes, running>>

\* A new process opens the file that is left and replays it.
Restart(file) ==
  LET replay == Replay(file)
      position(r) == CHOOSE j \in DOMAIN replay : replay[j].rec = r
  IN /\ crashes < MaxCrashes
     /\ crashes' = crashes + 1
     /\ wal' = [Crashed(wal) EXCEPT !.file = file]
     /\ running' = ~ReplayRaises(file)
     /\ offset' = [r \in {replay[j].rec : j \in DOMAIN replay} |-> replay[position(r)].off]

\* The process ends between two calls.
CrashIdle ==
  /\ running
  /\ Restart(wal.file)
  /\ damage' = damage \cup TornOff
  /\ UNCHANGED <<appended, acked, written, kept>>

\* It ends in an append of n records whose write does not complete: only some
\* of the bytes are on disk, if they went to this file at all.
CrashWriting(n) ==
  /\ running
  /\ appended + n <= MaxRecords
  /\ Open(wal).handle = "attached"
  /\ \E tail \in TornPrefixes(ToWrite(wal, BatchCells(Fresh(n)))) : Restart(wal.file \o tail)
  /\ appended' = appended + n
  /\ damage' = damage \cup {"torn"}
  /\ UNCHANGED <<acked, written, kept>>

Init ==
  /\ wal = EmptyWAL
  /\ appended = 0
  /\ acked = {}
  /\ offset = [r \in {} |-> 0]
  /\ written = {}
  /\ kept = 1
  /\ damage = {}
  /\ crashes = 0
  /\ running = TRUE

Next ==
  \/ \E n \in {1, 2} : AppendRecords(n) \/ AppendRaises(n) \/ CrashWriting(n)
  \/ \E r \in DOMAIN offset : Truncate(r)
  \/ TruncateAll
  \/ CrashIdle

Spec == Init /\ [][Next]_vars

-----------------------------------------------------------------------------
(* Properties *)

Replayed == LET records == ReplayedRecords(wal.file)
            IN {records[j] : j \in DOMAIN records}

\* Type invariant: the log is a file of record parts with a handle position.
TypeOK ==
  /\ wal.file \in Seq([rec : 1..MaxRecords, part : Nat])
  /\ wal.handle \in {"closed", "attached", "detached"}
  /\ wal.buffer \in Seq([rec : 1..MaxRecords, part : Nat])
  /\ wal.pos \in Nat
  /\ appended \in 0..MaxRecords
  /\ written \subseteq acked /\ acked \subseteq 1..appended
  /\ DOMAIN offset \subseteq 1..appended
  /\ kept \in 1..(MaxRecords + 1)
  /\ damage \subseteq {"torn", "stale", "emptied"} /\ running \in BOOLEAN
  /\ crashes \in 0..MaxCrashes

\* However often the log is truncated, at whatever stale offset, and whatever
\* a crash leaves at its end: replay yields records in the order they were
\* appended and none of them twice.
ReplayInOrder ==
  LET records == ReplayedRecords(wal.file)
  IN \A i, j \in DOMAIN records : i < j => records[i] < records[j]

\* "no data loss in case of failure" (wal.py): a record whose append has
\* returned is replayed until a truncation covers it. It holds of the records
\* that went to the file wal.log names, over crashes, restarts and the first
\* truncation of each process.
NoLossWithoutDamage ==
  damage = {} => \A r \in written : r >= kept => r \in Replayed

\* An offset is where its record begins: append returns it, and replay that of
\* each record, in every process that starts on the log and until its first
\* truncation. append_batch promises "the byte offset in the WAL file where this
\* batch was written"; what it returns is the offset of the batch's last record,
\* as batch_put keeps it. (tell of a handle whose file was emptied through
\* another is none of these.)
OffsetIsWhereRecordIs ==
  wal.handle = "attached" /\ "emptied" \notin damage =>
    \A r \in DOMAIN offset :
      r >= kept /\ r \in Replayed =>
        offset[r] < Len(wal.file) /\ wal.file[offset[r] + 1] = Cell(r, 1)
=============================================================================
