------------------------------- MODULE Engine -------------------------------
(***************************************************************************)
(* LSMStorageEngine (engine.py) in one process: threads that put, delete,   *)
(* batch_put and get, the flush threads they start, flush_all, and the      *)
(* compaction thread of Compaction.                                        *)
(*                                                                         *)
(* Sections under the MemTable's lock are single steps (RWLock shows that   *)
(* a writer is alone in it), and so is everything under the WAL's and the   *)
(* manifest's lock; what a method does between two such sections is a step  *)
(* of its own, and other threads run in between.                           *)
(*                                                                         *)
(* A WAL record is [key, value]: a DELETE is replayed as a put of           *)
(* Tombstone.                                                              *)
(***************************************************************************)
EXTENDS Compaction, WALFile

CONSTANTS
  Writers,         \* threads that call put, delete and batch_put
  Readers,         \* threads that call get, once each
  Batches,         \* the batches clients write, sequences of [key, value]
  Overhead,        \* ENTRY_OVERHEAD of batch_put
  KeyLen,          \* len(key), the same for every key
  MaxCalls         \* bound: calls of put, delete and batch_put

Pairs == [key : Keys, value : Stored]

ASSUME EngineAssumption ==
  /\ Batches \subseteq Seq([key : Keys, value : Values])
  /\ Overhead \in Nat /\ KeyLen \in Nat /\ MaxCalls \in Nat
  /\ \A p \in Pairs : RecordLen(p) \in Nat \ {0}

VARIABLES
  mem,        \* the MemTable
  wal,        \* the WAL
  writer,     \* per writer: its step and the locals of its call
  spawned,    \* flush threads that have not taken _flush_lock yet
  flush,      \* the holder of _flush_lock and its locals
  flushAll,   \* where the caller of flush_all is
  reader,     \* per reader: its step, key, SSTables still to search, result
  calls,      \* write calls so far
  applied     \* history: what the last write of each key under the lock wrote

engineVars == <<mem, wal, writer, spawned, flush, flushAll, reader, calls, applied>>
vars == <<engineVars, compactionVars>>

IdleWriter == [pc |-> "idle", pairs |-> <<>>, n |-> 0, bytes |-> 0, off |-> 0]
NoFlush    == [pc |-> "free", by |-> "thread", items |-> EmptyTable, off |-> 0,
               path |-> <<0, 0>>]

\* The last pair wins, as in PutAllUnlocked.
Applied(pairs) ==
  [k \in Keys |-> IF k \in BatchKeys(pairs) THEN BatchValue(pairs, k) ELSE applied[k]]

\* History: a reader under way has now seen what the write makes current.
Witnessed(pairs) ==
  [r \in Readers |->
     IF reader[r].pc \in {"missed", "probing", "found"} /\ reader[r].key \in BatchKeys(pairs)
     THEN [reader[r] EXCEPT !.seen = @ \cup {BatchValue(pairs, reader[r].key)}]
     ELSE reader[r]]

\* A write of pairs under the MemTable's lock.
Apply(pairs) == applied' = Applied(pairs) /\ reader' = Witnessed(pairs)

WriterAt(t, pc) == writer[t].pc = pc

Call(t) ==
  /\ WriterAt(t, "idle")
  /\ calls < MaxCalls
  /\ calls' = calls + 1

\* wal.append of one record, in the calling thread and before any other lock.
Log(t, pc, p) ==
  /\ wal' = Append1(wal, p)
  /\ writer' = [writer EXCEPT ![t] = [IdleWriter EXCEPT !.pc = pc, !.pairs = <<p>>,
                                                        !.off = NextOffset(wal)]]

-----------------------------------------------------------------------------
(* put *)

Put(t, k, v) ==
  /\ Call(t)
  /\ Log(t, "put", [key |-> k, value |-> v])
  /\ UNCHANGED <<mem, spawned, flush, flushAll, reader, applied, compactionVars>>

\* Mutant: a put that fills the buffer goes into neither of the two.
PutApplyRotatingFirst(t) ==
  LET p == writer[t].pairs[1]
      m == RaiseOffset(PutUnlocked(mem, p.key, p.value), writer[t].off)
  IN /\ WriterAt(t, "put")
     /\ mem' = IF IsFull(m) THEN RotateUnlocked(mem) ELSE m
     /\ writer' = [writer EXCEPT ![t] = [IdleWriter EXCEPT
                                          !.pc = IF IsFull(m) THEN "spawn" ELSE "idle"]]
     /\ Apply(<<p>>)
     /\ UNCHANGED <<wal, spawned, flush, flushAll, calls, compactionVars>>

\* Everything put does while it holds the MemTable's write lock.
PutApply(t) ==
  LET p == writer[t].pairs[1]
      m == RaiseOffset(PutUnlocked(mem, p.key, p.value), writer[t].off)
  IN /\ WriterAt(t, "put")
     /\ mem' = IF IsFull(m) THEN RotateUnlocked(m) ELSE m
     /\ writer' = [writer EXCEPT ![t] = [IdleWriter EXCEPT
                                          !.pc = IF IsFull(m) THEN "spawn" ELSE "idle"]]
     /\ Apply(<<p>>)
     /\ UNCHANGED <<wal, spawned, flush, flushAll, calls, compactionVars>>

\* Mutant: no thread is started while a flush is under way.
SpawnFlushUnlessBusy(t) ==
  /\ WriterAt(t, "spawn")
  /\ spawned' = IF flush.pc = "free" THEN spawned + 1 ELSE spawned
  /\ writer' = [writer EXCEPT ![t] = IdleWriter]
  /\ UNCHANGED <<mem, wal, flush, flushAll, reader, calls, applied, compactionVars>>

\* threading.Thread(target=self.flush).start(), after the lock is released.
SpawnFlush(t) ==
  /\ WriterAt(t, "spawn")
  /\ spawned' = spawned + 1
  /\ writer' = [writer EXCEPT ![t] = IdleWriter]
  /\ UNCHANGED <<mem, wal, flush, flushAll, reader, calls, applied, compactionVars>>

-----------------------------------------------------------------------------
(* delete: three separate steps, and no check whether the MemTable is full *)

Delete(t, k) ==
  /\ Call(t)
  /\ Log(t, "delete", [key |-> k, value |-> Tombstone])
  /\ UNCHANGED <<mem, spawned, flush, flushAll, reader, applied, compactionVars>>

DeleteApply(t) ==
  /\ WriterAt(t, "delete")
  /\ mem' = PutUnlocked(mem, writer[t].pairs[1].key, Tombstone)
  /\ writer' = [writer EXCEPT ![t].pc = "setOffset"]
  /\ Apply(writer[t].pairs)
  /\ UNCHANGED <<wal, spawned, flush, flushAll, calls, compactionVars>>

\* set_max_wal_offset: by now the tombstone may be in a frozen buffer.
DeleteSetOffset(t) ==
  /\ WriterAt(t, "setOffset")
  /\ mem' = RaiseOffset(mem, writer[t].off)
  /\ writer' = [writer EXCEPT ![t] = IdleWriter]
  /\ UNCHANGED <<wal, spawned, flush, flushAll, reader, calls, applied, compactionVars>>

-----------------------------------------------------------------------------
(* batch_put *)

BatchPut(t, b) ==
  /\ Call(t)
  /\ writer' = [writer EXCEPT ![t] = [IdleWriter EXCEPT !.pc = "measuring", !.pairs = b]]
  /\ UNCHANGED <<mem, wal, spawned, flush, flushAll, reader, applied, compactionVars>>

\* What a pair adds to input_size. An empty previous value counts as none.
PairSize(m, p) ==
  LET prev == MemGet(m, p.key)
  IN SizeOf(p.value) + Overhead
       + (IF prev = None \/ SizeOf(prev) = 0 THEN KeyLen ELSE -SizeOf(prev))

\* memtable.get takes and releases the read lock for each pair.
BatchMeasure(t) ==
  /\ WriterAt(t, "measuring")
  /\ writer[t].n < Len(writer[t].pairs)
  /\ writer' = [writer EXCEPT ![t].n = @ + 1,
                              ![t].bytes = @ + PairSize(mem, writer[t].pairs[writer[t].n + 1])]
  /\ UNCHANGED <<mem, wal, spawned, flush, flushAll, reader, calls, applied, compactionVars>>

Measured(t) == WriterAt(t, "measuring") /\ writer[t].n = Len(writer[t].pairs)

\* BatchTooLargeException
BatchReject(t) ==
  /\ Measured(t)
  /\ writer[t].bytes > MaxSize
  /\ writer' = [writer EXCEPT ![t] = IdleWriter]
  /\ UNCHANGED <<mem, wal, spawned, flush, flushAll, reader, calls, applied, compactionVars>>

BatchLog(t) ==
  /\ Measured(t)
  /\ writer[t].bytes <= MaxSize
  /\ wal' = AppendBatch(wal, writer[t].pairs)
  /\ writer' = [writer EXCEPT ![t].pc = "batch", ![t].off = LastOffset(wal, writer[t].pairs)]
  /\ UNCHANGED <<mem, spawned, flush, flushAll, reader, calls, applied, compactionVars>>

\* Mutant: the lock is released after each pair.
BatchApplyOneByOne(t) ==
  LET p == Head(writer[t].pairs)
  IN /\ WriterAt(t, "batch")
     /\ mem' = PutUnlocked(mem, p.key, p.value)
     /\ writer' = [writer EXCEPT ![t] = IF Len(@.pairs) = 1 THEN IdleWriter
                                        ELSE [@ EXCEPT !.pairs = Tail(@)]]
     /\ Apply(<<p>>)
     /\ UNCHANGED <<wal, spawned, flush, flushAll, calls, compactionVars>>

\* The rotation comes before the pairs, and the batch's offset replaces the
\* one of the buffer, whichever is larger.
BatchApply(t) ==
  LET full == BatchWouldExceed(mem, writer[t].bytes)
      room == IF full THEN RotateUnlocked(mem) ELSE mem
  IN /\ WriterAt(t, "batch")
     /\ mem' = [PutAllUnlocked(room, writer[t].pairs) EXCEPT !.off = writer[t].off]
     /\ writer' = [writer EXCEPT ![t] = [IdleWriter EXCEPT
                                          !.pc = IF full THEN "spawn" ELSE "idle"]]
     /\ Apply(writer[t].pairs)
     /\ UNCHANGED <<wal, spawned, flush, flushAll, calls, compactionVars>>

-----------------------------------------------------------------------------
(* flush, by a flush thread or by flush_all *)

FlushAt(pc) == flush.pc = pc

\* A flusher takes _flush_lock: whichever waits for it, in any order.
Enter(by) ==
  /\ FlushAt("free")
  /\ \/ by = "thread" /\ spawned > 0 /\ spawned' = spawned - 1
     \/ by = "flushAll" /\ flushAll = "flushing" /\ spawned' = spawned

\* Releasing it, the thread ends and flush_all looks at the queue again.
Leave ==
  /\ flush' = NoFlush
  /\ flushAll' = IF flush.by = "flushAll" THEN "looping" ELSE flushAll

\* An empty head leaves without being taken off the queue.
FlushNothing(by) ==
  /\ Enter(by)
  /\ FrozenItems(mem) = EmptyTable
  /\ flushAll' = IF by = "flushAll" THEN "looping" ELSE flushAll
  /\ UNCHANGED <<mem, wal, writer, flush, reader, calls, applied, compactionVars>>

FlushTake(by) ==
  /\ Enter(by)
  /\ FrozenItems(mem) # EmptyTable
  /\ flush' = [NoFlush EXCEPT !.pc = "taken", !.by = by,
                              !.items = FrozenItems(mem), !.off = FrozenOffset(mem)]
  /\ UNCHANGED <<mem, wal, writer, flushAll, reader, calls, applied, compactionVars>>

\* The path is made of the time in milliseconds.
FlushWrite ==
  /\ FlushAt("taken")
  /\ Tick(clock')
  /\ files' = WriteFile(files, <<0, clock'>>, flush.items)
  /\ flush' = [flush EXCEPT !.pc = "written", !.path = <<0, clock'>>]
  /\ UNCHANGED <<mem, wal, writer, spawned, flushAll, reader, calls, applied,
                 manifest, compaction, failures>>

\* flush catches every exception: the buffer stays in the queue.
FlushWriteFails ==
  /\ FlushAt("taken")
  /\ Fail
  /\ Tick(clock')
  /\ files' = Unlinked(files, <<0, clock'>>)
  /\ Leave
  /\ UNCHANGED <<mem, wal, writer, spawned, reader, calls, applied, manifest, compaction>>

\* build_metadata, which reads the time again, and add_sstable.
FlushInstall ==
  /\ FlushAt("written")
  /\ Tick(clock')
  /\ manifest' = AddSSTable(manifest, 0, [path |-> flush.path, created |-> clock'])
  /\ flush' = [flush EXCEPT !.pc = "installed"]
  /\ UNCHANGED <<mem, wal, writer, spawned, flushAll, reader, calls, applied,
                 files, compaction, failures>>

\* When add_sstable's save raises, the entry is in memory all the same.
FlushInstallFails ==
  /\ FlushAt("written")
  /\ Fail
  /\ Tick(clock')
  /\ manifest' \in SaveRaised(AddSSTableUnsaved(manifest, 0,
                                               [path |-> flush.path, created |-> clock']))
  /\ Leave
  /\ UNCHANGED <<mem, wal, writer, spawned, reader, calls, applied, files, compaction>>

\* The second save of the manifest.
FlushSave ==
  /\ FlushAt("installed")
  /\ manifest' = Save(manifest)
  /\ flush' = [flush EXCEPT !.pc = "saved"]
  /\ UNCHANGED <<mem, wal, writer, spawned, flushAll, reader, calls, applied,
                 files, clock, compaction, failures>>

FlushSaveFails ==
  /\ FlushAt("installed")
  /\ Fail
  /\ manifest' \in SaveRaised(manifest)
  /\ Leave
  /\ UNCHANGED <<mem, wal, writer, spawned, reader, calls, applied, files, clock, compaction>>

\* clear_frozen pops whatever the head is now.
FlushClear ==
  /\ FlushAt("saved")
  /\ mem' = ClearFrozen(mem)
  /\ flush' = [flush EXCEPT !.pc = "cleared"]
  /\ UNCHANGED <<wal, writer, spawned, flushAll, reader, calls, applied, compactionVars>>

FlushTruncate ==
  /\ FlushAt("cleared")
  /\ wal' = TruncateUpto(wal, flush.off)
  /\ flush' = [flush EXCEPT !.pc = "truncated"]
  /\ UNCHANGED <<mem, writer, spawned, flushAll, reader, calls, applied, compactionVars>>

\* It raises before or after wal.log has its new contents.
FlushTruncateFails ==
  /\ FlushAt("cleared")
  /\ Fail
  /\ wal' \in {wal, TruncateUpto(wal, flush.off)}
  /\ Leave
  /\ UNCHANGED <<mem, writer, spawned, reader, calls, applied,
                 manifest, files, clock, compaction>>

FlushCompact ==
  /\ FlushAt("truncated")
  /\ MayStartCompaction
  /\ Leave
  /\ UNCHANGED <<mem, wal, writer, spawned, reader, calls, applied,
                 manifest, files, clock, failures>>

FlushStep ==
  \/ FlushWrite    \/ FlushWriteFails
  \/ FlushInstall  \/ FlushInstallFails
  \/ FlushSave     \/ FlushSaveFails
  \/ FlushClear
  \/ FlushTruncate \/ FlushTruncateFails
  \/ FlushCompact

\* flush_all: while get_frozen_queue_depth() > 0: flush()
FlushAllCall ==
  /\ flushAll = "idle"
  /\ flushAll' = "looping"
  /\ UNCHANGED <<mem, wal, writer, spawned, flush, reader, calls, applied, compactionVars>>

\* Mutant: while get_frozen_queue_depth() >= 0.
FlushAllLoopOnAndOn ==
  /\ flushAll = "looping"
  /\ flushAll' = "flushing"
  /\ UNCHANGED <<mem, wal, writer, spawned, flush, reader, calls, applied, compactionVars>>

FlushAllLoop ==
  /\ flushAll = "looping"
  /\ flushAll' = IF mem.frozen # <<>> THEN "flushing" ELSE "done"
  /\ UNCHANGED <<mem, wal, writer, spawned, flush, reader, calls, applied, compactionVars>>

-----------------------------------------------------------------------------
(* get *)

ReaderAt(r, pc) == reader[r].pc = pc

NotReading == [pc |-> "idle", key |-> None, todo |-> NoLevels, seen |-> {}, result |-> None]

\* memtable.get
Get(r, k) ==
  /\ ReaderAt(r, "idle")
  /\ reader' = [reader EXCEPT ![r] =
       [NotReading EXCEPT !.key = k, !.seen = {applied[k]}, !.result = MemGet(mem, k),
                          !.pc = IF MemGet(mem, k) = None THEN "missed" ELSE "done"]]
  /\ UNCHANGED <<mem, wal, writer, spawned, flush, flushAll, calls, applied, compactionVars>>

\* The snapshot iter_levels takes. The key range kept with an entry only
\* skips files that do not hold the key, and is left out.
GetSnapshot(r) ==
  /\ ReaderAt(r, "missed")
  /\ reader' = [reader EXCEPT ![r].pc = "probing", ![r].todo = manifest.mem]
  /\ UNCHANGED <<mem, wal, writer, spawned, flush, flushAll, calls, applied, compactionVars>>

\* The level and the entry the search has come to.
ThisLevel(r) == IF reader[r].todo[0] # {} THEN 0 ELSE 1

ThisEntry(r) == Newest(reader[r].todo[ThisLevel(r)])

\* SSTable.get: the index says whether the file holds the key; a file that
\* does not exist has an empty index.
GetProbe(r) ==
  /\ ReaderAt(r, "probing")
  /\ reader' = [reader EXCEPT ![r] =
       IF reader[r].todo = NoLevels THEN [@ EXCEPT !.pc = "done"]
       ELSE IF Holds(files, ThisEntry(r).path, reader[r].key) THEN [@ EXCEPT !.pc = "found"]
       ELSE [reader[r] EXCEPT !.todo[ThisLevel(r)] = @ \ {ThisEntry(r)}]]
  /\ UNCHANGED <<mem, wal, writer, spawned, flush, flushAll, calls, applied, compactionVars>>

\* It opens the file a second time to read the value, and raises
\* FileNotFoundError when it is gone by then.
GetRead(r) ==
  LET path == ThisEntry(r).path
      key  == reader[r].key
  IN
  /\ ReaderAt(r, "found")
  /\ reader' = [reader EXCEPT ![r] =
       IF Holds(files, path, key)
       THEN [@ EXCEPT !.pc = "done", !.result = files[path][key]]
       ELSE [@ EXCEPT !.pc = "raised"]]
  /\ UNCHANGED <<mem, wal, writer, spawned, flush, flushAll, calls, applied, compactionVars>>

-----------------------------------------------------------------------------

\* An engine on a new directory.
Init ==
  /\ mem = NewMemTable
  /\ wal = EmptyWAL
  /\ writer = [t \in Writers |-> IdleWriter]
  /\ spawned = 0
  /\ flush = NoFlush
  /\ flushAll = "idle"
  /\ reader = [r \in Readers |-> NotReading]
  /\ calls = 0
  /\ applied = [k \in Keys |-> None]
  /\ manifest = NewManifest
  /\ files = [p \in {} |-> EmptyTable]
  /\ clock = 0
  /\ compaction = NoCompaction
  /\ failures = 0

\* A client's calls.
WriterCalls(t) ==
  \/ \E k \in Keys, v \in Values : Put(t, k, v)
  \/ \E k \in Keys : Delete(t, k)
  \/ \E b \in Batches : BatchPut(t, b)

\* What a writer still has to do to return from its call.
WriterReturns(t) ==
  \/ PutApply(t)
  \/ SpawnFlush(t)
  \/ DeleteApply(t) \/ DeleteSetOffset(t)
  \/ BatchMeasure(t) \/ BatchReject(t) \/ BatchLog(t) \/ BatchApply(t)

Flusher ==
  \/ \E by \in {"thread", "flushAll"} : FlushNothing(by) \/ FlushTake(by)
  \/ FlushStep

ReaderStep(r) ==
  \/ \E k \in Keys : Get(r, k)
  \/ GetSnapshot(r)
  \/ GetProbe(r)
  \/ GetRead(r)

Compactor == CompactionNext /\ UNCHANGED engineVars

Next ==
  \/ \E t \in Writers : WriterCalls(t) \/ WriterReturns(t)
  \/ Flusher
  \/ FlushAllCall \/ FlushAllLoop
  \/ \E r \in Readers : ReaderStep(r)
  \/ Compactor

Spec == Init /\ [][Next]_vars

\* Every thread that has been started runs on until it ends. _flush_lock is
\* free again and again, but no flusher is promised its turn.
FairSpec ==
  /\ Spec
  /\ \A t \in Writers : WF_vars(WriterReturns(t))
  /\ WF_vars(Flusher)
  /\ WF_vars(FlushAllLoop)
  /\ WF_vars(Compactor)

-----------------------------------------------------------------------------
(* Properties *)

\* Type invariant: every part of the engine's state is of its type; a get is
\* only ever at a step of engine.get, a flush at one of engine.flush.
TypeOK ==
  /\ mem \in MemTables
  /\ wal \in [file : Seq([rec : Pairs, part : Nat]),
              handle : {"closed", "attached", "detached"}, buffer : {<<>>}, pos : Nat]
  /\ writer \in [Writers ->
       [pc : {"idle", "put", "spawn", "delete", "setOffset", "measuring", "batch"},
        pairs : Seq(Pairs), n : Nat, bytes : Int, off : Nat]]
  /\ spawned \in Nat
  /\ flush \in [pc : {"free", "taken", "written", "installed", "saved", "cleared", "truncated"},
                by : {"thread", "flushAll"}, items : Tables, off : Nat, path : Paths]
  /\ flushAll \in {"idle", "looping", "flushing", "done"}
  /\ reader \in [Readers ->
       [pc : {"idle", "missed", "probing", "found", "done", "raised"},
        key : Keys \cup {None}, todo : LevelSets,
        seen : SUBSET (Stored \cup {None}), result : Stored \cup {None}]]
  /\ calls \in Nat
  /\ applied \in [Keys -> Stored \cup {None}]
  /\ manifest \in [mem : LevelSets, disk : LevelSets]
  /\ files = [p \in DOMAIN files |-> files[p]]
  /\ \A p \in DOMAIN files : p \in Paths /\ files[p] \in Tables
  /\ clock \in Int
  /\ compaction \in Compactions
  /\ failures \in Nat

\* What a get that runs on its own finds for k now.
View(k) ==
  IF MemGet(mem, k) # None THEN MemGet(mem, k) ELSE SearchLevels(files, manifest.mem, k)

\* The engine finds for every key what the last put, delete or batch_put under
\* the MemTable's lock wrote: "The value associated with the key." (engine.py),
\* of those compact merges "the one from the most recent SSTable"
\* (compaction.py). It is false while compact removes its inputs.
NeverStale == \A k \in Keys : View(k) = applied[k]

\* No write is lost and no old value comes back while buffers rotate, are
\* flushed, cleared and compacted, except while compact takes its inputs out
\* of the manifest.
ViewConsistent == ~CompactAt("removing") => NeverStale

\* A buffer leaves the frozen queue only when all of its data is in files that
\* the manifest on disk names, its own or the one a compaction has merged that
\* into: two flushes never write the same head and then clear different
\* buffers (the reason flush gives for _flush_lock).
DurableBeforeCleared ==
  [][Len(mem'.frozen) < Len(mem.frozen) =>
       \A k \in DOMAIN FrozenItems(mem) :
         \E l \in Levels : \E e \in manifest.disk[l] :
           Holds(files, e.path, k) /\ files[e.path][k] = FrozenItems(mem)[k]]_vars

\* Every buffer in the queue is owed a flush: a thread that has been or is
\* about to be started, or the one at work (no flush has failed).
FlushOwed ==
  failures = 0 =>
    Len(mem.frozen) <=
      spawned + Cardinality({t \in Writers : WriterAt(t, "spawn")})
        + (IF flush.pc \in {"taken", "written", "installed", "saved"} THEN 1 ELSE 0)

\* What a client sees of a stored value: delete's marker is no value.
Visible(v) == IF v = Tombstone THEN None ELSE v

\* The write t has called and that is not in the MemTable yet. Only a batch
\* that is still being measured can be refused.
PendingWrite(t) ==
  LET pairs == IF writer[t].pc \in {"put", "delete", "measuring", "batch"}
               THEN writer[t].pairs ELSE <<>>
  IN [effect  |-> [k \in BatchKeys(pairs) |-> Visible(BatchValue(pairs, k))],
      mayFail |-> WriterAt(t, "measuring")]

Reading(r) ==
  [pc     |-> IF reader[r].pc \in {"missed", "probing", "found"} THEN "busy" ELSE reader[r].pc,
   key    |-> reader[r].key,
   seen   |-> {Visible(v) : v \in reader[r].seen},
   result |-> Visible(reader[r].result)]

Store == INSTANCE KVStore WITH
  Missing <- None,
  store   <- [k \in Keys |-> Visible(View(k))],
  pending <- [t \in Writers |-> PendingWrite(t)],
  reading <- [r \in Readers |-> Reading(r)]

\* The engine implements the store its clients expect: rotations, flushes and
\* compactions change nothing they can see; each put and delete takes effect
\* once, and each batch once and whole, or never when it is refused.
ImplementsKVStore == Store!Spec

\* Buffers do not stay in the queue for ever.
FrozenDrains == mem.frozen # <<>> ~> mem.frozen = <<>>

\* flush_all returns.
FlushAllTerminates == flushAll = "looping" ~> flushAll = "done"
=============================================================================
