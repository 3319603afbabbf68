# logvine: a TLA+ development

logvine is a key-value store: an LSM storage engine (write-ahead log, MemTable,
SSTables, manifest, compaction) behind an asyncio TCP server, with a client for it. The
modules in this directory model the engine and the parts it is made of, its crashes and
restarts, the requests the server answers and the client that sends them, as the code
under `src/src` has them; TLC checks them on small instances and TLAPS proves the main
results for every value of the constants.

Contents: [the system](#the-system), [the modules](#the-modules),
[the runs](#the-runs), [disagreements](#where-code-and-documentation-disagree),
[bounds](#bounds), [fairness](#fairness), [proofs](#proofs),
[what is left out](#what-is-left-out), [plan](#plan).

## The system

| Component | State | Operations | Talks to |
|---|---|---|---|
| MemTable lock (`memtable.py:35-63`) | `_read_lock`, `_write_lock`, `_read_count` | `_acquire_read`, `_release_read`, `_acquire_write`, `_release_write` | every MemTable method, `engine.put`, `engine.batch_put` |
| MemTable (`memtable.py`) | `_data`, `_current_size`, `_max_wal_offset`, `_frozen_queue` | put, delete, get, get_range, rotate, clear_frozen, get_frozen_items, get_max_wal_offset_frozen, batch_would_exceed, iter_sorted | the engine |
| WAL (`wal.py`) | the file `wal.log`, the append handle `file`, its position | open, append, append_batch, truncate_upto, replay, close | the engine: writers append, flush truncates, start-up replays |
| SSTable (`sstable.py`) | one file, its index once loaded | write, get, range_scan, iter_items | flush and compact write, readers and compact read |
| Manifest (`manifest.py`) | `_levels` in memory, `manifest.json` on disk, `_version` | add_sstable, remove_sstable, save, load, iter_levels | flush, compact, SSTableManager |
| SSTableManager (`sstable_manager.py`) | none of its own | get, iter_sstable_metadata, get_overlapping_sstables, build_metadata | manifest and SSTables |
| CompactionManager (`compaction.py`) | `_compaction_in_progress`, the locals of the running thread | may_start_compaction, compact, merge_sstables | started by flush; manifest and SSTables |
| LSMStorageEngine (`engine.py`) | the above, `_flush_lock`, one thread per rotation | put, get, delete, read_key_range, batch_put, flush, flush_all, replay_wal | everything above |
| Operations (`operations.py`) | none | one class per request: parse, execute, format | one engine call each |
| Controller, server (`controller.py`, `server.py`) | one task per connection; a semaphore | handle_client, handle_request, _stream_response, start, stop | operations, engine, client |
| Client (`client.py`) | `reader`, `writer`, `_io_lock` | connect, disconnect, put, get, delete, batch_put, read_key_range | server |

**What is hard here.** The engine is called by several threads and starts more: each
rotation starts a flush thread, a flush may start a compaction thread. There is no
lock around an operation: `put` appends to the log, then takes the MemTable's lock, then
starts a thread, and anything can happen between. A get or a range searches MemTable and
SSTables in separate steps over files that flush adds and compact unlinks. A flush is a
sequence of file and memory operations, each of which may raise into an `except` that
takes none of them back. The log is truncated by offsets that were taken before, perhaps
in a different file. A crash can fall between any two of these, or in the middle of a
write to the log. The MemTable's reader-writer lock is made by hand from two plain locks.
The client's answers carry no identifier: which call a line belongs to rests on the order
of one connection, which tasks share under a lock, which may be cut, and which a range
reads lazily while its consumer does other things.

**What makes each component correct.**

- *MemTable lock*: a writer is alone; nobody frees a lock a writer holds; it cannot deadlock.
- *MemTable, manifest, compaction, flush together*: what a get finds is what was written
  last, at every moment of every rotation, flush and merge, and also when file operations fail.
- *Flush*: a buffer leaves memory only when disk has it; every full buffer is flushed in the end.
- *Compaction*: no entry names a file that is gone; nothing is removed before its merged
  copy is named; the heap yields each key once, with its newest value.
- *WAL*: what is not yet in SSTables is replayed after a crash, in order and once.
- *Restart*: the new process finds every write that has returned, whichever step the crash fell upon.
- *Engine*: a linearizable map from keys to values, batches atomic; a range finds for each key
  a value it had during the range.
- *Server and client*, given an engine that is such a map: a write that is acknowledged took effect; a
  range that ends normally is the store at one moment (the engine's own ranges are less than that, see
  `RangesAreRegular`); every call ends; through the network the store is still that map.

The hazards, each at its line with the properties aimed at it, are in `PROJECT.json`.

## The modules

`A <- B` says that B extends A.

```
RWLock <- RWLockProofs               (justifies the atomic steps of Engine)

MemTable <- Manifest <- Compaction <- Engine <- Durability <- Recovery
                        Compaction <- Merge
                           WALFile <- Engine <- Ranges
                           WALFile <- WAL <- WALProofs
Operations <- Session <- SessionProofs

KVStore                              (instantiated by Engine and by Session)

Engine <- EngineProofs <- FlushProofs <- StoreProofs
                        Ranges, Merge <- StoreProofs
                             Recovery <- RecoveryProofs
                          FlushProofs <- RecoveryProofs

WALFile <- FoldLemmas                (extended by EngineProofs, SessionProofs and WALProofs)
```

- **RWLock** - `_acquire_read`, `_release_read`, `_acquire_write`, `_release_write`, one
  action for each point where a thread can block or be interrupted. The lock holds a
  thread, `Readers` (the write lock held for all readers) or `Nobody`; a release does
  not ask who holds it, as Python's does not.
- **MemTable** - the MemTable's state as a record, its methods as operators. Because a
  writer is alone in it (`MutualExclusionHolds`), a section under the lock is one step
  wherever these are used. `put` under the lock is `PutUnlocked`, the offset, and the rotation
  when full, together.
- **Manifest** - the manifest as a pair of what is in memory and what is on disk, the
  SSTable files as a function from paths to tables, and the newest-first search. A level is a
  set of entries: every search sorts by `created_at_ms` and path. A path is a level and a time:
  that is what the file names are made of, and `open("wb")` on an existing one replaces it.
- **Compaction** - `may_start_compaction` and the compaction thread: snapshot, merge and write,
  install, remove the inputs one manifest save at a time, unlink them one by one; every
  operation that can raise also has an action in which it does. `merge_sstables` is what it
  yields (`MergeTables`), in one step, since its inputs are immutable files that only this
  thread unlinks.
- **Merge** - `merge_sstables` as the code has it: a heap of (key, index of the input), the
  push of each input's next item, the loop that skips a key it has just yielded. In every
  state where compact is about to merge, `MergeKeepsNewest` compares what the loop yields with `MergeTables`.
- **WALFile** - the log file as a sequence of cells, the append handle's relation to it
  (`closed`, `attached`, `detached`), what `tell` says and what a failed write has left in
  the handle's buffer; `truncate_upto` with both of its branches; torn writes; `replay` with
  its stop at an incomplete record and the case where it raises. Two cells of one record
  tell apart an offset that falls between records from one inside a record.
- **WAL** - the log alone under appends, batches, appends that raise, truncations, crashes in
  the middle of a write and restarts.
- **Engine** - the whole of `put`, `delete`, `batch_put`, `get`, `flush`, `flush_all` and the
  flush threads, composed with Compaction and WALFile. Each writer, reader, the holder of
  `_flush_lock` and the compactor has a program counter; a step is what
  happens between two points where another thread can come in.
  `applied` and a reader's `seen` are history.
- **Ranges** - Engine with `read_key_range`: the MemTable's rows first, then a snapshot of
  the levels, then each SSTable of it, whose file is opened once for the index and again for
  the values. A range that is under way is witness to every state of the store (`views`).
- **KVStore** - what a client is promised: each put and delete takes effect once, at one moment between call and
  return; a batch does as a whole, or is refused before it is logged and never does; a get returns a value
  current at some moment of it. A write that is not allowed to fail cannot end without effect. Engine
  implements it under the mapping at the end of `Engine.tla` (`ImplementsKVStore`): the store is
  what a search would find now, a write is pending until its step under the lock. Session
  implements it too; there any call may fail, since a connection may, so that a write takes effect once or never.
- **Durability** - what a new process would find if this one ended now, computed from the log
  and the manifest on disk in any state of Engine; and what a truncation of the log may drop.
- **Recovery** - Engine over several lives: a crash at any step, and in the middle of a write
  to the log of one record or a batch; the new engine starts from what Durability computes, with one
  MemTable made of the whole log, and goes on with writes, flushes and compactions.
- **Operations** - the requests: what each is refused for, what it does to the store, the lines
  it answers. `Served` and `Failed` are `handle_request` without and with an exception, the
  stream of a range cut into chunks and ended by "done" or "terminated".
- **Session** - tasks that share clients, and the server's task for each connection. A step is what a
  task does up to an await that may suspend it. A call looks for a connection, waits for `_io_lock` (which asyncio
  hands over in order), writes its request to whatever connection the client has then, and
  takes the next line for its own; a range is read lazily. Calls may be cancelled and ranges left, a
  client disconnected and connected again between any two steps, a line too long for `readline`.
- **MCEngine**, **MCMerge**, **MCRanges**, **MCRecovery**, **MCSession**, **MCWAL** - the definitions the
  configurations give to constants.
- **EngineProofs**, **FlushProofs**, **StoreProofs**, **RecoveryProofs**, **RWLockProofs**,
  **SessionProofs**, **WALProofs**, **FoldLemmas** - see [Proofs](#proofs).

How state corresponds to the code: `mem` is `engine.memtable`; `wal` is `engine.wal` with
`wal.log`; `manifest` is `engine.manifest` with `manifest.json`; `files` is the SSTable directory;
`flush` holds the locals of `flush` while `_flush_lock` is taken; `spawned` counts flush threads that
wait for it; `compaction` holds the locals of `compact`, `pc # "idle"` being
`_compaction_in_progress`; `range` the locals of `read_key_range`. In Session, `lock[c]` is
`_io_lock` of a client with those who wait, `linked` and `gen` are `self.writer`, `conn` is a
connection's two directions and what is left of the answer the server is streaming, `versions`
the engine's store with its history: Session takes the engine as an atomic map. `PROJECT.json` maps every definition to its lines.

Choices that a reader of the code may wonder about:

- A WAL record is a key and a value; a DELETE is a value `Tombstone`, since replaying either
  puts that value into the MemTable.
- `FlushTake` reads head and offset of the queue in one step although the code calls `get_frozen_items` and
  `get_max_wal_offset_frozen` at different moments, without any lock (`memtable.py:247-265`): only the holder of
  `_flush_lock` takes the head off, and nobody changes a buffer that is in the queue.
- `build_metadata` raises for an SSTable without keys. A flush never writes one, and compact's
  inputs exist (`NoDanglingEntry`) and hold keys, so that this is not reached.
- The key range kept with a manifest entry only skips files that cannot hold a key. It is left out,
  for gets and for ranges.
- The manifest and a truncated log are replaced by a rename, and an SSTable is named by no
  manifest before it is written: a crash inside one of these leaves what one before or after it does.
- `handle_request` executes an operation without an await, so that the server's part of a put, get,
  delete or batch is one step; a range's rows are read at its first `next`, without an await too, and
  streamed in later steps. The semaphore is taken and given back within that step and never waited for.
- The history variable `applied` changes where the write takes effect, under the lock.
- In a module, an operator whose comment starts with *Mutant* is a plausible mistake in the definition
  that follows it. It is used by no action; replacing the definition by it must break the property
  `PROJECT.json` names, which shows that the property is about the code.

## The runs

Each passing run explores all states of its instance.

| Run | Instance | Shows |
|---|---|---|
| `RWLock` | 4 threads, each reading or writing at will | `MutualExclusion`, `NoStolenWriteLock`: a writer is alone and keeps its lock. `SomebodyGetsIn`: while threads wait, somebody gets in, so that the two locks cannot deadlock; this says nothing of a writer that overlapping readers starve. |
| `EngineWrites` | 2 writers, puts and deletes, flushes, flush_all | `ImplementsKVStore`: each put and delete takes effect once, between its call and its return. `FlushOwed`: a full buffer always has a flush coming. `FrozenDrains`, `FlushAllTerminates`: the queue empties and flush_all returns. |
| `EngineMerges` | 2 writers, puts, deletes and batches (also refused ones), every flush may start a compaction, one file operation that raises anywhere but in a removal | `ViewConsistent`: nothing lost or resurrected while merges overlap writes and flushes, except during the removals. `MergeKeepsNewest`: the heap loop yields each key once, in order, with its newest value. `DurableBeforeCleared`: a buffer is dropped only when the saved manifest names its data. |
| `EngineRanges` | 1 writer with batches (also refused ones), 1 reader that gets or ranges, flushes | `ImplementsKVStore`: a multi-step get returns a current value; a batch takes effect once and whole, or never when it is refused before it is logged. `RangesAreRegular`: a range that returns has, for each of its keys, a value the key had during the range. |
| `EngineFailures` | 1 writer, flushes, compaction, one file operation that raises anywhere | `NoDanglingEntry`: memory's and disk's manifest name existing files. `SupersededBeforeRemoved`: an SSTable leaves the saved manifest only when its merged copy is there, tombstones too. `FlushAllTerminates`: flush_all tries again and gets through. |
| `WAL` | 5 records, batches of 2, appends that raise, 2 crashes | `ReplayInOrder`: never twice, never out of order, whatever offsets truncation got. `NoLossWithoutDamage`: without a torn write or a stale offset, all records no truncation covers are replayed. `OffsetIsWhereRecordIs`: the offset `append` returns points at its record, the one `append_batch` returns at its last record. |
| `Recovery` | 1 writer, puts, deletes and a batch, flushes, compaction, 2 crashes anywhere | `RestartKeepsWrites`: the new engine finds every write that has returned and a prefix of the one under way. `ViewConsistent`: what has been replayed stays right under the new process's flushes and merges. `TruncationLosesNothing`: what a flush cuts off the log is in saved SSTables or overridden. |
| `Session` | 2 clients on up to 3 connections, 3 tasks, one of them writing batches; 2 faults | `AcknowledgedWritesTookEffect`: "success" is never another call's answer. `RangesAreSnapshots`: a range that ends normally is one moment of the store, in order, however it was streamed, the engine being an atomic map (its own ranges are not, beside a flush or a compaction). `EveryCallEnds`. `ImplementsKVStore`: the store seen through the network. |

`TypeOK` is checked in one run of each state machine.
`ImplementsKVStore` is the refinement: the property is `KVStore`'s `Spec`, instantiated.

`RestartKeepsWrites` excepts three cases, each a behaviour of the code that loses writes: a process whose
log has *strayed* from `wal.log` (see `EngineDetached`), one that goes on behind a torn record,
and a crash while compact takes its inputs out of the manifest, which `ViewConsistent` excepts too (see below).
The properties of Session except calls after one that was cut short on the same connection (`clean`; see
`SessionAbandoned`).

Deadlock checking is off where the system stops by itself: after `MaxCalls` calls
and with its queues empty, the engine has nothing to do, a WAL may be at its last crash, and
clients' calls may all have ended. `RWLock` is checked for deadlock.

### Where code and documentation disagree

Each of these runs checks one property that the code's own words state and that TLC finds violated. The
passing runs state what does hold next to it.

| Run | What TLC shows | What holds instead |
|---|---|---|
| `EngineExactBatch` | A batch of exactly `max_size` rotates an empty buffer; flush returns on the empty head without taking it off, for ever. | Without batches of that size, `FlushAllTerminates`; without a rotation of an empty buffer, `EveryBufferIsOwed`. |
| `EngineDetached` | `truncate_upto` renames a new file over `wal.log`; the append handle stays on the old one, and a crash loses what is appended from then on. | `RestartKeepsWrites`, until then. |
| `RangesCompacted` | A range has taken its snapshot of the levels; compact unlinks an input; `_load_index` makes an empty index of the missing file, and the range returns normally without rows. | Without compaction, `RangesAreRegular`. |
| `SessionAbandoned` | A range is left half-way and gives `_io_lock` back with the rest of its stream on the connection; the next range takes that for its answer. | `RangesAreSnapshots`, on a connection nobody has left half-way. |

**"Compaction incorrectly deletes some entries".** `CONCURRENCY_FIX_NOTES.md:64-69` says that when compaction
merges level 0 some data is lost, and `test_flush_rotate_race.py:33-35` and `131-133` switch compaction off for "a separate
read-path/data-loss bug under investigation". The checks place it: the merge deletes nothing, the readers beside it miss data.

- That `merge_sstables` and `compact` keep every entry is what `MergeKeepsNewest`, `SupersededBeforeRemoved` and
  `ViewConsistent` say: the loop yields each key of its inputs, an input leaves the manifest only when the merged copy is
  in it, and once the removals are over a search finds the last write of every key. TLC finds no exception with
  compactions beside two writers and flushes (`EngineMerges`), and the theorems have none for any number of threads,
  keys and files. They assume a clock that advances between two files and no removal whose save raises.
- A get or range that has its snapshot of the levels before compact unlinks the inputs finds them missing, and
  `_load_index` makes an empty index of a missing file: get raises `KeyError` for a key that has had a value all
  along, a range returns without its rows (`RangesCompacted`). To a caller that is what a deleted entry looks like.
- During the removals a search finds older values (`NeverStale` is false), for good if one raises or the process ends there.
- Outside the assumptions entries can be lost on disk: two flushes in the same millisecond write to one path, the second
  over the first, which many threads with a small MemTable come near.

Met while modelling, in the model, and not given a run of their own:

- *Compaction.* compact removes its inputs newest first, one save each; in between, an older value is found
  (`NeverStale`, which `ViewConsistent` claims outside the removals; with `EngineFailures`' threshold of 1, three
  calls are enough). When a save of these raises or a crash falls there, that remains so. A get that has found a key in
  an index whose file is then unlinked raises FileNotFoundError; a range does as well. With a compaction
  `ImplementsKVStore` is false, for these reasons and that of `RangesCompacted`.
- *Two writers* can log in one order and apply in the other; the flush of the buffer that was applied first then
  truncates the other's record, which is in no SSTable: `TruncationLosesNothing` is false with two writers and two calls.
- *Offset of a batch.* `append_batch` documents its result as "The byte offset in the WAL file where this batch was written."
  (`wal.py:229`); the code returns the offset of the batch's *last* record (`wal.py:251-262`), and of an empty batch the
  handle's position. `batch_put` keeps what it gets as the buffer's offset, and a truncation to it cuts off all but the last
  record of the batch, whose data the flush has saved. The log truncated to the documented offset would keep the whole
  batch and lose nothing either. The model and `OffsetIsWhereRecordIs` have what the code does.
- *Batches.* A range that runs beside a flush may have half of a batch, and a crash in the middle of the write to the log
  leaves a prefix of one, although `batch_put` is called atomic. The server does not check the keys of a
  batch: the empty one, which put and get refuse, can be written.
- *The log.* An incomplete record stays in the file (`wal.py:115`), and what is appended after a restart comes behind it
  and is not replayed. One to three bytes of a torn length prefix make `replay` raise, so that the engine does not
  start (`running` in WAL, `up` in Recovery). After the file was emptied through another handle, `tell` of
  the append handle is not where the record goes (`"emptied"`); the engine gets there only by an empty batch, whose
  offset is the end of the file.
- *Files.* Two flushes in one millisecond write to the same path (`ClockSteps = {0, 1}` allows it). A crash
  between the write of an SSTable and the save of the manifest leaves a file that nobody removes.
- *delete* never looks whether the buffer is full.
- *Client.* A call that waits for the lock does not look again whether there is a connection. A range whose client is
  disconnected and connected between two chunks waits for ever on a connection it has asked nothing
  of (`Stray`), and keeps the lock. A line over 64 KiB, which a chunk of 100 rows may be, makes `readline` raise and
  may leave its tail to be read as the next line.

Through the server the engine is called from one event loop thread, which runs one call at a time;
flush and compaction threads still run beside it. Several writers at once is what the
engine's locks, its tests (`test_concurrency.py`, `test_flush_rotate_race.py`) and its docstrings are about.

## Bounds

| Bound | Value | Why it is enough |
|---|---|---|
| `MaxCalls` | 3 (2 in `EngineExactBatch`) | With the `MaxSize` below, up to three rotations: two flushes and a write or a third flush beside the compaction they start. |
| `MaxSize` | 2 (3 in `EngineRanges`, 5 in `EngineExactBatch`) | Values have one byte and two. With 2, a put of `v2` fills the buffer at once and one of `v1` leaves room for a second; with 3, a batch fits or is too large. |
| `Keys`, `Values` | 2 and 2 (one value in `EngineFailures`) | A key that is overwritten and one that is not; stale against current. |
| `Writers`, `Readers` | 2 and 0, or 1 and at most 1 | Two writers reach log and MemTable in either order; a get or a range is one reader's search against everything else. |
| `Batches` | `SmallBatches`, `OneBatch`, `ExactBatches` or none | One that fits and one that is too large unless the keys it overwrites make room; one to be cut short by a crash; one of exactly `MaxSize`. |
| `MaxFailures` | 1 in `EngineFailures` and `EngineMerges`, else 0 | One failure at any step, and all that follows from it: a flush of a buffer that is already in an SSTable, a merge of files left by a failed one. |
| `ClockSteps` | {1} | The clock advances between two readings; the theorems assume the same. |
| `RecordLen` | 1 in Engine, 2 in WAL and Recovery | Engine's offsets fall between records; a crash or a truncation may fall inside one. |
| `MaxRecords`, `MaxCrashes` | 5 and 2 | A truncation, a crash, a restart, more appends and a second truncation and crash. |
| `TornPairs` | one put | The puts and deletes whose record a crash may cut short in Recovery: parts of any two are alike. The theorems have any set of them. |
| `L0Threshold` | 0 in `EngineMerges`, 1 in `EngineFailures` and `Recovery`, 2 in `RangesCompacted` and `EngineExactBatch`, 9 elsewhere | With 0 each flush may start a compaction, so that the merge of one file runs beside the writes and flushes of the second and third, and later merges meet level 1; with 1 two files are merged beside a third; with 9 compaction is off, where the property is violated by it (see above) or not about it. |
| `MergesNext` (`EngineMerges`) | no removal raises, no flush_all | After a failed removal older inputs stay in front of the merged file for good, which is not about merging. flush_all flushes as the flush threads do. (A batch of exactly `MaxSize` may block the queue here, as in `EngineExactBatch`, which these properties allow.) |
| `Spans` | all keys | A range over a key in the MemTable and one in a file, in either state. |
| `ChunkSize` | 1 | A range of two rows is two chunks and "done". |
| `MaxConnects` | 2 for the shared client, 1 for the other | A client that is disconnected and connected again under a call. |
| `MaxFaults` | 2 | Two of: a call cancelled or a range left, a disconnect, a line too long in either direction, an exception of the engine. |

In Session each task makes one call: a range, a put or a get of two tasks that share a client, a batch or
delete of the third. Two calls of one task in a row are two tasks of which one starts later.

## Fairness

Engine's `FairSpec` assumes weak fairness of: each writer's return from a call it has made (a running
thread goes on; nothing in `put` waits for ever, by `SomebodyGetsIn`), the flusher as a whole
(started threads run, and `_flush_lock`, when free, goes to somebody), the loop of
`flush_all`, and the compaction thread. Nothing is assumed of *which* flusher gets the lock, of clients making calls, or of a
reader going on. `RWLock` assumes that a thread that is not blocked takes its next step, and nothing about
who gets a contended lock: `threading.Lock` has no queue. Session's `FairSpec` assumes that the event loops run each
task that can run, client's and server's, and that the consumer of a range asks for its next row by
itself; it assumes no connect, no fault, and no order between tasks but that of `asyncio.Lock`, which is first come,
first served. An instance of Engine with readers or crashes is checked for safety only.

## Proofs

**The lock** (`RWLockProofs`, for every finite set of threads): `TypeCorrect`, `MutualExclusionHolds` and
`WriteLockNotStolen`. Type correctness is not inductive alone, since `_read_count` could go below zero; the
invariant says that `_read_count` is the number of readers that have entered and not left, at which steps a thread
holds `_read_lock`, and that `_write_lock` is the writer's while it writes and the readers' while one of them is
inside or about to release it. The action property
follows from that invariant: only the last reader out releases `_write_lock`, and then it is the readers'.

**The view** (`EngineProofs`, whose first part is facts on tables, queues and searches):
`ViewStaysConsistent`: for any number of writers, readers, flush threads, keys, values, batches and
thresholds, with a flush or compact step failing anywhere but in compact's removals, a search finds the last
write of every key, except while compact removes its inputs. Assumptions: the constants' own
(`ValueAssumption`, `SizeAssumption`, `CompactionAssumption`, `EngineAssumption`), `ClockAdvances`
(the clock is later at each reading than at the one before: otherwise two files can share a path, or the wrong
one counts as the newest), and that no removal's save raises, after which the older inputs stay in front for good.

`ViewConsistent` is not inductive. `IInv` is, and is a conjunction of named parts:

- `Shapes` - what the argument needs of the types;
- `LevelsOK` - entries of a level have different times, all in the past, and, on level 0, different paths,
  so that "newest" is well defined and a new file is always the newest;
- `CompactionOK` - what compact has read is the *older* part of level 0 until it is installed, its merged
  file says what they say, and afterwards nothing else names its inputs;
- `FlushOK` - the head of the queue is the buffer the flush took, until the flush itself clears it; its
  file holds the same; from its installation to the truncation of the log, a search of the SSTables finds that very data;
- `NothingLost` - buffers first, then the SSTables *that count* (`Upper`: level 0 without the inputs once
  the merged file is installed), hold what was written last.

The proof has one lemma for each action that changes a part, each with one step per part, a lemma for the steps that
change none, and a final step that combines them with `PTL`. That merging keeps what a search finds
(`MergeTables` in level 1 says the same as the inputs in level 0) is the center of it, and
needs that the inputs are older than the rest of level 0 and newer than level 1.

The last part of `EngineProofs` is `TypeCorrect` (`TypeOK`), from the constants' assumptions alone: no clock that advances,
and any failure. `TInv` adds to `TypeOK` that a put or delete under way has its one pair, whose key and value the steps
after it read. Offsets and batch sizes are folds, whose types are facts of `FoldLemmas`.

**The disk** (`FlushProofs`, under the same assumptions): `NoEntryDangles` (`NoDanglingEntry`), `SupersededFirst`
(`SupersededBeforeRemoved`) and `DurableFirst` (`DurableBeforeCleared`). The manifest on disk lags behind the one in memory
after a save that raised, so that each statement about the disk rests on one about memory. `DInv` adds to `IInv`:
`DiskBehind`, the disk's levels are part of memory's; `Named`, each entry in memory has its file; `MergedBelow`, while compact
removes its inputs, each key of those that are left is in a file the *saved* level 1 names; `FlushedOnDisk`, from its save on,
the flush's pairs are in files the saved manifest names. All actions are shown to keep to a few facts
(`DiskStep`: files that are named stay as they are, an entry is added only for a file that is there, only compact removes,
a save saves everything), and the invariant and the action properties follow from these.

**The queue** (`FlushProofs` too): `EveryBufferIsOwed` (`FlushOwed`): for any finite set of writers, the buffers in the
queue are never more than the threads on their way to flush one, until a file operation fails. `QInv` adds that no buffer in
the queue is empty, since flush leaves an empty head where it is and its thread ends without a clear. That part needs an
assumption, `NoEmptyRotation`, that no batch rotates an empty buffer; `EngineExactBatch` is what happens when one does.

**The store** (`StoreProofs`): `EngineIsAStore` (`ImplementsKVStore`): while no compaction starts, which is what
`EngineWrites` and `EngineRanges` check on small instances, the engine refines `KVStore`, with any file operation of a
flush failing and no assumption but the clock's. By `IInv` the abstract store is what was applied last, so that a write is
one step of it, the rotation and the flush none. What the mapping says of a get needs `RInv`: of a reader that has
looked in the MemTable, that every value of its key in a buffer or on disk, and so whatever a flush brings there before the
snapshot, has been current since its call; of one that has its snapshot, that the search of what is left of it will
end with such a value, and that the file it is about to open a second time still holds the key. The lemmas go action by action:
first `RInv`, then the step of `KVStore` each one stands for. With compactions it is false as it stands: see
*Compaction* under [where code and documentation disagree](#where-code-and-documentation-disagree).

**Ranges** (`StoreProofs` too, under the same assumptions): `RangesAreRegularHold` (`RangesAreRegular`) and
`EngineWithRangesIsAStore` (`ImplementsKVStore` of the engine with ranges under way). `RgInv` is `RInv` for each key of the span
that the range has not found yet, the values current since the call being those in `views`: before its snapshot, any of
them may be in a buffer, and so on disk when the snapshot is taken; after it, the search of what is left ends with one of them;
and the index it has loaded is what the file still holds when it is opened again. What a step of the engine may bring to a
buffer or to disk (`Brings`) is one lemma for all of its actions.

**The merge** (`StoreProofs`): `MergesKeepNewest` (`MergeKeepsNewest`), from the constants' own assumptions alone: neither the
clock nor a failed removal matters, since the loop is compared with a search of the same list. `Looping` is the loop's invariant:
the heap and `rest` are the inputs without the items that have been popped; no key that is gone comes after one that is left;
`last_key` is the last that is gone; and each key gone has been yielded once, in order, from the first input that had it. A round keeps
it because what it pops is the first of what is left, and with equal keys the one of the newest input, so that a key is skipped
exactly when an earlier input has had it. Each round leaves one item less (`OneLess`), so that the rounds end with
none. A set of SSTables and the keys of a file are put in order by a `CHOOSE`, which is the sequence
it should be because a finite set has one enumeration in a strict order (`FoldLemmas`). "Newest" is one on the lists
compact may read, which is `UpperLists`: level 0 is finite and has files of level 0 only.

**The session** (`SessionProofs`, whose first part is facts on requests, their answers and the rows of a range): `TypeCorrect` (`TypeOK`), `AcknowledgedWritesHold` (`AcknowledgedWritesTookEffect`),
`RangesAreSnapshotsHold` (`RangesAreSnapshots`) and `SessionIsAStore` (`ImplementsKVStore`), for any clients, connections, tasks,
requests, chunk size and number of faults, from `SessionAssumption` alone. An answer names neither its
call nor its request, so that each of these rests on where every request and every line is. `SInv` is a conjunction of

- `Typed` - what the argument needs of the types;
- `Asked` - a task that has not begun has no call, one that waits has read nothing, only a range is left half-way;
- `Queued` - the queue of `_io_lock` holds each call under way once, and only the one at its head reads;
- `Numbered`, `Gone` - a connection open at the client is its latest, and one the client has closed carries nothing to it:
  what a call reads can only have come on the connection its client has now;
- `Timed` - a call begins and ends at versions the store has had;
- `Once` - a request is on one connection, once, and its call has left the queue's tail;
- `Owned` - what a connection carries on which no call was cut short belongs to the one call that reads from it, and a request
  that has not been served is alone there;
- `Answered` - the lines that have arrived on it and those still to come are what is left of an answer that call may
  get: a "success" only if the store had the write's effect since the call began, a range's chunks from where it is up to "done",
  all of one version;
- `Confirmed` - what a call returned was so in one version of the store during it.

`Owned` and `Answered` are what the code has in place of identifiers in its answers: lose either, and a line may be taken
for another call's. Actions that change one connection or one call are shown to keep the invariant by lemmas about changes of
that form. The refinement holds a write pending until the server has executed it, and each action is a step of
`KVStore` or none, by the parts above. A batch, which is a fold, and the sorted rows of a range are reasoned about by what they
come to, and the fold's result is found by a minimal counterexample, not by an induction theorem.

**The log** (`WALProofs`): `TypeCorrect` (`TypeOK`), `ReplaysInOrder` (`ReplayInOrder`), `NothingIsLost`
(`NoLossWithoutDamage`) and `OffsetsAreRight` (`OffsetIsWhereRecordIs`), for records of any lengths and any number of
them and of crashes, from `WALAssumption` alone. `IInv` is about the log there will be once the handle has written
what it holds (`Log`: the file and the handle's buffer):

- `LogInv` - its cells are in the order of records and parts (`Ordered`). A truncation at a wrong offset and a torn write leave a part of
  an ordered log, and so an ordered one: replay's order needs no more;
- `HandleInv` - until the file is emptied under it, the handle's position is the length of that log;
- `OffsetInv` - until the handle loses the file, each offset this process knows is where its record's first cell is;
- `WrittenInv` - undamaged, the log is a chain of whole records that has the last cell of every record a truncation has not
  covered: a truncation to the offset of `r` drops, by the order, no cell of `r` or of a later record.

`ReplayIs` (in `FoldLemmas`) says what replay's recursion yields, the records that are complete within the well-formed prefix at the cells
where they end. A recursion over data cannot be reasoned about by the library's induction theorems here; `FoldLemmas` states induction on
Nat for a *set* of numbers (`AllNaturals`), and that a fold or a recursive function has a solution (`FoldExists`, `RecursionExists`) with
the step given as a function, so that the `CHOOSE` it is defined by can be unfolded.

**Restarts** (`RecoveryProofs`): `ViewOutlivesCrashes` (`ViewConsistent` under `RecoverySpec`), `NoWriteLostInCrash`
(`RestartKeepsWrites`) and `TruncationIsSafe` (`TruncationLosesNothing`), for any number of crashes and any set of writes they may cut short, under the assumptions of the view. A
step of Recovery is one of Engine, whose invariants are used as they are, or a crash; that a crash restores `TInv`, `IInv` and `DInv`
together is what the first adds: the new process loads the levels from disk, so that `DInv` is needed for its manifest
to name files that exist and to hold them in the right order, and its MemTable is what replay yields of a log of any cells, so that
offset and size have their types.

The other two have two assumptions more. `OneWriter`: with two that log in one order and apply in the other it is false (see
*Two writers* above); the server calls the engine from one thread. `NonEmptyBatches`: the offset of an empty batch is the end of the
file, and a truncation to it empties the file under its handle, which then gives wrong offsets (`"emptied"` in WAL);
`BatchPutOperation.validate` refuses an empty batch.
What is invariant says of a log of any cells, torn ones included, how it stands to every buffer, flush and SSTable:

- `Legible` - a log that is read up to a tear and written behind it has a part that replay reads and a part that it will read once
  a truncation has cut off the tear: `W` is both. It stays so under appends, truncations to a record's offset and restarts;
- `Says` - the last record in `W` of each key says what was written last, or what the writer has logged and is about to apply;
- `Covers` - `W` has a record of every key in any buffer. `OffsetsHold`: after a truncation to the offset of a buffer, which is
  what its flush will do, there still is one for every key of the *later* buffers and of the write under way, and so it is for the
  offset a flush has kept after it has cleared its buffer. An offset is that of a record in `W`, or 0;
- `BreakOK` - where the file breaks off for good, what a process reads of it (`g` cells) is what the running one read when it
  started, or what a truncation has left of that: each buffer, and a flush until it has truncated, whose offset is among these cells
  has the last record there of every key, since it is the buffer replay filled, and what is written later goes behind the break;
- `HandleOK` - where the append handle is, that the flush's offset is the head's, and that a truncation that moves `wal.log` away
  from the handle is the last one this process's offsets are used for before it has strayed;
- `UnsavedOK` - an SSTable that a failed save left in the manifest in memory alone holds only keys of the buffer that it was made
  of, which is still the head of the queue, or of its inputs, which level 0 still names.

A key with no record in a log that replay reads to its end is in no buffer, by `Covers`, and then the SSTables of the manifest on disk
have its last write, by `UnsavedOK` and the engine's own invariant (`DiskSays`). A key with one is found by replay
(`RestartFinds`: of a log with part of a write behind it, replay yields the log's records and a prefix of the write's).

`TruncationIsSafe` says of each truncation that a process finds every write after it if it did before. When a process reads
the file that is left to its end, it finds every write, by the argument above (`ReadFindsAll`). When it does not, the cut is before the break
(`CutRead`: cut behind the break, what is left is whole records), and what is cut off of what a process reads has for each key either
a later record behind the cut or, by `BreakOK` and `FlushOK`, the same value in the saved SSTables (`CutFinds`). Only flush makes the
log shorter (`OnlyTruncation`).

**Only model-checked**: everything under fairness (`SomebodyGetsIn`, `FrozenDrains`, `FlushAllTerminates`,
`EveryCallEnds`), which is beyond the prover. Every invariant and every other action property of the passing runs is proved.

Checking: `tlc -config EngineWrites.cfg MCEngine` and alike, `tlapm WALProofs.tla`
(`SessionProofs.tla` and `RecoveryProofs.tla` take five minutes each). The longest runs are
`EngineRanges`, `EngineFailures` and `Session`, two to three minutes each with two workers.

## What is left out

- The byte layout of records and SSTables, checksums other than what tells a torn record, the sparse details
  of the index, logging; JSON, the conversion of bytes and text, and requests that are not JSON (which get an error as a
  refused one does).
- A log append that raises inside `put`: WAL has it, Engine does not. A first append that opens two handles, a
  clock that goes back.
- The tombstone marker written as a value by a client.
- `start` and `stop` of the server, its semaphore, and clients that pipeline requests by hand. `wait_closed` of a disconnect is
  part of its step, and a client connects again only when it has returned.
- A consumer of a range that calls the same client in its loop, which waits for itself (`client.py:114`).
- Configuration, demo, benchmarks and tests are not modelled. The demo, which is a script of calls, and the tests were read
  for what they promise; configuration is constants.

## Plan

Done: all modules above. What is left, in this order:

1. A log append that raises, in Engine and Recovery.
2. Nested calls of a consumer, and the server's stop with requests under way.
