------------------------------ MODULE MemTable ------------------------------
(***************************************************************************)
(* The MemTable (memtable.py) as operators on its state, a record           *)
(*                                                                         *)
(*   data     _data, the active buffer: a table, i.e. a function from the   *)
(*            keys it holds to the bytes stored for them                    *)
(*   size     _current_size                                                *)
(*   off      _max_wal_offset                                              *)
(*   frozen   _frozen_queue, oldest first: [data, off] buffers that wait    *)
(*            to be flushed                                                *)
(*                                                                         *)
(* Every method runs under the lock of RWLock, so a method, or a sequence  *)
(* of the _unlocked ones, is one step of the modules that use it.          *)
(***************************************************************************)
EXTENDS Integers, Sequences, FiniteSetsExt

CONSTANTS
  Keys,           \* the keys clients use
  Values,         \* the values they write
  Tombstone,      \* b"__TOMBSTONE__", what delete stores
  None,           \* no value: Python's None
  SizeOf(_),      \* len(value)
  MaxSize         \* max_size, LOGVINE_MEMTABLE_MAX_SIZE

\* What a table can hold for a key.
Stored == Values \cup {Tombstone}

ASSUME ValueAssumption == Tombstone \notin Values /\ None \notin Stored

ASSUME SizeAssumption ==
  /\ \A v \in Stored : SizeOf(v) \in Nat
  /\ MaxSize \in Nat \ {0}

\* A dict or a file: a partial function from keys to stored values.
Tables == UNION {[D -> Stored] : D \in SUBSET Keys}

EmptyTable == [k \in {} |-> Tombstone]

Buffers == [data : Tables, off : Nat]

MemTables == [data : Tables, size : Int, off : Nat, frozen : Seq(Buffers)]

NewMemTable == [data |-> EmptyTable, size |-> 0, off |-> 0, frozen |-> <<>>]

-----------------------------------------------------------------------------
(* Writing *)

\* The bytes a table already counts for key k.
HeldSize(t, k) == IF k \in DOMAIN t THEN SizeOf(t[k]) ELSE 0

PutUnlocked(m, k, v) ==
  [m EXCEPT !.size = @ - HeldSize(m.data, k) + SizeOf(v),
            !.data = [x \in DOMAIN m.data \cup {k} |-> IF x = k THEN v ELSE m.data[x]]]

\* A batch is a sequence of [key, value] pairs.
BatchKeys(pairs) == {pairs[i].key : i \in DOMAIN pairs}

\* The value the last pair with key k writes.
BatchValue(pairs, k) ==
  pairs[CHOOSE i \in DOMAIN pairs :
          /\ pairs[i].key = k
          /\ \A j \in DOMAIN pairs : j > i => pairs[j].key # k].value

\* _put_unlocked for each pair in order: the last pair of a key stays, and
\* what earlier pairs of the batch added to the size is taken off again.
PutAllUnlocked(m, pairs) ==
  LET ks == BatchKeys(pairs) IN
  [m EXCEPT !.size = @ + MapThenSumSet(
                           LAMBDA k : SizeOf(BatchValue(pairs, k)) - HeldSize(m.data, k), ks),
            !.data = [x \in DOMAIN m.data \cup ks |->
                        IF x \in ks THEN BatchValue(pairs, x) ELSE m.data[x]]]

\* set_max_wal_offset, and the line of engine.put that does the same.
RaiseOffset(m, o) == [m EXCEPT !.off = IF o > @ THEN o ELSE @]

IsFull(m) == m.size >= MaxSize

BatchWouldExceed(m, bytes) == m.size + bytes >= MaxSize

\* The active buffer, even an empty one, joins the queue with its WAL offset.
RotateUnlocked(m) ==
  [data |-> EmptyTable, size |-> 0, off |-> 0,
   frozen |-> Append(m.frozen, [data |-> m.data, off |-> m.off])]

-----------------------------------------------------------------------------
(* Flushing *)

\* get_frozen_items
FrozenItems(m) == IF m.frozen = <<>> THEN EmptyTable ELSE Head(m.frozen).data

\* Mutants: one less, and the offset of the active buffer.
FrozenOffsetBefore(m) == IF m.frozen = <<>> THEN 0 ELSE Head(m.frozen).off - 1

FrozenOffsetActive(m) == m.off

\* get_max_wal_offset_frozen
FrozenOffset(m) == IF m.frozen = <<>> THEN 0 ELSE Head(m.frozen).off

ClearFrozen(m) == IF m.frozen = <<>> THEN m ELSE [m EXCEPT !.frozen = Tail(@)]

-----------------------------------------------------------------------------
(* Reading *)

\* The position of the newest buffer of the queue that holds k, if any does.
NewestHolder(q, k) ==
  {i \in DOMAIN q : /\ k \in DOMAIN q[i].data
                    /\ \A j \in DOMAIN q : j > i => k \notin DOMAIN q[j].data}

SearchQueue(q, k) ==
  IF NewestHolder(q, k) = {} THEN None
  ELSE q[CHOOSE i \in NewestHolder(q, k) : TRUE].data[k]

\* get: the active buffer first, then the frozen ones, newest first.
MemGet(m, k) == IF k \in DOMAIN m.data THEN m.data[k] ELSE SearchQueue(m.frozen, k)
=============================================================================
