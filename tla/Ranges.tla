------------------------------- MODULE Ranges -------------------------------
(***************************************************************************)
(* Engine with read_key_range: the generator of engine.py runs through its  *)
(* whole body at the first next(), in a thread of its own or in the event   *)
(* loop's, while writers, flushes and compactions go on. A reader makes one *)
(* call, a get or a range.                                                 *)
(*                                                                         *)
(* A range is the set of the keys between its bounds. The key range kept    *)
(* with an SSTable only spares files without such keys, and is left out.   *)
(***************************************************************************)
EXTENDS Engine

CONSTANT Spans   \* the ranges readers ask for, each a set of keys

ASSUME RangesAssumption == Spans \subseteq SUBSET Keys

VARIABLE range   \* per reader: its step, span, the values it has found (found:
                 \* result and seen_keys), the SSTables still to search, the
                 \* keys of the index it has loaded; and for the properties
                 \* what applied has been since the call

rangeVars == <<vars, range>>

NoRange == [pc |-> "idle", span |-> {}, found |-> EmptyTable, todo |-> NoLevels,
            index |-> {}, views |-> {}]

RangeAt(r, pc) == range[r].pc = pc

\* memtable.get_range: per key of the span its newest value, tombstones too.
MemRange(m, span) == [k \in {x \in span : MemGet(m, x) # None} |-> MemGet(m, k)]

RangeMem(r, span) ==
  /\ RangeAt(r, "idle") /\ ReaderAt(r, "idle")
  /\ range' = [range EXCEPT ![r] = [NoRange EXCEPT
       !.pc = "missed", !.span = span, !.found = MemRange(mem, span), !.views = {applied}]]
  /\ UNCHANGED vars

\* get_overlapping_sstables
RangeSnapshot(r) ==
  /\ RangeAt(r, "missed")
  /\ range' = [range EXCEPT ![r].pc = "searching", ![r].todo = manifest.mem]
  /\ UNCHANGED vars

\* The level and the entry the search has come to.
RangeLevel(r) == IF range[r].todo[0] # {} THEN 0 ELSE 1

RangeEntry(r) == Newest(range[r].todo[RangeLevel(r)])

WithoutEntry(r) == [range[r].todo EXCEPT ![RangeLevel(r)] = @ \ {RangeEntry(r)}]

\* range_scan loads the index: one without keys of the span, or a file that
\* does not exist, gives it nothing to do.
RangeIndex(r) ==
  LET index == {k \in range[r].span : Holds(files, RangeEntry(r).path, k)} IN
  /\ RangeAt(r, "searching") /\ range[r].todo # NoLevels
  /\ range' = [range EXCEPT ![r] =
       IF index = {} THEN [@ EXCEPT !.todo = WithoutEntry(r)]
       ELSE [@ EXCEPT !.pc = "indexed", !.index = index]]
  /\ UNCHANGED vars

\* Mutant: what is found last counts.
RangeReadOverriding(r) ==
  LET path == RangeEntry(r).path IN
  /\ RangeAt(r, "indexed")
  /\ range' = [range EXCEPT ![r] =
       [@ EXCEPT !.pc = "searching", !.index = {}, !.todo = WithoutEntry(r),
                 !.found = [k \in DOMAIN @ \cup range[r].index |->
                              IF k \in range[r].index THEN files[path][k] ELSE @[k]]]]
  /\ UNCHANGED vars

\* It opens the file again for each of these keys, which raises
\* FileNotFoundError when it is gone, and keeps the values of keys not seen.
RangeRead(r) ==
  LET path  == RangeEntry(r).path
      found == range[r].found
  IN
  /\ RangeAt(r, "indexed")
  /\ range' = [range EXCEPT ![r] =
       IF path \notin DOMAIN files THEN [@ EXCEPT !.pc = "raised"]
       ELSE [@ EXCEPT !.pc = "searching", !.index = {}, !.todo = WithoutEntry(r),
                      !.found = [k \in DOMAIN found \cup range[r].index |->
                                   IF k \in DOMAIN found THEN found[k] ELSE files[path][k]]]]
  /\ UNCHANGED vars

\* Nothing is left to search: the rows are sorted and yielded.
RangeReturn(r) ==
  /\ RangeAt(r, "searching") /\ range[r].todo = NoLevels
  /\ range' = [range EXCEPT ![r].pc = "done"]
  /\ UNCHANGED vars

RangeStep(r) ==
  \/ \E span \in Spans : RangeMem(r, span)
  \/ RangeSnapshot(r)
  \/ RangeIndex(r)
  \/ RangeRead(r)
  \/ RangeReturn(r)

\* A step of the engine, which a range under way is witness to.
EngineStep ==
  /\ Next
  /\ \A r \in Readers : ~RangeAt(r, "idle") => reader'[r] = reader[r]
  /\ range' = [r \in Readers |->
                 IF range[r].pc \in {"idle", "done", "raised"} THEN range[r]
                 ELSE [range[r] EXCEPT !.views = @ \cup {applied'}]]

RangesInit == Init /\ range = [r \in Readers |-> NoRange]

RangesNext == EngineStep \/ \E r \in Readers : RangeStep(r)

RangesSpec == RangesInit /\ [][RangesNext]_rangeVars

-----------------------------------------------------------------------------
(* Properties *)

\* The value of k in the rows of a range.
RowOf(r, k) ==
  IF k \in DOMAIN range[r].found THEN Visible(range[r].found[k]) ELSE None

\* "Read all key-value pairs in a range" (engine.py): for every key between its
\* bounds a range that returns has the value, or the absence of one, that the
\* key had at some moment of the call, although it looks at the MemTable and at
\* each SSTable at different moments.
RangesAreRegular ==
  \A r \in Readers : RangeAt(r, "done") =>
    \A k \in range[r].span : \E view \in range[r].views : RowOf(r, k) = Visible(view[k])
=============================================================================
