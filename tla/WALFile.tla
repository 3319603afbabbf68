------------------------------ MODULE WALFile -------------------------------
(***************************************************************************)
(* The write-ahead log file (wal.py) as operators on its state, a record    *)
(*                                                                         *)
(*   file     the contents of the file that wal.log names                   *)
(*   handle   self.file, the append handle: "closed" until the first        *)
(*            append opens it, "attached" to the file wal.log names,        *)
(*            "detached" once truncate_upto renamed another file over       *)
(*            wal.log and left the handle on the old, now unlinked, one     *)
(*   buffer   the cells of a write that raised which the handle still holds *)
(*   pos      the position tell() reports for the handle, buffer included   *)
(*                                                                         *)
(* A file is a sequence of cells. A record r is RecordLen(r) cells, parts   *)
(* 1 .. RecordLen(r), so that an offset can fall inside a record; part 0    *)
(* is a length prefix of which fewer than its four bytes reached the disk.  *)
(* What is written to a detached handle is gone when the process ends, so   *)
(* only its position is kept.                                               *)
(***************************************************************************)
EXTENDS Integers, Sequences, SequencesExt

CONSTANT RecordLen(_)   \* the cells construct_record makes of a record

Cell(r, i) == [rec |-> r, part |-> i]

\* construct_record
Cells(r) == [i \in 1..RecordLen(r) |-> Cell(r, i)]

\* Mutant: each part goes before the ones so far.
ReverseConcatenation(seqs) == FoldLeft(LAMBDA acc, s : s \o acc, <<>>, seqs)

Concatenation(seqs) == FoldLeft(LAMBDA acc, s : acc \o s, <<>>, seqs)

BatchCells(rs) == Concatenation([i \in DOMAIN rs |-> Cells(rs[i])])

EmptyWAL == [file |-> <<>>, handle |-> "closed", buffer |-> <<>>, pos |-> 0]

-----------------------------------------------------------------------------
(* Appending *)

\* open("ab+") positions the handle at the end of the file.
Open(w) == IF w.handle # "closed" THEN w
           ELSE [w EXCEPT !.handle = "attached", !.pos = Len(w.file)]

\* tell() before the write: append returns it as the record's offset.
NextOffset(w) == Open(w).pos

\* Mutant: tell() after the write.
OffsetAfter(w, rs) == NextOffset(w) + Len(BatchCells(rs))

\* append_batch returns the offset of its last record, and of an empty batch
\* where the next record will go.
LastOffset(w, rs) ==
  NextOffset(w) + (IF rs = <<>> THEN 0 ELSE Len(BatchCells(Front(rs))))

\* What the handle has to write when cells are added.
ToWrite(w, cells) == Open(w).buffer \o cells

\* O_APPEND writes at the end of the file whatever tell() said before, and
\* leaves the handle there.
WriteCells(w, cells) ==
  LET o == Open(w) IN
  IF o.handle = "attached"
  THEN [o EXCEPT !.file = @ \o ToWrite(w, cells), !.buffer = <<>>,
                 !.pos = Len(o.file) + Len(ToWrite(w, cells))]
  ELSE [o EXCEPT !.pos = @ + Len(cells)]

\* Mutant: the handle forgets what it could not write.
WriteCellsRaisedForgetting(w, cells, n) ==
  [Open(w) EXCEPT !.file = @ \o SubSeq(ToWrite(w, cells), 1, n),
                  !.pos = Len(Open(w).file) + n]

\* flush or fsync raises when n cells are written: the handle keeps the rest,
\* and writes it before anything that is appended later.
WriteCellsRaised(w, cells, n) ==
  LET all == ToWrite(w, cells) IN
  [Open(w) EXCEPT !.file = @ \o SubSeq(all, 1, n),
                  !.buffer = SubSeq(all, n + 1, Len(all)),
                  !.pos = IF n = 0 THEN @ + Len(cells) ELSE Len(Open(w).file) + Len(all)]

Append1(w, r) == WriteCells(w, Cells(r))

\* An empty batch only opens the handle.
AppendBatch(w, rs) == IF rs = <<>> THEN Open(w) ELSE WriteCells(w, BatchCells(rs))

-----------------------------------------------------------------------------
(* Truncating *)

\* Mutant: the position is taken to move with the records.
TruncateAndMove(w, off) ==
  IF off <= 0 THEN w
  ELSE [w EXCEPT !.file = SubSeq(@, off + 1, Len(@)), !.pos = @ - off]

\* truncate_upto: the offset is measured in the handle's file, the size in
\* the file wal.log names now.
TruncateUpto(w, off) ==
  CASE off <= 0 -> w
    [] off > 0 /\ off >= Len(w.file) -> [w EXCEPT !.file = <<>>]
    [] off > 0 /\ off < Len(w.file) ->
         [w EXCEPT !.file = SubSeq(@, off + 1, Len(@)),
                   !.handle = IF @ = "closed" THEN @ ELSE "detached"]

-----------------------------------------------------------------------------
(* Crashing *)

\* The process ends: the handle is gone with its buffer and with what a
\* detached one wrote.
Crashed(w) == [w EXCEPT !.handle = "closed", !.buffer = <<>>, !.pos = 0]

\* What a write cut short by the crash can leave at the end of the file: some
\* of its cells, or some bytes of its first length prefix.
TornPrefixes(cells) ==
  {SubSeq(cells, 1, n) : n \in 1..(Len(cells) - 1)}
    \cup {SubSeq(cells, 1, n) \o <<Cell(cells[n + 1].rec, 0)>> :
            n \in {m \in 0..(Len(cells) - 1) : cells[m + 1].part = 1}}

-----------------------------------------------------------------------------
(* Replaying *)

\* Cell d may follow cell c in a well-formed log.
Follows(c, d) ==
  IF c.part < RecordLen(c.rec) THEN d = Cell(c.rec, c.part + 1) ELSE d.part = 1

\* The longest prefix that reads as records, the last one perhaps incomplete.
GoodLen(file) ==
  IF file = <<>> \/ Head(file).part # 1 THEN 0
  ELSE CHOOSE n \in DOMAIN file :
         /\ n = Len(file) \/ ~Follows(file[n], file[n + 1])
         /\ \A i \in 1..(n - 1) : Follows(file[i], file[i + 1])

\* What replay yields: the records in file order with their offsets, up to an
\* incomplete or corrupt one.
Replay(file) ==
  LET record(e) == [rec |-> file[e].rec, off |-> e - RecordLen(file[e].rec)]
      upTo[n \in 0..GoodLen(file)] ==
        IF n = 0 THEN <<>>
        ELSE IF file[n].part = RecordLen(file[n].rec) THEN Append(upTo[n - 1], record(n))
        ELSE upTo[n - 1]
  IN upTo[GoodLen(file)]

ReplayedRecords(file) ==
  LET replay == Replay(file) IN [j \in DOMAIN replay |-> replay[j].rec]

\* A length prefix of one to three bytes at the end of the log makes
\* struct.unpack raise instead of ending the replay.
ReplayRaises(file) ==
  LET n == GoodLen(file) IN
  /\ n + 1 = Len(file)
  /\ file[n + 1].part = 0
  /\ n > 0 => file[n].part = RecordLen(file[n].rec)
=============================================================================
