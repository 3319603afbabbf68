----------------------------- MODULE WALProofs ------------------------------
(***************************************************************************)
(* Proofs about the write-ahead log: its type, and the three invariants of  *)
(* WAL for any records of any lengths and any number of crashes.            *)
(*                                                                         *)
(* The inductive invariant is about the log there will be once the handle   *)
(* has written what it holds. Its cells are in the order of their records   *)
(* and parts, whatever was cut off it; undamaged, it is a chain of whole    *)
(* records; the handle's position is its length, and the offsets this       *)
(* process knows are where the records begin until a truncation moves them. *)
(***************************************************************************)
EXTENDS WAL, FoldLemmas

Records == 1..MaxRecords
Logs == LogsOver(Records)
WALs == [file : Logs, handle : {"closed", "attached", "detached"}, buffer : Logs, pos : Nat]

\* c comes before d in a log: an earlier record, or an earlier part of it.
Before(c, d) == c.rec < d.rec \/ (c.rec = d.rec /\ 0 < c.part /\ c.part < d.part)

Ordered(s) == \A i, j \in 1..Len(s) : i < j => Before(s[i], s[j])

\* What wal.log holds once the handle has written its buffer to it.
Log == IF wal.handle = "detached" THEN wal.file ELSE wal.file \o wal.buffer

LogInv == Ordered(Log) /\ \A i \in 1..Len(Log) : Log[i].rec <= appended

HandleInv ==
  /\ wal.handle = "closed" => wal.buffer = <<>>
  /\ wal.handle = "attached" /\ "emptied" \notin damage =>
       wal.pos = Len(wal.file) + Len(wal.buffer)

\* An offset this process knows: where its record's first cell is.
Locates(file, r, off) == off < Len(file) /\ file[off + 1] = Cell(r, 1)

OffsetInv ==
  /\ \A r \in DOMAIN offset : offset[r] \in Nat
  /\ wal.handle # "detached" /\ "emptied" \notin damage =>
       \A r \in DOMAIN offset : Locates(wal.file, r, offset[r])

\* The last cell of record r is in the file.
Ends(file, r) == \E i \in 1..Len(file) : file[i] = Cell(r, RecordLen(r))

WrittenInv ==
  damage = {} => /\ Chain(Log)
                 /\ \A r \in written : r >= kept => Ends(wal.file, r)

IInv == TypeOK /\ wal \in WALs /\ LogInv /\ HandleInv /\ OffsetInv /\ WrittenInv

-----------------------------------------------------------------------------
(* Sequences of cells *)

LEMMA RecordsSized == Sized(Records)
BY WALAssumption DEF Sized, Records

\* A part of an ordered log is ordered, and so are two of which one comes
\* before the other.
LEMMA SubOrdered ==
  ASSUME NEW s \in Logs, Ordered(s), NEW m \in Nat \ {0}, NEW n \in Nat, n <= Len(s)
  PROVE  Ordered(SubSeq(s, m, n))
<1> DEFINE t == SubSeq(s, m, n)
<1>1. /\ Len(t) = IF m <= n THEN n - m + 1 ELSE 0
      /\ \A i \in 1..Len(t) : m + i - 1 \in m..n /\ t[i] = s[m + i - 1]
  BY SubIs DEF Logs, LogsOver
<1>2. Len(s) \in Nat
  BY LenProperties DEF Logs, LogsOver
<1> HIDE DEF t
<1>3. ASSUME NEW i \in 1..Len(t), NEW j \in 1..Len(t), i < j PROVE Before(t[i], t[j])
  <2>1. m + i - 1 \in 1..Len(s) /\ m + j - 1 \in 1..Len(s) /\ m + i - 1 < m + j - 1
    BY <1>1, <1>2, <1>3
  <2>2. Before(s[m + i - 1], s[m + j - 1])
    BY <2>1 DEF Ordered
  <2> QED  BY <1>1, <2>2
<1>4. Ordered(t)
  BY <1>3 DEF Ordered
<1> QED  BY <1>4 DEF t

LEMMA JoinOrdered ==
  ASSUME NEW s \in Logs, NEW t \in Logs, Ordered(s), Ordered(t),
         \A i \in 1..Len(s) : \A j \in 1..Len(t) : Before(s[i], t[j])
  PROVE  Ordered(s \o t)
<1> DEFINE u == s \o t
<1>1. /\ Len(u) = Len(s) + Len(t)
      /\ \A i \in 1..Len(s) : u[i] = s[i]
      /\ \A i \in 1..Len(u) : i <= Len(s) \/ (i - Len(s) \in 1..Len(t) /\ u[i] = t[i - Len(s)])
  BY JoinIs DEF Logs, LogsOver
<1>2. Len(s) \in Nat /\ Len(t) \in Nat
  BY LenProperties DEF Logs, LogsOver
<1> HIDE DEF u
<1>3. ASSUME NEW i \in 1..Len(u), NEW j \in 1..Len(u), i < j PROVE Before(u[i], u[j])
  <2>1. CASE j <= Len(s)
    <3>1. i \in 1..Len(s) /\ j \in 1..Len(s)
      BY <1>2, <1>3, <2>1
    <3> QED  BY <1>1, <1>3, <3>1 DEF Ordered
  <2>2. CASE i <= Len(s) /\ ~(j <= Len(s))
    <3>1. i \in 1..Len(s) /\ u[i] = s[i]
      BY <1>1, <1>2, <2>2
    <3>2. j - Len(s) \in 1..Len(t) /\ u[j] = t[j - Len(s)]
      BY <1>1, <2>2
    <3> QED  BY <3>1, <3>2
  <2>3. CASE ~(i <= Len(s)) /\ ~(j <= Len(s))
    <3>1. i - Len(s) \in 1..Len(t) /\ u[i] = t[i - Len(s)]
      BY <1>1, <2>3
    <3>2. j - Len(s) \in 1..Len(t) /\ u[j] = t[j - Len(s)]
      BY <1>1, <2>3
    <3>3. i - Len(s) < j - Len(s)
      BY <1>2, <1>3
    <3> QED  BY <3>1, <3>2, <3>3 DEF Ordered
  <2> QED  BY <2>1, <2>2, <2>3
<1>4. Ordered(u)
  BY <1>3 DEF Ordered
<1> QED  BY <1>4 DEF u

-----------------------------------------------------------------------------
(* Replay *)

\* Of an ordered file replay yields the records in order and each once.
LEMMA ReplayOrdered ==
  ASSUME NEW s \in Logs, Ordered(s)
  PROVE  LET records == ReplayedRecords(s)
         IN \A i, j \in DOMAIN records : i < j => records[i] < records[j]
<1> DEFINE q == Replay(s)
<1>1. PICK ends : Lists(Records, s, GoodLen(s), q, ends)
  BY RecordsSized, ReplayIs DEF Logs, LogsOver
<1>2. GoodLen(s) \in Nat /\ GoodLen(s) <= Len(s) /\ Len(s) \in Nat
  BY RecordsSized, GoodLenIs, LenProperties DEF Logs, LogsOver
<1>3. DOMAIN q = 1..Len(q) /\ ReplayedRecords(s) = [j \in DOMAIN q |-> q[j].rec]
  <2>1. q \in Seq(Listed(Records))
    BY <1>1 DEF Lists
  <2>2. ReplayedRecords(s) = [j \in DOMAIN q |-> q[j].rec]
    BY DEF ReplayedRecords
  <2> HIDE DEF q
  <2> QED  BY <2>1, <2>2, LenProperties
<1> HIDE DEF q
<1>4. ASSUME NEW i \in 1..Len(q), NEW j \in 1..Len(q), i < j
      PROVE  q[i].rec < q[j].rec
  <2>1. /\ ends[i] \in 1..GoodLen(s) /\ Complete(s, ends[i]) /\ q[i] = Entry(s, ends[i])
        /\ ends[j] \in 1..GoodLen(s) /\ Complete(s, ends[j]) /\ q[j] = Entry(s, ends[j])
        /\ ends[i] < ends[j]
    BY <1>1, <1>4 DEF Lists
  <2>2. ends[i] \in 1..Len(s) /\ ends[j] \in 1..Len(s)
    BY <1>2, <2>1
  <2>3. Before(s[ends[i]], s[ends[j]])
    BY <2>1, <2>2 DEF Ordered
  <2>4. s[ends[i]].rec = s[ends[j]].rec => s[ends[i]].part = s[ends[j]].part
    BY <2>1 DEF Complete
  <2>5. s[ends[i]].rec \in Int /\ s[ends[i]].part \in Int
    BY <2>2, RecordsSized, CellOf, WALAssumption DEF Records, Logs, LogsOver
  <2>6. s[ends[i]].rec < s[ends[j]].rec
    BY <2>3, <2>4, <2>5 DEF Before
  <2> QED  BY <2>1, <2>6 DEF Entry
<1> QED  BY <1>3, <1>4

\* Replay yields records of the file, with the offsets where they begin.
LEMMA ReplayLocates ==
  ASSUME NEW s \in Logs, NEW j \in DOMAIN Replay(s)
  PROVE  /\ Replay(s)[j].off \in Nat
         /\ Locates(s, Replay(s)[j].rec, Replay(s)[j].off)
         /\ \E i \in 1..Len(s) : s[i].rec = Replay(s)[j].rec
<1> DEFINE q == Replay(s)
<1>1. PICK ends : Lists(Records, s, GoodLen(s), q, ends)
  BY RecordsSized, ReplayIs DEF Logs, LogsOver
<1>2. GoodLen(s) \in Nat /\ GoodLen(s) <= Len(s) /\ Len(s) \in Nat
  BY RecordsSized, GoodLenIs, LenProperties DEF Logs, LogsOver
<1>3. j \in 1..Len(q)
  <2>1. q \in Seq(Listed(Records)) /\ j \in DOMAIN q
    BY <1>1 DEF Lists
  <2> HIDE DEF q
  <2> QED  BY <2>1, LenProperties
<1> HIDE DEF q
<1> DEFINE e == ends[j]
<1>4. e \in 1..GoodLen(s) /\ Complete(s, e) /\ q[j] = Entry(s, e)
  BY <1>1, <1>3 DEF Lists
<1> HIDE DEF e
<1>5. e \in 1..Len(s)
  BY <1>2, <1>4
<1>6. s[e].part \in 1..e /\ s[e - s[e].part + 1] = Cell(s[e].rec, 1)
  BY <1>4, RecordsSized, PartsBack DEF Logs, LogsOver
<1>7. q[j].rec = s[e].rec /\ q[j].off = e - s[e].part
  BY <1>4 DEF Entry, Complete
<1>8. q[j].off \in Nat /\ q[j].off < Len(s)
  BY <1>2, <1>5, <1>6, <1>7
<1>9. s[q[j].off + 1] = Cell(q[j].rec, 1)
  BY <1>6, <1>7
<1> QED  BY <1>5, <1>7, <1>8, <1>9 DEF q, Locates

\* Of a file that reads to its end replay yields every record whose last cell
\* is there.
LEMMA ReplayFinds ==
  ASSUME NEW s \in Logs, s # <<>> => s[1].part = 1,
         \A i \in 1..(Len(s) - 1) : Follows(s[i], s[i + 1]),
         NEW r, Ends(s, r)
  PROVE  \E j \in DOMAIN ReplayedRecords(s) : ReplayedRecords(s)[j] = r
<1> DEFINE q == Replay(s)
<1>1. PICK ends : Lists(Records, s, GoodLen(s), q, ends)
  BY RecordsSized, ReplayIs DEF Logs, LogsOver
<1>2. GoodLen(s) = Len(s)
  BY RecordsSized, GoodLenOfChain DEF Logs, LogsOver
<1>3. PICK e \in 1..Len(s) : s[e] = Cell(r, RecordLen(r))
  BY DEF Ends
<1>4. Complete(s, e) /\ s[e].rec = r
  BY <1>3 DEF Complete, Cell
<1>5. PICK j \in 1..Len(q) : ends[j] = e
  BY <1>1, <1>2, <1>4 DEF Lists
<1>6. q[j].rec = r
  <2>1. q[j] = Entry(s, e)
    <3> HIDE DEF q
    <3> QED  BY <1>1, <1>5 DEF Lists
  <2> QED  BY <1>4, <2>1 DEF Entry
<1>7. DOMAIN q = 1..Len(q) /\ ReplayedRecords(s) = [i \in DOMAIN q |-> q[i].rec]
  <2>1. q \in Seq(Listed(Records))
    BY <1>1 DEF Lists
  <2>2. ReplayedRecords(s) = [i \in DOMAIN q |-> q[i].rec]
    BY DEF ReplayedRecords
  <2> HIDE DEF q
  <2> QED  BY <2>1, <2>2, LenProperties
<1> HIDE DEF q
<1> QED  BY <1>5, <1>6, <1>7

-----------------------------------------------------------------------------
(* The cells of records *)

\* The whole records from + 1 .. from + n, in order.
Whole(cells, from, n) ==
  /\ cells \in Logs /\ Ordered(cells) /\ Chain(cells)
  /\ \A i \in 1..Len(cells) : from < cells[i].rec /\ cells[i].rec <= from + n
  /\ \A r \in (from + 1)..(from + n) : Ends(cells, r)

LEMMA WholeMore ==
  ASSUME NEW from \in Nat, NEW n \in Nat, from + n + 1 <= MaxRecords,
         NEW cells, Whole(cells, from, n)
  PROVE  /\ Whole(cells \o Cells(from + n + 1), from, n + 1)
         /\ Len(cells) < Len(cells \o Cells(from + n + 1))
         /\ (cells \o Cells(from + n + 1))[Len(cells) + 1] = Cell(from + n + 1, 1)
<1> DEFINE r == from + n + 1
           new == Cells(r)
           all == cells \o new
<1>1. r \in Records /\ r \in Nat
  BY WALAssumption DEF Records
<1>2. /\ new \in Logs /\ new # <<>> /\ Len(new) = RecordLen(r) /\ RecordLen(r) \in Nat \ {0}
      /\ \A i \in 1..Len(new) : new[i] = Cell(r, i)
  BY <1>1, RecordsSized, CellsAre DEF Logs, LogsOver
<1> HIDE DEF new
<1>3. \A i \in 1..Len(new) : new[i].rec = r /\ new[i].part = i
  <2>1. \A i : Cell(r, i).rec = r /\ Cell(r, i).part = i
    BY DEF Cell
  <2> QED  BY <1>2, <2>1
<1>4. cells \in Logs /\ Len(cells) \in Nat
  BY LenProperties DEF Whole, Logs, LogsOver
<1>5. /\ all \in Logs
      /\ Len(all) = Len(cells) + Len(new)
      /\ \A i \in 1..Len(cells) : all[i] = cells[i]
      /\ \A i \in 1..Len(new) : all[Len(cells) + i] = new[i]
      /\ \A i \in 1..Len(all) : i <= Len(cells) \/ (i - Len(cells) \in 1..Len(new) /\ all[i] = new[i - Len(cells)])
  BY <1>2, <1>4, JoinIs DEF Logs, LogsOver
<1>6. Ordered(new)
  <2>1. ASSUME NEW i \in 1..Len(new), NEW j \in 1..Len(new), i < j PROVE Before(new[i], new[j])
    BY <1>2, <1>3, <2>1 DEF Before
  <2> QED  BY <2>1 DEF Ordered
<1>7. Chain(new)
  <2>1. 1 \in 1..Len(new) /\ Len(new) \in 1..Len(new)
    BY <1>2
  <2>2. new[1].part = 1 /\ new[Len(new)].part = RecordLen(new[Len(new)].rec)
    BY <1>2, <1>3, <2>1
  <2>3. ASSUME NEW i \in 1..(Len(new) - 1) PROVE Follows(new[i], new[i + 1])
    <3>1. i \in 1..Len(new) /\ i + 1 \in 1..Len(new) /\ i < RecordLen(r)
      BY <1>2
    <3>2. new[i].rec = r /\ new[i].part = i /\ new[i + 1] = Cell(r, i + 1)
      BY <1>2, <1>3, <3>1
    <3> QED  BY <3>1, <3>2 DEF Follows
  <2> QED  BY <2>2, <2>3 DEF Chain
<1>8. ASSUME NEW i \in 1..Len(cells), NEW j \in 1..Len(new) PROVE Before(cells[i], new[j])
  <2>1. cells[i].rec <= from + n /\ cells[i].rec \in Int
    BY <1>4, RecordsSized, CellOf, WALAssumption DEF Whole, Records, Logs, LogsOver
  <2> QED  BY <1>3, <2>1 DEF Before
<1>9. Ordered(all) /\ Chain(all)
  <2>1. Ordered(cells) /\ Chain(cells)
    BY DEF Whole
  <2> QED  BY <1>2, <1>4, <1>6, <1>7, <1>8, <2>1, JoinOrdered, RecordsSized, JoinChain DEF Logs, LogsOver
<1> HIDE DEF all
<1>10. ASSUME NEW i \in 1..Len(all)
       PROVE  from < all[i].rec /\ all[i].rec <= from + (n + 1)
  <2>1. CASE i <= Len(cells)
    <3>1. i \in 1..Len(cells) /\ all[i] = cells[i]
      BY <1>4, <1>5, <2>1
    <3>2. from < cells[i].rec /\ cells[i].rec <= from + n /\ cells[i].rec \in Int
      BY <1>4, <3>1, RecordsSized, CellOf, WALAssumption DEF Whole, Records, Logs, LogsOver
    <3> QED  BY <3>1, <3>2
  <2>2. CASE ~(i <= Len(cells))
    <3> DEFINE k == i - Len(cells)
    <3>1. k \in 1..Len(new) /\ all[i] = new[k]
      BY <1>5, <2>2
    <3> HIDE DEF k
    <3>2. all[i].rec = r
      BY <1>3, <3>1
    <3> QED  BY <3>2
  <2> QED  BY <2>1, <2>2
<1>11. ASSUME NEW x \in (from + 1)..(from + (n + 1)) PROVE Ends(all, x)
  <2>1. CASE x \in (from + 1)..(from + n)
    <3>1. PICK i \in 1..Len(cells) : cells[i] = Cell(x, RecordLen(x))
      BY <2>1 DEF Whole, Ends
    <3>2. i \in 1..Len(all) /\ all[i] = cells[i]
      BY <1>2, <1>4, <1>5
    <3> QED  BY <3>1, <3>2 DEF Ends
  <2>2. CASE x = r
    <3>1. Len(new) \in 1..Len(new) /\ Len(all) \in 1..Len(all)
      BY <1>2, <1>4, <1>5
    <3>2. all[Len(all)] = Cell(r, RecordLen(r))
      BY <1>2, <1>5, <3>1
    <3> QED  BY <2>2, <3>1, <3>2 DEF Ends
  <2>3. x \in (from + 1)..(from + n) \/ x = r
    OBVIOUS
  <2> QED  BY <2>1, <2>2, <2>3
<1>12. Whole(all, from, n + 1)
  BY <1>5, <1>9, <1>10, <1>11 DEF Whole
<1>13. Len(cells) < Len(all) /\ all[Len(cells) + 1] = Cell(r, 1)
  <2>1. 1 \in 1..Len(new)
    BY <1>2
  <2> QED  BY <1>2, <1>4, <1>5, <2>1
<1> QED  BY <1>12, <1>13 DEF all, new

LEMMA FreshMore ==
  ASSUME NEW n \in Nat, appended \in Nat, appended + n + 1 <= MaxRecords
  PROVE  /\ Fresh(n) \in Seq(Records)
         /\ Fresh(n + 1) = Append(Fresh(n), appended + n + 1)
         /\ Front(Fresh(n + 1)) = Fresh(n)
         /\ Fresh(n + 1) # <<>>
<1> DEFINE a == appended
           s == Fresh(n)
           t == Fresh(n + 1)
           u == Append(s, a + n + 1)
<1>1. MaxRecords \in Nat
  BY WALAssumption
<1>2. s \in Seq(Records) /\ Len(s) = n /\ \A i \in 1..n : s[i] = a + i
  BY <1>1 DEF Fresh, Records
<1>3. t \in Seq(Records) /\ Len(t) = n + 1 /\ \A i \in 1..(n + 1) : t[i] = a + i
  BY <1>1 DEF Fresh, Records
<1> HIDE DEF s, t
<1>4. a + n + 1 \in Records
  BY <1>1 DEF Records
<1>5. u \in Seq(Records) /\ Len(u) = n + 1 /\ u[n + 1] = a + n + 1 /\ \A i \in 1..n : u[i] = s[i]
  BY <1>2, <1>4
<1> HIDE DEF u
<1>6. t = u
  <2>1. \A i \in 1..(n + 1) : i \in 1..n \/ i = n + 1
    OBVIOUS
  <2>2. \A i \in 1..Len(t) : t[i] = u[i]
    BY <1>2, <1>3, <1>5, <2>1
  <2> QED  BY <1>3, <1>5, <2>2, SeqEqual
<1> DEFINE f == SubSeq(t, 1, n)
<1>7. f \in Seq(Records) /\ Len(f) = n /\ \A i \in 1..n : f[i] = t[i]
  <2>1. 1 \in Nat \ {0} /\ n <= Len(t)
    BY <1>3
  <2>2. /\ f \in Seq(Records)
        /\ Len(f) = IF 1 <= n THEN n - 1 + 1 ELSE 0
        /\ \A i \in 1..Len(f) : f[i] = t[1 + i - 1]
    BY <1>3, <2>1, SubIs
  <2>3. Len(f) = n
    BY <2>2
  <2> HIDE DEF f
  <2>4. \A i \in 1..n : 1 + i - 1 = i
    OBVIOUS
  <2> QED  BY <2>2, <2>3, <2>4
<1>8. f = s
  <2>1. \A i \in 1..n : i \in 1..(n + 1)
    OBVIOUS
  <2>2. \A i \in 1..Len(f) : f[i] = s[i]
    BY <1>2, <1>3, <1>7, <2>1
  <2> HIDE DEF f
  <2> QED  BY <1>2, <1>7, <2>2, SeqEqual
<1>9. Front(t) = f
  <2>1. Len(t) - 1 = n
    BY <1>3
  <2> QED  BY <2>1 DEF Front
<1>10. t # <<>>
  BY <1>3, EmptySeq
<1> QED  BY <1>2, <1>6, <1>8, <1>9, <1>10 DEF s, t, u

\* What an append or append_batch writes.
LEMMA FreshCells ==
  ASSUME NEW n \in {1, 2}, appended \in Nat, appended + n <= MaxRecords
  PROVE  /\ Whole(BatchCells(Fresh(n)), appended, n)
         /\ Fresh(n) # <<>>
         /\ Len(BatchCells(Front(Fresh(n)))) \in Nat
         /\ Len(BatchCells(Front(Fresh(n)))) < Len(BatchCells(Fresh(n)))
         /\ BatchCells(Fresh(n))[Len(BatchCells(Front(Fresh(n)))) + 1] = Cell(appended + n, 1)
<1> DEFINE a == appended
           C(m) == BatchCells(Fresh(m))
<1>1. Whole(C(0), a, 0)
  <2>1. Fresh(0) = <<>>
    BY DEF Fresh
  <2>2. C(0) = <<>>
    BY <2>1, BatchOfNone
  <2>3. <<>> \in Logs /\ Len(<<>>) = 0
    BY EmptySeq DEF Logs, LogsOver
  <2>4. Ordered(<<>>) /\ Chain(<<>>)
    BY <2>3 DEF Ordered, Chain
  <2>5. \A r \in (a + 1)..(a + 0) : FALSE
    OBVIOUS
  <2>6. Whole(<<>>, a, 0)
    BY <2>3, <2>4, <2>5 DEF Whole
  <2> QED  BY <2>2, <2>6
<1>2. ASSUME NEW m \in Nat, a + m + 1 <= MaxRecords, Whole(C(m), a, m)
      PROVE  /\ Whole(C(m + 1), a, m + 1)
             /\ Fresh(m + 1) # <<>>
             /\ BatchCells(Front(Fresh(m + 1))) = C(m)
             /\ Len(C(m)) \in Nat
             /\ Len(C(m)) < Len(C(m + 1))
             /\ C(m + 1)[Len(C(m)) + 1] = Cell(a + m + 1, 1)
  <2>1. /\ Fresh(m) \in Seq(Records)
        /\ Fresh(m + 1) = Append(Fresh(m), a + m + 1)
        /\ Front(Fresh(m + 1)) = Fresh(m)
        /\ Fresh(m + 1) # <<>>
    BY <1>2, FreshMore
  <2>2. a + m + 1 \in Records
    BY <1>2, WALAssumption DEF Records
  <2>3. C(m + 1) = C(m) \o Cells(a + m + 1)
    BY <2>1, <2>2, RecordsSized, BatchMore DEF Logs, LogsOver
  <2>4. /\ Whole(C(m) \o Cells(a + m + 1), a, m + 1)
        /\ Len(C(m)) < Len(C(m) \o Cells(a + m + 1))
        /\ (C(m) \o Cells(a + m + 1))[Len(C(m)) + 1] = Cell(a + m + 1, 1)
    <3> DEFINE c == C(m)
    <3>1. Whole(c, a, m)
      BY <1>2
    <3> HIDE DEF c
    <3>2. /\ Whole(c \o Cells(a + m + 1), a, m + 1)
          /\ Len(c) < Len(c \o Cells(a + m + 1))
          /\ (c \o Cells(a + m + 1))[Len(c) + 1] = Cell(a + m + 1, 1)
      BY <1>2, <3>1, WholeMore
    <3> QED  BY <3>2 DEF c
  <2>5. Len(C(m)) \in Nat
    BY <1>2, LenProperties DEF Whole, Logs, LogsOver
  <2> QED  BY <2>1, <2>3, <2>4, <2>5
<1> HIDE DEF C
<1>3. MaxRecords \in Nat
  BY WALAssumption
<1>4. a + 0 + 1 <= MaxRecords /\ (n = 2 => a + 1 + 1 <= MaxRecords)
  BY <1>3
<1>5. CASE n = 1
  <2>1. 0 + 1 = 1 /\ a + 0 + 1 = a + 1
    OBVIOUS
  <2> QED  BY <1>1, <1>2, <1>4, <1>5, <2>1 DEF C
<1>6. CASE n = 2
  <2>1. 0 + 1 = 1 /\ 1 + 1 = 2 /\ a + 1 + 1 = a + 2
    OBVIOUS
  <2>2. Whole(C(1), a, 1)
    BY <1>1, <1>2, <1>4, <2>1
  <2> QED  BY <1>2, <1>4, <1>6, <2>1, <2>2 DEF C
<1> QED  BY <1>5, <1>6

-----------------------------------------------------------------------------
(* What the invariant says of the log *)

LEMMA InitIInv == Init => IInv
<1> SUFFICES ASSUME Init PROVE IInv
  OBVIOUS
<1> USE DEF Init, EmptyWAL
<1>1. <<>> \in Logs /\ Len(<<>>) = 0 /\ <<>> \o <<>> = <<>>
  BY EmptySeq, ConcatEmptySeq DEF Logs, LogsOver
<1>2. wal \in WALs
  BY <1>1 DEF WALs
<1>3. TypeOK
  BY <1>1, WALAssumption DEF TypeOK, Logs, LogsOver, CellsOver, Records
<1>4. Log = <<>>
  BY <1>1 DEF Log
<1>5. LogInv
  BY <1>1, <1>4 DEF LogInv, Ordered
<1>6. HandleInv /\ OffsetInv
  BY <1>1 DEF HandleInv, OffsetInv
<1>7. WrittenInv
  BY <1>4 DEF WrittenInv, Chain
<1> QED  BY <1>2, <1>3, <1>5, <1>6, <1>7 DEF IInv

\* The file is where the log begins.
LEMMA LogParts ==
  ASSUME IInv
  PROVE  /\ wal \in WALs /\ wal.file \in Logs /\ wal.buffer \in Logs /\ Log \in Logs
         /\ Len(wal.file) \in Nat /\ Len(wal.file) <= Len(Log)
         /\ \A i \in 1..Len(wal.file) : wal.file[i] = Log[i]
         /\ Ordered(wal.file)
         /\ \A i \in 1..Len(wal.file) : wal.file[i].rec <= appended
         /\ appended \in Nat /\ appended <= MaxRecords /\ MaxRecords \in Nat
<1>1. /\ wal \in WALs /\ wal.file \in Logs /\ wal.buffer \in Logs
      /\ appended \in Nat /\ appended <= MaxRecords /\ MaxRecords \in Nat
  BY WALAssumption DEF IInv, WALs, TypeOK
<1>2. Len(wal.file) \in Nat /\ Len(wal.buffer) \in Nat
  BY <1>1, LenProperties DEF Logs, LogsOver
<1>3. /\ Log \in Logs /\ Len(wal.file) <= Len(Log)
      /\ \A i \in 1..Len(wal.file) : wal.file[i] = Log[i]
  <2>1. CASE wal.handle = "detached"
    BY <1>1, <1>2, <2>1 DEF Log
  <2>2. CASE wal.handle # "detached"
    <3> DEFINE s == wal.file
               t == wal.buffer
    <3>1. s \in Logs /\ t \in Logs /\ Log = s \o t
      BY <1>1, <2>2 DEF Log
    <3> HIDE DEF s, t
    <3>2. /\ s \o t \in Logs
          /\ Len(s \o t) = Len(s) + Len(t)
          /\ \A i \in 1..Len(s) : (s \o t)[i] = s[i]
      BY <3>1, JoinIs DEF Logs, LogsOver
    <3>3. Len(s) \in Nat /\ Len(t) \in Nat
      BY <1>2 DEF s, t
    <3>4. Log \in Logs /\ Len(s) <= Len(Log) /\ \A i \in 1..Len(s) : s[i] = Log[i]
      BY <3>1, <3>2, <3>3
    <3> QED  BY <3>4 DEF s
  <2> QED  BY <2>1, <2>2
<1>4. Len(Log) \in Nat
  BY <1>3, LenProperties DEF Logs, LogsOver
<1>5. \A i \in 1..Len(wal.file) : i \in 1..Len(Log)
  BY <1>2, <1>3, <1>4
<1>6. Ordered(wal.file) /\ \A i \in 1..Len(wal.file) : wal.file[i].rec <= appended
  BY <1>3, <1>5 DEF IInv, LogInv, Ordered
<1> QED  BY <1>1, <1>2, <1>3, <1>6

\* What a file has stays where it is when more is appended.
LEMMA MoreLog ==
  ASSUME NEW s \in Logs, NEW t \in Logs, NEW r
  PROVE  /\ \A off \in Nat : Locates(s, r, off) => Locates(s \o t, r, off)
         /\ Ends(s, r) => Ends(s \o t, r)
         /\ Ends(t, r) => Ends(s \o t, r)
<1> DEFINE u == s \o t
<1>1. /\ Len(u) = Len(s) + Len(t)
      /\ \A i \in 1..Len(s) : u[i] = s[i]
      /\ \A i \in 1..Len(t) : u[Len(s) + i] = t[i]
  BY JoinIs DEF Logs, LogsOver
<1>2. Len(s) \in Nat /\ Len(t) \in Nat
  BY LenProperties DEF Logs, LogsOver
<1> HIDE DEF u
<1>3. ASSUME NEW off \in Nat, Locates(s, r, off) PROVE Locates(u, r, off)
  <2>1. off + 1 \in 1..Len(s) /\ off < Len(u)
    BY <1>1, <1>2, <1>3 DEF Locates
  <2> QED  BY <1>1, <1>3, <2>1 DEF Locates
<1>4. ASSUME Ends(s, r) PROVE Ends(u, r)
  <2>1. PICK i \in 1..Len(s) : s[i] = Cell(r, RecordLen(r))
    BY <1>4 DEF Ends
  <2>2. i \in 1..Len(u) /\ u[i] = s[i]
    BY <1>1, <1>2
  <2> QED  BY <2>1, <2>2 DEF Ends
<1>5. ASSUME Ends(t, r) PROVE Ends(u, r)
  <2>1. PICK i \in 1..Len(t) : t[i] = Cell(r, RecordLen(r))
    BY <1>5 DEF Ends
  <2>2. Len(s) + i \in 1..Len(u) /\ u[Len(s) + i] = t[i]
    BY <1>1, <1>2
  <2> QED  BY <2>1, <2>2 DEF Ends
<1> QED  BY <1>3, <1>4, <1>5 DEF u

\* Opening the handle changes nothing of the log.
LEMMA OpenIs ==
  ASSUME IInv
  PROVE  /\ Open(wal) \in WALs
         /\ Open(wal).file = wal.file /\ Open(wal).buffer = wal.buffer
         /\ Open(wal).handle = IF wal.handle = "closed" THEN "attached" ELSE wal.handle
         /\ wal.handle # "detached" /\ "emptied" \notin damage =>
              Open(wal).pos = Len(wal.file) + Len(wal.buffer)
<1>1. wal \in WALs /\ Len(wal.file) \in Nat
  BY LogParts
<1>2. CASE wal.handle # "closed"
  <2>1. Open(wal) = wal
    BY <1>2 DEF Open
  <2>2. wal.handle # "detached" => wal.handle = "attached"
    BY <1>1, <1>2 DEF WALs
  <2>3. wal.handle # "detached" /\ "emptied" \notin damage => wal.pos = Len(wal.file) + Len(wal.buffer)
    BY <2>2 DEF IInv, HandleInv
  <2> QED  BY <1>1, <1>2, <2>1, <2>3
<1>3. CASE wal.handle = "closed"
  <2>1. Open(wal) = [wal EXCEPT !.handle = "attached", !.pos = Len(wal.file)]
    BY <1>3 DEF Open
  <2>2. wal.buffer = <<>> /\ Len(wal.buffer) = 0
    BY <1>3, EmptySeq DEF IInv, HandleInv
  <2>3. /\ Open(wal) \in WALs
        /\ Open(wal).file = wal.file /\ Open(wal).buffer = wal.buffer
        /\ Open(wal).handle = "attached" /\ Open(wal).pos = Len(wal.file)
    BY <1>1, <2>1 DEF WALs
  <2> QED  BY <1>1, <1>3, <2>2, <2>3
<1> QED  BY <1>2, <1>3

\* The log once n new records are appended to it.
Grown(n) == wal.file \o ToWrite(wal, BatchCells(Fresh(n)))

LEMMA LogGrows ==
  ASSUME IInv, Open(wal).handle = "attached",
         NEW n \in {1, 2}, appended + n <= MaxRecords
  PROVE  /\ wal.handle # "detached"
         /\ ToWrite(wal, BatchCells(Fresh(n))) = wal.buffer \o BatchCells(Fresh(n))
         /\ ToWrite(wal, BatchCells(Fresh(n))) \in Logs
         /\ BatchCells(Fresh(n)) \in Logs /\ BatchCells(Fresh(n)) # <<>>
         /\ Grown(n) = Log \o BatchCells(Fresh(n))
         /\ Grown(n) \in Logs /\ Ordered(Grown(n))
         /\ \A i \in 1..Len(Grown(n)) : Grown(n)[i].rec <= appended + n
         /\ damage = {} => Chain(Grown(n))
         /\ \A r \in (appended + 1)..(appended + n) : Ends(Grown(n), r)
<1> DEFINE cells == BatchCells(Fresh(n))
           all == wal.buffer \o cells
           log == Log
<1>1. /\ wal.file \in Logs /\ wal.buffer \in Logs /\ log \in Logs
      /\ appended \in Nat /\ MaxRecords \in Nat
  BY LogParts
<1>2. Whole(cells, appended, n)
  BY <1>1, FreshCells
<1>3. cells # <<>>
  <2>1. Len(BatchCells(Front(Fresh(n)))) \in Nat /\ Len(BatchCells(Front(Fresh(n)))) < Len(cells)
    BY <1>1, FreshCells
  <2> HIDE DEF cells
  <2> QED  BY <2>1, EmptySeq
<1>4. wal.handle # "detached" /\ ToWrite(wal, cells) = all
  BY OpenIs DEF ToWrite
<1> HIDE DEF cells
<1>5. cells \in Logs /\ Ordered(cells) /\ Chain(cells)
  BY <1>2 DEF Whole
<1>6. all \in Logs
  BY <1>1, <1>5, ConcatProperties DEF Logs, LogsOver
<1>7. Grown(n) = log \o cells
  <2>1. log = wal.file \o wal.buffer
    BY <1>4 DEF Log
  <2>2. (wal.file \o wal.buffer) \o cells = wal.file \o all
    <3> DEFINE s == wal.file
               t == wal.buffer
    <3>1. s \in Seq(CellsOver(Records)) /\ t \in Seq(CellsOver(Records)) /\ cells \in Seq(CellsOver(Records))
      BY <1>1, <1>5 DEF Logs, LogsOver
    <3> HIDE DEF s, t
    <3>2. (s \o t) \o cells = s \o (t \o cells)
      BY <3>1, ConcatAssociative
    <3> QED  BY <3>2 DEF s, t
  <2>3. Grown(n) = wal.file \o all
    BY <1>4 DEF Grown, cells
  <2> QED  BY <2>1, <2>2, <2>3
<1>8. Ordered(log) /\ (\A i \in 1..Len(log) : log[i].rec <= appended) /\ (damage = {} => Chain(log))
  BY DEF IInv, LogInv, WrittenInv
<1> HIDE DEF log, all
<1> DEFINE u == log \o cells
<1>9. \A i \in 1..Len(log) : log[i].rec \in Int
  BY <1>1, RecordsSized, CellOf, WALAssumption DEF Records, Logs, LogsOver
<1>10. \A i \in 1..Len(cells) : cells[i].rec \in Int /\ appended < cells[i].rec /\ cells[i].rec <= appended + n
  BY <1>2, <1>5, RecordsSized, CellOf, WALAssumption DEF Records, Whole, Logs, LogsOver
<1>11. \A i \in 1..Len(log) : \A j \in 1..Len(cells) : Before(log[i], cells[j])
  BY <1>1, <1>8, <1>9, <1>10 DEF Before
<1>12. u \in Logs /\ Ordered(u) /\ (damage = {} => Chain(u))
  BY <1>1, <1>5, <1>8, <1>11, JoinOrdered, RecordsSized, JoinChain, ConcatProperties DEF Logs, LogsOver
<1>13. ASSUME NEW i \in 1..Len(u) PROVE u[i].rec <= appended + n
  <2>1. /\ Len(u) = Len(log) + Len(cells)
        /\ \A j \in 1..Len(log) : u[j] = log[j]
        /\ i <= Len(log) \/ (i - Len(log) \in 1..Len(cells) /\ u[i] = cells[i - Len(log)])
    BY <1>1, <1>5, JoinIs DEF Logs, LogsOver
  <2> HIDE DEF u
  <2>2. Len(log) \in Nat
    BY <1>1, LenProperties DEF Logs, LogsOver
  <2>3. CASE i <= Len(log)
    <3>1. i \in 1..Len(log)
      BY <2>2, <2>3
    <3>2. u[i] = log[i] /\ log[i].rec <= appended /\ log[i].rec \in Int
      BY <1>8, <1>9, <2>1, <3>1
    <3> QED  BY <1>1, <3>2
  <2>4. CASE ~(i <= Len(log))
    <3> DEFINE k == i - Len(log)
    <3>1. k \in 1..Len(cells) /\ u[i] = cells[k]
      BY <2>1, <2>4
    <3> HIDE DEF k
    <3> QED  BY <1>10, <3>1
  <2> QED  BY <2>3, <2>4
<1>14. \A r \in (appended + 1)..(appended + n) : Ends(u, r)
  <2>1. \A r \in (appended + 1)..(appended + n) : Ends(cells, r)
    BY <1>2 DEF Whole
  <2> HIDE DEF u
  <2> QED  BY <1>1, <1>5, <2>1, MoreLog DEF u
<1> HIDE DEF u
<1>15. Grown(n) = u
  BY <1>7 DEF u
<1> QED  BY <1>3, <1>4, <1>5, <1>6, <1>7, <1>12, <1>13, <1>14, <1>15 DEF cells, all, log

-----------------------------------------------------------------------------
(* Appending *)

\* What the numbers of the records become.
LEMMA NumbersType ==
  ASSUME IInv, NEW n \in {1, 2}, appended + n <= MaxRecords, appended' = appended + n
  PROVE  appended' \in 0..MaxRecords /\ 1..appended \subseteq 1..appended' /\ appended' \in 1..appended'
<1>1. appended \in Nat /\ MaxRecords \in Nat
  BY LogParts
<1> QED  BY <1>1

\* The offsets after an append: those known, and the last record's.
LEMMA OffsetsAfter ==
  ASSUME IInv, NEW n \in {1, 2}, AppendRecords(n)
  PROVE  /\ DOMAIN offset' = DOMAIN offset \cup {appended'}
         /\ \A r \in DOMAIN offset' :
              \/ r # appended' /\ r \in DOMAIN offset /\ offset'[r] = offset[r]
              \/ r = appended' /\ offset'[r] = LastOffset(wal, Fresh(n))
         /\ LastOffset(wal, Fresh(n)) = Open(wal).pos + Len(BatchCells(Front(Fresh(n))))
         /\ \A r \in DOMAIN offset' : offset'[r] \in Nat
<1>1. offset' = [r \in DOMAIN offset \cup {appended'} |->
                   IF r = appended' THEN LastOffset(wal, Fresh(n)) ELSE offset[r]]
  BY DEF AppendRecords
<1>2. Fresh(n) # <<>> /\ Len(BatchCells(Front(Fresh(n)))) \in Nat
  <2>1. appended + n <= MaxRecords /\ appended \in Nat
    BY LogParts DEF AppendRecords
  <2> QED  BY <2>1, FreshCells
<1>3. LastOffset(wal, Fresh(n)) = Open(wal).pos + Len(BatchCells(Front(Fresh(n))))
  BY <1>2 DEF LastOffset, NextOffset
<1>4. Open(wal).pos \in Nat
  BY OpenIs DEF WALs
<1>5. \A r \in DOMAIN offset : offset[r] \in Nat
  BY DEF IInv, OffsetInv
<1> DEFINE off == LastOffset(wal, Fresh(n))
<1>6. off \in Nat
  BY <1>2, <1>3, <1>4
<1> HIDE DEF off
<1>7. /\ DOMAIN offset' = DOMAIN offset \cup {appended'}
      /\ \A r \in DOMAIN offset' :
              \/ r # appended' /\ r \in DOMAIN offset /\ offset'[r] = offset[r]
              \/ r = appended' /\ offset'[r] = off
  BY <1>1 DEF off
<1>8. \A r \in DOMAIN offset' : offset'[r] \in Nat
  BY <1>5, <1>6, <1>7
<1> QED  BY <1>3, <1>7, <1>8 DEF off

LEMMA AppendAttached ==
  ASSUME IInv, NEW n \in {1, 2}, AppendRecords(n), Open(wal).handle = "attached"
  PROVE  IInv'
<1> DEFINE cells == BatchCells(Fresh(n))
           all == ToWrite(wal, cells)
           grown == Grown(n)
<1>1. appended + n <= MaxRecords /\ appended' = appended + n
  BY DEF AppendRecords
<1>2. /\ wal.handle # "detached" /\ all = wal.buffer \o cells /\ all \in Logs
      /\ cells \in Logs /\ grown = Log \o cells /\ grown \in Logs /\ Ordered(grown)
      /\ \A i \in 1..Len(grown) : grown[i].rec <= appended + n
      /\ damage = {} => Chain(grown)
      /\ \A r \in (appended + 1)..(appended + n) : Ends(grown, r)
  BY <1>1, LogGrows
<1>3. /\ Open(wal) \in WALs
      /\ Open(wal).file = wal.file
      /\ "emptied" \notin damage => Open(wal).pos = Len(wal.file) + Len(wal.buffer)
  BY <1>2, OpenIs
<1>4. /\ wal.file \in Logs /\ wal.buffer \in Logs /\ Log \in Logs
      /\ Len(wal.file) \in Nat /\ appended \in Nat /\ MaxRecords \in Nat
  BY LogParts
<1>5. Len(grown) = Len(wal.file) + Len(all) /\ Len(all) \in Nat /\ grown = wal.file \o all
  <2>1. grown = wal.file \o all
    BY DEF Grown
  <2> HIDE DEF grown, all
  <2> QED  BY <1>2, <1>4, <2>1, ConcatProperties, LenProperties DEF Logs, LogsOver
<1>6. wal' = [Open(wal) EXCEPT !.file = grown, !.buffer = <<>>, !.pos = Len(wal.file) + Len(all)]
  <2>1. wal' = WriteCells(wal, cells)
    BY <1>1, <1>4, FreshCells DEF AppendRecords, AppendBatch
  <2> QED  BY <1>3, <2>1 DEF WriteCells, Grown
<1> DEFINE b == Len(BatchCells(Front(Fresh(n))))
<1>7. b \in Nat /\ b < Len(cells) /\ cells[b + 1] = Cell(appended', 1)
  BY <1>1, <1>4, FreshCells
<1> HIDE DEF cells, all, grown
<1>8. <<>> \in Logs /\ Len(<<>>) = 0
  BY EmptySeq DEF Logs, LogsOver
<1>9. /\ wal' \in WALs /\ wal'.file = grown /\ wal'.buffer = <<>>
      /\ wal'.handle = "attached" /\ wal'.pos = Len(grown)
  <2> DEFINE o == Open(wal)
             p == Len(wal.file) + Len(all)
  <2>1. p \in Nat /\ p = Len(grown)
    BY <1>4, <1>5
  <2>2. o \in WALs /\ o.handle = "attached" /\ wal' = [o EXCEPT !.file = grown, !.buffer = <<>>, !.pos = p]
    BY <1>3, <1>6
  <2> HIDE DEF o, p
  <2> QED  BY <1>2, <1>8, <2>1, <2>2 DEF WALs
<1>10. Log' = grown
  BY <1>2, <1>9, ConcatEmptySeq DEF Log, Logs, LogsOver
<1>11. LogInv'
  BY <1>1, <1>2, <1>10 DEF LogInv
<1>12. HandleInv'
  <2>1. Len(grown) \in Nat
    BY <1>2, LenProperties DEF Logs, LogsOver
  <2> QED  BY <1>8, <1>9, <2>1 DEF HandleInv
<1>13. OffsetInv'
  <2>1. /\ \A r \in DOMAIN offset' :
             \/ r # appended' /\ r \in DOMAIN offset /\ offset'[r] = offset[r]
             \/ r = appended' /\ offset'[r] = LastOffset(wal, Fresh(n))
        /\ LastOffset(wal, Fresh(n)) = Open(wal).pos + b
        /\ \A r \in DOMAIN offset' : offset'[r] \in Nat
    BY OffsetsAfter
  <2>2. damage' = damage
    BY DEF AppendRecords
  <2>3. ASSUME "emptied" \notin damage, NEW r \in DOMAIN offset'
        PROVE  Locates(grown, r, offset'[r])
    <3>1. CASE r \in DOMAIN offset /\ offset'[r] = offset[r]
      <4>1. Locates(wal.file, r, offset[r]) /\ offset[r] \in Nat
        BY <1>2, <2>3, <3>1 DEF IInv, OffsetInv
      <4>2. Locates(wal.file \o all, r, offset[r])
        BY <1>2, <1>4, <4>1, MoreLog
      <4> QED  BY <1>5, <3>1, <4>2
    <3>2. CASE r = appended' /\ offset'[r] = LastOffset(wal, Fresh(n))
      <4>1. offset'[r] = Len(wal.file) + Len(wal.buffer) + b
        BY <1>3, <2>1, <2>3, <3>2
      <4>2. Log = wal.file \o wal.buffer
        BY <1>2 DEF Log
      <4>3. Len(Log) = Len(wal.file) + Len(wal.buffer) /\ Len(Log) \in Nat
        <5>1. Len(wal.file \o wal.buffer) = Len(wal.file) + Len(wal.buffer)
          BY <1>4, ConcatProperties DEF Logs, LogsOver
        <5> QED  BY <1>4, <4>2, <5>1, LenProperties DEF Logs, LogsOver
      <4>4. /\ Len(Log \o cells) = Len(Log) + Len(cells)
            /\ \A i \in 1..Len(cells) : (Log \o cells)[Len(Log) + i] = cells[i]
        BY <1>2, <1>4, JoinIs DEF Logs, LogsOver
      <4>5. b + 1 \in 1..Len(cells) /\ Len(cells) \in Nat
        BY <1>2, <1>7, LenProperties DEF Logs, LogsOver
      <4>6. offset'[r] = Len(Log) + b
        BY <4>1, <4>3
      <4> DEFINE l == Len(Log)
      <4> HIDE DEF b, l
      <4>7. l + b < l + Len(cells) /\ (l + b) + 1 = l + (b + 1)
        <5>1. l \in Nat /\ b \in Nat /\ b < Len(cells)
          BY <1>7, <4>3 DEF l
        <5> QED  BY <4>5, <5>1
      <4>8. Len(grown) = l + Len(cells) /\ grown[l + (b + 1)] = cells[b + 1]
        BY <1>2, <4>4, <4>5 DEF l
      <4>9. Locates(grown, r, l + b)
        BY <1>7, <3>2, <4>7, <4>8 DEF Locates
      <4> QED  BY <4>6, <4>9 DEF l
    <3> QED  BY <2>1, <3>1, <3>2
  <2> QED  BY <1>9, <2>1, <2>2, <2>3 DEF OffsetInv
<1>14. WrittenInv'
  <2> SUFFICES ASSUME damage = {} PROVE (Chain(Log) /\ \A r \in written : r >= kept => Ends(wal.file, r))'
    BY DEF WrittenInv, AppendRecords
  <2>1. /\ written' = written \cup (acked' \ acked)
        /\ acked' = acked \cup {Fresh(n)[i] : i \in 1..n} /\ kept' = kept
    BY DEF AppendRecords
  <2>2. ASSUME NEW r \in written', r >= kept PROVE Ends(grown, r)
    <3>1. CASE r \in written
      <4>1. Ends(wal.file, r)
        BY <2>2, <3>1 DEF IInv, WrittenInv
      <4> QED  BY <1>2, <1>4, <1>5, <4>1, MoreLog
    <3>2. CASE r \notin written
      <4>1. PICK i \in 1..n : r = Fresh(n)[i]
        BY <2>1, <3>2
      <4>2. r = appended + i
        BY <4>1 DEF Fresh
      <4>3. r \in (appended + 1)..(appended + n)
        BY <1>4, <4>2
      <4> QED  BY <1>2, <4>3
    <3> QED  BY <3>1, <3>2
  <2>3. \A r \in written' : r >= kept' => Ends(wal'.file, r)
    BY <1>9, <2>1, <2>2
  <2> QED  BY <1>2, <1>10, <2>3
<1>15. TypeOK'
  <2>1. wal' \in WALs /\ wal'.file \in Logs /\ wal'.buffer \in Logs
    BY <1>9 DEF WALs
  <2>2. appended' \in 0..MaxRecords /\ 1..appended \subseteq 1..appended' /\ appended' \in 1..appended'
    BY <1>1, NumbersType
  <2>3. DOMAIN offset' = DOMAIN offset \cup {appended'}
    BY OffsetsAfter
  <2>4. acked' = acked \cup {Fresh(n)[i] : i \in 1..n} /\ written' = written \cup (acked' \ acked)
    BY DEF AppendRecords
  <2>5. \A i \in 1..n : Fresh(n)[i] \in 1..appended'
    BY <1>1, <1>4 DEF Fresh
  <2>6. /\ written \subseteq acked /\ acked \subseteq 1..appended /\ DOMAIN offset \subseteq 1..appended
        /\ kept \in 1..(MaxRecords + 1) /\ damage \subseteq {"torn", "stale", "emptied"}
        /\ running \in BOOLEAN /\ crashes \in 0..MaxCrashes
    BY DEF IInv, TypeOK
  <2>7. written' \subseteq acked' /\ acked' \subseteq 1..appended' /\ DOMAIN offset' \subseteq 1..appended'
    BY <2>2, <2>3, <2>4, <2>5, <2>6
  <2>8. kept' = kept /\ damage' = damage /\ running' = running /\ crashes' = crashes
    BY DEF AppendRecords
  <2> QED  BY <2>1, <2>2, <2>6, <2>7, <2>8 DEF TypeOK, WALs, Logs, LogsOver, CellsOver, Records
<1> QED  BY <1>9, <1>11, <1>12, <1>13, <1>14, <1>15 DEF IInv

LEMMA AppendDetached ==
  ASSUME IInv, NEW n \in {1, 2}, AppendRecords(n), Open(wal).handle # "attached"
  PROVE  IInv'
<1> DEFINE p == Open(wal).pos + Len(BatchCells(Fresh(n)))
<1>1. appended + n <= MaxRecords /\ appended' = appended + n
  BY DEF AppendRecords
<1>2. wal \in WALs /\ appended \in Nat /\ MaxRecords \in Nat
  BY LogParts
<1>3. wal.handle = "detached" /\ Open(wal) = wal
  <2>1. wal.handle = "detached"
    BY <1>2, OpenIs DEF WALs
  <2> QED  BY <2>1 DEF Open
<1>4. p \in Nat
  <2>1. BatchCells(Fresh(n)) \in Logs
    BY <1>1, <1>2, FreshCells DEF Whole
  <2>2. Len(BatchCells(Fresh(n))) \in Nat
    BY <2>1, LenProperties DEF Logs, LogsOver
  <2> QED  BY <1>2, <1>3, <2>2 DEF WALs
<1>5. wal' = [wal EXCEPT !.pos = p]
  <2>1. wal' = WriteCells(wal, BatchCells(Fresh(n)))
    BY <1>1, <1>2, FreshCells DEF AppendRecords, AppendBatch
  <2> QED  BY <1>3, <2>1 DEF WriteCells
<1> HIDE DEF p
<1>6. /\ wal' \in WALs /\ wal'.file = wal.file /\ wal'.buffer = wal.buffer
      /\ wal'.handle = "detached"
  BY <1>2, <1>3, <1>4, <1>5 DEF WALs
<1>7. Log' = Log /\ Log \in Logs
  BY <1>3, <1>6, LogParts DEF Log
<1>8. LogInv'
  <2>1. \A i \in 1..Len(Log) : Log[i].rec \in Int /\ Log[i].rec <= appended
    BY <1>7, RecordsSized, CellOf, WALAssumption DEF IInv, LogInv, Records, Logs, LogsOver
  <2>2. \A i \in 1..Len(Log) : Log[i].rec <= appended + n
    BY <1>2, <2>1
  <2> QED  BY <1>1, <1>7, <2>2 DEF LogInv, IInv
<1>9. HandleInv'
  BY <1>6 DEF HandleInv
<1>10. OffsetInv'
  BY <1>6, OffsetsAfter DEF OffsetInv
<1>11. written' = written /\ kept' = kept /\ damage' = damage /\ running' = running /\ crashes' = crashes
  BY <1>3 DEF AppendRecords
<1>12. WrittenInv'
  BY <1>6, <1>7, <1>11 DEF IInv, WrittenInv
<1>13. TypeOK'
  <2>1. wal' \in WALs /\ wal'.file \in Logs /\ wal'.buffer \in Logs
    BY <1>6 DEF WALs
  <2>2. appended' \in 0..MaxRecords /\ 1..appended \subseteq 1..appended' /\ appended' \in 1..appended'
    BY <1>1, NumbersType
  <2>3. DOMAIN offset' = DOMAIN offset \cup {appended'}
    BY OffsetsAfter
  <2>4. acked' = acked \cup {Fresh(n)[i] : i \in 1..n}
    BY DEF AppendRecords
  <2>5. \A i \in 1..n : Fresh(n)[i] \in 1..appended'
    BY <1>1, <1>2 DEF Fresh
  <2>6. /\ written \subseteq acked /\ acked \subseteq 1..appended /\ DOMAIN offset \subseteq 1..appended
        /\ kept \in 1..(MaxRecords + 1) /\ damage \subseteq {"torn", "stale", "emptied"}
        /\ running \in BOOLEAN /\ crashes \in 0..MaxCrashes
    BY DEF IInv, TypeOK
  <2>7. written' \subseteq acked' /\ acked' \subseteq 1..appended' /\ DOMAIN offset' \subseteq 1..appended'
    BY <1>11, <2>2, <2>3, <2>4, <2>5, <2>6
  <2> QED  BY <1>11, <2>1, <2>2, <2>6, <2>7 DEF TypeOK, WALs, Logs, LogsOver, CellsOver, Records
<1> QED  BY <1>6, <1>8, <1>9, <1>10, <1>12, <1>13 DEF IInv

\* What is written of some cells, and what is left of them, are all of them.
LEMMA SplitJoins ==
  ASSUME NEW s \in Logs, NEW m \in 0..Len(s)
  PROVE  /\ SubSeq(s, 1, m) \in Logs /\ Len(SubSeq(s, 1, m)) = m
         /\ \A i \in 1..m : SubSeq(s, 1, m)[i] = s[i]
         /\ SubSeq(s, m + 1, Len(s)) \in Logs /\ Len(SubSeq(s, m + 1, Len(s))) = Len(s) - m
         /\ SubSeq(s, 1, m) \o SubSeq(s, m + 1, Len(s)) = s
<1> DEFINE a == SubSeq(s, 1, m)
           b == SubSeq(s, m + 1, Len(s))
           l == Len(s)
<1>1. l \in Nat /\ m \in Nat /\ m <= l
  BY LenProperties DEF Logs, LogsOver
<1>2. /\ a \in Logs
      /\ Len(a) = IF 1 <= m THEN m - 1 + 1 ELSE 0
      /\ \A i \in 1..Len(a) : a[i] = s[1 + i - 1]
  BY <1>1, SubIs DEF Logs, LogsOver
<1>3. /\ b \in Logs
      /\ Len(b) = IF m + 1 <= l THEN l - (m + 1) + 1 ELSE 0
      /\ \A i \in 1..Len(b) : b[i] = s[(m + 1) + i - 1]
  BY <1>1, SubIs DEF Logs, LogsOver
<1> HIDE DEF a, b, l
<1>4. Len(a) = m /\ Len(b) = l - m
  BY <1>1, <1>2, <1>3
<1>5. \A i \in 1..m : a[i] = s[i]
  <2>1. \A i \in 1..m : 1 + i - 1 = i
    BY <1>1
  <2> QED  BY <1>2, <1>4, <2>1
<1> DEFINE u == a \o b
<1>6. /\ u \in Logs
      /\ Len(u) = Len(a) + Len(b)
      /\ \A i \in 1..Len(a) : u[i] = a[i]
      /\ \A i \in 1..Len(u) : i <= Len(a) \/ (i - Len(a) \in 1..Len(b) /\ u[i] = b[i - Len(a)])
  <2>1. a \in Seq(CellsOver(Records)) /\ b \in Seq(CellsOver(Records))
    BY <1>2, <1>3 DEF Logs, LogsOver
  <2> QED  BY <2>1, JoinIs DEF Logs, LogsOver
<1> HIDE DEF u
<1>7. ASSUME NEW i \in 1..Len(u) PROVE u[i] = s[i]
  <2>1. CASE i <= m
    <3>1. i \in 1..m
      BY <1>1, <2>1
    <3> QED  BY <1>4, <1>5, <1>6, <3>1
  <2>2. CASE ~(i <= m)
    <3> DEFINE k == i - m
    <3>1. k \in 1..Len(b) /\ u[i] = b[k] /\ k \in Int /\ (m + 1) + k - 1 = i
      BY <1>1, <1>4, <1>6, <2>2
    <3> HIDE DEF k
    <3> QED  BY <1>3, <3>1
  <2> QED  BY <2>1, <2>2
<1>8. Len(u) = Len(s)
  BY <1>1, <1>4, <1>6 DEF l
<1>9. u = s
  <2>1. u \in Seq(CellsOver(Records)) /\ s \in Seq(CellsOver(Records))
    BY <1>6 DEF Logs, LogsOver
  <2> QED  BY <1>7, <1>8, <2>1, SeqEqual
<1> QED  BY <1>2, <1>3, <1>4, <1>5, <1>9 DEF a, b, u, l

LEMMA AppendRaisesInv ==
  ASSUME IInv, NEW n \in {1, 2}, AppendRaises(n)
  PROVE  IInv'
<1> DEFINE cells == BatchCells(Fresh(n))
           all == ToWrite(wal, cells)
           grown == Grown(n)
           f == wal.file
<1>1. appended + n <= MaxRecords /\ appended' = appended + n /\ Open(wal).handle = "attached"
  BY DEF AppendRaises
<1>2. /\ wal.handle # "detached" /\ all = wal.buffer \o cells /\ all \in Logs
      /\ cells \in Logs /\ grown \in Logs /\ Ordered(grown)
      /\ \A i \in 1..Len(grown) : grown[i].rec <= appended + n
      /\ damage = {} => Chain(grown)
  BY <1>1, LogGrows
<1>3. /\ Open(wal) \in WALs
      /\ Open(wal).file = f
      /\ "emptied" \notin damage => Open(wal).pos = Len(f) + Len(wal.buffer)
  BY <1>2, OpenIs
<1>4. /\ f \in Logs /\ wal.buffer \in Logs /\ Log \in Logs
      /\ Len(f) \in Nat /\ appended \in Nat /\ MaxRecords \in Nat
  BY LogParts
<1>5. grown = f \o all
  BY DEF Grown
<1>6. PICK m \in 0..Len(all) : wal' = WriteCellsRaised(wal, cells, m)
  BY DEF AppendRaises
<1> DEFINE put  == SubSeq(all, 1, m)
           rest == SubSeq(all, m + 1, Len(all))
           p    == IF m = 0 THEN Open(wal).pos + Len(cells) ELSE Len(f) + Len(all)
<1>7. wal' = [Open(wal) EXCEPT !.file = f \o put, !.buffer = rest, !.pos = p]
  BY <1>3, <1>6 DEF WriteCellsRaised
<1>8. Len(all) = Len(wal.buffer) + Len(cells) /\ Len(cells) \in Nat /\ Len(wal.buffer) \in Nat
  <2> HIDE DEF all, cells
  <2> QED  BY <1>2, <1>4, ConcatProperties, LenProperties DEF Logs, LogsOver
<1>9. /\ put \in Logs /\ Len(put) = m /\ rest \in Logs /\ Len(rest) = Len(all) - m
      /\ put \o rest = all
  <2> HIDE DEF all
  <2> QED  BY <1>2, <1>6, SplitJoins
<1> HIDE DEF put, rest, cells, all, grown
<1>10. p \in Nat /\ ("emptied" \notin damage => p = Len(f) + Len(all))
  <2> DEFINE q == Open(wal).pos
  <2>1. q \in Nat /\ ("emptied" \notin damage => q = Len(f) + Len(wal.buffer))
    BY <1>3 DEF WALs
  <2>2. p = IF m = 0 THEN q + Len(cells) ELSE Len(f) + Len(all)
    OBVIOUS
  <2>3. Len(f) \in Nat
    BY <1>4
  <2> HIDE DEF q, p, f
  <2> QED  BY <1>8, <2>1, <2>2, <2>3
<1> DEFINE file == f \o put
<1>11. file \in Logs /\ Len(file) = Len(f) + m
  <2> HIDE DEF f
  <2> QED  BY <1>4, <1>9, ConcatProperties DEF Logs, LogsOver
<1>12. file \o rest = grown
  <2>1. (f \o put) \o rest = f \o (put \o rest)
    <3>1. f \in Seq(CellsOver(Records)) /\ put \in Seq(CellsOver(Records)) /\ rest \in Seq(CellsOver(Records))
      BY <1>4, <1>9 DEF Logs, LogsOver
    <3> HIDE DEF f
    <3> QED  BY <3>1, ConcatAssociative
  <2> QED  BY <1>5, <1>9, <2>1
<1> HIDE DEF p, file, f
<1>13. /\ wal' \in WALs /\ wal'.file = file /\ wal'.buffer = rest
       /\ wal'.handle = "attached" /\ wal'.pos = p
  <2> DEFINE o == Open(wal)
  <2>1. o \in WALs /\ o.handle = "attached" /\ wal' = [o EXCEPT !.file = file, !.buffer = rest, !.pos = p]
    BY <1>1, <1>3, <1>7 DEF file
  <2> HIDE DEF o
  <2> QED  BY <1>9, <1>10, <1>11, <2>1 DEF WALs
<1>14. Log' = grown
  BY <1>12, <1>13 DEF Log
<1>15. UNCHANGED <<acked, offset, written, kept, damage, crashes, running>>
  BY DEF AppendRaises
<1>16. LogInv'
  BY <1>1, <1>2, <1>14 DEF LogInv
<1>17. HandleInv'
  <2>1. "emptied" \notin damage => p = Len(file) + Len(rest)
    <3>1. Len(f) \in Nat
      BY <1>4 DEF f
    <3>2. Len(all) \in Nat /\ m \in 0..Len(all) /\ Len(rest) = Len(all) - m
      BY <1>6, <1>8, <1>9
    <3> QED  BY <1>10, <1>11, <3>1, <3>2
  <2> QED  BY <1>13, <1>15, <2>1 DEF HandleInv
<1>18. OffsetInv'
  <2>1. \A r \in DOMAIN offset : offset[r] \in Nat
    BY DEF IInv, OffsetInv
  <2>2. ASSUME "emptied" \notin damage, NEW r \in DOMAIN offset PROVE Locates(file, r, offset[r])
    <3>1. Locates(f, r, offset[r]) /\ offset[r] \in Nat
      BY <1>2, <2>2 DEF IInv, OffsetInv, f
    <3> QED  BY <1>4, <1>9, <3>1, MoreLog DEF file
  <2> QED  BY <1>13, <1>15, <2>1, <2>2 DEF OffsetInv
<1>19. WrittenInv'
  <2> SUFFICES ASSUME damage = {} PROVE (Chain(Log) /\ \A r \in written : r >= kept => Ends(wal.file, r))'
    BY <1>15 DEF WrittenInv
  <2>1. ASSUME NEW r \in written, r >= kept PROVE Ends(file, r)
    <3>1. Ends(f, r)
      BY <2>1 DEF IInv, WrittenInv, f
    <3> QED  BY <1>4, <1>9, <3>1, MoreLog DEF file
  <2> QED  BY <1>2, <1>13, <1>14, <1>15, <2>1
<1>20. TypeOK'
  <2>1. wal'.file \in Logs /\ wal'.buffer \in Logs
    BY <1>13 DEF WALs
  <2>2. appended' \in 0..MaxRecords /\ 1..appended \subseteq 1..appended'
    BY <1>1, NumbersType
  <2>3. /\ written \subseteq acked /\ acked \subseteq 1..appended /\ DOMAIN offset \subseteq 1..appended
        /\ kept \in 1..(MaxRecords + 1) /\ damage \subseteq {"torn", "stale", "emptied"}
        /\ running \in BOOLEAN /\ crashes \in 0..MaxCrashes
    BY DEF IInv, TypeOK
  <2> QED  BY <1>13, <1>15, <2>1, <2>2, <2>3 DEF TypeOK, WALs, Logs, LogsOver, CellsOver, Records
<1> QED  BY <1>13, <1>16, <1>17, <1>18, <1>19, <1>20 DEF IInv

-----------------------------------------------------------------------------
(* Truncating *)

\* Emptying the file leaves what the handle holds, which is what comes last.
LEMMA Emptied ==
  ASSUME IInv, wal' = [wal EXCEPT !.file = <<>>], appended' = appended
  PROVE  /\ wal' \in WALs /\ wal'.file = <<>> /\ wal'.handle = wal.handle
         /\ wal'.buffer = wal.buffer /\ wal'.pos = wal.pos
         /\ LogInv'
<1>1. /\ wal \in WALs /\ wal.file \in Logs /\ wal.buffer \in Logs /\ Log \in Logs
      /\ Len(wal.file) \in Nat
  BY LogParts
<1>2. <<>> \in Logs /\ Len(<<>>) = 0
  BY EmptySeq DEF Logs, LogsOver
<1>3. /\ wal' \in WALs /\ wal'.file = <<>> /\ wal'.handle = wal.handle
      /\ wal'.buffer = wal.buffer /\ wal'.pos = wal.pos
  BY <1>1, <1>2 DEF WALs
<1>4. LogInv'
  <2>1. CASE wal.handle = "detached"
    <3>1. Log' = <<>>
      BY <1>3, <2>1 DEF Log
    <3> QED  BY <1>2, <3>1 DEF LogInv, Ordered
  <2>2. CASE wal.handle # "detached"
    <3> DEFINE s == wal.file
               t == wal.buffer
               u == s \o t
    <3>1. s \in Logs /\ t \in Logs /\ Log = u /\ Len(s) \in Nat
      BY <1>1, <2>2 DEF Log
    <3>2. Log' = t
      BY <1>1, <1>3, <2>2, ConcatEmptySeq DEF Log, Logs, LogsOver
    <3> HIDE DEF s, t
    <3>3. Len(u) = Len(s) + Len(t) /\ Len(t) \in Nat /\ \A i \in 1..Len(t) : u[Len(s) + i] = t[i]
      BY <3>1, JoinIs, LenProperties DEF Logs, LogsOver
    <3>4. Ordered(u) /\ \A i \in 1..Len(u) : u[i].rec <= appended
      BY <3>1 DEF IInv, LogInv
    <3> HIDE DEF u
    <3>5. \A i \in 1..Len(t) : Len(s) + i \in 1..Len(u)
      BY <3>1, <3>3
    <3>6. \A i \in 1..Len(t) : t[i].rec <= appended
      BY <3>3, <3>4, <3>5
    <3>7. ASSUME NEW i \in 1..Len(t), NEW j \in 1..Len(t), i < j PROVE Before(t[i], t[j])
      <4>1. Len(s) + i \in 1..Len(u) /\ Len(s) + j \in 1..Len(u) /\ Len(s) + i < Len(s) + j
        BY <3>1, <3>5, <3>7
      <4>2. Before(u[Len(s) + i], u[Len(s) + j])
        BY <3>4, <4>1 DEF Ordered
      <4> QED  BY <3>3, <4>2
    <3> QED  BY <3>2, <3>6, <3>7 DEF LogInv, Ordered
  <2> QED  BY <2>1, <2>2
<1> QED  BY <1>3, <1>4

LEMMA TruncateInv ==
  ASSUME IInv, NEW r \in DOMAIN offset, Truncate(r)
  PROVE  IInv'
<1> DEFINE off == offset[r]
           f   == wal.file
<1>1. /\ wal \in WALs /\ f \in Logs /\ Len(f) \in Nat /\ wal.handle # "closed"
      /\ appended \in Nat /\ MaxRecords \in Nat
  BY LogParts DEF Truncate
<1>2. off \in Nat
  BY DEF IInv, OffsetInv
<1>3. /\ wal' = TruncateUpto(wal, off)
      /\ kept' = IF r > kept THEN r ELSE kept
      /\ damage' = damage \cup TornOff \cup (IF wal.handle = "detached" THEN {"stale"} ELSE {})
      /\ UNCHANGED <<appended, acked, offset, written, crashes, running>>
  BY DEF Truncate
<1>4. damage \subseteq damage' /\ ("emptied" \in damage' => "emptied" \in damage)
  BY <1>3 DEF TornOff
<1>5. r \in 1..appended /\ kept \in 1..(MaxRecords + 1) /\ appended <= MaxRecords
  BY LogParts DEF IInv, TypeOK
<1>6. kept' \in 1..(MaxRecords + 1) /\ r <= kept' /\ kept <= kept'
  BY <1>1, <1>3, <1>5
<1>7. damage' = {} => damage = {} /\ wal.handle = "attached" /\ wal.buffer = <<>>
  BY <1>1, <1>3 DEF TornOff, WALs
<1>8. ASSUME wal' \in WALs PROVE TypeOK'
  <2>1. wal'.file \in Logs /\ wal'.buffer \in Logs
    BY <1>8 DEF WALs
  <2>2. damage' \subseteq {"torn", "stale", "emptied"}
    BY <1>3 DEF IInv, TypeOK, TornOff
  <2> QED  BY <1>3, <1>6, <1>8, <2>1, <2>2 DEF IInv, TypeOK, WALs, Logs, LogsOver, CellsOver, Records
<1>9. CASE off <= 0
  <2>1. wal' = wal
    BY <1>2, <1>3, <1>9 DEF TruncateUpto
  <2>2. Log' = Log
    BY <2>1 DEF Log
  <2>3. LogInv' /\ HandleInv' /\ OffsetInv'
    BY <1>3, <1>4, <2>1, <2>2 DEF IInv, LogInv, HandleInv, OffsetInv
  <2>4. WrittenInv'
    <3>1. \A x \in written : x >= kept' => x >= kept
      <4>1. \A x \in written : x \in Nat
        BY <1>1 DEF IInv, TypeOK
      <4> QED  BY <1>1, <1>5, <1>6, <4>1
    <3> QED  BY <1>3, <1>7, <2>1, <2>2, <3>1 DEF IInv, WrittenInv
  <2> QED  BY <1>1, <1>8, <2>1, <2>3, <2>4 DEF IInv
<1>10. CASE off > 0 /\ off >= Len(f)
  <2>1. wal' = [wal EXCEPT !.file = <<>>]
    BY <1>1, <1>2, <1>3, <1>10 DEF TruncateUpto
  <2>2. /\ wal' \in WALs /\ wal'.file = <<>> /\ wal'.handle = wal.handle
        /\ wal'.buffer = wal.buffer /\ wal'.pos = wal.pos
        /\ LogInv'
    BY <1>3, <2>1, Emptied
  <2>3. wal.handle = "detached" \/ "emptied" \in damage
    <3>1. ~ Locates(wal.file, r, off)
      BY <1>1, <1>2, <1>10 DEF Locates
    <3> QED  BY <3>1 DEF IInv, OffsetInv
  <2>4. damage' # {}
    BY <1>3, <1>4, <2>3
  <2>5. HandleInv' /\ OffsetInv' /\ WrittenInv'
    BY <1>1, <1>3, <1>4, <2>2, <2>3, <2>4 DEF IInv, HandleInv, OffsetInv, WrittenInv
  <2> QED  BY <1>8, <2>2, <2>5 DEF IInv
<1>11. CASE off > 0 /\ off < Len(f)
  <2> DEFINE l == Len(f)
             g == SubSeq(f, off + 1, l)
  <2>1. wal' = [wal EXCEPT !.file = g, !.handle = IF @ = "closed" THEN @ ELSE "detached"]
    <3>1. ~(off <= 0) /\ ~(off > 0 /\ off >= l) /\ off > 0 /\ off < l
      BY <1>1, <1>2, <1>11
    <3> QED  BY <1>3, <3>1 DEF TruncateUpto
  <2>2. Ordered(f) /\ \A i \in 1..l : f[i].rec <= appended
    BY LogParts
  <2> HIDE DEF f, off
  <2>3. off + 1 \in Nat \ {0} /\ off + 1 \in 1..l /\ l \in Nat
    BY <1>1, <1>2, <1>11
  <2>4. /\ g \in Logs
        /\ Len(g) = l - off
        /\ \A i \in 1..Len(g) : (off + 1) + i - 1 \in (off + 1)..l /\ g[i] = f[(off + 1) + i - 1]
        /\ Ordered(g)
    <3>1. /\ g \in Logs
          /\ Len(g) = IF off + 1 <= l THEN l - (off + 1) + 1 ELSE 0
          /\ \A i \in 1..Len(g) : (off + 1) + i - 1 \in (off + 1)..l /\ g[i] = f[(off + 1) + i - 1]
      BY <1>1, <2>3, SubIs DEF Logs, LogsOver
    <3>2. Ordered(g)
      BY <1>1, <2>2, <2>3, SubOrdered
    <3>3. (IF off + 1 <= l THEN l - (off + 1) + 1 ELSE 0) = l - off
      BY <1>2, <2>3
    <3> HIDE DEF g
    <3> QED  BY <3>1, <3>2, <3>3
  <2> HIDE DEF g
  <2>5. /\ wal' \in WALs /\ wal'.file = g /\ wal'.handle = "detached"
        /\ wal'.buffer = wal.buffer
    BY <1>1, <2>1, <2>4 DEF WALs
  <2>6. Log' = g
    BY <2>5 DEF Log
  <2>7. LogInv'
    <3>1. \A i \in 1..Len(g) : g[i].rec <= appended
      <4>1. \A i \in 1..Len(g) : (off + 1) + i - 1 \in 1..l
        BY <1>2, <2>3, <2>4
      <4> QED  BY <2>2, <2>4, <4>1
    <3> QED  BY <1>3, <2>4, <2>6, <3>1 DEF LogInv
  <2>8. HandleInv' /\ OffsetInv'
    BY <1>3, <2>5 DEF IInv, HandleInv, OffsetInv
  <2>9. WrittenInv'
    <3> SUFFICES ASSUME damage' = {} PROVE Chain(g) /\ \A x \in written : x >= kept' => Ends(g, x)
      BY <1>3, <2>5, <2>6 DEF WrittenInv
    <3>1. damage = {} /\ wal.handle = "attached" /\ wal.buffer = <<>>
      BY <1>7
    <3>2. Log = f
      <4>1. Log = f \o <<>>
        BY <3>1 DEF Log, f
      <4> QED  BY <1>1, <4>1, ConcatEmptySeq DEF Logs, LogsOver
    <3>3. Chain(f) /\ \A x \in written : x >= kept => Ends(f, x)
      BY <3>1, <3>2 DEF IInv, WrittenInv, f
    <3>4. f[off + 1] = Cell(r, 1)
      BY <3>1 DEF IInv, OffsetInv, Locates, f, off
    <3>5. f[off + 1].rec = r /\ f[off + 1].part = 1
      BY <3>4 DEF Cell
    <3>6. Chain(g)
      BY <1>1, <2>3, <3>3, <3>5, RecordsSized, ChainFrom DEF g, Logs, LogsOver
    <3>7. ASSUME NEW x \in written, x >= kept' PROVE Ends(g, x)
      <4>1. x \in 1..appended /\ x >= kept /\ x >= r
        <5>1. x \in 1..appended
          BY DEF IInv, TypeOK
        <5> QED  BY <1>1, <1>5, <1>6, <3>7, <5>1
      <4>2. PICK i \in 1..l : f[i] = Cell(x, RecordLen(x))
        BY <3>3, <4>1 DEF Ends
      <4>3. f[i].rec = x /\ f[i].part = RecordLen(x) /\ RecordLen(x) \in Nat
        BY <1>1, <1>5, <4>1, <4>2, WALAssumption DEF Cell
      <4>4. ~(i < off + 1)
        <5>1. i < off + 1 => Before(f[i], f[off + 1])
          BY <2>2, <2>3 DEF Ordered
        <5>2. ~ Before(f[i], f[off + 1])
          BY <1>1, <1>5, <3>5, <4>1, <4>3 DEF Before
        <5> QED  BY <5>1, <5>2
      <4> DEFINE k == i - off
      <4>5. k \in 1..Len(g) /\ (off + 1) + k - 1 = i
        BY <1>2, <2>3, <2>4, <4>4
      <4> HIDE DEF k
      <4>6. g[k] = Cell(x, RecordLen(x))
        BY <2>4, <4>2, <4>5
      <4> QED  BY <4>5, <4>6 DEF Ends
    <3> QED  BY <3>6, <3>7
  <2> QED  BY <1>8, <2>5, <2>7, <2>8, <2>9 DEF IInv
<1> QED  BY <1>1, <1>2, <1>9, <1>10, <1>11

LEMMA TruncateAllInv ==
  ASSUME IInv, TruncateAll
  PROVE  IInv'
<1>1. /\ wal \in WALs /\ wal.file \in Logs /\ Len(wal.file) \in Nat
      /\ appended \in Nat /\ MaxRecords \in Nat /\ appended <= MaxRecords
  BY LogParts
<1>2. /\ wal' = TruncateUpto(wal, Len(wal.file)) /\ wal.file # <<>>
      /\ kept' = appended + 1 /\ damage' = damage \cup {"emptied"}
      /\ UNCHANGED <<appended, acked, offset, written, crashes, running>>
  BY DEF TruncateAll
<1>3. wal' = [wal EXCEPT !.file = <<>>]
  <2>1. Len(wal.file) > 0
    <3> DEFINE s == wal.file
    <3>1. s \in Logs /\ s # <<>>
      BY <1>1, <1>2
    <3> HIDE DEF s
    <3>2. Len(s) \in Nat \ {0}
      BY <3>1, EmptySeq DEF Logs, LogsOver
    <3>3. Len(s) > 0
      BY <3>2
    <3> QED  BY <3>3 DEF s
  <2> QED  BY <1>1, <1>2, <2>1 DEF TruncateUpto
<1>4. /\ wal' \in WALs /\ wal'.file = <<>> /\ wal'.handle = wal.handle
      /\ wal'.buffer = wal.buffer /\ wal'.pos = wal.pos
      /\ LogInv'
  BY <1>2, <1>3, Emptied
<1>5. HandleInv' /\ OffsetInv' /\ WrittenInv'
  BY <1>2, <1>4 DEF IInv, HandleInv, OffsetInv, WrittenInv
<1>6. TypeOK'
  <2>1. wal'.file \in Logs /\ wal'.buffer \in Logs
    BY <1>4 DEF WALs
  <2>2. kept' \in 1..(MaxRecords + 1)
    BY <1>1, <1>2
  <2> QED  BY <1>2, <1>4, <2>1, <2>2 DEF IInv, TypeOK, WALs, Logs, LogsOver, CellsOver, Records
<1> QED  BY <1>4, <1>5, <1>6 DEF IInv

-----------------------------------------------------------------------------
(* Crashing *)

\* A new process on an ordered file of records no later than appended' knows
\* where the records are that it has replayed.
LEMMA RestartInv ==
  ASSUME IInv, NEW file \in Logs, Restart(file), Ordered(file),
         \A i \in 1..Len(file) : file[i].rec <= appended',
         UNCHANGED <<acked, written, kept>>,
         appended <= appended', appended' \in 0..MaxRecords,
         damage \subseteq damage', damage' \subseteq {"torn", "stale", "emptied"},
         damage' = {} => file = Log /\ file = wal.file
  PROVE  IInv'
<1> DEFINE q == Replay(file)
           D == {q[j].rec : j \in DOMAIN q}
           at(r) == CHOOSE j \in DOMAIN q : q[j].rec = r
<1>1. wal \in WALs /\ appended \in Nat /\ MaxRecords \in Nat
  BY LogParts
<1>2. <<>> \in Logs /\ Len(<<>>) = 0
  BY EmptySeq DEF Logs, LogsOver
<1>3. /\ wal' \in WALs /\ wal'.file = file /\ wal'.handle = "closed" /\ wal'.buffer = <<>>
  <2>1. wal' = [Crashed(wal) EXCEPT !.file = file]
    BY DEF Restart
  <2>2. /\ Crashed(wal) \in WALs /\ Crashed(wal).handle = "closed" /\ Crashed(wal).buffer = <<>>
    BY <1>1, <1>2 DEF Crashed, WALs
  <2> QED  BY <2>1, <2>2 DEF WALs
<1>4. Log' = file
  BY <1>3, ConcatEmptySeq DEF Log, Logs, LogsOver
<1>5. LogInv'
  BY <1>4 DEF LogInv
<1>6. HandleInv'
  BY <1>3 DEF HandleInv
<1>7. offset' = [r \in D |-> q[at(r)].off]
  BY DEF Restart
<1>8. \A j \in DOMAIN q : /\ q[j].off \in Nat /\ Locates(file, q[j].rec, q[j].off)
                          /\ \E i \in 1..Len(file) : file[i].rec = q[j].rec
  BY ReplayLocates
<1> HIDE DEF q
<1>9. ASSUME NEW r \in D
      PROVE  offset'[r] \in Nat /\ Locates(file, r, offset'[r]) /\ r \in 1..appended'
  <2>1. \E j \in DOMAIN q : q[j].rec = r
    OBVIOUS
  <2>2. at(r) \in DOMAIN q /\ q[at(r)].rec = r
    BY <2>1
  <2>3. offset'[r] = q[at(r)].off
    BY <1>7
  <2> HIDE DEF at
  <2>4. PICK i \in 1..Len(file) : file[i].rec = r
    BY <1>8, <2>2
  <2>5. r \in 1..appended'
    <3>1. file[i].rec \in Records /\ file[i].rec <= appended'
      BY RecordsSized, CellOf DEF Logs, LogsOver
    <3> QED  BY <1>1, <2>4, <3>1 DEF Records
  <2> QED  BY <1>8, <2>2, <2>3, <2>5
<1>10. DOMAIN offset' = D
  BY <1>7
<1>11. OffsetInv'
  BY <1>3, <1>9, <1>10 DEF OffsetInv
<1>12. WrittenInv'
  <2> SUFFICES ASSUME damage' = {} PROVE Chain(file) /\ \A r \in written' : r >= kept' => Ends(file, r)
    BY <1>3, <1>4 DEF WrittenInv
  <2>1. damage = {}
    OBVIOUS
  <2> QED  BY <2>1 DEF IInv, WrittenInv
<1>13. TypeOK'
  <2>1. wal'.file \in Logs /\ wal'.buffer \in Logs
    BY <1>3 DEF WALs
  <2>2. running' \in BOOLEAN /\ crashes' \in 0..MaxCrashes
    BY WALAssumption DEF Restart, IInv, TypeOK
  <2>3. acked' \subseteq 1..appended'
    <3>1. 1..appended \subseteq 1..appended'
      BY <1>1
    <3> QED  BY <3>1 DEF IInv, TypeOK
  <2>4. DOMAIN offset' \subseteq 1..appended'
    BY <1>9, <1>10
  <2>5. written' \subseteq acked' /\ kept' \in 1..(MaxRecords + 1)
    BY DEF IInv, TypeOK
  <2> QED  BY <1>3, <2>1, <2>2, <2>3, <2>4, <2>5 DEF TypeOK, WALs, Logs, LogsOver, CellsOver, Records
<1> QED  BY <1>3, <1>5, <1>6, <1>11, <1>12, <1>13 DEF IInv

LEMMA CrashIdleInv ==
  ASSUME IInv, CrashIdle
  PROVE  IInv'
<1>1. /\ Restart(wal.file) /\ damage' = damage \cup TornOff
      /\ UNCHANGED <<appended, acked, written, kept>>
  BY DEF CrashIdle
<1>2. /\ wal \in WALs /\ wal.file \in Logs /\ Ordered(wal.file)
      /\ \A i \in 1..Len(wal.file) : wal.file[i].rec <= appended
      /\ appended \in Nat /\ appended <= MaxRecords /\ MaxRecords \in Nat
  BY LogParts
<1>3. damage' = {} => Log = wal.file
  <2> SUFFICES ASSUME damage' = {} PROVE Log = wal.file
    OBVIOUS
  <2>1. wal.buffer = <<>>
    BY <1>1 DEF TornOff
  <2> QED  BY <1>2, <2>1, ConcatEmptySeq DEF Log, Logs, LogsOver
<1>4. damage \subseteq damage' /\ damage' \subseteq {"torn", "stale", "emptied"}
  BY <1>1 DEF TornOff, IInv, TypeOK
<1>5. appended <= appended' /\ appended' \in 0..MaxRecords
  BY <1>1, <1>2
<1> QED  BY <1>1, <1>2, <1>3, <1>4, <1>5, RestartInv

\* A torn prefix is what was to be written up to some cell, with some bytes of
\* the next record's first cell or without.
LEMMA TornIs ==
  ASSUME NEW all \in Logs, NEW tail \in TornPrefixes(all)
  PROVE  \E m \in 0..(Len(all) - 1) :
           \/ tail = SubSeq(all, 1, m)
           \/ /\ all[m + 1].part = 1
              /\ tail = SubSeq(all, 1, m) \o <<Cell(all[m + 1].rec, 0)>>
<1>1. Len(all) \in Nat
  BY LenProperties DEF Logs, LogsOver
<1>2. CASE tail \in {SubSeq(all, 1, n) : n \in 1..(Len(all) - 1)}
  <2>1. PICK n \in 1..(Len(all) - 1) : tail = SubSeq(all, 1, n)
    BY <1>2
  <2> QED  BY <1>1, <2>1
<1>3. CASE tail \in {SubSeq(all, 1, n) \o <<Cell(all[n + 1].rec, 0)>> :
                       n \in {m \in 0..(Len(all) - 1) : all[m + 1].part = 1}}
  <2>1. PICK n \in {m \in 0..(Len(all) - 1) : all[m + 1].part = 1} :
          tail = SubSeq(all, 1, n) \o <<Cell(all[n + 1].rec, 0)>>
    BY <1>3
  <2> QED  BY <2>1
<1> QED  BY <1>2, <1>3 DEF TornPrefixes

LEMMA CrashWritingInv ==
  ASSUME IInv, NEW n \in {1, 2}, CrashWriting(n)
  PROVE  IInv'
<1> DEFINE cells == BatchCells(Fresh(n))
           all == ToWrite(wal, cells)
           grown == Grown(n)
           f == wal.file
<1>1. /\ appended + n <= MaxRecords /\ appended' = appended + n /\ Open(wal).handle = "attached"
      /\ damage' = damage \cup {"torn"} /\ UNCHANGED <<acked, written, kept>>
  BY DEF CrashWriting
<1>2. /\ all \in Logs /\ grown \in Logs /\ Ordered(grown)
      /\ \A i \in 1..Len(grown) : grown[i].rec <= appended + n
  BY <1>1, LogGrows
<1>3. /\ f \in Logs /\ Len(f) \in Nat /\ appended \in Nat /\ MaxRecords \in Nat
  BY LogParts
<1>4. PICK tail \in TornPrefixes(all) : Restart(f \o tail)
  BY DEF CrashWriting
<1>5. grown = f \o all
  BY DEF Grown
<1> HIDE DEF cells, all, grown, f
<1>6. PICK m \in 0..(Len(all) - 1) :
           \/ tail = SubSeq(all, 1, m)
           \/ /\ all[m + 1].part = 1
              /\ tail = SubSeq(all, 1, m) \o <<Cell(all[m + 1].rec, 0)>>
  BY <1>2, TornIs
<1>7. Len(all) \in Nat /\ m \in Nat /\ m <= Len(all) /\ m + 1 \in 1..Len(all)
  <2>1. Len(all) \in Nat
    BY <1>2, LenProperties DEF Logs, LogsOver
  <2> QED  BY <1>6, <2>1
<1> DEFINE put == SubSeq(all, 1, m)
           some == f \o put
           k == Len(f) + m
<1>8. put \in Logs /\ Len(put) = m /\ \A i \in 1..m : put[i] = all[i]
  <2>1. m \in 0..Len(all)
    BY <1>7
  <2> QED  BY <1>2, <2>1, SplitJoins
<1>9. /\ Len(grown) = Len(f) + Len(all)
      /\ \A i \in 1..Len(f) : grown[i] = f[i]
      /\ \A i \in 1..Len(all) : grown[Len(f) + i] = all[i]
  BY <1>2, <1>3, <1>5, JoinIs DEF Logs, LogsOver
<1> HIDE DEF put
<1>10. /\ some \in Logs /\ Len(some) = k /\ k \in Nat
       /\ \A i \in 1..k : i \in 1..Len(grown) /\ some[i] = grown[i]
  <2>1. /\ some \in Logs /\ Len(some) = Len(f) + Len(put)
        /\ \A i \in 1..Len(f) : some[i] = f[i]
        /\ \A i \in 1..Len(some) : i <= Len(f) \/ (i - Len(f) \in 1..Len(put) /\ some[i] = put[i - Len(f)])
    <3>1. f \in Seq(CellsOver(Records)) /\ put \in Seq(CellsOver(Records))
      BY <1>3, <1>8 DEF Logs, LogsOver
    <3>2. /\ some \in Seq(CellsOver(Records)) /\ Len(some) = Len(f) + Len(put)
          /\ \A i \in 1..Len(f) : some[i] = f[i]
          /\ \A i \in 1..Len(some) : i <= Len(f) \/ (i - Len(f) \in 1..Len(put) /\ some[i] = put[i - Len(f)])
      BY <3>1, JoinIs
    <3> HIDE DEF some
    <3> QED  BY <3>2 DEF Logs, LogsOver
  <2> HIDE DEF some
  <2>2. Len(some) = k /\ k \in Nat
    BY <1>3, <1>7, <1>8, <2>1
  <2>3. ASSUME NEW i \in 1..k PROVE i \in 1..Len(grown) /\ some[i] = grown[i]
    <3>1. i \in 1..Len(grown)
      BY <1>3, <1>7, <1>9
    <3>2. CASE i <= Len(f)
      <4>1. i \in 1..Len(f)
        BY <1>3, <3>2
      <4> QED  BY <1>9, <2>1, <3>1, <4>1
    <3>3. CASE ~(i <= Len(f))
      <4> DEFINE j == i - Len(f)
      <4>1. j \in 1..m /\ some[i] = put[j] /\ Len(f) + j = i
        <5>1. i \in 1..Len(some) /\ Len(put) = m
          BY <1>8, <2>2
        <5>2. j \in 1..m /\ some[i] = put[j]
          BY <2>1, <3>3, <5>1
        <5>3. Len(f) + j = i
          BY <1>3, <1>7
        <5> QED  BY <5>2, <5>3
      <4>2. j \in 1..Len(all)
        BY <1>7, <4>1
      <4> HIDE DEF j
      <4> QED  BY <1>8, <1>9, <3>1, <4>1, <4>2
    <3> QED  BY <3>2, <3>3
  <2> QED  BY <2>1, <2>2, <2>3
<1>11. Ordered(some) /\ \A i \in 1..k : some[i].rec <= appended'
  BY <1>1, <1>2, <1>10 DEF Ordered
<1> HIDE DEF some, k
<1>12. CASE tail = put
  <2>1. f \o tail = some
    BY <1>12 DEF some
  <2>2. /\ appended <= appended' /\ appended' \in 0..MaxRecords
        /\ damage \subseteq damage' /\ damage' \subseteq {"torn", "stale", "emptied"} /\ damage' # {}
    BY <1>1, <1>3 DEF IInv, TypeOK
  <2>3. \A i \in 1..Len(some) : some[i].rec <= appended'
    BY <1>10, <1>11
  <2>4. Restart(some)
    BY <1>4, <2>1
  <2> QED  BY <1>1, <1>10, <1>11, <2>2, <2>3, <2>4, RestartInv
<1>13. CASE all[m + 1].part = 1 /\ tail = put \o <<Cell(all[m + 1].rec, 0)>>
  <2> DEFINE c == Cell(all[m + 1].rec, 0)
             t == <<c>>
             file == some \o t
  <2>1. /\ all[m + 1].rec \in Records /\ all[m + 1].rec \in Int
        /\ c \in CellsOver(Records) /\ c.rec = all[m + 1].rec
    <3>1. all[m + 1].rec \in Records
      BY <1>2, <1>7, RecordsSized, CellOf DEF Logs, LogsOver
    <3>2. all[m + 1].rec \in Int
      BY <3>1, WALAssumption DEF Records
    <3> QED  BY <3>1, <3>2 DEF Cell, CellsOver
  <2> HIDE DEF c
  <2>2. t \in Logs /\ Len(t) = 1 /\ t[1] = c
    BY <2>1 DEF Logs, LogsOver
  <2> HIDE DEF t
  <2>3. f \o tail = file
    <3>1. f \in Seq(CellsOver(Records)) /\ put \in Seq(CellsOver(Records)) /\ t \in Seq(CellsOver(Records))
      BY <1>3, <1>8, <2>2 DEF Logs, LogsOver
    <3>2. (f \o put) \o t = f \o (put \o t)
      BY <3>1, ConcatAssociative
    <3>3. tail = put \o t
      BY <1>13 DEF t, c
    <3> QED  BY <3>2, <3>3 DEF some
  <2>4. Ordered(t)
    <3>1. \A i, j \in 1..1 : ~(i < j)
      OBVIOUS
    <3> QED  BY <2>2, <3>1 DEF Ordered
  <2> DEFINE d == Len(f) + (m + 1)
  <2>5. d \in 1..Len(grown) /\ grown[d] = all[m + 1] /\ \A i \in 1..k : i < d
    <3>1. grown[d] = all[m + 1]
      BY <1>7, <1>9
    <3>2. d \in 1..Len(grown) /\ \A i \in 1..k : i < d
      BY <1>3, <1>7, <1>9 DEF k
    <3> QED  BY <3>1, <3>2
  <2> HIDE DEF d
  <2>6. ASSUME NEW i \in 1..Len(some), NEW j \in 1..Len(t) PROVE Before(some[i], t[j])
    <3>1. i \in 1..k /\ i \in 1..Len(grown) /\ some[i] = grown[i] /\ j = 1
      BY <1>10, <2>2
    <3>2. Before(grown[i], all[m + 1])
      BY <1>2, <2>5, <3>1 DEF Ordered
    <3>3. grown[i].part \in Nat
      BY <1>2, <3>1, RecordsSized, CellOf DEF Logs, LogsOver
    <3>4. grown[i].rec < all[m + 1].rec
      BY <1>13, <3>2, <3>3 DEF Before
    <3> QED  BY <2>1, <2>2, <3>1, <3>4 DEF Before
  <2>7. file \in Logs /\ Ordered(file)
    BY <1>10, <1>11, <2>2, <2>4, <2>6, JoinOrdered, ConcatProperties DEF Logs, LogsOver
  <2>8. ASSUME NEW i \in 1..Len(file) PROVE file[i].rec <= appended'
    <3>1. /\ Len(file) = Len(some) + Len(t)
          /\ \A j \in 1..Len(some) : file[j] = some[j]
          /\ i <= Len(some) \/ (i - Len(some) \in 1..Len(t) /\ file[i] = t[i - Len(some)])
      <4>1. some \in Seq(CellsOver(Records)) /\ t \in Seq(CellsOver(Records))
        BY <1>10, <2>2 DEF Logs, LogsOver
      <4> QED  BY <4>1, JoinIs
    <3> HIDE DEF file
    <3>2. CASE i <= Len(some)
      <4>1. i \in 1..k /\ file[i] = some[i]
        BY <1>10, <3>1, <3>2
      <4> QED  BY <1>11, <4>1
    <3>3. CASE ~(i <= Len(some))
      <4> DEFINE x == i - Len(some)
      <4>1. x \in 1..1 /\ file[i] = t[x]
        BY <2>2, <3>1, <3>3
      <4> HIDE DEF x
      <4>2. x = 1
        BY <4>1
      <4>3. file[i].rec = all[m + 1].rec
        BY <2>1, <2>2, <4>1, <4>2
      <4>4. all[m + 1].rec <= appended'
        BY <1>1, <1>2, <2>5
      <4> QED  BY <4>3, <4>4
    <3> QED  BY <3>2, <3>3
  <2> HIDE DEF file
  <2>9. /\ appended <= appended' /\ appended' \in 0..MaxRecords
        /\ damage \subseteq damage' /\ damage' \subseteq {"torn", "stale", "emptied"} /\ damage' # {}
    BY <1>1, <1>3 DEF IInv, TypeOK
  <2>10. Restart(file)
    BY <1>4, <2>3
  <2> QED  BY <1>1, <2>7, <2>8, <2>9, <2>10, RestartInv
<1> QED  BY <1>6, <1>12, <1>13 DEF put

-----------------------------------------------------------------------------
(* The theorems *)

LEMMA NextIInv ==
  ASSUME IInv, [Next]_vars
  PROVE  IInv'
<1>1. ASSUME NEW n \in {1, 2}, AppendRecords(n) PROVE IInv'
  BY <1>1, AppendAttached, AppendDetached
<1>2. ASSUME NEW n \in {1, 2}, AppendRaises(n) PROVE IInv'
  BY <1>2, AppendRaisesInv
<1>3. ASSUME NEW n \in {1, 2}, CrashWriting(n) PROVE IInv'
  BY <1>3, CrashWritingInv
<1>4. ASSUME NEW r \in DOMAIN offset, Truncate(r) PROVE IInv'
  BY <1>4, TruncateInv
<1>5. CASE TruncateAll
  BY <1>5, TruncateAllInv
<1>6. CASE CrashIdle
  BY <1>6, CrashIdleInv
<1>7. CASE UNCHANGED vars
  BY <1>7 DEF vars, IInv, TypeOK, LogInv, Log, HandleInv, OffsetInv, WrittenInv
<1> QED  BY <1>1, <1>2, <1>3, <1>4, <1>5, <1>6, <1>7 DEF Next

LEMMA Invariant == Spec => []IInv
<1>1. Init => IInv
  BY InitIInv
<1>2. IInv /\ [Next]_vars => IInv'
  BY NextIInv
<1> QED  BY <1>1, <1>2, PTL DEF Spec

\* The log, its handle and the records stay of their types (TypeOK).
THEOREM TypeCorrect == Spec => []TypeOK
<1>1. IInv => TypeOK
  BY DEF IInv
<1> QED  BY <1>1, Invariant, PTL

\* Whatever is cut off the log, in front by a truncation at any offset, even
\* one of another file, or at the end by a crash: replay yields the records in
\* the order they were appended and none of them twice (WAL.replay).
THEOREM ReplaysInOrder == Spec => []ReplayInOrder
<1>1. IInv => ReplayInOrder
  BY LogParts, ReplayOrdered DEF ReplayInOrder
<1> QED  BY <1>1, Invariant, PTL

\* A record whose append has returned and that no truncation covers is replayed,
\* as long as no write was cut short for good and no truncation used an offset of
\* a file that is gone (WAL.append, WAL.truncate_upto, WAL.replay).
THEOREM NothingIsLost == Spec => []NoLossWithoutDamage
<1>1. ASSUME IInv PROVE NoLossWithoutDamage
  <2> SUFFICES ASSUME damage = {}, NEW r \in written, r >= kept PROVE r \in Replayed
    BY DEF NoLossWithoutDamage
  <2> DEFINE f == wal.file
             log == Log
             records == ReplayedRecords(f)
  <2>1. /\ f \in Logs /\ log \in Logs /\ Len(f) \in Nat /\ Len(f) <= Len(log)
        /\ \A i \in 1..Len(f) : f[i] = log[i]
    BY <1>1, LogParts
  <2>2. Chain(log) /\ Ends(f, r)
    BY <1>1 DEF IInv, WrittenInv
  <2> HIDE DEF f, log
  <2>3. Len(log) \in Nat /\ (log = <<>> => Len(log) = 0) /\ (f # <<>> => Len(f) \in Nat \ {0})
    BY <2>1, LenProperties, EmptySeq DEF Logs, LogsOver
  <2>4. f # <<>> => f[1].part = 1
    BY <2>1, <2>2, <2>3 DEF Chain
  <2>5. ASSUME NEW i \in 1..(Len(f) - 1) PROVE Follows(f[i], f[i + 1])
    <3>1. i \in 1..Len(f) /\ i + 1 \in 1..Len(f) /\ i \in 1..(Len(log) - 1)
      BY <2>1, <2>3
    <3>2. log # <<>>
      BY <2>3, <3>1
    <3> QED  BY <2>1, <2>2, <3>1, <3>2 DEF Chain
  <2>6. \E j \in DOMAIN records : records[j] = r
    BY <2>1, <2>2, <2>4, <2>5, ReplayFinds
  <2> QED  BY <2>6 DEF Replayed, f
<1> QED  BY <1>1, Invariant, PTL

\* The offset an append returned, or replay reported, is where that record is in
\* the file, in every life of the log and until the handle loses its file
\* (WAL.append, WAL.append_batch, WAL.replay).
THEOREM OffsetsAreRight == Spec => []OffsetIsWhereRecordIs
<1>1. ASSUME IInv PROVE OffsetIsWhereRecordIs
  BY <1>1 DEF IInv, OffsetInv, Locates, OffsetIsWhereRecordIs
<1> QED  BY <1>1, Invariant, PTL
=============================================================================
