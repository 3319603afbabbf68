----------------------------- MODULE Operations -----------------------------
(***************************************************************************)
(* The requests clients send (operations.py) and what the controller makes  *)
(* of one (controller.py): the store after it and the lines it answers.     *)
(*                                                                         *)
(* The storage engine is taken as what KVStore says of it, a map from keys  *)
(* to values that a request reads or changes at one moment: handle_request  *)
(* calls the engine from the event loop and awaits nothing in between.      *)
(* Keys are positive integers, for their order; EmptyKey stands for "".     *)
(*                                                                         *)
(* Of an answer only what tells answers apart for the client is kept:       *)
(*   success      a response with "success" and, for a get, the value       *)
(*   key_error    a response with "error" and no "status": key not found    *)
(*   error        "status": "error"                                        *)
(*   chunk        part of a streamed range, with its rows                   *)
(*   done         "stream_status": "done"                                  *)
(*   terminated   "stream_status": "terminated", with "error"              *)
(***************************************************************************)
EXTENDS Integers, Sequences, SequencesExt, FiniteSets

CONSTANTS
  Keys,
  Values,
  None,        \* no value
  ChunkSize    \* rows in a chunk of a streamed range

EmptyKey == 0

StoreKeys == Keys \cup {EmptyKey}

ASSUME OperationsAssumption ==
  /\ Keys \subseteq Nat \ {EmptyKey}
  /\ None \notin Values
  /\ ChunkSize \in Nat \ {0}

Stores == [StoreKeys -> Values \cup {None}]

\* The requests, one class each; start_key and end_key of a range are from and to.
Requests ==
  [op : {"put"}, key : StoreKeys, value : Values]
    \cup [op : {"get", "delete"}, key : StoreKeys]
    \cup [op : {"batch_put"}, pairs : Seq([key : StoreKeys, value : Values])]
    \cup [op : {"read_key_range"}, from : Nat, to : Nat]

Kinds == {"success", "key_error", "error", "chunk", "done", "terminated"}

Answer(kind, rows) == [kind |-> kind, rows |-> rows]

\* What a request comes to: the store after it and the lines to answer.
Outcome(store, answers) == [store |-> store, answers |-> answers]

\* A ValueError of parse or validate, or anything the engine raises.
Refusal(s) == Outcome(s, <<Answer("error", <<>>)>>)

Success(s) == Outcome(s, <<Answer("success", <<>>)>>)

-----------------------------------------------------------------------------
(* The operations *)

PutOperation(s, r) ==
  IF r.key = EmptyKey THEN Refusal(s) ELSE Success([s EXCEPT ![r.key] = r.value])

GetOperation(s, r) ==
  CASE r.key = EmptyKey -> Refusal(s)
    [] r.key # EmptyKey /\ s[r.key] = None -> Outcome(s, <<Answer("key_error", <<>>)>>)
    [] OTHER -> Outcome(s, <<Answer("success", <<<<r.key, s[r.key]>>>>)>>)

DeleteOperation(s, r) ==
  IF r.key = EmptyKey THEN Refusal(s) ELSE Success([s EXCEPT ![r.key] = None])

\* Mutant: only the first pair is written.
BatchPutOperationFirst(s, r) ==
  IF r.pairs = <<>> THEN Refusal(s)
  ELSE Success([s EXCEPT ![r.pairs[1].key] = r.pairs[1].value])

\* The keys of a batch are not checked one by one, and may be empty.
BatchPutOperation(s, r) ==
  IF r.pairs = <<>> THEN Refusal(s)
  ELSE Success(FoldLeft(LAMBDA acc, p : [acc EXCEPT ![p.key] = p.value], s, r.pairs))

\* The rows with from <= key < to, in the order of their keys.
RowsOf(s, from, to) ==
  LET rows == {<<k, s[k]>> : k \in {x \in StoreKeys : from <= x /\ x < to /\ s[x] # None}}
  IN CHOOSE q \in SetToSeqs(rows) : \A i, j \in DOMAIN q : i < j => q[i][1] < q[j][1]

\* _stream_response cuts the rows into chunks, the last perhaps a short one.
Chunks(rows) ==
  [i \in 1..((Len(rows) + ChunkSize - 1) \div ChunkSize) |->
     Answer("chunk", SubSeq(rows, (i - 1) * ChunkSize + 1,
                            IF i * ChunkSize < Len(rows) THEN i * ChunkSize ELSE Len(rows)))]

ReadKeyRangeOperation(s, r) ==
  IF r.from = EmptyKey \/ r.to = EmptyKey THEN Refusal(s)
  ELSE Outcome(s, Append(Chunks(RowsOf(s, r.from, r.to)), Answer("done", <<>>)))

\* handle_request, when nothing goes wrong.
Served(s, r) ==
  CASE r.op = "put"            -> PutOperation(s, r)
    [] r.op = "get"            -> GetOperation(s, r)
    [] r.op = "delete"         -> DeleteOperation(s, r)
    [] r.op = "batch_put"      -> BatchPutOperation(s, r)
    [] r.op = "read_key_range" -> ReadKeyRangeOperation(s, r)

\* The engine raises. An exception while a range is read or written ends the
\* stream, after any number of its chunks.
Failed(s, r) ==
  LET served == Served(s, r) IN
  IF r.op = "read_key_range" /\ served # Refusal(s)
  THEN {[served EXCEPT !.answers = Append(SubSeq(@, 1, n), Answer("terminated", <<>>))] :
          n \in 0..(Len(served.answers) - 1)}
  ELSE {Refusal(s)}
=============================================================================
