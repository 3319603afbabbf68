----------------------------- MODULE MCSession -----------------------------
(***************************************************************************)
(* Small instances of Session: two clients, one of them shared by two       *)
(* tasks, two keys and one row to a chunk, so that the whole range is two   *)
(* chunks.                                                                 *)
(***************************************************************************)
EXTENDS Session

CONSTANTS c1, c2, t1, t2, t3, v1, v2

MCClientOf == [t \in Tasks |-> IF t = t3 THEN c2 ELSE c1]

Put(k) == [op |-> "put", key |-> k, value |-> v1]

GetK(k) == [op |-> "get", key |-> k]

DeleteK(k) == [op |-> "delete", key |-> k]

Batch == [op |-> "batch_put", pairs |-> <<[key |-> 1, value |-> v2], [key |-> 2, value |-> v2]>>]

All == [op |-> "read_key_range", from |-> 1, to |-> 3]

MCMaxConnects == [c \in Clients |-> IF c = c1 THEN 2 ELSE 1]

MCRequestsOf ==
  [t \in Tasks |-> CASE t = t1 -> {All, Put(1)}
                     [] t = t2 -> {GetK(1)}
                     [] t = t3 -> {Batch, DeleteK(1)}]

\* Two ranges on one connection, and a writer.
TwoRanges == [t \in Tasks |-> IF t = t3 THEN {Batch} ELSE {All}]
=============================================================================
