------------------------------ MODULE MCEngine ------------------------------
(***************************************************************************)
(* Small instances of Engine: values v1 and v2 of one and two bytes, a      *)
(* tombstone of one, keys of one byte, records of one WAL cell.            *)
(***************************************************************************)
EXTENDS Durability

CONSTANTS k1, k2, v1, v2

MCSizeOf(v) == IF v = v2 THEN 2 ELSE 1

MCRecordLen(r) == 1

Pair(k, v) == [key |-> k, value |-> v]

\* With Overhead = 0, KeyLen = 0 and MaxSize = 2 or 3, a batch that fits and one
\* that does not, unless a key it overwrites makes room for it. With 2 the first
\* may be of exactly that size.
SmallBatches == {<<Pair(k1, v1), Pair(k2, v1)>>, <<Pair(k1, v2), Pair(k2, v2)>>}

\* With KeyLen = 1 and MaxSize = 5, a batch whose size is exactly that.
ExactBatches == {<<Pair(k1, v1), Pair(k2, v2)>>}

NoBatches == {}
=============================================================================
