----------------------------- MODULE MCRecovery -----------------------------
(***************************************************************************)
(* Small instances of Recovery: records of two WAL cells, so that a write   *)
(* can be cut short inside a record and between two.                       *)
(***************************************************************************)
EXTENDS Recovery, MCEngine

MCTwoCells(r) == 2

\* Parts of the record of any other put or delete are alike.
MCTornPairs == {Pair(k1, v1)}

\* With MaxSize = 3, Overhead = 0 and KeyLen = 0, a batch that fits.
OneBatch == {<<Pair(k1, v1), Pair(k2, v1)>>}
=============================================================================
