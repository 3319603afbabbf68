------------------------------ MODULE MCMerge -------------------------------
(***************************************************************************)
(* Small instances of Engine in which the merge loop is looked at, and what *)
(* gets find beside it. No removal raises: the older inputs would stay in   *)
(* front of the merged file for good, as in the middle of the removals.     *)
(* Flush threads flush, and nobody calls flush_all.                        *)
(***************************************************************************)
EXTENDS MCEngine, Merge

MCKeyOrder == <<k1, k2>>

\* Next, with its disjuncts as they are, but for these two.
MergesNext ==
  \/ \E t \in Writers : WriterCalls(t) \/ WriterReturns(t)
  \/ Flusher
  \/ Compactor /\ ~CompactRemoveFails

MergesSpec == Init /\ [][MergesNext]_vars
=============================================================================
