------------------------------- MODULE MCWAL --------------------------------
(* Records of two cells, so that a crash or a stale offset can split one.   *)
EXTENDS WAL

MCRecordLen(r) == 2
=============================================================================
