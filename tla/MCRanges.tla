------------------------------ MODULE MCRanges ------------------------------
(* Small instances of Ranges, with the sizes and batches of MCEngine.      *)
EXTENDS Ranges, MCEngine

AllKeys == {Keys}
=============================================================================
