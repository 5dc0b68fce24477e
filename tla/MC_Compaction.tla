--------------------------- MODULE MC_Compaction ---------------------------
(* Conversations of five messages. Half of the sizes are above Keep, one of *)
(* them less than the cut makes of it.                                      *)
EXTENDS Compaction
=============================================================================
