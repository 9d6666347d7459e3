------------------------------- MODULE MCQueue -------------------------------
(* Queue with a map of two bytes and three entries.                         *)
EXTENDS Queue
=============================================================================
