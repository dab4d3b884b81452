--------------------------- MODULE MCReadyRecord ---------------------------
(* ReadyRecord with two processes, alike but for their names.              *)
EXTENDS ReadyRecord, TLC

Alike == Permutations(Processes)
=============================================================================
