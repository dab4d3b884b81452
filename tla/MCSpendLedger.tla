---------------------------- MODULE MCSpendLedger ----------------------------
(* SpendLedger with two tasks and two stages, both ceilings within reach.  *)
EXTENDS SpendLedger, TLC

Alike == Permutations(Tasks) \cup Permutations(Stages)
=============================================================================
