----------------------------- MODULE MCErrorLog -----------------------------
(* ErrorLog with two processes, each of the component or of another one,   *)
(* over three days, with a retention of none or of two days, and a file of *)
(* an old release.                                                         *)
EXTENDS ErrorLog, TLC

Alike == Permutations(Loggers)
=============================================================================
