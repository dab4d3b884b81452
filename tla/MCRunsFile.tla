------------------------------ MODULE MCRunsFile ------------------------------
(* RunsFile with three writers: one that is cut short and two that follow. *)
EXTENDS RunsFile
=============================================================================
