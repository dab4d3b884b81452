------------------------------ MODULE MCPiRun ------------------------------
(* PiRun on two attempts of at most three turns, two of them allowed, with *)
(* a timeout that can fall before, in or after the grace period.           *)
EXTENDS PiRun
=============================================================================
