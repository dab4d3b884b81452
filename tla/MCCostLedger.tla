----------------------------- MODULE MCCostLedger -----------------------------
(* CostLedger with three messages of two months: two of one model of the   *)
(* package, one of a model launched since.                                 *)
EXTENDS CostLedger

TheMonths == <<1, 2, 2>>
TheModels == <<"old", "new", "old">>
=============================================================================
