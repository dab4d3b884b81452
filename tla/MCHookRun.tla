------------------------------ MODULE MCHookRun ------------------------------
(* HookRun with three stages, entered four times: one of them again.       *)
EXTENDS HookRun
=============================================================================
