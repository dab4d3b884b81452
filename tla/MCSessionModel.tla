---------------------------- MODULE MCSessionModel ----------------------------
(* SessionModel with a pipeline and a child, two models and transcripts in *)
(* two project directories.  The pipeline is started plain, or with values *)
(* of its environment already pinned or misspelt.                          *)
EXTENDS SessionModel, TLC

TheConfs == {[model |-> Unset, effort |-> Unset], [model |-> "opus", effort |-> "high"]}
Plain == [model |-> Unset, effort |-> Unset, sessionModel |-> Unset,
          sessionEffort |-> Unset, claudeEffort |-> "low"]
TheEnvs == {Plain, [Plain EXCEPT !.effort = "hihg", !.sessionModel = "m1", !.sessionEffort = "hihg"]}
\* Processes share the transcript and the conf, which neither writes: it is
\* enough that one of them is at work at a time.
OneAtWork == \A p, q \in Workers :
    at[p] \in {"absent", "idle"} \/ at[q] \in {"absent", "idle"} \/ p = q
TheModels == {"m1", "m2"}
TheFamily == ("opus" :> "m2")
=============================================================================
