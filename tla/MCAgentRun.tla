----------------------------- MODULE MCAgentRun -----------------------------
(* AgentRun on small times: two attempts, one tick of timeout and a        *)
(* network window of three ticks, which the second backoff may not fit in. *)
EXTENDS AgentRun
=============================================================================
