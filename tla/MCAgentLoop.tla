----------------------------- MODULE MCAgentLoop -----------------------------
(* Three steps of at most two parallel calls, each tried up to three times, *)
(* with a compactor and two agent.abort calls.                              *)
EXTENDS AgentLoop
=============================================================================
