---------------------------- MODULE MCAgentMailbox ----------------------------
(***************************************************************************)
(* Small instances of AgentMailbox: an agent with three questions, one at  *)
(* a time or two at a time, and another with one.                          *)
(***************************************************************************)
EXTENDS AgentMailbox

CONSTANTS mlops, backend

TwoAgents == <<mlops, backend, mlops, mlops>>
OneOrTwo == {f \in [{mlops, backend} -> {1, 2}] : f[backend] = 1}
===============================================================================
