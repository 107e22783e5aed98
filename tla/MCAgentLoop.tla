------------------------------ MODULE MCAgentLoop ------------------------------
(* The agent loop for TLC: few calls, but of every kind, and one level of     *)
(* children.                                                                  *)
EXTENDS AgentLoop

EveryKind == AllKinds
OnlyReads == {"observe"}
=============================================================================
