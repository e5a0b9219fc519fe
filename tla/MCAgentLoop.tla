----------------------------- MODULE MCAgentLoop -----------------------------
(* Instances of AgentLoop for TLC. *)
EXTENDS AgentLoop

\* The model may utter every registered name, in any phase, and one that no
\* registry knows.
EveryName == Registry \cup {"unknown"}
=============================================================================
