-------------------------- MODULE MCAgentSupersteps --------------------------
(* Instances of AgentSupersteps for TLC. *)
EXTENDS AgentSupersteps

\* The model may utter every registered name, in any phase, and one that no
\* registry knows.
EveryName == Registry \cup {"unknown"}
=============================================================================
