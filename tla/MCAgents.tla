----------------------------- MODULE MCAgents ------------------------------
(* Agents for TLC. *)
EXTENDS Agents

CONSTANTS c1, c2

MCClients == {c1, c2}
=============================================================================
