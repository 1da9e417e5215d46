--------------------------- MODULE MCOrchestrator ---------------------------
(***************************************************************************)
(* Instances of Orchestrator: a chat request and an agent request, and two *)
(* or three delegations to one agent.                                      *)
(***************************************************************************)
EXTENDS Orchestrator, TLC

CONSTANTS a1, chat, other, d1, d2, d3

ChatAndAgent == chat :> NoAgent @@ other :> a1

MCSymmetry == Permutations(Delegated)
=============================================================================
