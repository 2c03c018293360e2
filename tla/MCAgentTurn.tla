---------------------------- MODULE MCAgentTurn ----------------------------
(***************************************************************************)
(* AgentTurn for TLC: two session ids (minutes), two or three prompts.     *)
(***************************************************************************)
EXTENDS AgentTurn

MCSessionIds == 1..MaxClock
MCTurns == 0..MaxTurns
============================================================================
