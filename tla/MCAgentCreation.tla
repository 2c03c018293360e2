-------------------------- MODULE MCAgentCreation ---------------------------
(***************************************************************************)
(* Definitions for TLC: an agent that uses itself beside another that does *)
(* so below it, an agent reached along two lists and named twice in one,   *)
(* and the YAML file with the same shape and no agent that uses itself.    *)
(***************************************************************************)
EXTENDS AgentCreation

NoNames == [n \in Names |-> << >>]

SelfUse ==
  [format |-> "dsl", agents |-> {"lead", "coder"}, tools |-> {"coder"}, root |-> "lead",
   sub_agents  |-> [NoNames EXCEPT !["lead"] = <<"coder">>],
   agent_tools |-> [NoNames EXCEPT !["lead"] = <<"lead">>, !["coder"] = <<"helper", "coder">>]]

Shared(format) ==
  [format |-> format, agents |-> Names, tools |-> Names, root |-> "lead",
   sub_agents  |-> [NoNames EXCEPT !["lead"] = <<"coder">>],
   agent_tools |-> [NoNames EXCEPT !["lead"] = <<"helper">>, !["coder"] = <<"helper", "helper">>]]

MCNames == {"lead", "coder", "helper"}
MCDefinitions == {SelfUse, Shared("dsl"), Shared("yaml")}
=============================================================================
