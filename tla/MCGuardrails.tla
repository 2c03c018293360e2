---------------------------- MODULE MCGuardrails ----------------------------
(* Guardrails for TLC: two agents, both in one parallel block or one used  *)
(* by the other as a tool, or one alone with two tool calls side by side;  *)
(* the handlers follow the guide.                                          *)
EXTENDS Guardrails, TLC

MCRuns == {"writer", "critic"}
MCApart == [r \in MCRuns |-> r]

Program(agents, calls, handlers) ==
  [agents |-> agents, calls |-> calls, handlers |-> handlers]

(* Masks around the tools, a drift warning, a blocked call. *)
Masks ==
  (<<"on", "input", Everyone>> :> <<Mask("pii"), Block("jailbreak")>>)
  @@ (<<"on", "tool_call", Everyone>> :> <<UseEvent, Block("mcp_guard")>>)
  @@ (<<"on", "tool_result", Everyone>> :> <<Mask("pii")>>)
  @@ (<<"after", "output", Everyone>> :> <<Warn("cognitive_drift")>>)

(* Handlers of one agent, and all the ways to raise. *)
Raises ==
  (<<"after", "input", Everyone>> :> <<Block("jailbreak")>>)
  @@ (<<"on", "tool_call", "writer">> :> <<Fail, Retry>>)
  @@ (<<"after", "tool_result", "writer">> :> <<UseEvent, Fail, Block("mcp_guard")>>)
  @@ (<<"on", "output", Everyone>> :> <<Mask("keys"), Block("cognitive_drift")>>)

(* Masks that ask a service, while the other agent or the other tool call  *)
(* works on the same context.                                              *)
Asks ==
  (<<"on", "input", Everyone>> :> <<Mask("lookup"), Warn("cognitive_drift")>>)
  @@ (<<"on", "tool_result", Everyone>> :> <<Mask("lookup"), Warn("keys"), Mask("pii")>>)
  @@ (<<"after", "output", Everyone>> :> <<Mask("lookup")>>)

(* Checks that ask a service, beside events that have none of them.        *)
Verdicts ==
  (<<"after", "input", Everyone>> :> <<Warn("cognitive_drift")>>)
  @@ (<<"on", "tool_call", Everyone>> :> <<Warn("lookup"), UseEvent>>)
  @@ (<<"on", "tool_result", Everyone>> :> <<Mask("keys")>>)
  @@ (<<"after", "output", Everyone>> :> <<Block("lookup"), Warn("cognitive_drift")>>)

(* A check of results that goes on with what another callback left.        *)
Rechecks ==
  (<<"on", "input", Everyone>> :> <<Mask("keys")>>)
  @@ (<<"on", "tool_call", Everyone>> :> <<UseEvent>>)
  @@ (<<"on", "tool_result", Everyone>> :> <<Block("lookup"), Mask("pii")>>)

MCWorkflows ==
  {Program(MCRuns, 1, Masks), Program({"writer"}, 2, Raises),
   Program(MCRuns, 1, Asks), Program({"writer"}, 2, Asks),
   Program(MCRuns, 1, Verdicts), Program({"writer"}, 2, Rechecks)}

=============================================================================
