--------------------------- MODULE MCCompactingRun ---------------------------
(***************************************************************************)
(* CompactingRun for TLC: tool results are the heavy events, and what the*)
(* agents say beside their calls is of uneven length.                      *)
(***************************************************************************)
EXTENDS CompactingRun

MCWeight == [k \in TextKinds \cup ToolKinds |-> IF k = "result" THEN 3 ELSE 1]

MCTalks ==
  {[n \in 1..MaxCalls |-> CASE n = 2 -> 9 [] n % 3 = 0 -> 4 [] OTHER -> n % 2]}

MCHistories == {<<AgentText(Answer), UserText(Prompt)>>}
============================================================================
