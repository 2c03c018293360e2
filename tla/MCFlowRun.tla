----------------------------- MODULE MCFlowRun -----------------------------
(* Programs in the shapes of the guides: a chain with a retry of the       *)
(* previous value, a parallel block, and a flow that guards a call.        *)
EXTENDS FlowRun

MCVars == {"x", "y"}
MCAgents == {"plain", "typed"}
MCWithSchema == {"typed"}
MCAddresses == {"list1", "list2"}

(* $x = run agent typed; $x = run agent plain $x, on escalate return $x;   *)
(* return $x -- on failure: $y = run agent typed; return $y                *)
Chain ==
  [main |-> Flow(<<RunAgent("x", "typed", "none", NoVar),
                   RunAgent("x", "plain", "return", "x"),
                   Return("x")>>, 2,
                 <<RunAgent("y", "typed", "none", NoVar), Return("y")>>)]

(* parallel do $x = plain, $y = typed end; return $y *)
Block ==
  [main |-> Flow(<<Parallel(<<Branch("x", "plain"), Branch("y", "typed")>>),
                   Return("y")>>, 0, << >>)]

(* The same agent for both variables, one of them in a flow of its own. *)
Twice ==
  [main |-> Flow(<<Parallel(<<Branch("x", "plain"), Branch("y", "plain")>>),
                   RunFlow("y", "sub"), Return("y")>>, 2,
                 <<RunAgent("y", "plain", "none", NoVar)>>),
   sub |-> Flow(<<Parallel(<<Branch("x", "plain")>>), Return("x")>>, 0, << >>)]

(* main calls sub twice; sub guards an agent that may abort. *)
Calls ==
  [main |-> Flow(<<RunFlow("y", "sub"), RunFlow(NoVar, "sub")>>, 0, << >>),
   sub |-> Flow(<<RunAgent("x", "typed", "abort", NoVar),
                  RunAgent(NoVar, "plain", "none", NoVar),
                  Return("x")>>, 1, << >>)]

MCPrograms == {Chain, Block, Twice, Calls}

=============================================================================
