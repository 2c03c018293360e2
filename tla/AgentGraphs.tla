---------------------------- MODULE AgentGraphs -----------------------------
(***************************************************************************)
(* What the agents of a file refer to, by delegation and as tools.         *)
(***************************************************************************)
EXTENDS Naturals, SequencesExt

(* _build_agent_graph: an agent may use itself, its model decides when to  *)
(* call a tool; it may not delegate to itself.                             *)
Refers(agents, g) == ToSet(agents[g].delegate) \cup (ToSet(agents[g].use) \ {g})

(* Agents of which every one refers to another one: making them would      *)
(* never end.                                                              *)
IsCircle(agents, circle) == \A g \in circle : Refers(agents, g) \cap circle # {}

HasCircle(agents) == \E circle \in (SUBSET DOMAIN agents) \ {{}} : IsCircle(agents, circle)

(* Each of these agents refers to the next, and only the first comes       *)
(* again, at the end.                                                      *)
IsClosed(agents, reported) ==
  /\ Len(reported) > 1 /\ reported[1] = reported[Len(reported)]
  /\ \A i \in 1..(Len(reported) - 1) :
       /\ reported[i + 1] \in Refers(agents, reported[i])
       /\ \A k \in 1..(i - 1) : reported[k] # reported[i]

=============================================================================
