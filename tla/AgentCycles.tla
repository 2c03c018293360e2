---------------------------- MODULE AgentCycles -----------------------------
(***************************************************************************)
(* SemanticAnalyzer._detect_circular_agent_refs: the search for agents     *)
(* that refer to each other in a circle, call by call of _dfs_find_cycle.  *)
(* Agents and neighbors are taken in any order: a file may declare them in *)
(* any.                                                                    *)
(***************************************************************************)
EXTENDS AgentGraphs

VARIABLES
  declared,      \* the agents of the file
  unsearched,    \* those the loop over the agents has left
  visited,
  rec_stack,     \* the nodes of the calls in progress, which are also the path
  neighbors,     \* what each of these calls has left
  cycle          \* what the search returns

searchVars == <<declared, unsearched, visited, rec_stack, neighbors, cycle>>

NoCycle == << >>

(* Before the first call.                                                  *)
SearchInit ==
  /\ declared = << >> /\ unsearched = {}
  /\ visited = {} /\ rec_stack = << >> /\ neighbors = << >>
  /\ cycle = NoCycle

(* _find_cycle_in_graph is called with these agents.                       *)
SearchOf(agents) ==
  /\ declared' = agents /\ unsearched' = DOMAIN agents
  /\ visited' = {} /\ rec_stack' = << >> /\ neighbors' = << >>
  /\ cycle' = NoCycle

(* The path from where the node is on it, and the node again.              *)
CycleAt(node) ==
  LET cycle_start == CHOOSE i \in DOMAIN rec_stack : rec_stack[i] = node
  IN  Append(SubSeq(rec_stack, cycle_start, Len(rec_stack)), node)

(* _dfs_find_cycle of a node, its callers having others left.              *)
DfsFindCycle(node, others) ==
  \/ /\ node \in ToSet(rec_stack)
     /\ cycle' = CycleAt(node) /\ neighbors' = others
     /\ UNCHANGED <<visited, rec_stack>>
  \/ /\ node \in visited \ ToSet(rec_stack)
     /\ neighbors' = others
     /\ UNCHANGED <<visited, rec_stack, cycle>>
  \/ /\ node \notin visited \cup ToSet(rec_stack)
     /\ visited' = visited \cup {node}
     /\ rec_stack' = Append(rec_stack, node)
     /\ neighbors' = Append(others, Refers(declared, node))
     /\ UNCHANGED cycle

SearchAgent ==
  /\ cycle = NoCycle /\ neighbors = << >>
  /\ \E g \in unsearched : unsearched' = unsearched \ {g} /\ DfsFindCycle(g, << >>)
  /\ UNCHANGED declared

(* What no agent is called is passed over.                                 *)
FollowNeighbor ==
  /\ cycle = NoCycle /\ neighbors # << >>
  /\ \E node \in Last(neighbors) :
       LET others == Append(Front(neighbors), Last(neighbors) \ {node})
       IN  \/ node \in DOMAIN declared /\ DfsFindCycle(node, others)
           \/ /\ node \notin DOMAIN declared
              /\ neighbors' = others /\ UNCHANGED <<visited, rec_stack, cycle>>
  /\ UNCHANGED <<declared, unsearched>>

(* MUTANT: the path is not shortened.                                      *)
Backtracked_KeepsPath(path) == path

Backtracked(path) == Front(path)

Backtrack ==
  /\ cycle = NoCycle /\ neighbors # << >> /\ Last(neighbors) = {}
  /\ rec_stack' = Backtracked(rec_stack) /\ neighbors' = Front(neighbors)
  /\ UNCHANGED <<declared, unsearched, visited, cycle>>

SearchStep == SearchAgent \/ FollowNeighbor \/ Backtrack

(* It has returned.                                                        *)
Searched == cycle # NoCycle \/ (neighbors = << >> /\ unsearched = {})

SearchNext == SearchStep \/ (Searched /\ \E agents : SearchOf(agents))

SearchSpec == SearchInit /\ [][SearchNext]_searchVars

-----------------------------------------------------------------------------
(* Properties.                                                             *)

(* The search, with its path and its set of visited agents, reports a      *)
(* cycle exactly when agents refer to each other in a circle, through      *)
(* delegation and use, in whatever order they are declared and whatever    *)
(* was visited on the way; and what error E0011 shows is such a circle,    *)
(* closed and without detours.                                             *)
CyclesAreFound ==
  Searched => IF HasCircle(declared) THEN IsClosed(declared, cycle) ELSE cycle = NoCycle

=============================================================================
