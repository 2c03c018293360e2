--------------------------- MODULE AgentCreation ----------------------------
(***************************************************************************)
(* How a workload gets its agents and closes them. An agent brings its sub *)
(* agents and the agents it uses as tools along, each a new instance with  *)
(* tool sets of its own. DslAgentFactory creates the agents of a .sr file, *)
(* one tree per run of an agent; YamlAgentBuilder creates the agent of a   *)
(* YAML file once per workload. Both close a tree with the same recursion. *)
(*                                                                         *)
(* An instance is named by its path: the run that asked for it and then,   *)
(* from agent to agent, the list and the place that name the next one.     *)
(***************************************************************************)
EXTENDS Naturals, Sequences, SequencesExt

CONSTANTS
  Names,         \* names of agents
  Definitions,   \* what a loader may have left: see Definition
  MaxSelfRef,    \* _MAX_SELF_REF_DEPTH
  MaxDepth,      \* bound: calls of create_agent inside each other
  MaxRuns,       \* bound: runs of agents in a workload
  MaxWorkloads   \* bound: workloads of the definition

Definition == [format : {"dsl", "yaml"}, agents : SUBSET Names, tools : SUBSET Names,
               sub_agents : [Names -> Seq(Names)], agent_tools : [Names -> Seq(Names)],
               root : Names]

ASSUME AgentCreationAssumption ==
  /\ Definitions \subseteq Definition
  /\ MaxSelfRef \in Nat \ {0} /\ MaxDepth \in Nat /\ MaxRuns \in Nat /\ MaxWorkloads \in Nat

VARIABLES
  definition,
  phase,      \* of the workload: "open", "creating", "raising", "closing", "closed", "close failed"
  stack,      \* _creation_stack of the factory, which outlives the workload
  calls,      \* the calls of create_agent that have not returned
  block,      \* what is left of the run's agents: one, or those of a parallel block
  parallel,   \* whether this is a parallel block
  built,      \* the agents of the workload
  tools,      \* those whose tool sets are open
  created,    \* _created_agents, or the _agent of a YAML workload
  failed,     \* whether a creation has failed in this workload
  closing,    \* what close has yet to visit
  runs, workloads

run == <<block, parallel>>
vars == <<definition, phase, stack, calls, run, built, tools, created, failed, closing, runs, workloads>>

Edge(list, place, name) == [list |-> list, place |-> place, name |-> name]

Name(path) == Last(path).name

(* The members of a set in a sequence, in their order.                     *)
Kept(seq, S) == FlattenSeq([i \in DOMAIN seq |-> IF seq[i] \in S THEN <<seq[i]>> ELSE << >>])

(* Names without a definition are passed over.                             *)
Edges(list, names) ==
  LET known == Kept(names, definition.agents)
  IN  [i \in DOMAIN known |-> Edge(list, i, known[i])]

SubAgents(name)  == Edges("sub_agents", definition.sub_agents[name])
AgentTools(name) == Edges("agent_tools", definition.agent_tools[name])

Init ==
  /\ definition \in Definitions
  /\ phase = "open"
  /\ stack = << >> /\ calls = << >>
  /\ block = << >> /\ parallel = FALSE
  /\ built = {} /\ tools = {} /\ created = << >>
  /\ failed = FALSE /\ closing = << >>
  /\ runs = 0 /\ workloads = 1

-----------------------------------------------------------------------------
(* Creating.                                                               *)

Own(step) == Edge(step, 0, "")

(* DslAgentFactory.create_agent, in order. The schema of the prompt only   *)
(* adds to the instruction and to the arguments of the agent.              *)
DslPlan(name) ==
  <<Own("instruction"), Own("model"), Own("tools")>> \o SubAgents(name) \o AgentTools(name)

(* YamlAgentBuilder._create_agent_from_spec: the tool sets of the agent    *)
(* are opened after the agents among its tools are there.                  *)
YamlPlan(name) ==
  <<Own("model")>> \o AgentTools(name) \o <<Own("tools")>> \o SubAgents(name) \o <<Own("config")>>

Plan(name) == IF definition.format = "dsl" THEN DslPlan(name) ELSE YamlPlan(name)

Call(path) == [path |-> path, todo |-> Plan(Name(path))]

(* Only the factory keeps a stack.                                         *)
Pushed(name) == IF definition.format = "dsl" THEN Append(stack, name) ELSE stack
(* MUTANT: the name is popped where the agent is returned, without finally.*)
Popped_OnlyOnReturn ==
  IF definition.format = "dsl" /\ phase # "raising" THEN Front(stack) ELSE stack

Popped == IF definition.format = "dsl" THEN Front(stack) ELSE stack

Root(name) == <<Edge("run", runs + 1, name)>>

StartCall(path) ==
  /\ calls' = Append(calls, Call(path))
  /\ stack' = Pushed(Name(path))

(* A flow runs an agent, or all of a parallel block: those are created one *)
(* after the other. A YAML workload creates its agent in its first run.    *)
Run(agents, isBlock) ==
  /\ phase = "open" /\ runs < MaxRuns
  /\ definition.format = "yaml" =>
       created = << >> /\ ~isBlock /\ agents = <<definition.root>>
  /\ runs' = runs + 1
  /\ block' = Tail(agents) /\ parallel' = isBlock
  /\ StartCall(Root(Head(agents)))
  /\ phase' = "creating"
  /\ UNCHANGED <<definition, built, tools, created, failed, closing, workloads>>

RunAgent == \E name \in definition.agents : Run(<<name>>, FALSE)

RunParallel == \E first, second \in definition.agents : Run(<<first, second>>, TRUE)

-----------------------------------------------------------------------------
Top == Last(calls)
Path == Top.path

Asks(list) == phase = "creating" /\ Top.todo # << >> /\ Head(Top.todo).list = list

Done == [calls EXCEPT ![Len(calls)].todo = Tail(@)]

Creating == UNCHANGED <<definition, run, created, failed, closing, runs, workloads>>

Resolve(step) ==
  /\ Asks(step)
  /\ calls' = Done
  /\ UNCHANGED <<phase, stack, built, tools>> /\ Creating

(* A prompt that is not found or misses a key is the empty instruction.    *)
ResolveInstruction == Resolve("instruction")

ResolveModel == Resolve("model")

AdkConfig == Resolve("config")

(* get_tools opens tool sets of the agent's own.                           *)
ResolveTools ==
  /\ Asks("tools")
  /\ tools' = IF Name(Path) \in definition.tools THEN tools \cup {Path} ELSE tools
  /\ calls' = Done
  /\ UNCHANGED <<phase, stack, built>> /\ Creating

NestedCall ==
  LET path == Append(Path, Head(Top.todo))
  IN  /\ Len(calls) < MaxDepth
      /\ calls' = Append(Done, Call(path))
      /\ stack' = Pushed(Name(path))

ResolveSubAgent ==
  /\ Asks("sub_agents")
  /\ NestedCall
  /\ UNCHANGED <<phase, built, tools>> /\ Creating

Count(name) == Cardinality({i \in DOMAIN stack : stack[i] = name})

(* MUTANT: one level more.                                                 *)
TooDeep_OffByOne(name) == Count(name) > MaxSelfRef

TooDeep(name) == Count(name) >= MaxSelfRef

ResolveAgentTool ==
  /\ Asks("agent_tools")
  /\ ~TooDeep(Head(Top.todo).name)
  /\ NestedCall
  /\ UNCHANGED <<phase, built, tools>> /\ Creating

SkipAgentTool ==
  /\ Asks("agent_tools")
  /\ TooDeep(Head(Top.todo).name)
  /\ calls' = Done
  /\ UNCHANGED <<phase, stack, built, tools>> /\ Creating

(* The agent is complete. An agent of its own is registered; those of a    *)
(* parallel block are not, and the next one of the block follows.          *)
Return ==
  /\ phase = "creating" /\ Top.todo = << >>
  /\ built' = built \cup {Path}
  /\ IF Len(calls) = 1 /\ block # << >>
       THEN /\ runs' = runs + 1
            /\ LET path == Root(Head(block))
               IN  /\ calls' = <<Call(path)>>
                   /\ stack' = Append(Popped, Name(path))
            /\ block' = Tail(block)
            /\ UNCHANGED <<phase, created>>
       ELSE /\ calls' = Front(calls) /\ stack' = Popped
            /\ IF Len(calls) = 1
                 THEN /\ phase' = "open"
                      /\ created' = IF parallel THEN created ELSE Append(created, Path)
                 ELSE UNCHANGED <<phase, created>>
            /\ UNCHANGED <<block, runs>>
  /\ UNCHANGED <<definition, parallel, tools, failed, closing, workloads>>

(* A prompt that does not evaluate, a model that is not configured, tools  *)
(* that cannot be had, an option that is not supported or an agent that    *)
(* ADK refuses: the exception passes through every open call.              *)
Raise ==
  /\ phase = "creating"
  /\ Top.todo # << >> => Head(Top.todo).place = 0
  /\ phase' = "raising" /\ failed' = TRUE
  /\ UNCHANGED <<definition, stack, calls, run, built, tools, created, closing, runs, workloads>>

Unwind ==
  /\ phase = "raising"
  /\ calls' = Front(calls)
  /\ stack' = Popped
  /\ IF Len(calls) = 1 THEN phase' = "open" /\ block' = << >> ELSE UNCHANGED <<phase, block>>
  /\ UNCHANGED <<definition, parallel, built, tools, created, failed, closing, runs, workloads>>

-----------------------------------------------------------------------------
(* Closing.                                                                *)

Visit(op, path) == [op |-> op, path |-> path]

Nested(path, edges) ==
  LET paths == [i \in DOMAIN edges |-> Append(path, edges[i])]
      alive == Kept(paths, built)
  IN  [i \in DOMAIN alive |-> Visit("agent", alive[i])]

(* MUTANT: an agent among the tools is a tool without `close`.             *)
Visits_NoAgentTools(path) ==
  Nested(path, SubAgents(Name(path))) \o <<Visit("tools", path)>>

(* _close_agent_recursive: sub agents, own tools, agents among the tools.  *)
Visits(path) ==
  Nested(path, SubAgents(Name(path))) \o <<Visit("tools", path)>>
    \o Nested(path, AgentTools(Name(path)))

Closing == UNCHANGED <<definition, stack, calls, run, built, failed, runs, workloads>>

(* The context manager of the workload ends, whatever the run did.         *)
Close ==
  /\ phase = "open"
  /\ phase' = "closing"
  /\ closing' = [i \in DOMAIN created |-> Visit("agent", created[i])]
  /\ UNCHANGED <<tools, created>> /\ Closing

CloseAgent ==
  /\ phase = "closing" /\ closing # << >> /\ Head(closing).op = "agent"
  /\ closing' = Visits(Head(closing).path) \o Tail(closing)
  /\ UNCHANGED <<phase, tools, created>> /\ Closing

CloseTools ==
  /\ phase = "closing" /\ closing # << >> /\ Head(closing).op = "tools"
  /\ tools' = tools \ {Head(closing).path}
  /\ closing' = Tail(closing)
  /\ UNCHANGED <<phase, created>> /\ Closing

(* A tool set that raises ends the whole traversal.                        *)
CloseRaises ==
  /\ phase = "closing" /\ closing # << >> /\ Head(closing).op = "tools"
  /\ Head(closing).path \in tools
  /\ closing' = << >> /\ phase' = "close failed"
  /\ UNCHANGED <<tools, created>> /\ Closing

CloseEnds ==
  /\ phase = "closing" /\ closing = << >>
  /\ phase' = "closed" /\ created' = << >>
  /\ UNCHANGED <<tools, closing>> /\ Closing

(* The next turn makes a workload of the same definition: the definition   *)
(* keeps its factory. Tool sets left open are out of reach.                *)
NextWorkload ==
  /\ phase \in {"closed", "close failed"} /\ workloads < MaxWorkloads
  /\ workloads' = workloads + 1
  /\ phase' = "open" /\ runs' = 0
  /\ built' = {} /\ tools' = {} /\ created' = << >> /\ failed' = FALSE
  /\ block' = << >> /\ parallel' = FALSE
  /\ UNCHANGED <<definition, stack, calls, closing>>

Step ==
  \/ ResolveInstruction \/ ResolveModel \/ ResolveTools \/ AdkConfig
  \/ ResolveSubAgent \/ ResolveAgentTool \/ SkipAgentTool
  \/ Return \/ Raise \/ Unwind
  \/ CloseAgent \/ CloseTools \/ CloseRaises \/ CloseEnds

Next == RunAgent \/ RunParallel \/ Close \/ NextWorkload \/ Step

Spec == Init /\ [][Next]_vars

-----------------------------------------------------------------------------
(* Properties.                                                             *)

(* The stack by which the factory recognises an agent that uses itself     *)
(* names exactly the calls in progress, so that a creation that failed     *)
(* costs the agents of later turns no level.                               *)
StackFollowsTheCalls ==
  stack = IF definition.format = "dsl"
            THEN [i \in DOMAIN calls |-> Name(calls[i].path)]
            ELSE << >>

(* The reference: the tree of an agent has every path along the lists of   *)
(* the definition on which no agent is the tool of an agent that is        *)
(* already MaxSelfRef times above it.                                      *)
Above(path, i) == Cardinality({k \in 1..(i - 1) : path[k].name = path[i].name})

Follows(path, i) ==
  /\ path[i] \in Range(SubAgents(path[i - 1].name)) \cup Range(AgentTools(path[i - 1].name))
  /\ path[i].list = "agent_tools" /\ definition.format = "dsl" => Above(path, i) < MaxSelfRef

Below(path) == {p \in built : IsPrefix(path, p)}

(* A run of an agent gets the same tree every time, whatever failed        *)
(* before it: no more than the definition allows, and no less.             *)
EveryRunGetsTheWholeTree ==
  \A root \in Range(created) :
    /\ \A p \in Below(root) : \A i \in 2..Len(p) : Follows(p, i)
    /\ \A p \in Below(root) :
         \A e \in Range(SubAgents(Name(p))) \cup Range(AgentTools(Name(p))) :
           Follows(Append(p, e), Len(p) + 1) => Append(p, e) \in built

(* Closing a workload leaves no tool set open in the trees its runs got,   *)
(* unless a tool set refused to close.                                     *)
ClosedTreesHoldNothing ==
  phase = "closing" /\ closing = << >> =>
    \A root \in Range(created) : Below(root) \cap tools = {}

=============================================================================
