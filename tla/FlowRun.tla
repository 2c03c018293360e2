------------------------------ MODULE FlowRun ------------------------------
(***************************************************************************)
(* DslAgentWorkflow running the flows of a DSL program, one workload per   *)
(* turn of the conversation. A flow is a generator the compiler emitted:   *)
(* its statements run agents in child sessions, call other flows with the  *)
(* same context, run a block of agents in parallel, or return.             *)
(*                                                                         *)
(* An answer is the number of the run of the agent that gave it, counted   *)
(* within the turn; an answer of an earlier turn is known only as such. The*)
(* program, the answers and which calls fail are arbitrary.                *)
(***************************************************************************)
EXTENDS Integers, Sequences, SequencesExt

CONSTANTS
  Programs,    \* programs, each a function from flow names to flows
  Vars,        \* the variables of the flows
  WithSchema,  \* agents whose prompt has an `expecting` schema
  Agents,
  Addresses    \* what id(specs) can be

(* A flow has a body, a number of statements before its failure block (the *)
(* guarded ones; 0 without a failure block) and the statements of that     *)
(* block.                                                                  *)
Flow(body, guarded, handler) ==
  [body |-> body, guarded |-> guarded, handler |-> handler]

RunAgent(target, agent, onEscalate, value) ==
  [op |-> "agent", target |-> target, agent |-> agent,
   onEscalate |-> onEscalate, value |-> value]

RunFlow(target, flow) == [op |-> "flow", target |-> target, flow |-> flow]

Parallel(branches) == [op |-> "parallel", branches |-> branches]

Branch(target, agent) == [target |-> target, agent |-> agent]

Return(value) == [op |-> "return", value |-> value]

NoVar == "no variable"
NoList == "no list"

(* What the compiler accepts: agents, flows and variables that exist.      *)
Targets == Vars \cup {NoVar}

StatementsOver(flows) ==
  [op : {"agent"}, target : Targets, agent : Agents,
   onEscalate : {"none", "return", "abort"}, value : Targets]
  \cup [op : {"flow"}, target : Targets, flow : flows]
  \cup [op : {"parallel"}, branches : Seq([target : Targets, agent : Agents])]
  \cup [op : {"return"}, value : Vars]

FlowsOver(flows) ==
  [body : Seq(StatementsOver(flows)), guarded : Nat, handler : Seq(StatementsOver(flows))]

ASSUME FlowRunAssumption ==
  /\ \A p \in Programs : "main" \in DOMAIN p /\ p \in [DOMAIN p -> FlowsOver(DOMAIN p)]
  /\ WithSchema \subseteq Agents
  /\ NoVar \notin Vars /\ NoList \notin Addresses

(* Values: the answer of run n is n. *)
Nothing == 0     \* None
Unset == -1      \* the name is not in ctx.vars
Fallback == -2   \* [] or {} after a retry that failed, too
Earlier == -3    \* an answer of an earlier turn
EarlierBad == -4 \* the same, of an agent with a schema it does not satisfy

VARIABLES
  program,     \* the flows of the workload
  pc,          \* "idle", "running", "calling", "agent", "parallel", "collecting", "closing"
  stack,       \* frames of the flows that run, the entry flow first
  vars,        \* ctx.vars
  returned,    \* ctx.vars["_return_value"]
  last,        \* ctx._last_call_result
  escalated,   \* ctx._last_escalated
  invocation,  \* ctx._invocation_counter
  call,        \* the sequential run under way: agent, attempt and run
  block,       \* the parallel block under way: its runs and the next result
  outputs,     \* state of the session of a parallel block, per address of its list
  runs,        \* history: the runs of agents in this turn
  registered,  \* _created_agents of this turn's workload
  open,        \* agents this turn created and did not close
  outcome      \* how the last turn ended, and whether its close() failed

flowVars == <<vars, returned, last, escalated>>
agentVars == <<runs, registered, open, invocation>>
allVars == <<program, pc, stack, flowVars, call, block, outputs, agentVars, outcome>>

NoCall == [agent |-> "none", attempt |-> 0, run |-> 0]
NoBlock == [runs |-> << >>, pending |-> {}, next |-> 1]

Kinds == {"running", "valid", "invalid", "silent", "raised"}

Values == {Nothing, Unset, Fallback, Earlier, EarlierBad} \cup 1..Len(runs)

TypeOK ==
  /\ program \in Programs
  /\ pc \in {"idle", "running", "calling", "agent", "parallel", "collecting", "closing"}
  /\ \A i \in 1..Len(stack) :
       /\ stack[i].flow \in DOMAIN program
       /\ stack[i].part \in {"body", "handler"}
       /\ stack[i].at \in 1..(Len(program[stack[i].flow][stack[i].part]) + 1)
       /\ stack[i].specs \in Addresses \cup {NoList}
  /\ vars \in [Vars -> Values] /\ {returned, last} \subseteq Values
  /\ escalated \in BOOLEAN
  /\ invocation \in Nat
  /\ call.agent \in Agents \cup {"none"} /\ call.attempt \in 0..2
  /\ block.pending \subseteq 1..Len(block.runs)
  /\ outputs \in [Addresses -> [Agents -> Values]]
  /\ \A n \in 1..Len(runs) : runs[n].agent \in Agents /\ runs[n].answer \in Kinds
  /\ Range(registered) \subseteq 1..Len(runs) /\ open \subseteq 1..Len(runs)
  /\ (pc \in {"idle", "closing"}) = (stack = << >>)

Init ==
  /\ program \in Programs
  /\ pc = "idle" /\ stack = << >>
  /\ vars = [x \in Vars |-> Unset]
  /\ returned = Unset /\ last = Nothing /\ escalated = FALSE
  /\ invocation = 0
  /\ call = NoCall /\ block = NoBlock
  /\ outputs = [a \in Addresses |-> [g \in Agents |-> Unset]]
  /\ runs = << >> /\ registered = << >> /\ open = {}
  /\ outcome = [result |-> Unset, failed |-> FALSE, closeFailed |-> FALSE]

-----------------------------------------------------------------------------
(* Frames and statements.                                                  *)

Frame(flow) == [flow |-> flow, part |-> "body", at |-> 1, specs |-> NoList]

Top == stack[Len(stack)]

StatementsOf(f) == program[f.flow][f.part]

Statement == StatementsOf(Top)[Top.at]

AtStatement(op) ==
  /\ stack # << >>
  /\ Top.at <= Len(StatementsOf(Top))
  /\ Statement.op = op

Executes(op) == pc = "running" /\ AtStatement(op)

Advanced(s) == [s EXCEPT ![Len(s)].at = @ + 1]

Assigned(v, target, value) ==
  IF target = NoVar THEN v ELSE [v EXCEPT ![target] = value]

(* The failure block is an `except Exception` around the statements before *)
(* it: not around itself, nor around what follows it.                      *)
Catches(f) == f.part = "body" /\ f.at <= program[f.flow].guarded

Catching == {i \in 1..Len(stack) : Catches(stack[i])}

Unwound ==
  IF Catching = {} THEN << >>
  ELSE LET i == CHOOSE i \in Catching : \A j \in Catching : j <= i
       IN  Append(SubSeq(stack, 1, i - 1),
                  [stack[i] EXCEPT !.part = "handler", !.at = 1])

(* An exception leaves every frame up to the innermost one that catches it;*)
(* with none the turn fails and the workload is closed.                    *)
Raise ==
  /\ stack' = Unwound
  /\ IF Unwound = << >>
     THEN pc' = "closing" /\ outcome' = [outcome EXCEPT !.failed = TRUE]
     ELSE pc' = "running" /\ UNCHANGED outcome
  /\ call' = NoCall /\ block' = NoBlock

(* The generator of a flow ends. For its caller the result of the call is  *)
(* the last call's result; the entry flow's result is the return value.    *)
Leave(newVars, newReturned, newLast) ==
  LET callers == Front(stack)
      caller == callers[Len(callers)]
  IN  /\ returned' = newReturned
      /\ IF Len(stack) = 1
         THEN /\ stack' = << >> /\ pc' = "closing"
              /\ outcome' = [outcome EXCEPT !.result = newReturned]
              /\ vars' = newVars
         ELSE /\ stack' = Advanced(callers) /\ pc' = "running"
              /\ vars' = Assigned(newVars, StatementsOf(caller)[caller.at].target, newLast)
              /\ UNCHANGED outcome

-----------------------------------------------------------------------------
(* A result an agent with a schema gave need not satisfy it; the sessions  *)
(* of parallel blocks outlive the turn with the results they hold.         *)
IsAcceptable(n) ==
  IF n > 0 THEN runs[n].agent \in WithSchema => runs[n].answer = "valid"
  ELSE n # EarlierBad

AsEarlier(n) ==
  IF n <= 0 THEN n ELSE IF IsAcceptable(n) THEN Earlier ELSE EarlierBad

(* MUTANT: the context of the last turn is used again. *)
StartTurn_SameContext ==
  /\ pc = "idle"
  /\ pc' = "running" /\ stack' = <<Frame("main")>>
  /\ vars' = [x \in Vars |-> AsEarlier(vars[x])]
  /\ returned' = Unset /\ last' = Nothing /\ escalated' = FALSE
  /\ invocation' = 0
  /\ runs' = << >> /\ registered' = << >> /\ open' = {}
  /\ outputs' = [a \in Addresses |-> [g \in Agents |-> AsEarlier(outputs[a][g])]]
  /\ outcome' = [result |-> Unset, failed |-> FALSE, closeFailed |-> FALSE]
  /\ UNCHANGED <<program, call, block>>

(* The supervisor gives every turn a new workload; _execute_flow gives its *)
(* entry flow a new context.                                               *)
StartTurn ==
  /\ pc = "idle"
  /\ pc' = "running" /\ stack' = <<Frame("main")>>
  /\ vars' = [x \in Vars |-> Unset]
  /\ returned' = Unset /\ last' = Nothing /\ escalated' = FALSE
  /\ invocation' = 0
  /\ runs' = << >> /\ registered' = << >> /\ open' = {}
  /\ outputs' = [a \in Addresses |-> [g \in Agents |-> AsEarlier(outputs[a][g])]]
  /\ outcome' = [result |-> Unset, failed |-> FALSE, closeFailed |-> FALSE]
  /\ UNCHANGED <<program, call, block>>

(* run_agent, and run_agent_with_escalation for a statement with a handler *)
CallAgent ==
  /\ Executes("agent")
  /\ call' = [agent |-> Statement.agent, attempt |-> 1, run |-> 0]
  /\ escalated' = (escalated /\ Statement.onEscalate = "none")
  /\ pc' = "calling"
  /\ UNCHANGED <<program, stack, vars, returned, last, block, outputs, agentVars, outcome>>

(* Where the result of the call under way goes. *)
Target ==
  IF Statement.op = "agent" THEN Statement.target
  ELSE Statement.branches[block.next].target

(* MUTANT: a retry continues the session of the first attempt. *)
SequentialRun_RetrySharesSession ==
  [agent |-> call.agent, target |-> Target, answer |-> "running",
   session |-> <<call.agent, IF call.attempt = 2 THEN invocation ELSE invocation + 1>>,
   parallel |-> FALSE]

SequentialRun ==
  [agent |-> call.agent, target |-> Target, answer |-> "running",
   session |-> <<call.agent, invocation + 1>>, parallel |-> FALSE]

(* MUTANT: the agent of a retry is not registered. *)
CreateAgent_RetryUnregistered ==
  /\ pc = "calling"
  /\ runs' = Append(runs, SequentialRun)
  /\ registered' = IF call.attempt = 2 THEN registered ELSE Append(registered, Len(runs) + 1)
  /\ open' = open \cup {Len(runs) + 1}
  /\ invocation' = invocation + 1
  /\ call' = [call EXCEPT !.run = Len(runs) + 1]
  /\ pc' = "agent"
  /\ UNCHANGED <<program, stack, flowVars, block, outputs, outcome>>

(* _create_agent registers the agent it creates; the child session takes   *)
(* the next number of the context.                                         *)
CreateAgent ==
  /\ pc = "calling"
  /\ runs' = Append(runs, SequentialRun)
  /\ registered' = Append(registered, Len(runs) + 1)
  /\ open' = open \cup {Len(runs) + 1}
  /\ invocation' = invocation + 1
  /\ call' = [call EXCEPT !.run = Len(runs) + 1]
  /\ pc' = "agent"
  /\ UNCHANGED <<program, stack, flowVars, block, outputs, outcome>>

CreateAgentRaises ==
  /\ pc = "calling"
  /\ Raise
  /\ UNCHANGED <<program, flowVars, outputs, agentVars>>

AgentRaises ==
  /\ pc = "agent"
  /\ runs' = [runs EXCEPT ![call.run].answer = "raised"]
  /\ Raise
  /\ UNCHANGED <<program, flowVars, outputs, registered, open, invocation>>

(* Answers of an agent: with a schema one that is valid or not; an agent   *)
(* without a final response is silent.                                     *)
AnswersOf(agent) ==
  {"valid", "silent"} \cup (IF agent \in WithSchema THEN {"invalid"} ELSE {})

Retries(answer) ==
  call.agent \in WithSchema /\ answer # "valid" /\ call.attempt = 1

ValueOf(answer) ==
  IF answer = "valid" THEN call.run
  ELSE IF call.agent \in WithSchema THEN Fallback ELSE Nothing

(* The first answer of an agent with a schema is no valid one: the agent   *)
(* is created once more, with a child session of its own.                  *)
AgentIsRetried ==
  /\ pc = "agent"
  /\ \E answer \in AnswersOf(call.agent) :
       /\ Retries(answer)
       /\ runs' = [runs EXCEPT ![call.run].answer = answer]
  /\ call' = [call EXCEPT !.attempt = 2, !.run = 0]
  /\ pc' = "calling"
  /\ UNCHANGED <<program, stack, flowVars, block, outputs, registered, open, invocation, outcome>>

Answered(answer) ==
  /\ pc = "agent"
  /\ answer \in AnswersOf(call.agent)
  /\ ~Retries(answer)
  /\ runs' = [runs EXCEPT ![call.run].answer = answer]

(* The generated code stores the result first and looks at the escalation  *)
(* afterwards.                                                             *)
AgentAnswers ==
  \E answer \in {"valid", "invalid", "silent"}, escalates \in BOOLEAN :
    LET value == ValueOf(answer)
        stored == Assigned(vars, Statement.target, value)
        action == IF escalates THEN Statement.onEscalate ELSE "none"
    IN
    /\ Answered(answer)
    /\ Statement.op = "agent"
    /\ escalates => Statement.onEscalate # "none"
    /\ last' = value
    /\ escalated' = (escalates \/ escalated)
    /\ \/ /\ action = "none"
          /\ vars' = stored /\ stack' = Advanced(stack) /\ pc' = "running"
          /\ UNCHANGED <<returned, outcome>>
          /\ call' = NoCall /\ UNCHANGED block
       \/ /\ action = "return"
          /\ stored[Statement.value] # Unset
          /\ Leave(stored, stored[Statement.value], value)
          /\ call' = NoCall /\ UNCHANGED block
       \/ /\ \/ action = "abort"
             \/ action = "return" /\ stored[Statement.value] = Unset
          /\ vars' = stored
          /\ Raise
          /\ UNCHANGED returned
    /\ UNCHANGED <<program, outputs, registered, open, invocation>>

-----------------------------------------------------------------------------
(* Flows within flows, and the end of a flow.                              *)

CallFlow ==
  /\ Executes("flow")
  /\ stack' = Append(stack, Frame(Statement.flow))
  /\ UNCHANGED <<program, pc, flowVars, call, block, outputs, agentVars, outcome>>

ReturnFromFlow ==
  /\ Executes("return")
  /\ vars[Statement.value] # Unset
  /\ Leave(vars, vars[Statement.value], last)
  /\ UNCHANGED <<program, last, escalated, call, block, outputs, agentVars>>

(* ctx.vars["x"] raises a KeyError for a name that was never assigned. *)
ReturnRaises ==
  /\ Executes("return")
  /\ vars[Statement.value] = Unset
  /\ Raise
  /\ UNCHANGED <<program, flowVars, outputs, agentVars>>

PartEnds ==
  pc = "running" /\ stack # << >> /\ Top.at > Len(StatementsOf(Top))

(* After the failure block the flow goes on with the statements below it. *)
HandlerEnds ==
  /\ PartEnds /\ Top.part = "handler"
  /\ stack' = [stack EXCEPT ![Len(stack)].part = "body",
                            ![Len(stack)].at = program[Top.flow].guarded + 1]
  /\ UNCHANGED <<program, pc, flowVars, call, block, outputs, agentVars, outcome>>

FlowEnds ==
  /\ PartEnds /\ Top.part = "body"
  /\ Leave(vars, returned, last)
  /\ UNCHANGED <<program, last, escalated, call, block, outputs, agentVars>>

-----------------------------------------------------------------------------
(* A parallel block. The keys of its results and its session contain the   *)
(* address of the list of its agents; the frame keeps that list until it   *)
(* builds its next one.                                                    *)

FreeAddresses == Addresses \ {stack[i].specs : i \in 1..Len(stack)}

ParallelRun(branch, address) ==
  [agent |-> branch.agent, target |-> branch.target, answer |-> "running",
   session |-> <<"parallel", address>>, parallel |-> TRUE]

ParallelRuns(address) ==
  [i \in 1..Len(Statement.branches) |-> ParallelRun(Statement.branches[i], address)]

(* The agents of a block are created through the factory, which registers  *)
(* none of them with the workflow.                                         *)
StartParallel ==
  /\ Executes("parallel")
  /\ \E address \in FreeAddresses :
       /\ runs' = runs \o ParallelRuns(address)
       /\ stack' = [stack EXCEPT ![Len(stack)].specs = address]
  /\ LET new == [i \in 1..Len(Statement.branches) |-> Len(runs) + i]
     IN  /\ open' = open \cup Range(new)
         /\ block' = [runs |-> new, pending |-> DOMAIN new, next |-> 1]
  /\ invocation' = invocation + 1
  /\ pc' = "parallel"
  /\ UNCHANGED <<program, flowVars, call, outputs, registered, outcome>>

(* The factory raises for one of them: those before it stay open. *)
StartParallelRaises ==
  /\ Executes("parallel")
  /\ \E address \in FreeAddresses, k \in 0..(Len(Statement.branches) - 1) :
       /\ runs' = runs \o SubSeq(ParallelRuns(address), 1, k)
       /\ open' = open \cup (Len(runs) + 1)..(Len(runs) + k)
  /\ Raise
  /\ UNCHANGED <<program, flowVars, outputs, registered, invocation>>

ParallelAnswers(i) ==
  /\ pc = "parallel"
  /\ i \in block.pending
  /\ LET n == block.runs[i]
     IN  \E answer \in AnswersOf(runs[n].agent) :
           /\ runs' = [runs EXCEPT ![n].answer = answer]
           /\ outputs' = IF answer = "silent" THEN outputs
                         ELSE [outputs EXCEPT ![Top.specs][runs[n].agent] = n]
  /\ block' = [block EXCEPT !.pending = @ \ {i}]
  /\ UNCHANGED <<program, pc, stack, flowVars, call, registered, open, invocation, outcome>>

(* One agent raises: the group of tasks is cancelled. *)
ParallelRaises ==
  /\ pc = "parallel"
  /\ block.pending # {}
  /\ runs' = [n \in DOMAIN runs |->
                IF n \in {block.runs[i] : i \in block.pending}
                THEN [runs[n] EXCEPT !.answer = "raised"] ELSE runs[n]]
  /\ Raise
  /\ UNCHANGED <<program, flowVars, outputs, registered, open, invocation>>

(* MUTANT: the block waits until every agent has left a result. *)
ParallelEnds_WaitsForResults ==
  /\ pc = "parallel"
  /\ block.pending = {}
  /\ pc' = IF \A n \in Range(block.runs) : outputs[Top.specs][runs[n].agent] # Unset
           THEN "collecting" ELSE "parallel"
  /\ UNCHANGED <<program, stack, flowVars, call, block, outputs, agentVars, outcome>>

ParallelEnds ==
  /\ pc = "parallel"
  /\ block.pending = {}
  /\ pc' = "collecting"
  /\ UNCHANGED <<program, stack, flowVars, call, block, outputs, agentVars, outcome>>

(* _process_parallel_results takes the results in the order of the block.  *)
Collecting == pc = "collecting" /\ block.next <= Len(block.runs)

NextBranch == Statement.branches[block.next]

NextOutput == outputs[Top.specs][NextBranch.agent]

CollectResult ==
  /\ Collecting
  /\ NextBranch.target # NoVar
  /\ NextOutput # Unset
  /\ IsAcceptable(NextOutput)
  /\ vars' = Assigned(vars, NextBranch.target, NextOutput)
  /\ block' = [block EXCEPT !.next = @ + 1]
  /\ UNCHANGED <<program, pc, stack, returned, last, escalated, call, outputs, agentVars, outcome>>

SkipResult ==
  /\ Collecting
  /\ NextBranch.target = NoVar \/ NextOutput = Unset
  /\ block' = [block EXCEPT !.next = @ + 1]
  /\ UNCHANGED <<program, pc, stack, flowVars, call, outputs, agentVars, outcome>>

RetryResult ==
  /\ Collecting
  /\ NextBranch.target # NoVar
  /\ NextOutput # Unset
  /\ ~IsAcceptable(NextOutput)
  /\ call' = [agent |-> NextBranch.agent, attempt |-> 2, run |-> 0]
  /\ pc' = "calling"
  /\ UNCHANGED <<program, stack, flowVars, block, outputs, agentVars, outcome>>

RetryAnswers ==
  /\ \E answer \in {"valid", "invalid", "silent"} :
       /\ Answered(answer)
       /\ Statement.op = "parallel"
       /\ vars' = Assigned(vars, NextBranch.target, ValueOf(answer))
  /\ block' = [block EXCEPT !.next = @ + 1]
  /\ call' = NoCall
  /\ pc' = "collecting"
  /\ UNCHANGED <<program, stack, returned, last, escalated, outputs, registered, open, invocation, outcome>>

FinishParallel ==
  /\ pc = "collecting" /\ block.next > Len(block.runs)
  /\ stack' = Advanced(stack)
  /\ block' = NoBlock
  /\ pc' = "running"
  /\ UNCHANGED <<program, flowVars, call, outputs, agentVars, outcome>>

-----------------------------------------------------------------------------
(* close() of the workload, in the finally of create_workload. The first   *)
(* agent whose close raises leaves the rest open.                          *)
Close ==
  /\ pc = "closing"
  /\ \E k \in 0..Len(registered) :
       /\ open' = open \ {registered[i] : i \in 1..k}
       /\ outcome' = [outcome EXCEPT !.closeFailed = k < Len(registered)]
  /\ pc' = "idle"
  /\ UNCHANGED <<program, stack, flowVars, call, block, outputs, runs, registered, invocation>>

Next ==
  \/ StartTurn
  \/ CallAgent \/ CreateAgent \/ CreateAgentRaises
  \/ AgentRaises \/ AgentIsRetried \/ AgentAnswers
  \/ CallFlow \/ ReturnFromFlow \/ ReturnRaises \/ HandlerEnds \/ FlowEnds
  \/ StartParallel \/ StartParallelRaises \/ ParallelRaises \/ ParallelEnds
  \/ \E i \in 1..Len(block.runs) : ParallelAnswers(i)
  \/ CollectResult \/ SkipResult \/ RetryResult \/ RetryAnswers \/ FinishParallel
  \/ Close

Spec == Init /\ [][Next]_allVars

(* The event loop runs on and every agent answers or raises in the end; the*)
(* user is free to leave.                                                  *)
FairSpec == Spec /\ WF_allVars(Next /\ pc # "idle")

-----------------------------------------------------------------------------

(* An agent run from a flow, a retry included, never continues the child   *)
(* session of another run of the same turn: all flows of a turn count with *)
(* the same context (SessionDeriver, next_invocation_id).                  *)
RunsOfATurnKeepApart ==
  \A m, n \in 1..Len(runs) :
    m # n /\ ~runs[m].parallel /\ ~runs[n].parallel
      => runs[m].session # runs[n].session

(* Once a workload is closed, every agent its flows ran one after the other*)
(* is closed, the agents of retries and of failed runs included, unless an *)
(* agent's own close raised (DslAgentWorkflow.close).                      *)
ClosedAfterTurn ==
  pc = "idle" /\ ~outcome.closeFailed =>
    \A n \in open : runs[n].parallel

(* A variable holds the answer of a sequential run only if that run ran    *)
(* for it, or the variable takes the last result of a flow. It holds a     *)
(* result of an earlier turn only if a parallel block stores into it: the  *)
(* context of a turn is new (create_context in _execute_flow).             *)
Statements ==
  UNION {Range(program[f].body) \cup Range(program[f].handler) : f \in DOMAIN program}

FlowTargets == {s.target : s \in {t \in Statements : t.op = "flow"}}

ParallelTargets ==
  UNION {{b.target : b \in Range(s.branches)} : s \in {t \in Statements : t.op = "parallel"}}

ResultsComeFromTheirStatements ==
  \A x \in Vars :
    /\ vars[x] > 0 /\ ~runs[vars[x]].parallel =>
         x \in FlowTargets \/ runs[vars[x]].target = x
    /\ vars[x] \in {Earlier, EarlierBad} => x \in ParallelTargets

(* Every turn ends, failed or not, with its workload closed. *)
TurnEnds == (pc # "idle") ~> (pc = "idle")

=============================================================================
