---------------------------- MODULE DslAnalyzer ----------------------------
(***************************************************************************)
(* SemanticAnalyzer: the definitions of a file are collected, then every   *)
(* reference of every statement is looked up. An analysis is the errors so *)
(* far, the symbols, the stack of scopes and the depth of loops.           *)
(***************************************************************************)
EXTENDS DslAst, FiniteSets, AgentGraphs

BuiltinVariables ==
  {"input_prompt", "conversation", "current_agent", "session_id", "turn_count"}

Kinds == {"models", "schemas", "tools", "prompts", "agents", "flows", "retries", "timeouts"}

Error(code, name) == [code |-> code, name |-> name]

(* agent_has_both_delegate_and_use *)
Warning(e) == e.code = "W0002"

(* _define_builtins: the global scope starts with them.                    *)
NewAnalysis ==
  [errors |-> {}, symbols |-> [k \in Kinds |-> NoEntries],
   scopes |-> <<BuiltinVariables>>, depth |-> 0]

AddErrors(a, errors) == [a EXCEPT !.errors = @ \cup errors]

AddErrorIf(a, wrong, code, name) == IF wrong THEN AddErrors(a, {Error(code, name)}) ELSE a

Define(a, name) == [a EXCEPT !.scopes[Len(a.scopes)] = @ \cup {name}]

Lookup(a, name) == \E n \in DOMAIN a.scopes : name \in a.scopes[n]

Has(a, kind, name) == name \in DOMAIN a.symbols[kind]

-----------------------------------------------------------------------------
(* The first pass.                                                         *)

Enter(a, kind, name, node) ==
  Define([a EXCEPT !.symbols[kind] = (name :> node) @@ @], name)

CollectOnce(a, kind, name, node) ==
  IF Has(a, kind, name) THEN AddErrors(a, {Error("E0003", name)})
                        ELSE Enter(a, kind, name, node)

AgentName(agent) == IF agent.name = "" THEN "default" ELSE agent.name

CollectAgent(a, agent) == CollectOnce(a, "agents", AgentName(agent), agent)

Modifiers == {"model", "expecting", "inherit"}

(* MUTANT: the later declaration wins. *)
Conflicts_Never(old, new) == {}

Conflicts(old, new) == {m \in Modifiers : old[m] # "" /\ new[m] # "" /\ old[m] # new[m]}

(* What the new declaration leaves out stays.                              *)
MergePrompts(old, new) ==
  [old EXCEPT
    !.model = IF new.model = "" THEN @ ELSE new.model,
    !.expecting = IF new.expecting = "" THEN @ ELSE new.expecting,
    !.inherit = IF new.inherit = "" THEN @ ELSE new.inherit,
    !.escalation = IF new.escalation = None THEN @ ELSE new.escalation,
    !.body = IF new.body = "" THEN @ ELSE new.body,
    !.names = IF new.body = "" THEN @ ELSE new.names]

(* With a conflict the new declaration is not merged at all.               *)
CollectPrompt(a, prompt) ==
  IF ~Has(a, "prompts", prompt.name)
    THEN Enter(a, "prompts", prompt.name, prompt)
    ELSE LET old == a.symbols.prompts[prompt.name] IN
         IF Conflicts(old, prompt) # {}
           THEN AddErrors(a, {Error("E0014", prompt.name)})
           ELSE Enter(a, "prompts", prompt.name, MergePrompts(old, prompt))

CollectDefinition(a, stmt) ==
  CASE stmt.kind = "ModelDef" -> CollectOnce(a, "models", stmt.name, stmt)
    [] stmt.kind = "SchemaDef" -> CollectOnce(a, "schemas", stmt.name, stmt)
    [] stmt.kind = "ToolDef" -> CollectOnce(a, "tools", stmt.name, stmt)
    [] stmt.kind = "PromptDef" -> CollectPrompt(a, stmt)
    [] stmt.kind = "AgentDef" -> CollectAgent(a, stmt)
    [] stmt.kind = "FlowDef" -> CollectOnce(a, "flows", stmt.name, stmt)
    [] stmt.kind = "RetryPolicyDef" -> CollectOnce(a, "retries", stmt.name, stmt)
    [] stmt.kind = "TimeoutPolicyDef" -> CollectOnce(a, "timeouts", stmt.name, stmt)
    [] OTHER -> a

-----------------------------------------------------------------------------
(* Expressions and statements.                                             *)

(* The variables an expression is validated for. Names, filters, implicit  *)
(* properties, what a text interpolates and what is no node at all are     *)
(* passed over.                                                            *)
RECURSIVE VarRefs(_)
VarRefs(e) ==
  CASE e.kind = "VarRef" -> {e.name}
    [] e.kind = "PropertyAccess" -> VarRefs(e.base)
    [] e.kind = "BinaryOp" -> VarRefs(e.left) \cup VarRefs(e.right)
    [] e.kind = "UnaryOp" -> VarRefs(e.operand)
    [] e.kind = "FunctionCall" -> UNION {VarRefs(e.args[n]) : n \in DOMAIN e.args}
    [] e.kind = "ListLiteral" -> UNION {VarRefs(e.elements[n]) : n \in DOMAIN e.elements}
    [] e.kind = "ObjectLiteral" -> UNION {VarRefs(e.entries[k]) : k \in DOMAIN e.entries}
    [] OTHER -> {}

ValidateExpression(a, e) ==
  AddErrors(a, {Error("E0002", x) : x \in {y \in VarRefs(e) : ~Lookup(a, y)}})

ValidateAssignment(a, stmt) == Define(ValidateExpression(a, stmt.value), stmt.target)

ValidateEscalationHandler(a, stmt) ==
  AddErrorIf(a, stmt.escalation.kind = "EscalationHandler" /\ a.depth = 0
                /\ stmt.escalation.action = "continue", "E0012", stmt.agent)

RunsUnknown(a, stmt) == ~Has(a, IF stmt.is_flow THEN "flows" ELSE "agents", stmt.agent)

(* A run without a target defines what its agent produces.                 *)
ValidateRunStmt(a, stmt) ==
  LET known == AddErrorIf(a, RunsUnknown(a, stmt), "E0001", stmt.agent)
      read == ValidateExpression(known, stmt.input)
      produces == IF ~stmt.is_flow /\ Has(a, "agents", stmt.agent)
                    THEN a.symbols.agents[stmt.agent].produces ELSE ""
      written == IF stmt.target # "" THEN Define(read, stmt.target)
                 ELSE IF produces # "" THEN Define(read, produces) ELSE read
  IN  ValidateEscalationHandler(written, stmt)

ValidateCallStmt(a, stmt) ==
  LET known == AddErrorIf(AddErrorIf(a, ~Has(a, "prompts", stmt.prompt), "E0001", stmt.prompt),
                          stmt.model # "" /\ ~Has(a, "models", stmt.model),
                          "E0001", stmt.model)
      read == ValidateExpression(known, stmt.input)
  IN  IF stmt.target = "" THEN read ELSE Define(read, stmt.target)

ValidatePush(a, stmt) ==
  AddErrorIf(ValidateExpression(a, stmt.value), ~Lookup(a, stmt.target), "E0002", stmt.target)

OpenScope(a, names, loops) ==
  [a EXCEPT !.scopes = Append(@, names), !.depth = @ + loops]

(* MUTANT: a block defines its names for what follows. *)
CloseScope_KeepsNames(a, loops) == [a EXCEPT !.depth = @ - loops]

(* MUTANT: the depth is not restored. *)
CloseScope_StaysInLoop(a, loops) == [a EXCEPT !.scopes = Front(@)]

CloseScope(a, loops) == [a EXCEPT !.scopes = Front(@), !.depth = @ - loops]

(* A loop and an `if` have a scope of their own; a parallel block has not, *)
(* and the bodies of a match are passed over.                              *)
RECURSIVE ValidateStatement(_, _)
ValidateStatement(a, stmt) ==
  LET Statements(b) == FoldLeft(ValidateStatement, b, stmt.body)
      InScope(b, names, loops) == CloseScope(Statements(OpenScope(b, names, loops)), loops)
  IN
  CASE stmt.kind = "Assignment" -> ValidateAssignment(a, stmt)
    [] stmt.kind = "RunStmt" -> ValidateRunStmt(a, stmt)
    [] stmt.kind = "CallStmt" -> ValidateCallStmt(a, stmt)
    [] stmt.kind = "ReturnStmt" -> ValidateExpression(a, stmt.value)
    [] stmt.kind = "PushStmt" -> ValidatePush(a, stmt)
    [] stmt.kind = "ForLoop" ->
         InScope(ValidateExpression(a, stmt.iterable), {stmt.variable}, 1)
    [] stmt.kind = "IfBlock" -> InScope(ValidateExpression(a, stmt.condition), {}, 0)
    [] stmt.kind = "LoopBlock" -> InScope(a, {}, 1)
    [] stmt.kind = "ParallelBlock" -> Statements(a)
    [] stmt.kind = "MatchBlock" -> ValidateExpression(a, stmt.expression)
    [] OTHER -> a

ValidateFlow(a, flow) ==
  CloseScope(FoldLeft(ValidateStatement, OpenScope(a, {}, 0), flow.body), 0)

(* What `on start` assigns is visible to the statements after it.          *)
ValidateEventHandler(a, handler) ==
  IF handler.timing = "on" /\ handler.event = "start"
    THEN FoldLeft(ValidateStatement, a, handler.body)
    ELSE ValidateFlow(a, handler)

-----------------------------------------------------------------------------
(* Prompts and agents.                                                     *)

ValidatePromptsHaveBodies(a) ==
  AddErrors(a, {Error("E0013", p) : p \in {q \in DOMAIN a.symbols.prompts :
                                             a.symbols.prompts[q].body = ""}})

Produced(a) == {a.symbols.agents[g].produces : g \in DOMAIN a.symbols.agents}

RECURSIVE DefinesVar(_, _)
DefinesVar(stmts, name) ==
  \E n \in DOMAIN stmts : LET stmt == stmts[n] IN
    \/ stmt.kind \in {"Assignment", "RunStmt", "CallStmt"} /\ stmt.target = name
    \/ stmt.kind = "ForLoop" /\ stmt.variable = name
    \/ /\ stmt.kind \in {"ForLoop", "ParallelBlock", "LoopBlock", "IfBlock"}
       /\ DefinesVar(stmt.body, name)

KnownFlowVar(a, name) ==
  \E f \in DOMAIN a.symbols.flows : DefinesVar(a.symbols.flows[f].body, name)

ValidPromptVar(a, name) ==
  \/ name \in BuiltinVariables
  \/ Has(a, "prompts", name)
  \/ name \in Produced(a)
  \/ KnownFlowVar(a, name)

ValidatePromptRefs(a, prompt) ==
  LET modifiers == AddErrorIf(AddErrorIf(a,
                     prompt.model # "" /\ ~Has(a, "models", prompt.model),
                       "E0001", prompt.model),
                     prompt.expecting # "" /\ ~Has(a, "schemas", prompt.expecting),
                       "E0001", prompt.expecting)
  IN  AddErrors(modifiers,
        {Error("E0015", x) : x \in {y \in ToSet(prompt.names) : ~ValidPromptVar(a, y)}})

(* An instruction is read when the agent is created: only prompts stand    *)
(* for something then.                                                     *)
ValidateInstructionPrompts(a) ==
  LET InstructionOf(g) == a.symbols.agents[g].instruction
      InBody(g) == IF Has(a, "prompts", InstructionOf(g))
                     THEN ToSet(a.symbols.prompts[InstructionOf(g)].names) ELSE {}
  IN  AddErrors(a, {Error("E0016", x) :
        x \in {y \in UNION {InBody(g) : g \in DOMAIN a.symbols.agents} : ~Has(a, "prompts", y)}})

(* The prompt of an agent may be a variable; its instruction must only be  *)
(* there.                                                                  *)
ValidateAgentRefs(a, agent) ==
  LET Unknown(kind, names) == {Error("E0001", x) : x \in {y \in names : ~Has(a, kind, y)}}
      Given(name) == {name} \ {""}
  IN  AddErrors(a,
        (IF agent.instruction = "" THEN {Error("E0010", AgentName(agent))} ELSE {})
        \cup {Error("E0001", p) : p \in {q \in Given(agent.prompt) :
                /\ ~Has(a, "prompts", q) /\ q \notin BuiltinVariables
                /\ q \notin Produced(a)}}
        \cup Unknown("tools", ToSet(agent.tools))
        \cup Unknown("retries", Given(agent.retry))
        \cup Unknown("timeouts", Given(agent.timeout_ref))
        \cup Unknown("agents", ToSet(agent.delegate) \cup ToSet(agent.use))
        \cup (IF agent.delegate # << >> /\ agent.use # << >>
                THEN {Error("W0002", AgentName(agent))} ELSE {}))

DetectCircularAgentRefs(a, found) == AddErrorIf(a, found, "E0011", "")

-----------------------------------------------------------------------------
(* The passes.                                                             *)

ValidateReference(a, stmt) ==
  CASE stmt.kind = "PromptDef" -> ValidatePromptRefs(a, stmt)
    [] stmt.kind = "AgentDef" -> ValidateAgentRefs(a, stmt)
    [] stmt.kind = "FlowDef" -> ValidateFlow(a, stmt)
    [] stmt.kind = "EventHandler" -> ValidateEventHandler(a, stmt)
    [] OTHER -> a

Collected(file) == FoldLeft(CollectDefinition, NewAnalysis, file.statements)

(* The whole of it; HasCircle is what the search of AgentCycles comes to.  *)
Analyze(file) ==
  LET bodies == ValidatePromptsHaveBodies(Collected(file))
      references == FoldLeft(ValidateReference, bodies, file.statements)
  IN  ValidateInstructionPrompts(
        DetectCircularAgentRefs(references, HasCircle(references.symbols.agents)))

IsValid(a) == \A e \in a.errors : Warning(e)

=============================================================================
