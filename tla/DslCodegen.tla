----------------------------- MODULE DslCodegen -----------------------------
(***************************************************************************)
(* CodeGenerator: the Python of a file, as the dictionaries of the class   *)
(* and the lines of a flow, each with its indentation. An expression stays *)
(* what it is; what its Python reads is ReadsOf. The three lines that      *)
(* forward the events of a run are one line.                               *)
(***************************************************************************)
EXTENDS DslAnalyzer

CONSTANTS
  Unfit,        \* texts that are no part of a Python name: they hold a blank or a hyphen
  PythonWords,  \* the words of Python
  Quoting       \* texts that hold an apostrophe

Line(indent, op) == [indent |-> indent, op |-> op]

LineOf(indent, op, arg, expr) == [indent |-> indent, op |-> op, arg |-> arg, expr |-> expr]

(* ExpressionVisitor.visit raises on a word of the grammar: no code.       *)
Raises(indent) == Line(indent, "no code")

ItemsOf(e) ==
  IF e.kind = "ListLiteral" THEN ToSet(e.elements) ELSE Range(e.entries)

(* `a.b` in a text is the key b of the variable a.                         *)
VarToPython(parts) ==
  IF Len(parts) = 1 THEN [kind |-> "VarRef", name |-> parts[1]]
  ELSE [kind |-> "PropertyAccess", base |-> [kind |-> "VarRef", name |-> parts[1]],
        properties |-> Tail(parts)]

(* The expressions of an f-string, or of the call around one of them.      *)
Interpolate(literal) == [n \in DOMAIN literal.names |-> VarToPython(literal.names[n])]

RECURSIVE HasWord(_)
HasWord(e) ==
  CASE e.kind = "Token" -> TRUE
    [] e.kind = "PropertyAccess" -> HasWord(e.base)
    [] e.kind = "BinaryOp" -> HasWord(e.left) \/ HasWord(e.right)
    [] e.kind = "UnaryOp" -> HasWord(e.operand)
    [] e.kind = "FunctionCall" -> \E n \in DOMAIN e.args : HasWord(e.args[n])
    [] e.kind \in {"ListLiteral", "ObjectLiteral"} -> \E i \in ItemsOf(e) : HasWord(i)
    [] e.kind = "FilterExpr" -> HasWord(e.list) \/ HasWord(e.condition)
    [] OTHER -> FALSE

(* The keys of ctx.vars the Python of an expression reads, all of them at  *)
(* once: no operator of an expression with a variable on its right is      *)
(* lazy here.                                                              *)
RECURSIVE ReadsOf(_)
ReadsOf(e) ==
  CASE e.kind \in {"VarRef", "NameRef"} -> {e.name}
    [] e.kind = "PropertyAccess" -> ReadsOf(e.base)
    [] e.kind = "BinaryOp" -> ReadsOf(e.left) \cup ReadsOf(e.right)
    [] e.kind = "UnaryOp" -> ReadsOf(e.operand)
    [] e.kind = "FunctionCall" ->
         IF e.name = "initial_user_prompt" THEN {"input_prompt"}
         ELSE UNION {ReadsOf(e.args[n]) : n \in DOMAIN e.args}
    [] e.kind \in {"ListLiteral", "ObjectLiteral"} -> UNION {ReadsOf(i) : i \in ItemsOf(e)}
    [] e.kind = "Literal" -> UNION {ReadsOf(i) : i \in ToSet(Interpolate(e))}
    [] e.kind = "FilterExpr" -> ReadsOf(e.list)
    [] OTHER -> {}

(* The condition of a filter is read for the items of its list, if any.    *)
FilterReads(e) == IF e.kind = "FilterExpr" THEN ReadsOf(e.condition) ELSE {}

Emit(indent, op, arg, expr) ==
  IF HasWord(expr) THEN <<Raises(indent)>> ELSE <<LineOf(indent, op, arg, expr)>>

-----------------------------------------------------------------------------
(* The statements of a flow. `agents` are the named agents of the file.    *)

AgentField(agents, name, field) ==
  IF name \in DOMAIN agents THEN agents[name][field] ELSE ""

(* Without an input an agent gets its own prompt.                          *)
InputOf(stmt, agents) ==
  IF stmt.input.kind = "None" /\ ~stmt.is_flow
    THEN LET prompt == AgentField(agents, stmt.agent, "prompt") IN
         IF prompt = "" THEN None ELSE [kind |-> "Resolve", name |-> prompt]
    ELSE stmt.input

TargetOf(stmt, agents) ==
  IF stmt.target # "" THEN stmt.target
  ELSE IF stmt.is_flow THEN "" ELSE AgentField(agents, stmt.agent, "produces")

StoreResult(indent, target) ==
  IF target = "" THEN << >> ELSE <<LineOf(indent, "store", target, None)>>

EscalationAction(indent, handler) ==
  CASE handler.action = "return" ->
         Emit(indent, "set return", "", handler.value) \o <<Line(indent, "return")>>
    [] handler.action = "continue" -> <<Line(indent, "continue")>>
    [] handler.action = "abort" -> <<Line(indent, "raise")>>

(* With a handler the statement runs an agent, a flow or not.              *)
VisitRun(stmt, indent, agents) ==
  LET op == IF stmt.escalation.kind = "None" /\ stmt.is_flow THEN "run flow" ELSE "run agent"
  IN  Emit(indent, op, stmt.agent, InputOf(stmt, agents))
      \o StoreResult(indent, TargetOf(stmt, agents))
      \o IF stmt.escalation.kind = "None" THEN << >>
         ELSE <<LineOf(indent, "if", "escalated", None)>>
              \o EscalationAction(indent + 1, stmt.escalation)

(* The inputs of all branches are read before the first of them runs.      *)
VisitParallel(stmt, indent, agents) ==
  LET branches == stmt.body
      Branch(n) == [agent |-> branches[n].agent, target |-> TargetOf(branches[n], agents)]
      inputs == [n \in DOMAIN branches |-> InputOf(branches[n], agents)]
  IN  IF branches = << >> THEN <<Line(indent, "pass")>>
      ELSE IF \E n \in DOMAIN branches : branches[n].kind # "RunStmt" THEN <<Raises(indent)>>
      ELSE Emit(indent, "parallel", [n \in DOMAIN branches |-> Branch(n)],
                [kind |-> "ListLiteral", elements |-> inputs])

(* MUTANT: the counter is reset in every round. *)
LoopHead_ResetInside(indent, max) ==
  <<LineOf(indent, "_max_iterations =", max, None), LineOf(indent, "while", max, None),
    Line(indent + 1, "_loop_count = 0"), Line(indent + 1, "_loop_count += 1")>>

LoopHead(indent, max) ==
  IF max = -1 THEN <<LineOf(indent, "while", -1, None)>>
  ELSE <<Line(indent, "_loop_count = 0"), LineOf(indent, "_max_iterations =", max, None),
         LineOf(indent, "while", max, None), Line(indent + 1, "_loop_count += 1")>>

VisitAssignment(stmt, indent) == Emit(indent, "set", stmt.target, stmt.value)

VisitPropertyAssignment(stmt, indent) ==
  Emit(indent, "set in", stmt.target.base.name, stmt.value)

VisitCall(stmt, indent) ==
  Emit(indent, "call llm", stmt.prompt, stmt.input) \o StoreResult(indent, stmt.target)

VisitReturn(stmt, indent) ==
  Emit(indent, "set return", "", stmt.value) \o <<Line(indent, "return")>>

VisitPush(stmt, indent) == Emit(indent, "append", stmt.target, stmt.value)

VisitLog(stmt, indent) == Emit(indent, "log", "", stmt.message)

VisitNotify(stmt, indent) == Emit(indent, "notify", "", stmt.message)

VisitEscalate(stmt, indent) == <<LineOf(indent, "escalate", stmt.message, None)>>

(* The lines of a block statement before its body.                         *)
ForHead(stmt, indent) ==
  Emit(indent, "for", stmt.variable, stmt.iterable)
  \o <<LineOf(indent + 1, "set item", stmt.variable, None)>>

IfHead(stmt, indent) == Emit(indent, "if", "condition", stmt.condition)

(* The cases of a match, the `else` among them as the pattern `_`.         *)
CasesOf(stmt) ==
  stmt.cases \o IF stmt.otherwise = None THEN << >>
               ELSE <<[kind |-> "MatchCase", pattern |-> "_", body |-> stmt.otherwise]>>

RECURSIVE VisitStatement(_, _, _)
VisitStatement(stmt, indent, agents) ==
  LET Visited(body, in) == FlattenSeq([n \in DOMAIN body |-> VisitStatement(body[n], in, agents)])
      OrPass(body, in) == IF body = << >> THEN <<Line(in, "pass")>> ELSE Visited(body, in)
      Case(c) == <<LineOf(indent + 1, "case", c.pattern, None)>>
                 \o VisitStatement(c.body, indent + 2, agents)
  IN
  CASE stmt.kind = "Assignment" -> VisitAssignment(stmt, indent)
    [] stmt.kind = "PropertyAssignment" -> VisitPropertyAssignment(stmt, indent)
    [] stmt.kind = "RunStmt" -> VisitRun(stmt, indent, agents)
    [] stmt.kind = "CallStmt" -> VisitCall(stmt, indent)
    [] stmt.kind = "ReturnStmt" -> VisitReturn(stmt, indent)
    [] stmt.kind = "PushStmt" -> VisitPush(stmt, indent)
    [] stmt.kind = "ParallelBlock" -> VisitParallel(stmt, indent, agents)
    [] stmt.kind = "ForLoop" -> ForHead(stmt, indent) \o Visited(stmt.body, indent + 1)
    [] stmt.kind = "IfBlock" -> IfHead(stmt, indent) \o OrPass(stmt.body, indent + 1)
    [] stmt.kind = "LoopBlock" -> LoopHead(indent, stmt.max) \o OrPass(stmt.body, indent + 1)
    [] stmt.kind = "MatchBlock" ->
         Emit(indent, "match", "", stmt.expression)
         \o FlattenSeq([n \in DOMAIN CasesOf(stmt) |-> Case(CasesOf(stmt)[n])])
    [] stmt.kind = "LogStmt" -> VisitLog(stmt, indent)
    [] stmt.kind = "NotifyStmt" -> VisitNotify(stmt, indent)
    [] stmt.kind = "EscalateStmt" -> VisitEscalate(stmt, indent)
    [] OTHER -> << >>

(* The words of a failure block that came from a file are no statements.   *)
VisitFailure(body, at, agents) ==
  LET Visited(stmts, in) == FlattenSeq([n \in DOMAIN stmts |-> VisitStatement(stmts[n], in, agents)])
      handler == body[at].body
  IN  <<Line(1, "try")>>
      \o (IF at = 1 THEN <<Line(2, "pass")>> ELSE Visited(SubSeq(body, 1, at - 1), 2))
      \o <<Line(1, "except")>>
      \o (IF handler.kind = "list" THEN Visited(handler.items, 2) ELSE << >>)
      \o Visited(SubSeq(body, at + 1, Len(body)), 1)

VisitFlow(flow, agents) ==
  LET failures == {n \in DOMAIN flow.body : flow.body[n].kind = "FailureBlock"}
  IN  <<LineOf(0, "def", flow.name, None)>>
      \o IF flow.body = << >> THEN <<Line(1, "pass")>>
         ELSE IF failures # {}
           THEN VisitFailure(flow.body, CHOOSE n \in failures : \A m \in failures : n <= m, agents)
         ELSE FlattenSeq([n \in DOMAIN flow.body |-> VisitStatement(flow.body[n], 1, agents)])

-----------------------------------------------------------------------------
(* The class.                                                              *)

AgentsByName(file) ==
  LET agents == OfKind(file.statements, {"AgentDef"})
      named == SelectSeq(agents, LAMBDA g : g.name # "")
  IN  FoldLeft(LAMBDA d, g : (g.name :> g) @@ d, NoEntries, named)

EmitModels(file) ==
  FoldLeft(LAMBDA d, m :
             (m.name :> IF m.provider_model # "" THEN m.provider_model
                        ELSE Entry(m.properties, "provider", "")) @@ d,
           NoEntries, OfKind(file.statements, {"ModelDef"}))

(* A schema's fields are read when the class body runs, in the order of    *)
(* the file; a type that is no schema is a string.                         *)
EmitSchemas(file) ==
  LET schemas == OfKind(file.statements, {"SchemaDef"})
      names == {schemas[n].name : n \in DOMAIN schemas}
      Types(s) == {s.fields[n].type.base : n \in DOMAIN s.fields}
  IN  [n \in DOMAIN schemas |->
         [name |-> schemas[n].name, reads |-> Types(schemas[n]) \cap names,
          fields |-> {schemas[n].fields[m].name : m \in DOMAIN schemas[n].fields}]]

EmitPrompts(prompts) ==
  [p \in DOMAIN prompts |->
     [names |-> prompts[p].names, schema |-> prompts[p].expecting, model |-> prompts[p].model,
      escalation |-> prompts[p].escalation]]

EmitTools(file) ==
  FoldLeft(LAMBDA d, t : (t.name :> [type |-> t.type, url |-> t.url, auth |-> t.auth,
                                     ref |-> t.ref]) @@ d,
           NoEntries, OfKind(file.statements, {"ToolDef"}))

(* The retry and the timeout of an agent are not in the class.             *)
EmitAgents(file) ==
  FoldLeft(LAMBDA d, g :
             (AgentName(g) :> [tools |-> g.tools, instruction |-> g.instruction,
                               subAgents |-> g.delegate, agentTools |-> g.use,
                               prompt |-> g.prompt, produces |-> g.produces,
                               history |-> g.history, description |-> g.description]) @@ d,
           NoEntries, OfKind(file.statements, {"AgentDef"}))

EmitCompactionPolicy(file) ==
  FirstIn(SelectSeq(OfKind(file.statements, {"PolicyDef"}), LAMBDA p : p.name = "compaction"),
          [properties |-> NoEntries]).properties

(* Methods of one name replace each other. The handlers of an agent have   *)
(* its name in theirs.                                                     *)
EmitHandlers(file) ==
  LET agents == SelectSeq(OfKind(file.statements, {"AgentDef"}), LAMBDA g : g.name # "")
      Methods(handlers, agent) ==
        [n \in DOMAIN handlers |-> [key |-> <<handlers[n].timing, handlers[n].event, agent>>,
                                    body |-> handlers[n].body]]
  IN  FoldLeft(LAMBDA d, m : (m.key :> m.body) @@ d, [k \in {} |-> << >>],
               Methods(OfKind(file.statements, {"EventHandler"}), "")
               \o FlattenSeq([n \in DOMAIN agents |-> Methods(agents[n].handlers, agents[n].name)]))

EmitFlows(file) ==
  FoldLeft(LAMBDA d, f : (f.name :> VisitFlow(f, AgentsByName(file))) @@ d,
           NoEntries, OfKind(file.statements, {"FlowDef"}))

Generate(file, mergedPrompts) ==
  [models |-> EmitModels(file), schemas |-> EmitSchemas(file),
   prompts |-> EmitPrompts(mergedPrompts), tools |-> EmitTools(file),
   agents |-> EmitAgents(file), compaction |-> EmitCompactionPolicy(file),
   handlers |-> EmitHandlers(file), flows |-> EmitFlows(file)]

-----------------------------------------------------------------------------
(* What Python says of the code.                                           *)

Generated(class) ==
  \A f \in DOMAIN class.flows : \A n \in DOMAIN class.flows[f] :
    class.flows[f][n].op # "no code"

Opens(line) == line.op \in {"def", "try", "except", "if", "while", "for", "match", "case"}

(* The line after the block of a line.                                     *)
Sibling(code, n) ==
  LET rest == {m \in (n + 1)..Len(code) : code[m].indent <= code[n].indent}
  IN  IF rest = {} THEN Len(code) + 1 ELSE CHOOSE m \in rest : \A k \in rest : m <= k

InLoop(code, n) ==
  \E h \in 1..(n - 1) : code[h].op \in {"while", "for"} /\ n < Sibling(code, h)

(* Names become parts of Python names as they are: of flows and agents in  *)
(* methods, of the variable of a `for` in a local one; those of schemas    *)
(* and their fields are Python names by themselves.                        *)
NamesFit(class) ==
  /\ (DOMAIN class.flows \cup {k[3] : k \in DOMAIN class.handlers}) \cap Unfit = {}
  /\ \A f \in DOMAIN class.flows : \A n \in DOMAIN class.flows[f] :
       class.flows[f][n].op = "for" => class.flows[f][n].arg \notin Unfit
  /\ \A n \in DOMAIN class.schemas :
       ({class.schemas[n].name} \cup class.schemas[n].fields) \cap (Unfit \cup PythonWords) = {}

(* Some texts are set between apostrophes as they are.                     *)
QuotedTexts(class) ==
  {class.prompts[p].escalation.value :
     p \in {q \in DOMAIN class.prompts : class.prompts[q].escalation # None}}
  \cup {line.arg : line \in {l \in UNION {ToSet(class.flows[f]) : f \in DOMAIN class.flows} :
                             l.op \in {"case", "escalate"}}}
  \cup {action.message : action \in {a \in UNION {ToSet(class.handlers[k]) : k \in DOMAIN class.handlers} :
                                    a.kind = "WarnAction"}}

TextsFit(class) == NamesFit(class) /\ QuotedTexts(class) \cap Quoting = {}

(* A header needs a block, a `match` its cases, a `continue` a loop.       *)
Compiles(class) ==
  /\ TextsFit(class)
  /\ \A f \in DOMAIN class.flows : LET code == class.flows[f] IN
       \A n \in DOMAIN code :
         /\ Opens(code[n]) => n < Len(code) /\ code[n + 1].indent = code[n].indent + 1
         /\ code[n].op = "continue" => InLoop(code, n)

(* The class body runs: a schema reads only schemas before it.             *)
Loads(class) ==
  \A n \in DOMAIN class.schemas :
    class.schemas[n].reads \subseteq {class.schemas[m].name : m \in 1..(n - 1)}

=============================================================================
