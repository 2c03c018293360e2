------------------------------- MODULE DslAst -------------------------------
(***************************************************************************)
(* AstTransformer: the methods that turn a parse tree of a .sr file into   *)
(* the nodes the analyzer and the code generator read. A method has the    *)
(* name of its grammar rule and takes the children of the rule, the words  *)
(* of the grammar among them: the parser keeps all tokens.                 *)
(*                                                                         *)
(* A text is known by what the methods look at: the texts that hold a "/"  *)
(* (a provider and a model) and those that hold a line break or more than  *)
(* 50 characters (a body). An optional name that is absent is "".          *)
(***************************************************************************)
EXTENDS Integers, Sequences, SequencesExt

None == [kind |-> "None"]

Tok(word) == [kind |-> "Token", text |-> word, form |-> "word"]

Str(text) == [kind |-> "str", text |-> text, form |-> "word"]

ModelPath(text) == [kind |-> "str", text |-> text, form |-> "path"]

BodyText(text, names) == [kind |-> "str", text |-> text, form |-> "body", names |-> names]

(* `a.b`, lexed as one name. *)
Dotted(parts) == [kind |-> "str", text |-> Head(parts), form |-> "dotted", parts |-> parts]

Num(n) == [kind |-> "int", value |-> n]

List(items) == [kind |-> "list", items |-> items]

Dict(key, value) == [kind |-> "dict", entries |-> [k \in {key} |-> value]]

NoEntries == [k \in {} |-> None]

(* The words _filter_children drops, of those the rules below hold.        *)
Dropped ==
  {":", "(", ")", "[", "]", "{", "}", ",", "=", "->", "$", "?", "provider", "schema",
   "model", "tool", "agent", "flow", "prompt", "policy", "retry", "timeout", "import",
   "from", "on", "after", "do", "end", "if", "for", "in", "parallel", "match", "when",
   "else", "return", "push", "to", "run", "call", "llm", "block", "mask", "warn", "with",
   "auth", "bearer", "basic", "builtin", "mcp", "using", "expecting", "inherit", "times",
   "backoff", "seconds", "minutes", "trigger", "strategy", "preserve", "last", "messages",
   "results", "escalate", "human", "log", "notify", "continue", "abort", "step",
   "failure", "process", "as", "history", "not", "contains", "description", "tools",
   "instruction", "produces", "filter", "where"}

Filtered(items) == SelectSeq(items, LAMBDA i : ~(i.kind = "Token" /\ i.text \in Dropped))

IsText(i) == i.kind \in {"str", "Token"}

OfKind(items, kinds) == SelectSeq(items, LAMBDA i : i.kind \in kinds)

NotText(items) == SelectSeq(items, LAMBDA i : ~IsText(i))

FirstIn(items, default) == IF items = << >> THEN default ELSE Head(items)

LastIn(items, default) == IF items = << >> THEN default ELSE Last(items)

FirstText(items) == FirstIn(OfKind(items, {"str", "Token"}), Str("")).text

LastText(items) == LastIn(OfKind(items, {"str", "Token"}), Str("")).text

Merged(items) ==
  FoldLeft(LAMBDA d, i : i.entries @@ d, NoEntries, OfKind(items, {"dict"}))

Entry(entries, key, default) == IF key \in DOMAIN entries THEN entries[key] ELSE default

(* A list child is the body; single nodes are added to it.                 *)
BodyOf(items) ==
  FoldLeft(LAMBDA body, i : IF i.kind = "list" THEN i.items ELSE Append(body, i),
           << >>, NotText(items))

-----------------------------------------------------------------------------
(* The nodes: of every class the fields that are read, under shorter names *)
(* here and there. A field that is absent is None or "".                   *)

ExpressionNodes ==
  [VarRef |-> {"name"}, NameRef |-> {"name"}, PropertyAccess |-> {"base", "properties"},
   ImplicitProperty |-> {"properties"}, ObjectLiteral |-> {"entries"},
   Literal |-> {"type", "value", "names"}, BinaryOp |-> {"op", "left", "right"},
   UnaryOp |-> {"op", "operand"}, FunctionCall |-> {"name", "args"},
   ListLiteral |-> {"elements"}, FilterExpr |-> {"list", "condition"}]

StatementNodes ==
  [Assignment |-> {"target", "value"}, PropertyAssignment |-> {"target", "value"},
   RunStmt |-> {"target", "agent", "input", "history", "is_flow", "escalation"},
   CallStmt |-> {"target", "prompt", "input", "model"}, ReturnStmt |-> {"value"},
   PushStmt |-> {"value", "target", "role"}, EscalateStmt |-> {"message"},
   LogStmt |-> {"message"}, NotifyStmt |-> {"message"}]

BlockNodes ==
  [ForLoop |-> {"variable", "iterable", "body"}, ParallelBlock |-> {"body"},
   LoopBlock |-> {"max", "body"}, MatchBlock |-> {"expression", "cases", "otherwise"},
   MatchCase |-> {"pattern", "body"}, IfBlock |-> {"condition", "body"},
   FailureBlock |-> {"body"}, MaskAction |-> {"guardrail"}, BlockAction |-> {"condition"},
   WarnAction |-> {"condition", "message"}, RetryAction |-> {"condition", "message"}]

DeclarationNodes ==
  [ModelDef |-> {"name", "provider_model", "properties"}, SchemaDef |-> {"name", "fields"},
   SchemaField |-> {"name", "type"}, TypeExpr |-> {"base", "is_list", "is_optional"},
   ToolDef |-> {"name", "type", "url", "auth", "ref"},
   AgentDef |-> {"name", "tools", "instruction", "retry", "timeout_ref", "delegate", "use",
                 "prompt", "produces", "history", "description", "handlers"}]

DefinitionNodes ==
  [PromptDef |-> {"name", "body", "names", "model", "expecting", "inherit", "escalation"},
   EscalationCondition |-> {"op", "value"}, EscalationHandler |-> {"action", "value"},
   FlowDef |-> {"name", "body"}, EventHandler |-> {"timing", "event", "body"},
   RetryPolicyDef |-> {"name", "times", "backoff"},
   TimeoutPolicyDef |-> {"name", "value", "unit"}, PolicyDef |-> {"name", "properties"},
   DslFile |-> {"statements"}]

Nodes ==
  ExpressionNodes @@ StatementNodes @@ BlockNodes @@ DeclarationNodes @@ DefinitionNodes

(* The fields of a node that hold lists of nodes.                          *)
NodeLists(node) ==
  LET names == {"statements", "body", "cases", "handlers", "fields", "elements"} \cap DOMAIN node
  IN  IF node.kind \in {"MatchCase", "FailureBlock", "PromptDef"} THEN names \ {"body"} ELSE names

(* A word may stand where a statement is expected.                         *)
IsNode(node) ==
  LET RECURSIVE Is(_)
      Is(n) ==
        IF n.kind \in DOMAIN Nodes
          THEN /\ DOMAIN n = Nodes[n.kind] \cup {"kind"}
               /\ \A f \in NodeLists(n) : \A i \in DOMAIN n[f] : Is(n[f][i])
          ELSE IsText(n)
  IN  Is(node)

-----------------------------------------------------------------------------
(* Models, schemas, tools and policies.                                    *)

model_short(items) ==
  LET texts == OfKind(Filtered(items), {"str", "Token"}) IN
  [kind |-> "ModelDef",
   name |-> FirstIn(SelectSeq(texts, LAMBDA t : t.form # "path"), Str("")).text,
   provider_model |-> LastIn(SelectSeq(texts, LAMBDA t : t.form = "path"), Str("")).text,
   properties |-> NoEntries]

model_long(items) ==
  [kind |-> "ModelDef", name |-> FirstText(Filtered(items)), provider_model |-> "",
   properties |-> LastIn(OfKind(items, {"dict"}), [entries |-> NoEntries]).entries]

model_body(items) == [kind |-> "dict", entries |-> Merged(items)]

model_provider(items) == Dict("provider", FirstText(Filtered(items)))

model_name(items) == Dict("name", FirstText(Filtered(items)))

model_max_tokens(items) == Dict("max_tokens", Head(OfKind(Filtered(items), {"int"})).value)

schema_def(items) ==
  LET lists == OfKind(Filtered(items), {"list"}) IN
  [kind |-> "SchemaDef", name |-> FirstText(Filtered(items)),
   fields |-> OfKind(LastIn(lists, List(<< >>)).items, {"SchemaField"})]

schema_body(items) == List(OfKind(Filtered(items), {"SchemaField"}))

schema_field(items) ==
  [kind |-> "SchemaField", name |-> FirstText(Filtered(items)),
   type |-> LastIn(OfKind(items, {"TypeExpr"}), None)]

simple_type(items) ==
  [kind |-> "TypeExpr", base |-> FirstText(items), is_list |-> FALSE, is_optional |-> FALSE]

list_type(items) == [Head(OfKind(items, {"TypeExpr"})) EXCEPT !.is_list = TRUE]

optional_type(items) == [Head(OfKind(items, {"TypeExpr"})) EXCEPT !.is_optional = TRUE]

ToolNode(name, info) ==
  [kind |-> "ToolDef", name |-> name, type |-> Entry(info, "tool_type", ""),
   url |-> Entry(info, "url", ""), auth |-> Entry(info, "auth_type", ""),
   ref |-> Entry(info, "builtin_ref", Entry(info, "ref", ""))]

tool_short(items) ==
  ToolNode(LastText(Filtered(items)),
           LastIn(OfKind(items, {"dict"}), [entries |-> NoEntries]).entries)

tool_long(items) ==
  LET properties == LastIn(OfKind(items, {"dict"}), [entries |-> NoEntries]).entries IN
  ToolNode(LastText(Filtered(items)),
           [tool_type |-> Entry(properties, "type", "mcp"),
            url |-> Entry(properties, "url", "")])

tool_mcp(items) ==
  LET options == LastIn(OfKind(items, {"dict"}), [entries |-> NoEntries]).entries IN
  [kind |-> "dict",
   entries |-> [tool_type |-> "mcp", url |-> LastText(Filtered(items)),
                auth_type |-> Entry(options, "auth_type", "")]]

tool_builtin(items) ==
  [kind |-> "dict",
   entries |-> [tool_type |-> "builtin", builtin_ref |-> LastText(Filtered(items))]]

tool_ref(items) ==
  [kind |-> "dict", entries |-> [tool_type |-> "ref", ref |-> LastText(Filtered(items))]]

tool_options(items) == [kind |-> "dict", entries |-> Merged(items)]

tool_auth_bearer(items) == Dict("auth_type", "bearer")

tool_auth_basic(items) == Dict("auth_type", "basic")

tool_body(items) == [kind |-> "dict", entries |-> Merged(items)]

(* The first child of these is the word of the grammar.                    *)
tool_type(items) == Dict("type", items[1].text)

tool_url(items) == Dict("url", items[1].text)

(* The strategy is told from the name by its text.                         *)
retry_policy_def(items) ==
  LET texts == OfKind(Filtered(items), {"str"})
      strategies == {"exponential", "linear", "fixed"}
      times == LastIn(OfKind(items, {"int"}), Num(0)).value IN
  [kind |-> "RetryPolicyDef",
   name |-> FirstIn(SelectSeq(texts, LAMBDA t : t.text \notin strategies), Str("")).text,
   times |-> IF times = 0 THEN 1 ELSE times,
   backoff |-> LastIn(SelectSeq(texts, LAMBDA t : t.text \in strategies), Str("")).text]

backoff_exponential == Str("exponential")
backoff_linear == Str("linear")
backoff_fixed == Str("fixed")

(* The word becomes a text, which the rule around it does not drop.        *)
time_unit(items) == Str(Head(items).text)

timeout_policy_def(items) ==
  LET texts == OfKind(Filtered(items), {"str"})
      units == {"seconds", "minutes", "hours"} IN
  [kind |-> "TimeoutPolicyDef",
   name |-> FirstIn(SelectSeq(texts, LAMBDA t : t.text \notin units), Str("")).text,
   value |-> LastIn(OfKind(items, {"int"}), Num(0)).value,
   unit |-> LastIn(SelectSeq(texts, LAMBDA t : t.text \in units), Str("seconds")).text]

policy_def(items) ==
  [kind |-> "PolicyDef", name |-> FirstText(OfKind(Filtered(items), {"str"})),
   properties |-> LastIn(OfKind(items, {"dict"}), [entries |-> NoEntries]).entries]

policy_body(items) == [kind |-> "dict", entries |-> Merged(items)]

(* The property is the one its first word names; a dict child stands.      *)
policy_property(items) ==
  LET named == SelectSeq(items, LAMBDA i : i.kind = "Token" /\ i.text \in
                                             {"trigger", "strategy", "preserve", "use"})
      property == LET w == FirstIn(named, Str("")).text
                  IN  IF w = "use" THEN "use_model" ELSE w
      value == FirstIn(SelectSeq(Filtered(items), LAMBDA i : i.kind \in {"dict", "str"}),
                       Str(""))
  IN  IF value.kind = "dict" THEN value ELSE Dict(property, value.text)

(* The second child of a property of another name is the colon.            *)
policy_custom(items) == Dict(items[1].text, items[2])

policy_trigger(items) ==
  Dict("trigger", [var |-> items[1].text, op |-> items[2].text, value |-> items[3].value])

preserve_list(items) == Dict("preserve", Filtered(items))

(* Both words of `tool results` are dropped before they are looked for.    *)
preserve_item(items) ==
  LET f == Filtered(items)
      has(word) == \E n \in DOMAIN items : items[n].kind = "Token" /\ items[n].text = word
  IN  IF f = << >> THEN [kind |-> "dict", entries |-> NoEntries]
      ELSE IF has("last") /\ has("messages")
        THEN Dict("last_messages", FirstIn(OfKind(f, {"int"}), Num(5)).value)
      ELSE f[1]

-----------------------------------------------------------------------------
(* Handlers, agents and prompts.                                           *)

EventTypes == {"start", "input", "output", "tool-call", "tool-result"}

timing_on == Str("on")
timing_after == Str("after")

event_start == Str("start")
event_input == Str("input")
event_output == Str("output")
event_tool_call == Str("tool-call")
event_tool_result == Str("tool-result")

(* An event of another name: the handler is one of input.                  *)
event_role(items) == Str(items[1].text)

handler_body(items) == List(SelectSeq(items, LAMBDA i : i.kind # "None"))

event_handler(items) ==
  LET texts == OfKind(Filtered(items), {"str", "Token"}) IN
  [kind |-> "EventHandler",
   timing |-> LastIn(SelectSeq(texts, LAMBDA t : t.text \in {"on", "after"}), Str("on")).text,
   event |-> LastIn(SelectSeq(texts, LAMBDA t : t.text \in EventTypes), Str("input")).text,
   body |-> BodyOf(Filtered(items))]

mask_action(items) == [kind |-> "MaskAction", guardrail |-> Filtered(items)[1].text]

block_action(items) == [kind |-> "BlockAction", condition |-> FirstIn(Filtered(items), None)]

warn_action(items) ==
  LET f == Filtered(items) IN
  [kind |-> "WarnAction",
   message |-> IF Len(f) = 1 /\ IsText(f[1]) THEN f[1].text ELSE "",
   condition |-> IF Len(f) = 2 \/ f = << >> \/ IsText(f[1]) THEN None ELSE f[1]]

(* The words stand where the message and the condition are expected.       *)
retry_action(items) ==
  [kind |-> "RetryAction", message |-> items[1],
   condition |-> IF Len(items) >= 2 THEN items[2] ELSE None]

name_list(items) ==
  List(SelectSeq(Filtered(items), IsText))

(* A list child replaces the texts before it.                              *)
NamesOf(items) ==
  FoldLeft(LAMBDA names, i :
             IF i.kind = "list" THEN [n \in 1..Len(i.items) |-> i.items[n].text]
                                ELSE Append(names, i.text),
           << >>, SelectSeq(Filtered(items), LAMBDA i : IsText(i) \/ i.kind = "list"))

agent_tools(items) == Dict("tools", NamesOf(items))

agent_delegate(items) == Dict("delegate", NamesOf(items))

agent_use(items) == Dict("use", NamesOf(items))

agent_instruction(items) == Dict("instruction", FirstText(Filtered(items)))

agent_prompt(items) == Dict("prompt", FirstText(Filtered(items)))

agent_produces(items) == Dict("produces", FirstText(Filtered(items)))

agent_retry(items) == Dict("retry", FirstText(Filtered(items)))

agent_history(items) == Dict("history", FirstText(Filtered(items)))

agent_description(items) == Dict("description", FirstText(Filtered(items)))

timeout_literal(items) ==
  [kind |-> "dict", entries |-> [timeout_value |-> items[1].value, timeout_unit |-> items[2].text]]

agent_timeout(items) == FirstIn(Filtered(items), [kind |-> "dict", entries |-> NoEntries])

timeout_ref(items) == Dict("timeout_ref", items[1].text)

agent_event_handler(items) == Dict("handlers", Filtered(items))

(* A property given twice keeps the last, handlers add up.                 *)
agent_body(items) ==
  LET handlers == SelectSeq(OfKind(items, {"dict"}), LAMBDA i : "handlers" \in DOMAIN i.entries)
      all == FlattenSeq([n \in DOMAIN handlers |-> handlers[n].entries["handlers"]])
  IN  [kind |-> "dict",
       entries |-> IF all = << >> THEN Merged(items) ELSE ("handlers" :> all) @@ Merged(items)]

agent_def(items) ==
  LET body == LastIn(OfKind(items, {"dict"}), [entries |-> NoEntries]).entries
      names == SelectSeq(Filtered(items), LAMBDA i : IsText(i) /\ i.text \notin {"agent", ":"})
  IN  [kind |-> "AgentDef", name |-> LastText(names),
       tools |-> Entry(body, "tools", << >>), instruction |-> Entry(body, "instruction", ""),
       retry |-> Entry(body, "retry", ""), timeout_ref |-> Entry(body, "timeout_ref", ""),
       delegate |-> Entry(body, "delegate", << >>), use |-> Entry(body, "use", << >>),
       prompt |-> Entry(body, "prompt", ""), produces |-> Entry(body, "produces", ""),
       history |-> Entry(body, "history", ""), description |-> Entry(body, "description", ""),
       handlers |-> Entry(body, "handlers", << >>)]

prompt_using_model(items) == Dict("model", FirstText(Filtered(items)))

prompt_expecting(items) == Dict("expecting", FirstText(Filtered(items)))

prompt_inherit(items) == Dict("inherit", Head(OfKind(Filtered(items), {"VarRef"})).name)

prompt_body(items) == FirstIn(SelectSeq(Filtered(items), IsText), BodyText("", << >>))

prompt_modifiers(items) == [kind |-> "dict", entries |-> Merged(items)]

(* A long text is the body wherever it stands; a short one is the name,    *)
(* and the body once there is a name.                                      *)
CategorizePromptString(parts, item) ==
  IF item.form = "body" THEN [parts EXCEPT !.body = item]
  ELSE IF parts.name = "" THEN [parts EXCEPT !.name = item.text]
  ELSE IF parts.body.text = "" THEN [parts EXCEPT !.body = item]
  ELSE parts

ExtractPromptComponents(items) ==
  FoldLeft(CategorizePromptString, [name |-> "", body |-> BodyText("", << >>)],
           OfKind(Filtered(items), {"str"}))

CreatePromptDef(items) ==
  LET parts == ExtractPromptComponents(items)
      modifiers == Merged(items)
  IN  [kind |-> "PromptDef", name |-> parts.name, body |-> parts.body.text,
       names |-> IF parts.body.form = "body" THEN parts.body.names ELSE << >>,
       model |-> Entry(modifiers, "model", ""),
       expecting |-> Entry(modifiers, "expecting", ""),
       inherit |-> Entry(modifiers, "inherit", ""),
       escalation |-> LastIn(OfKind(items, {"EscalationCondition"}), None)]

EscalationOps == {"~", "==", "!=", "contains"}

EscalationOf(op, items) ==
  [kind |-> "EscalationCondition", op |-> op,
   value |-> FirstText(SelectSeq(Filtered(items), LAMBDA i :
                                   IsText(i) /\ i.text \notin EscalationOps))]

normalized_escalation(items) == EscalationOf("~", items)

exact_escalation(items) == EscalationOf("==", items)

not_equal_escalation(items) == EscalationOf("!=", items)

contains_escalation(items) == EscalationOf("contains", items)

escalation_clause(items) == Head(OfKind(Filtered(items), {"EscalationCondition"}))

escalation_handler(items) == Head(OfKind(Filtered(items), {"EscalationHandler"}))

escalation_return(items) ==
  [kind |-> "EscalationHandler", action |-> "return", value |-> FirstIn(Filtered(items), None)]

escalation_continue == [kind |-> "EscalationHandler", action |-> "continue", value |-> None]

escalation_abort == [kind |-> "EscalationHandler", action |-> "abort", value |-> None]

-----------------------------------------------------------------------------
(* Flows and their statements.                                             *)

flow_name(items) ==
  Str(FoldLeft(LAMBDA name, i : name \o " " \o i.text, items[1].text, Tail(items)))

flow_def(items) ==
  [kind |-> "FlowDef", name |-> FirstText(Filtered(items)), body |-> BodyOf(Filtered(items))]

flow_body(items) == List(SelectSeq(items, LAMBDA i : i.kind # "None"))

for_loop(items) ==
  LET nodes == NotText(Filtered(items))
      refs == OfKind(nodes, {"VarRef"})
  IN  [kind |-> "ForLoop", variable |-> Head(refs).name,
       iterable |-> nodes[2],
       body |-> LastIn(OfKind(nodes, {"list"}), List(<< >>)).items]

parallel_block(items) == [kind |-> "ParallelBlock", body |-> BodyOf(Filtered(items))]

(* Without a maximum the loop has none.                                    *)
loop_block(items) ==
  LET numbers == OfKind(items, {"int"}) IN
  [kind |-> "LoopBlock",
   max |-> LastIn(numbers, Num(-1)).value,
   body |-> BodyOf(SelectSeq(Filtered(items), LAMBDA i : i.kind # "int"))]

match_case(items) ==
  [kind |-> "MatchCase", pattern |-> FirstText(Filtered(items)),
   body |-> FirstIn(NotText(Filtered(items)), None)]

match_else(items) == FirstIn(NotText(Filtered(items)), None)

match_cases(items) ==
  [kind |-> "cases", cases |-> OfKind(items, {"MatchCase"}),
   otherwise |-> LastIn(SelectSeq(items, LAMBDA i : i.kind # "MatchCase"), None)]

match_block(items) ==
  LET nodes == NotText(Filtered(items))
      parts == LastIn(OfKind(nodes, {"cases"}), match_cases(<< >>))
  IN  [kind |-> "MatchBlock", cases |-> parts.cases, otherwise |-> parts.otherwise,
       expression |-> FirstIn(SelectSeq(nodes, LAMBDA i : i.kind # "cases"), None)]

if_block(items) ==
  LET f == SelectSeq(items, LAMBDA i : i.kind # "Token") IN
  [kind |-> "IfBlock", condition |-> f[1],
   body |-> IF Len(f) > 1 THEN f[2].items ELSE << >>]

if_stmt(items) ==
  LET f == SelectSeq(items, LAMBDA i : i.kind # "Token") IN
  [kind |-> "IfBlock", condition |-> f[1], body |-> IF Len(f) > 1 THEN <<f[2]>> ELSE << >>]

(* The word `continue` or `abort` itself.                                  *)
flow_control(items) == FirstIn(items, None)

(* The word `on`: the body of the block is the child after it.             *)
failure_block(items) == [kind |-> "FailureBlock", body |-> FirstIn(items, List(<< >>))]

assignment(items) ==
  LET f == Filtered(items) IN
  IF f[1].kind = "PropertyAccess"
    THEN [kind |-> "PropertyAssignment", target |-> f[1], value |-> f[2]]
    ELSE [kind |-> "Assignment", target |-> f[1].name, value |-> f[2]]

(* A statement that runs something: the variable in front is the target,   *)
(* the first name after the words is what runs, what follows the input.    *)
Running(items, words, isFlow) ==
  LET target == IF items[1].kind = "VarRef" THEN items[1].name ELSE ""
      rest == SelectSeq(IF target = "" THEN items ELSE Tail(items),
                        LAMBDA i : i.kind \notin {"EscalationHandler", "dict"}
                                   /\ ~(IsText(i) /\ i.text \in words))
      history == SelectSeq(OfKind(items, {"dict"}), LAMBDA i : "history" \in DOMAIN i.entries)
      input == LastIn(Tail(rest), None)
  IN  [kind |-> "RunStmt", target |-> target, agent |-> Head(rest).text,
       input |-> IF IsText(input) THEN [kind |-> "NameRef", name |-> input.text] ELSE input,
       history |-> IF history = << >> THEN "" ELSE Last(history).entries["history"],
       is_flow |-> isFlow, escalation |-> LastIn(OfKind(items, {"EscalationHandler"}), None)]

run_stmt(items) == Running(items, {"=", "run", "agent", "with", "history"}, FALSE)

run_flow_assign(items) == Running(items, {"=", "run", "with"}, TRUE)

run_flow(items) == Running(items, {"run", "with"}, TRUE)

history_clause(items) == Dict("history", Head(OfKind(items, {"VarRef"})).name)

call_stmt(items) ==
  LET target == IF items[1].kind = "VarRef" THEN items[1].name ELSE ""
      rest == SelectSeq(IF target = "" THEN items ELSE Tail(items),
                        LAMBDA i : i.kind # "dict"
                                   /\ ~(IsText(i) /\ i.text \in {"=", "call", "llm", "with"}))
      model == SelectSeq(OfKind(items, {"dict"}), LAMBDA i : "model" \in DOMAIN i.entries)
  IN  [kind |-> "CallStmt", target |-> target, prompt |-> Head(rest).text,
       input |-> LastIn(NotText(Tail(rest)), None),
       model |-> IF model = << >> THEN "" ELSE Last(model).entries["model"]]

(* The word `using` where the model is expected.                           *)
call_modifiers(items) == Dict("model", items[1].text)

return_stmt(items) == [kind |-> "ReturnStmt", value |-> FirstIn(Filtered(items), None)]

push_stmt(items) ==
  LET f == SelectSeq(items, LAMBDA i : ~(i.kind = "Token" /\ i.text \in {"push", "as", "to", "$"}))
      hasAs == \E n \in DOMAIN items : items[n].kind = "Token" /\ items[n].text = "as"
  IN  [kind |-> "PushStmt", value |-> f[1], target |-> Last(f).name,
       role |-> IF hasAs /\ Len(f) >= 3 THEN f[Len(f) - 1].text ELSE ""]

escalate_stmt(items) == [kind |-> "EscalateStmt", message |-> FirstIn(items, Str("")).text]

log_stmt(items) == [kind |-> "LogStmt", message |-> Filtered(items)[1]]

notify_stmt(items) == [kind |-> "NotifyStmt", message |-> Filtered(items)[1]]

-----------------------------------------------------------------------------
(* Expressions.                                                            *)

BinaryOp(op, left, right) == [kind |-> "BinaryOp", op |-> op, left |-> left, right |-> right]

(* Every child after the first is an operand here, the words too.          *)
or_expr(items) ==
  FoldLeft(LAMBDA e, i : BinaryOp("or", e, i), items[1], Tail(items))

and_expr(items) ==
  FoldLeft(LAMBDA e, i : BinaryOp("and", e, i), items[1], Tail(items))

not_op(items) == [kind |-> "UnaryOp", op |-> "not", operand |-> items[1]]

comparison(items) ==
  IF Len(items) = 3 THEN BinaryOp(items[2].text, items[1], items[3]) ELSE items[1]

(* Operators and operands alternate.                                       *)
additive(items) ==
  FoldLeft(LAMBDA e, n : BinaryOp(items[2 * n].text, e, items[2 * n + 1]), items[1],
           [n \in 1..((Len(items) - 1) \div 2) |-> n])

multiplicative(items) == additive(items)

(* The minus is the first child.                                           *)
neg(items) == [kind |-> "UnaryOp", op |-> "-", operand |-> items[1]]

Literal(type, value) == [kind |-> "Literal", type |-> type, value |-> value, names |-> << >>]

string_lit(items) == Literal("string", items[1].text)

(* The text stays one; its names are those the generator will find in it.  *)
interpolated_string_lit(items) == [Literal("string", items[1].text) EXCEPT !.names = items[1].names]

int_lit(items) == Literal("int", items[1].value)

number_lit(items) == Literal("float", items[1].value)

true_lit == Literal("bool", "true")

false_lit == Literal("bool", "false")

null_lit == Literal("null", "none")

initial_prompt == [kind |-> "FunctionCall", name |-> "initial_user_prompt", args |-> << >>]

list_literal(items) == [kind |-> "ListLiteral", elements |-> Filtered(items)]

(* The entries are given as pairs; of two of one key the last counts.      *)
object_entry(items) ==
  LET f == Filtered(items) IN [kind |-> "tuple", key |-> f[1].text, value |-> f[2]]

object_literal(items) ==
  [kind |-> "ObjectLiteral",
   entries |-> FoldLeft(LAMBDA d, i : (i.key :> i.value) @@ d, NoEntries,
                        OfKind(items, {"tuple"}))]

var_ref(items) == [kind |-> "VarRef", name |-> LastText(Filtered(items))]

var_bare(items) == [kind |-> "VarRef", name |-> LastText(Filtered(items))]

var_dotted(items) ==
  LET parts == Filtered(items)[1].parts IN
  [kind |-> "PropertyAccess", base |-> [kind |-> "VarRef", name |-> Head(parts)],
   properties |-> Tail(parts)]

(* The points between the names of the other forms are properties as well. *)
property_access(items) ==
  LET names == [n \in 1..(Len(items) - 1) |-> items[n + 1].text]
      base == items[1]
  IN  [kind |-> "PropertyAccess",
       base |-> IF IsText(base) THEN [kind |-> "NameRef", name |-> base.text] ELSE base,
       properties |-> IF IsText(base) /\ base.form = "dotted" THEN Tail(base.parts) \o names
                                                               ELSE names]

named_function_call(items) ==
  [kind |-> "FunctionCall", name |-> items[1].text, args |-> Filtered(Tail(items))]

bare_function_call(items) ==
  [kind |-> "FunctionCall", name |-> items[1].text, args |-> Filtered(Tail(items))]

(* The word `process` is an argument.                                      *)
process_call(items) == [kind |-> "FunctionCall", name |-> "process", args |-> items]

(* The parenthesis is the first child.                                     *)
paren_expr(items) == items[1]

name_ref(items) == [kind |-> "NameRef", name |-> items[1].text]

implicit_property(items) ==
  [kind |-> "ImplicitProperty",
   properties |-> FlattenSeq([n \in DOMAIN items |->
                    IF items[n].text = "." THEN << >>
                    ELSE IF items[n].form = "dotted" THEN items[n].parts
                    ELSE <<items[n].text>>])]

filter_expr(items) ==
  LET f == Filtered(items) IN
  [kind |-> "FilterExpr", list |-> FirstIn(f, None),
   condition |-> IF Len(f) > 1 THEN f[2] ELSE None]

start(items) ==
  [kind |-> "DslFile",
   statements |-> SelectSeq(NotText(Filtered(items)), LAMBDA i : i.kind # "VersionDecl")]

=============================================================================
