---------------------------- MODULE MCDslProgram ----------------------------
(* Files in the shapes of the guides, as the rules of the grammar give     *)
(* them to the transformer: all flows of a few statements around a block,  *)
(* all references between three agents, all ways to declare a prompt in    *)
(* three parts, and one file that has everything. None reads an unassigned *)
(* variable where the analyzer does not look: in a text, a filter, a log,  *)
(* a match body, as a bare name or from another branch of a parallel block.*)
EXTENDS DslProgram

Var(x) == var_ref(<<Tok("$"), Str(x)>>)
One == int_lit(<<Num(1)>>)
Let(x, e) == assignment(<<Var(x), Tok("="), e>>)
With(e) == <<Tok("with"), e>>
Target(x) == <<Var(x), Tok("=")>>
Escalating(action) ==
  escalation_handler(<<Tok(","), Tok("on"), Tok("escalate"), action>>)
Run(front, agent, back) ==
  run_stmt(front \o <<Tok("run"), Tok("agent"), Str(agent)>> \o back)
RunsFlow(front, flow) ==
  IF front = << >> THEN run_flow(<<Tok("run"), Str(flow)>>)
                   ELSE run_flow_assign(front \o <<Tok("run"), Str(flow)>>)
Call(x, prompt, e) ==
  call_stmt(Target(x) \o <<Tok("call"), Tok("llm"), Str(prompt)>> \o With(e))
Returns(e) == return_stmt(<<Tok("return"), e>>)
Push(e, x) == push_stmt(<<Tok("push"), e, Tok("to"), Var(x)>>)
Log(e) == log_stmt(<<Tok("log"), e>>)
Body(stmts) == flow_body(stmts)
If1(e, stmts) == if_block(<<Tok("if"), e, Tok(":"), Body(stmts)>>)
Loop(max, stmts) ==
  loop_block(<<Tok("loop"), Tok("max"), Num(max), Tok("do"), Body(stmts), Tok("end")>>)
For1(x, e, stmts) ==
  for_loop(<<Tok("for"), Var(x), Tok("in"), e, Tok("do"), Body(stmts), Tok("end")>>)
Parallel(stmts) ==
  parallel_block(<<Tok("parallel"), Tok("do"), Body(stmts), Tok("end")>>)
When(text, stmt) == match_case(<<Tok("when"), Str(text), Tok("->"), stmt>>)
Match1(e, cases) == match_block(<<Tok("match"), e, match_cases(cases), Tok("end")>>)
FlowNamed(name, stmts) == flow_def(<<Tok("flow"), Str(name), Tok(":"), Body(stmts)>>)

Prompt(name, back) == CreatePromptDef(<<Tok("prompt"), Str(name)>> \o back)
Text(names) == <<Tok(":"), prompt_body(<<BodyText("text", names)>>)>>
Inherits(x) == prompt_modifiers(<<prompt_inherit(<<Tok("inherit"), Var(x)>>)>>)
Using(model) == prompt_modifiers(<<prompt_using_model(<<Tok("using"), Tok("model"), Str(model)>>)>>)
Expecting(schema) == prompt_modifiers(<<prompt_expecting(<<Tok("expecting"), Str(schema)>>)>>)

Names(word, names) ==
  <<Tok(word), name_list(IF Len(names) = 1 THEN <<Str(names[1])>>
                         ELSE <<Str(names[1]), Tok(","), Str(names[2])>>)>>
Agent(name, properties) ==
  agent_def(<<Tok("agent")>> \o (IF name = "" THEN << >> ELSE <<Str(name)>>)
            \o <<Tok(":"), agent_body(<<agent_instruction(<<Tok("instruction"), Str("hello")>>)>>
                                      \o properties)>>)
Produces(x) == <<agent_produces(<<Tok("produces"), Str(x)>>)>>
Delegates(names) == IF names = << >> THEN << >> ELSE <<agent_delegate(Names("delegate", names))>>
Uses(names) == IF names = << >> THEN << >> ELSE <<agent_use(Names("use", names))>>
FileOf(stmts) == start(stmts)

Hello == Prompt("hello", Text(<< >>))
Model(name) == model_short(<<Tok("model"), Str(name), Tok("="), ModelPath("provider/model")>>)
Schema(name, type) ==
  schema_def(<<Tok("schema"), Str(name), Tok(":"),
               schema_body(<<schema_field(<<Str("field"), Tok(":"), type>>)>>)>>)

(* Flows over the variables x and y, an agent and an agent that produces   *)
(* y.                                                                      *)
Simple ==
  {Let("x", One), Let("y", Var("x")), Push(Var("x"), "y"), Returns(Var("y")),
   Run(Target("y"), "plain", With(Var("x"))), Run(<< >>, "maker", << >>),
   Run(Target("x"), "plain", <<Escalating(escalation_return(<<Tok("return"), Var("y")>>))>>)}

Bodies == {<<s>> : s \in Simple} \cup {<<s, t>> : s \in Simple, t \in Simple}

Blocks ==
  {If1(Var("x"), b) : b \in Bodies}
  \cup {Loop(2, b) : b \in Bodies}
  \cup {For1("y", Var("x"), b) : b \in Bodies}
  \cup {Loop(2, <<If1(Var("x"), <<s>>), Run(Target("y"), "plain", <<Escalating(escalation_continue)>>)>>)
          : s \in Simple}
  \cup {Parallel(<<Run(Target("x"), "plain", << >>), Run(<< >>, "maker", << >>)>>)}

FlowFile(stmts) ==
  FileOf(<<Hello, Agent("plain", << >>), Agent("maker", Produces("y")),
           FlowNamed("main", stmts)>>)

Fronts == {<<Let("x", One)>>, <<Run(<< >>, "maker", << >>)>>,
           <<Let("x", One), Run(Target("y"), "plain", << >>)>>}

Backs == {Push(Var("x"), "y"), Returns(Var("y")),
          Run(Target("x"), "plain", <<Escalating(escalation_continue)>>)}

FlowFiles == {FlowFile(f \o <<b, t>>) : f \in Fronts, b \in Blocks, t \in Backs}

(* References between three agents. *)
Lists == {<< >>, <<"a">>, <<"b">>, <<"b", "c">>}

AgentFiles ==
  {FileOf(<<Hello, Agent("a", Delegates(d) \o Uses(u)), Agent("b", Delegates(e)),
            Agent("c", Uses(v))>>)
     : d \in Lists, u \in Lists, e \in Lists \cup {<<"c">>, <<"d">>}, v \in Lists \cup {<<"c">>}}

(* Three declarations of a prompt. *)
Parts ==
  {Prompt("p", << >>), Prompt("p", Text(<<"hello">>)), Prompt("p", <<Using("m")>>),
   Prompt("p", <<Using("n"), Inherits("g")>> \o Text(<< >>)), Prompt("p", <<Inherits("h")>>), Prompt("p", <<Expecting("S")>>),
   Prompt("p", <<Expecting("T"), Tok(":"), BodyText("text", <<"x">>)>>)}

PromptFiles ==
  {FileOf(<<p, Hello, Model("m"), q, Schema("S", simple_type(<<Tok("int")>>)), r, Model("n")>>)
     : p \in Parts, q \in Parts, r \in Parts}

(* Every kind of definition. *)
Definitions ==
  <<model_long(<<Tok("model"), Str("m"), Tok(":"),
                 model_body(<<model_provider(<<Tok("provider"), Tok(":"), Str("p")>>),
                              model_name(<<Str("name"), Tok(":"), Str("n")>>),
                              model_max_tokens(<<Tok("max_tokens"), Tok(":"), Num(5)>>)>>)>>),
    Schema("S", simple_type(<<Str("int")>>)),
    Schema("T", optional_type(<<list_type(<<Tok("list"), simple_type(<<Str("S")>>)>>)>>)),
    tool_short(<<Tok("tool"), Str("t"), Tok("="),
                 tool_mcp(<<Tok("mcp"), Str("url"),
                            tool_options(<<tool_auth_bearer(<<Tok("auth")>>)>>)>>)>>),
    tool_short(<<Tok("tool"), Str("w"), Tok("="),
                 tool_mcp(<<Tok("mcp"), Str("url"),
                            tool_options(<<tool_auth_basic(<<Tok("auth"), Tok("basic")>>)>>)>>)>>),
    tool_short(<<Tok("tool"), Str("s"), Tok("="), tool_ref(<<Str("lib.tool")>>)>>),
    tool_short(<<Tok("tool"), Str("u"), Tok("="), tool_builtin(<<Tok("builtin"), Str("fs")>>)>>),
    tool_long(<<Tok("tool"), Str("v"), Tok(":"),
                tool_body(<<tool_type(<<Tok("type"), Tok(":"), Str("mcp")>>),
                            tool_url(<<Tok("url"), Tok(":"), Str("url")>>)>>)>>)>>

Policies ==
  <<retry_policy_def(<<Tok("retry"), Str("often"), Tok("="), Num(3), Tok("times"), Tok(","),
                       backoff_fixed>>),
    retry_policy_def(<<Tok("retry"), Str("seldom"), Tok("="), Num(1), Tok("times"), Tok(","),
                       backoff_linear>>),
    retry_policy_def(<<Tok("retry"), backoff_exponential, Tok("="), Num(1), Tok("times")>>),
    timeout_policy_def(<<Tok("timeout"), Str("short"), Tok("="), Num(2),
                         time_unit(<<Tok("minutes")>>)>>),
    policy_def(<<Tok("policy"), Str("compaction"), Tok(":"),
                 policy_body(<<policy_property(<<Tok("trigger"), Tok(":"),
                                 policy_trigger(<<Str("tokens"), Tok(">"), Num(8)>>)>>),
                               policy_property(<<Tok("strategy"), Tok(":"), Str("drop")>>),
                               policy_property(<<Tok("preserve"), Tok(":"),
                                 preserve_list(<<Tok("["), preserve_item(<<Var("goal")>>), Tok(","),
                                   preserve_item(<<Tok("last"), Num(3), Tok("messages")>>), Tok(","),
                                   preserve_item(<<Tok("tool"), Tok("results")>>), Tok("]")>>)>>),
                               policy_custom(<<Str("id"), Tok(":"), One>>)>>)>>)>>

Handler(timing, event, stmts) ==
  event_handler(<<timing, event, Tok("do"), handler_body(stmts), Tok("end")>>)

Handlers ==
  <<Handler(timing_on, event_start, <<Let("first", One)>>),
    Handler(timing_on, event_input,
            <<mask_action(<<Tok("mask"), Str("pii")>>),
              block_action(<<Tok("block"), Tok("if"), name_ref(<<Str("jailbreak")>>)>>)>>),
    Handler(timing_after, event_tool_result, <<notify_stmt(<<Tok("notify"), Var("first")>>)>>),
    Handler(timing_on, event_role(<<Str("reviewer")>>), <<Log(One)>>),
    Handler(timing_after, event_output,
            <<warn_action(<<Tok("warn"), Tok("if"), Var("first")>>), Log(Var("first")),
              retry_action(<<Tok("retry"), Tok("with"), One, Tok("if"), Var("first")>>)>>)>>

FullAgent ==
  Agent("plain",
        <<agent_tools(Names("tools", <<"t", "u">>)),
          agent_retry(<<Tok("retry"), Str("often")>>),
          agent_timeout(<<timeout_ref(<<Str("short")>>)>>),
          agent_timeout(<<timeout_literal(<<Num(5), time_unit(<<Tok("seconds")>>)>>)>>),
          agent_description(<<Tok("description"), Str("plain agent")>>),
          agent_history(<<Tok("history"), Str("truncate")>>),
          agent_prompt(<<Tok("prompt"), Str("ask")>>),
          agent_event_handler(<<Handler(timing_on, event_tool_call,
                                        <<warn_action(<<Tok("warn"), Str("seen")>>)>>)>>)>>
        \o Uses(<<"plain">>))

Ask(back) == Prompt("ask", <<Using("m"), Expecting("T")>> \o Text(<<"hello", "y">>) \o back)

DefinitionFiles ==
  {FileOf(d \o <<Hello, Ask(<<e>>), FullAgent>> \o h) :
     d \in {Definitions \o Policies, Definitions}, h \in {Handlers, << >>},
     e \in {escalation_clause(<<Tok("escalate"), Tok("if"), c>>) :
              c \in {normalized_escalation(<<Tok("~"), Str("HELP")>>),
                     exact_escalation(<<Tok("=="), Str("HELP")>>),
                     not_equal_escalation(<<Tok("!="), Str("HELP")>>),
                     contains_escalation(<<Tok("contains"), Str("HELP")>>)}}}

(* The prompt of an agent reads what another agent produces: the flow may  *)
(* run them in either order.                                               *)
LateFiles ==
  {FileOf(<<Model("m"), Schema("T", simple_type(<<Tok("int")>>)), Hello, Ask(<< >>),
            Agent("plain", <<agent_prompt(<<Tok("prompt"), Str("ask")>>)>>),
            Agent("maker", Produces("y")), FlowNamed("main", stmts)>>)
     : stmts \in {<<Run(<< >>, "plain", << >>), Run(<< >>, "maker", << >>)>>,
                  <<Run(<< >>, "maker", << >>), Run(<< >>, "plain", << >>)>>}}

(* A loop without a maximum. *)
EndlessFile ==
  FlowFile(<<loop_block(<<Tok("loop"), Tok("do"),
               Body(<<Run(Target("y"), "plain", <<Escalating(escalation_return(<<Tok("return"), One>>))>>)>>),
               Tok("end")>>)>>)

(* Calls between flows, and the expressions of the guides. *)
CallFile ==
  FileOf(<<Model("m"), Hello, Prompt("ask", <<Using("m")>> \o Text(<<"hello">>)),
           Agent("plain", <<agent_prompt(<<Tok("prompt"), Str("ask")>>)>>),
           FlowNamed("sub", <<Loop(2, <<Run(Target("x"), "plain",
                                            <<history_clause(<<Tok("history"), Var("h")>>),
                                              Escalating(escalation_abort)>>)>>),
                              Loop(1, <<Call("z", "ask", initial_prompt)>>),
                              Log(named_function_call(<<Str("len"), Tok("("), One, Tok(")")>>)),
                              Returns(initial_prompt)>>),
           FlowNamed("main", <<RunsFlow(Target("x"), "sub"), RunsFlow(<< >>, "sub"),
                               If1(comparison(<<Var("x"), Tok("=="), One>>),
                                   <<Match1(Var("x"), <<When("a", Log(Var("x"))),
                                                        When("b", Let("x", list_literal(<<One>>)))>>),
                                     Match1(Var("x"), <<When("a", Let("x", One)),
                                       match_else(<<Tok("else"), Tok("->"), Let("x", One)>>)>>)>>),
                               if_stmt(<<Tok("if"), true_lit, Tok(":"), Log(string_lit(<<Str("s")>>))>>),
                               assignment(<<var_dotted(<<Tok("$"), Dotted(<<"x", "p">>)>>), Tok("="), One>>),
                               Let("k", filter_expr(<<Tok("filter"), Var("x"), Tok("where"),
                                                      comparison(<<implicit_property(<<Tok("."), Str("p")>>),
                                                                   Tok("<"), Var("x")>>)>>)),
                               escalate_stmt(<<Tok("escalate"), Tok("to"), Tok("human")>>),
                               Returns(additive(<<Var("x"), Tok("+"), One>>))>>)>>)

(* The other expressions, in a flow that reads what it assigned.           *)
Values ==
  {object_literal(<<Tok("{"), object_entry(<<Str("result"), Tok(":"), Var("x")>>), Tok(","),
                    object_entry(<<Str("reason"), Tok(":"), null_lit>>), Tok("}")>>),
   object_literal(<<Tok("{"), object_entry(<<Str("result"), Tok(":"), Var("z")>>), Tok("}")>>),
   interpolated_string_lit(<<BodyText("text", <<<<"x">>, <<"x", "p">>>>)>>),
   multiplicative(<<Var("x"), Tok("*"), number_lit(<<Num(2)>>)>>), false_lit,
   var_bare(<<Str("x")>>), property_access(<<Dotted(<<"x", "p">>), Str("q")>>),
   property_access(<<Str("x"), Str("p")>>), bare_function_call(<<Str("convert"), Var("x")>>),
   filter_expr(<<Tok("filter"), Var("x"), Tok("where"),
                 comparison(<<implicit_property(<<Tok("."), Dotted(<<"p", "q">>)>>),
                              Tok(">"), Var("x")>>)>>)}

ValueFiles ==
  {FlowFile(<<Let("x", One), Run(Target("x"), "plain", With(e)), Let("y", e),
              notify_stmt(<<Tok("notify"), Var("y")>>), Returns(e)>>) : e \in Values}

(* A call that names its model, a flow that is not there, a flow that is   *)
(* run as an agent.                                                        *)
WrongFiles ==
  {FileOf(<<Model("m"), Hello,
            FlowNamed("main", <<call_stmt(<<Tok("call"), Tok("llm"), Str("hello"),
                                            call_modifiers(<<Tok("using"), Tok("model"), Str("m")>>)>>)>>)>>),
   FileOf(<<Hello, FlowNamed("main", <<RunsFlow(<< >>, "sub")>>)>>),
   FileOf(<<Hello, FlowNamed("main", <<Run(<< >>, "main", << >>)>>)>>)}

(* A loop inside a loop. *)
NestedFiles ==
  {FlowFile(<<Let("x", One), Loop(3, <<Loop(2, <<Run(Target("y"), "plain", << >>)>>)>>)>>)}

(* A `for` over a list its own body makes longer, under its name, another  *)
(* or in a flow called there, and over a list written in the statement.    *)
LiveFiles ==
  {FileOf(<<Hello, Agent("plain", << >>),
            FlowNamed("sub", <<Run(<< >>, "plain", << >>), Push(One, "conversation")>>),
            FlowNamed("main", <<Let("conversation", list_literal(<<One>>)),
                                Let("z", Var("conversation")), Run(<< >>, "plain", << >>),
                                For1("y", e, <<s>>)>>)>>)
     : e \in {Var("conversation"), list_literal(<<One>>)},
       s \in {Push(Var("y"), "conversation"), Push(Var("y"), "z"), RunsFlow(<< >>, "sub"),
              Let("z", Var("y"))}}

(* A flow that runs itself. *)
RecursiveFile == FileOf(<<Hello, FlowNamed("main", <<RunsFlow(<< >>, "main")>>)>>)

(* Names and texts as the grammar takes them: what Python takes of them,   *)
(* and what it does not.                                                   *)
Spelled(flow, variable, schema, field, agent, text) ==
  FileOf(<<schema_def(<<Tok("schema"), Str(schema), Tok(":"),
                        schema_body(<<schema_field(<<Str(field), Tok(":"),
                                                     simple_type(<<Str("str")>>)>>)>>)>>),
           Hello, Prompt("ask", <<Using("m")>> \o Text(<< >>)
                     \o <<escalation_clause(<<Tok("escalate"), Tok("if"),
                           exact_escalation(<<Tok("=="), Str("HELP")>>)>>)>>),
           Model("m"),
           Agent(agent, <<agent_event_handler(<<Handler(timing_on, event_tool_call,
                            <<warn_action(<<Tok("warn"), Str("seen")>>)>>)>>)>>),
           flow_def(<<Tok("flow"), flow_name(flow), Tok(":"),
                      Body(<<Run(Target("x"), agent, << >>),
                             For1(variable, Var("x"), <<Log(Var(variable))>>),
                             Match1(Var("x"), <<When(text, Log(Var("x")))>>)>>)>>)>>)

SpelledFiles ==
  {Spelled(<<Str("main")>>, "item", "S", "name", "plain", "yes"),
   Spelled(<<Str("my"), Tok("flow")>>, "item", "S", "name", "plain", "yes"),
   Spelled(<<Str("my-flow")>>, "item", "S", "name", "plain", "yes"),
   Spelled(<<Tok("for")>>, "item", "S", "name", "plain", "yes"),
   Spelled(<<Str("main")>>, "my-item", "S", "name", "plain", "yes"),
   Spelled(<<Str("main")>>, "for", "S", "name", "plain", "yes"),
   Spelled(<<Str("main")>>, "item", "my-schema", "name", "plain", "yes"),
   Spelled(<<Str("main")>>, "item", "S", "from", "plain", "yes"),
   Spelled(<<Str("main")>>, "item", "S", "name", "my-agent", "yes"),
   Spelled(<<Str("main")>>, "item", "S", "name", "plain", "it's")}

MCUnfit == {"my flow", "my-flow", "my-item", "my-schema", "my-agent"}

MCFiles == LiveFiles \cup {RecursiveFile} \cup SpelledFiles \cup FlowFiles \cup AgentFiles \cup PromptFiles \cup DefinitionFiles \cup LateFiles
             \cup WrongFiles \cup ValueFiles \cup NestedFiles \cup {EndlessFile, CallFile}

(* The logical operators, a parenthesis, `process`, a failure block and    *)
(* the controls of a flow.                                                 *)
OperatorFiles ==
  {FlowFile(<<Let("x", One), Let("y", e), Run(Target("y"), "plain", << >>)>>) :
     e \in {or_expr(<<Var("x"), Tok("or"), Var("x")>>), and_expr(<<Var("x"), Tok("and"), Var("x")>>),
            not_op(<<Tok("not"), Var("x")>>), neg(<<Tok("-"), Var("x")>>),
            additive(<<paren_expr(<<Tok("("), Var("x"), Tok(")")>>), Tok("+"), One>>),
            process_call(<<Tok("process"), Var("x")>>)}}
  \cup {FlowFile(<<Run(Target("y"), "plain", << >>), failure_block(<<Tok("on"), List(<<Let("x", One)>>)>>)>>),
        FlowFile(<<Run(Target("y"), "plain", << >>),
                   If1(Var("y"), <<flow_control(<<Tok("abort")>>)>>)>>)}

=============================================================================
