# A formal model of streetrace

streetrace runs conversations with LLM agents: a terminal application that keeps
sessions on disk, a supervisor that drives one turn of an agent at a time, a
language (DSL) whose programs are compiled to workflows of agents, and guardrails
with local models. This directory holds TLA+ modules of the parts with state that
outlives a call and of the pure functions those parts rest on, TLC configurations
that check them on small instances, and TLAPS proofs of the properties that hold
for every value of the constants. `PROJECT.json` lists every run, the source lines
behind every definition, the hazards, and the theorems.

Paths below are relative to `src/streetrace/` unless they begin with `docs/`.

## The system

### Sessions

*State.* A session is a list of events. It lives in the memory of the process
(`InMemorySessionService.sessions`), in a JSON file per session
(`session/json_serializer.py`), and in the copy the running coroutine holds.
`SessionManager` keeps the id of the current session, which is the wall clock to
the minute unless the user gives one.

*Operations.* `JSONSessionService` gets, creates, appends, replaces and lists;
after every change it writes the whole file in place. A file that cannot be read, or is not text, is to
`get` as if it were not there. `SessionManager` opens and
validates a session, trims it while a turn runs, squashes it at the end, replaces
its events (`/compact`), resets and lists.

*Hard.* The file is truncated and then filled, so a death in between tears it; a session whose file cannot
be read is created anew over it. ADK's
runner appends to its own copy and it is that copy that reaches the file. A turn
that fails leaves a tool call without a result, which the model's provider refuses in
every later request. Trimming raises on a pair it does not find, after the answer
was already shown.

*Correct when* the history the model sees always has intact call/result pairs, the file
never lacks what the memory has, tidying never touches the dialogue, a
crash costs at most what was being written, and a session the process has opened is never begun anew.

### Turns and commands

*State.* `Supervisor.handle` (`workflow/supervisor.py`) keeps the final response
text of a turn; `app.py` alternates turns and slash commands and shows errors.

*Interaction.* handle → `SessionManager` → `JSONSessionService`; handle →
`WorkloadManager.create_workload` → workload → ADK runner, which appends events to
the service on its own and then yields them to handle, which trims the session
after each. `/compact` and `/reset` act between turns; `/compact` awaits a model call
between reading and replacing the session.

*Correct when* an answered turn leaves the answer in the session, in memory and on
disk alike, and no failure makes a later turn impossible.

### Flows of the DSL

*State.* A program is compiled to a subclass of `DslAgentWorkflow`
(`dsl/runtime/workflow.py`); every turn gets a new workload, and its entry flow a new
`WorkflowContext` (`dsl/runtime/context.py`): variables, last result, escalation flag,
invocation counter. Each agent run gets a child session whose id is made of the agent's
name and the counter. Agents that were created are kept in a list for `close()`.

*Operations.* The code generator (`dsl/codegen/visitors/flows.py`) emits one async
generator per flow: run an agent (with a schema: validate, retry once, fall back), run
with an escalation handler, call a flow on the same context, run a block of agents in
parallel through one ADK `ParallelAgent` whose agents answer into keys of one shared
state, return, and failure blocks (`except Exception`).

*Hard.* Exceptions from anywhere unwind to a failure block or end the turn, with agents
still to be closed; the answers of a parallel block come in any order, or not at all;
keys and session names are made of Python addresses.

*Correct when* no answer that fails its schema is kept, runs do not share sessions,
variables hold the answers of their own statements, every turn ends, and what it
created is closed.

### Compaction

*State and operations.* `CompactingRunner` (`dsl/runtime/compacting_runner.py`) wraps
the run of one agent, counts the tokens of the events as they pass, and when the
count passes a threshold closes the run, rewrites the child session (truncation or
summary) and runs again with a message to continue. The session is named after the agent and its place in
the flow, so a run finds the events that the runs of earlier turns left there, failed ones included, unless
the flow seeds it with a history. When the run is over, the workflow
hands the texts it yielded to `HistoryCompactor` (`dsl/runtime/history_compactor.py`),
which may announce a shorter history in an event.

*Hard.* The count comes from usage that already includes the history, the compaction
happens in the middle of a tool loop, the run must still end.

*Correct when* within a run no model call goes on above the threshold, compaction breaks no more pairs than it must,
what is kept is the longest ending that fits, and the run ends.

### Calls of prompts

*State.* The messages of the conversation with the model, and in the context of the flow
the variables, the last result and the escalation flag.

*Operations.* `PromptLlmCaller` (`dsl/runtime/prompt_llm_caller.py`) picks the model,
evaluates the prompt, asks, takes JSON out of the answer (`response_parser.py`), parses
the texts inside it, validates it against a class built from the schema, and sends a
failure back at most twice. The result of a run can escalate on a word of the answer, from which markdown
was stripped: of a code fence the backticks go, the tag of its language stays.

*Correct when* what is held fits the schema, each retry shows the model its own last
failure, a conforming answer is never turned down, and the escalation sees the words
whatever is around them.

### The language: from a file to a class

*State.* An analysis is a set of errors, the symbols per kind, a stack of scopes
(`dsl/semantic/analyzer.py`, `scope.py`); the code generator has a list of lines.

*Operations.* The transformer (`dsl/ast/transformer.py`) turns the rules of the grammar, with
all their tokens, into nodes; two passes of the analyzer define names and look up
references, then search for circles of agents; the generator writes a class; the loader
executes its body.

*Hard.* A method of the transformer finds its children by filtering words, so a
token may end up as an operand or a statement. Names and some texts go into the Python code as they are.
The analyzer closes the scope of a block while Python does not, and a `for` goes through the list itself,
which its body may make longer. Prompts come in parts that are merged. Bounded loops share
one counter.

*Correct when* an accepted file whose names fit into Python gives a class that loads and a flow that reads no unassigned
variable, circles are found and nothing else is, the verdict does not depend on the order
of definitions, and programs whose loops are bounded end.

### Workloads and agents

*State.* `WorkloadManager` (`workloads/manager.py`) keeps the definitions found so far; the
bytecode cache keeps compiled files by a hash of their source. `DslAgentFactory` keeps a
stack of the agents under construction; a workload keeps those it created.

*Operations.* `--agent` is a name, a path or an URL; a name is looked up, and found by
loading every file of every location; YAML files refer to one another. Each run of an
agent creates a tree: sub agents and agents as tools, and these again. Close walks it.

*Hard.* Files change while the program runs; several files define one name and any can
be broken; references and agents form diamonds and circles; a creation can fail at any depth.

*Correct when* the first location that has a loadable file wins, and in it the first directory and format; a name keeps its
definition for the conversation while a path runs the text on disk (a name is a path at each turn that finds it in the
working directory); circles of references are refused; the
stack is what is under construction, and closing a tree leaves nothing open.

### The terminal

*State.* `TerminalSession` (`terminal_session.py`): a journal, a buffer of output and one of
typed text, the pseudo-terminal and process of a command, a timer; one lock.

*Interaction.* The main thread runs the command, a timer's thread takes snapshots and
arms the next, any thread may send input, signals interrupt the main thread.

*Correct when* every piece of text that was passed on gets into the journal once and in order, and an error costs at most its
end; input that was sent is journalled; the user's terminal is restored on every way out the program survives; snapshots end with
the session.

### Inference and guardrails

*State.* `ModelRegistry` (`guardrails/inference/model_registry.py`) keeps per model
a state and a load future shared by all callers, under one lock. The cognitive monitor
keeps a text per session; the DSL guardrail plugin runs a workflow's handlers around
every user message, model call and tool call over one shared context.

*Hard.* Waiting for a future under a lock, cancellation of a waiter, loads that raise
what nobody handles; concurrent callbacks over one context, with guardrails that wait.

*Correct when* a model is loaded by one caller at a time, everyone is told the truth, every
call returns; no callback gives away another's content, drift is judged within a session,
and what is masked stays masked.

### How the modules compose

`AgentTurn` extends `SessionStore`, which extends `SessionEvents`, and implements
`ConversationLog`. `CompactingRun` extends `SessionEvents` and uses `HistoryCompaction`
for the step after its run. `DslProgram` extends `DslCodegen`, `DslAnalyzer` and
`DslAst`, each of which reads what the one before it wrote, as in the program, and hands the
agents of a file to `AgentCycles`, whose steps it takes in the phase `search`; `FlowRun` takes
a compiled program for granted and looks at its agents. `AgentCreation`, `Workloads`,
`TerminalSession`, `PromptCalls`, `ModelLoading` and `Guardrails` meet the others at one
call each, which they see as an arbitrary outcome.

### Everything else

The inference pipeline, tools, model clients, UI and support code. See the components of
`PROJECT.json` for the files and the status of each.

## The modules

| Module | Models | Correspondence |
| --- | --- | --- |
| `SessionEvents` | the pure functions on a list of events: `validate_session`, `manage_current_session`, `_squash_turn_events`, `/compact`, the two compaction strategies | an event keeps its kind and the tool or turn it belongs to; `Scan` is the loop of `validate_session` with its pending call and its error counter |
| `SessionStore` | `JSONSessionService` and the serializer | `mem`, `disk`, and a write in two steps (`StartWrite`, `FinishWrite`) with a torn file between them; a read gives the session, nothing (`ReadsNothing`) or an error (`ReadRaises`); an operation needs `writing = {}` because the write is synchronous |
| `AgentTurn` | `Supervisor.handle`, the runner's appends, `/compact`, `/reset`, crash, restart, `--list-sessions` | one action per stretch between two awaits; `copy` is the runner's session |
| `ConversationLog` | the abstract promise of the three above: a dialogue per session which, once open, only grows at its end, is summarised, or is cut back by a crash to what was saved | `AgentTurn!Log` is the refinement mapping: the dialogue of `View` and of the file, and the sessions in memory as the open ones |
| `CompactingRun` | `CompactingRunner.run` on one child session through several runs under its name, each failing anywhere, with or without a seeded history, and the check of the workflow after each | `tokens` is the running count; the usage of a model event is the size of the session or the estimate of the event |
| `HistoryCompaction` | `HistoryCompactor` and its two strategies | a message is a role and a size |
| `ModelLoading` | `ModelRegistry.get_session` with its lock, futures and cancellation | a step is what a task does between suspensions; `queue` is the FIFO of `asyncio.Lock` |
| `FlowRun` | flows: statements, failure blocks, child sessions, schema retries, escalation, parallel blocks, close | `program` is a compiled program, `stack` the generators that run, a value is the number of the run that gave it |
| `PromptCalls` | `PromptLlmCaller`, `response_parser`, the classes of schemas, the escalation of a run's prompt | a text is a sequence of lines, a fence with or without a tag; JSON is a value with its kind |
| `Guardrails` | `GuardrailPlugin`, `GuardrailProvider` and the drift monitor around the callbacks of ADK | `message`, `event` and `session` are the fields of the one `WorkflowContext`; a coroutine is a run or a tool call, and `active` is the one in a callback: it gives way only where an async guardrail awaits (`AwaitGuardrail`); a mask then sets the message (`MaskArrives`), a check goes on with what it finds (`VerdictArrives`); the form of a content is that of a text, of arguments or of a result |
| `DslAst` | the methods of `AstTransformer` and the node classes | an operator has the name of its grammar rule and takes the children of the rule, tokens included |
| `DslAnalyzer` | `SemanticAnalyzer`, both passes | an analysis is a record that every check takes and gives back |
| `AgentGraphs` | `_build_agent_graph`, and what a circle of agents is | what an agent refers to is a set; itself only by delegation |
| `AgentCycles` | `_find_cycle_in_graph` and `_dfs_find_cycle` | one step per call, per neighbor passed over and per return; `rec_stack` is the set and the path in one, agents are taken in any order |
| `DslCodegen` | `CodeGenerator` and its visitors | a flow is a sequence of indented opcodes, one for each line (or group of lines) of Python |
| `DslProgram` | `compile_dsl`, the loading of the class, the entry flow as Python runs it | one step per definition in a pass, one per line of a flow; `assigned` are the keys of `ctx.vars`; a `for` over a variable may have one more item after each push |
| `AgentCreation` | `DslAgentFactory.create_agent` and `close`, `YamlAgentBuilder`, the workloads over them | `calls` are the invocations of `create_agent` that have not returned, an instance is named by its path |
| `Workloads` | `WorkloadManager`, the loaders, the resolver, the bytecode cache | a file is a location, a directory of it, a format and a stem; its content is what a loader makes of it; location 0 is what no discovery looks at |
| `TerminalSession` | `TerminalSession`: main thread, timers, senders, signals, errors of the operating system | a step is what a thread does between two places where another can see it; `shown` and `passed` are the pieces that reached the screen and the command, `stuck` says that a finally block was cut short |

`MC*.tla` give the constants of a run their values; `*_proofs.tla` hold the proofs.
Definitions marked MUTANT are small edits of a definition, each the way a bug
would look; they are used by nothing in the modules and show that the properties
can fail.

## The runs

Pass:

| Run | Bounds | Shows |
| --- | --- | --- |
| `session_events` | every history of at most 8 events that agents, failures and truncation can leave; 2 tools, 2 pairs kept | validation drops exactly the orphans although it counts up and down; what it returns can always be trimmed |
| `agent_turn` | 2 turns of at most 2 tool calls, 2 session ids, 1 crash and any number of regular ends, 1 pair kept | the model sees intact pairs, the file holds the memory, an answered turn is durable, and the whole implements `ConversationLog`, files that cannot be read included |
| `compacting_run` | 2 runs under one name, seeded or on what was left there, each of 5 tool calls at most; a threshold of 13 units with 3 for a result and 1 for anything else, 3 events kept, then a window of 16 | between two model calls of a runner the session stays below the threshold and one message; compaction breaks one pair at most; the announced history is the first message and the longest ending that fits; every run ends |
| `model_loading` | 3 tasks, 2 models, 2 calls each, 2 cancellations | one loader, truthful answers, every call returns as long as no load is abandoned |
| `flow_run` | 4 programs over 2 variables, 2 agents (one with a schema), 2 addresses; any number of turns | sequential runs keep apart, closing is complete, variables hold what ran for them, every turn ends |
| `guardrails` | 6 programs: two agents with a tool call each, one agent with two parallel tool calls, with sync guardrails, awaited masks, awaited checks, drift warnings on inputs and outputs, and handlers that raise in every way; 2 model calls of a run | no callback gives away another's content, drift is judged within a session, what is masked stays masked, but where the properties make an exception of awaited checks |
| `dsl_program` | about 2440 files: flows of a few statements around every kind of block, flows with every kind of expression, all references between three agents, all ways to declare a prompt in three parts, pushes to a list under a `for`, names and texts that are no Python; calls 3 deep (`MaxCalls`, the recursion limit), 2 items to come in a list and 2 rounds of a loop without maximum (`MaxItems`) | an accepted file whose names fit loads and, outside the places the analyzer does not look at (see Disagreements), reads nothing unassigned; a circle of agents is reported exactly when there is one, and closes; the order of definitions does not matter; a program of bounded loops ends unless it pushes under a `for` over a variable |
| `agent_creation` | 3 definitions (an agent that uses itself, diamonds, names repeated in one list; `.sr` and YAML), 2 runs in each of 2 workloads, a failure anywhere | the stack is what is under construction, every run gets its whole tree, a closed tree holds no tool set |
| `workloads` | 8 files in 2 locations, one of them of 2 directories, and in the working directory; an edit, 2 turns, a cache of 1 entry, references to a depth of 2; identifiers by name, path, URL, and names that may be files or directories as well | discovery finds the first loadable one, loading through references ends, a conversation keeps its definition, a path runs the text on disk |
| `terminal_session` | 2 commands, 1 piece of text each way, 1 sender, 2 timers at a time, 1 error or first signal (`MaxFaults`), any second signal | nothing that was passed on is doubled or lost but for its end, sent input is journalled, the terminal is restored, snapshots end |
| `prompt_calls` | 4 prompts (with a schema, a list of it, an embedded prompt, a circle), 15 answers whose values nest 3 deep (`MaxDepth`), 3 attempts, 2 calls | results fit their schema, a retry shows its own failure, the escalation sees the word, a conforming answer is taken |

Why these bounds are enough: two session ids meet every pair of a current and an
older session; one kept pair makes trimming happen on the second call of a turn, in
the middle of it; two turns put a failed one before a good one; one crash is needed to
tear a file and a second adds a state the first already reached. With three tasks
one loads, one waits under the lock and one queues. The programs of `MCFlowRun`
have every statement kind, a flow called twice, a failure block around each of them,
two statements of one block that run the same agent, and two blocks one inside the
other's flow; two addresses are enough to be different and to be reused. No run
bounds the number of turns of `FlowRun`: values of earlier turns are collapsed to two
markers. Two model calls of a run make one tool loop, the only place where a request
holds results; two agents or two tool calls are the shortest way to two callbacks at once.
Three agents make a diamond and a circle beside a start node. A location of its own and one
behind it, with two formats of one stem in the first, meet all three ways to win: location,
format, place. Two timers at a time are an orphan beside a live one; a third would arm itself
in the same way. Two calls of a prompt put a raised one before a good one, and three attempts
are the code's own number.

One fault is enough to reach each handler of an error; two commands let the next one start with what the first left.
Two runs under a child session's name let the second begin above the threshold, on an open call, or behind a cut. Three events kept are an
opening, and a result beside what cut it from its call.

A content of `Guardrails` stands for the inspectable fields of what it is about
(`dsl/runtime/guardrail_types.py:59`): secrets elsewhere in a tool result are not masked
by the code and not in the model.

A violation, that is, what a doc says and the program does not do:

| Run | The text | What happens |
| --- | --- | --- |
| `dsl_operators` | docs/user/dsl/expressions.md:247-249 lists `and`, `or` and `not` | the parser keeps the words, the transformer takes them for operands (`dsl/ast/transformer.py:2239`), the analyzer passes over them and the generator raises: an accepted file has no class. The same holds for parentheses and `process` |

## Disagreements

Seen while reading and modelling. Most are behaviours of the modules; where a property
allows one, its comment says so.

Sessions and turns:

- Trimming counts pairs that are complete, so after a restart the call just appended can be
  among what it removes (`session/session_manager.py:318`; line 259 speaks of the last 20 pairs).
- A reset in the minute the session was made in finds the same id, hence the same session
  (`session/session_manager.py:28`).
- A session file torn by a crash makes the listing fail (`session/json_serializer.py:131`);
  tests/unit/session_service/test_json_session_serializer.py:392 says that it is skipped.
- A session file that cannot be read, or is not text, counts as none (`session/json_serializer.py:69`): the next turn creates an
  empty session over it (`session/session_manager.py:143`), and the saved dialogue is lost. The docstring at `:117` says that a
  session is created if the id does not correspond to an existing one. `ConversationLog` allows it for a session
  the process has not opened (`Begin`), and only for such a one.
- An event above the limits of the store is written to a file that later reads refuse
  (`session/session_service.py:221`).
- `app.py:151` raises `SystemExit` in a `finally`, which replaces the code 1 of an exit above it.

Compaction:

- Truncation keeps events by position and can keep a result whose call it cuts
  (`dsl/runtime/compacting_runner.py:211`; line 406 says that pairs are not cut).
- Nobody looks at the count before the first model call of a runner, and a child session may hold what the runs of earlier turns
  left (`dsl/runtime/session_deriver.py:74`), a seeded history (`dsl/runtime/workflow.py:685`), or more than the threshold after a compaction:
  that call goes out with all of it. `ContextFits` is about the calls after it.
- If the events that truncation keeps are above the threshold by themselves, every answer is followed by a compaction and a run
  that continues, and the run never ends (`dsl/runtime/compacting_runner.py:482`). The weights of the run exclude it: three events
  are at most 9 units, below 13. `RunEnds` is about such.
- Usage that includes the history is added to a count that has the history already, so
  compaction can come much earlier than the threshold (`dsl/runtime/compacting_runner.py:482`).
- The compaction after a run changes no session. The context window is never known from the model,
  what is looked at are the texts the run yielded (so "the first message" is an answer), and
  a dialogue of four messages or fewer is announced as compacted by 0.

Flows:

- Statements of a parallel block with one agent share their output key, and a key or session named after
  an address is met again when the address is (`dsl/runtime/workflow.py:868`, `:901`); agents of
  a block are not closed (`:872`) although line 1035 says that all are.
- `$x = run flow` takes the last agent's result, not what the flow returned
  (`dsl/codegen/visitors/flows.py:408`; docs/user/dsl/flow-control.md:248), and the returned value
  stays in the shared context for a caller that returns nothing (`dsl/runtime/workflow.py:534`).
- `$x = run agent ... on escalate return $x` returns the new value: the assignment comes
  first (`dsl/codegen/visitors/flows.py:361`; docs/user/dsl/escalation.md:185). An abort is an
  exception, and a failure block of the flow catches it (`:187`; escalation.md:180).
- Nested loops with a maximum share `_loop_count` (`:793`): the inner one resets it for the outer one.
- `call llm` ignores the model of its prompt (nobody calls `set_prompt_models`,
  `dsl/runtime/workflow.py:1055`; docstring `prompt_llm_caller.py:73`) and its arguments
  (`dsl/runtime/context.py:461`), and a model of the call's own is the word "using" (`dsl/ast/transformer.py:2127`), which is passed on as it is
  (`dsl/runtime/context.py:483`). Errors other than those of parsing and validation become a silent
  `None` (docs/user/dsl/schema-support.md:187 promises an error). A text field whose text looks like
  JSON is parsed and turned down three times.
- Of a fenced answer the comparison of an escalation drops the backticks and keeps the tag of the language
  (`dsl/runtime/utils.py:13`, `:37`): an answer of DONE in a block tagged `text` is "text done" and does not escalate on `~ "DONE"`.
  `EscalationSeesTheWord` says both.

The language:

- The body of `on failure` becomes the word "on"; `retry with`, `continue`, `abort` and `retry step`
  lose their words. So the failure blocks of `FlowRun` and the `retry` of `Guardrails`, which the
  runtime supports, cannot come from a `.sr` file at this commit.
- `escalate to human` has the message "escalate"; the long form of tools gives the keyword as type and
  url; a body of policies gives `{id: ":"}`.
- What `log`, `notify`, match bodies, filters, bare names and interpolated texts read is not validated
  (`analyzer.py:943`, `:1238`), and the targets of a parallel block count as defined inside it; built-in
  variables are accepted and only `input_prompt` is ever set (`analyzer.py:48`); globals of `on start`
  are never assigned (docs/user/dsl/syntax-reference.md:572). An accepted file may therefore end in a
  `KeyError`. `ScopeIsAssigned` is checked over files that read no unassigned variable in these places:
  it is about the scopes the analyzer does keep. An `on` with an unknown event is a handler of `input`
  (`dsl/ast/transformer.py:1082`); a schema that names itself or a later one is a `NameError`
  (docs/user/dsl/schema-support.md:416).
- Names are put into Python as they stand: those of flows (`dsl/codegen/visitors/flows.py:102`), of the variable of a `for` (`:525`), of schemas and
  fields (`dsl/codegen/visitors/workflow.py:277`, `:286`) and, in their handlers, of agents. The grammar takes hyphens in all of them
  (`dsl/grammar/streetrace.lark:554`) and several words in a flow's (`:234`, "Multi-word flows are supported"); the file is accepted and its
  class is a `SyntaxError`, and so with a field called `from`. Texts of cases, escalations and warnings are put between
  apostrophes and may not hold one. `AcceptedFilesLoad` is about files without (`TextsFit`). The class is named after the file
  (`dsl/codegen/visitors/workflow.py:175`): a blank there is a `SyntaxError` too, which the model leaves out.
- `for $i in $x do push $i to $x end` never ends: Python goes through the list itself (`dsl/codegen/visitors/flows.py:510`, `:524`).
  `BoundedProgramsEnd` is about programs that push to no list under a `for` over one of their own.
- Two handlers of one event replace each other. Of two bodies of a prompt the last one wins.

Guardrails and inference:

- A mask before a later model call of a tool loop replaces the tool results by the user's text
  (`dsl/runtime/guardrail_plugin.py:454`).
- While a handler awaits an async check, another callback of the context may replace the message: the first one then goes on with it
  and gives back, for its own tool or agent, what is the other's (`:382`), or fails because the arguments or the result of a
  tool are no text (`:479`). docs/user/dsl/guardrails.md:328 says that sync and async functions are supported. A mask does not
  have this effect, as it sets the message to its own answer when it goes on. `EveryoneGetsTheirOwn` and `MaskedForGood` make an exception of
  events whose handlers await a check, and hold for all others, awaited masks included. In the same way the `finally` of one tool's
  callback drops the event another one's handler is about to read (`:380`).
- A `block` on an output or a tool result and `retry with` raise what nobody catches, so the
  run fails (`:223`; docs/user/dsl/guardrails.md:142-147 promises a replaced output). A blocked
  input becomes a message of the model and the run goes on. A masked response loses the tool
  calls it came with.
- The callbacks of the input set no session: there a drift check looks at the session of
  whichever callback was last (`:141`; docs/user/dsl/guardrails.md:296 calls the monitor session-aware). The same happens
  after an await. `DriftStaysInItsSession` excepts both; programs of the run have such checks.
- The turn number of the intent tracker is the provider's, the text the session's (`intent_tracker.py:73`).
- A load that raises an unlisted error leaves the model loading for ever
  (`guardrails/inference/model_registry.py:173`, against the states of line 58). A waiter that is cancelled
  cancels the shared future, and the loader's `set_result` raises (`:189`).

Workloads and the terminal:

- The cache of definitions is never cleared (docs/user/workloads/configuration.md:199): a deleted file's
  definition remains. YAML and Python files are loaded at discovery, not lazily (configuration.md:265).
  A file that raises an error outside of the list ends the discovery of all
  (`workloads/manager.py:584`; docs/dev/workloads/api-reference.md:1142), and a broken first file
  lets a later location win.
- Whether a name is a path is decided at each turn (`workloads/manager.py:504`): a conversation that was served by name gets another
  definition, or none, once a file or directory of that name is in the working directory. `ConversationKeepsItsDefinition` is about the other turns.
- The formats are tried in each directory of a location before the next directory (`agents/resolver.py:403`): `./agents/a.yaml` hides
  `.streetrace/agents/a.sr`. And that `.sr` is never found at all: every part of a path is looked at for a leading dot (`agents/resolver.py:377`),
  those above the location included, so nothing below `.streetrace/agents` is discovered, here or at home
  (docstring at `workloads/manager.py:43`), nor in a project that lies in a hidden directory.
- `send_input` may raise instead of returning False when the command ends meanwhile
  (`terminal_session.py:443`, docstring :425). A snapshot may arm a timer after the command's cleanup cancelled
  the one before (`:528`).
- A second SIGTERM during a command goes to the default handler, which ends the program without any `finally` (`:331`): the terminal
  stays raw and the command goes on. The docstring at `:310` speaks of handling shutdown signals gracefully. A second signal while the `finally` runs
  leaves out the rest of it.
- An `OSError` after a read drops what was read: on the screen (`:670`), to the command (`:695`), at the end (`:702`). One anywhere in the loop
  leaves the buffers to the `finally`, which empties them (`:639`). `NothingIsLost` says that only an end is lost.
- What ends a line in the journal is a backslash and an n (`:658`), not an end of line, so that output is kept together until a
  snapshot or the end.
- A command whose standard input is no terminal raises `termios.error`, which nobody
  handles, and its child goes on.

## Fairness

Only what the scheduler gives. `CompactingRun`: the model and the tools answer, and the
coroutine goes on; the agent stops calling tools because `MaxCalls` bounds it.
`ModelLoading`: the event loop runs every task that can run and a load comes to
an end, well or badly; nobody is obliged to call or to be cancelled. `FlowRun`: weak
fairness of the whole next-state relation outside of `idle`, since there is one
coroutine (or one group of them in a block) and the loop runs it; which of the
steps is taken, a failure included, is free, and a user may never enter another
prompt. `DslProgram`: Python goes on to the next line (`Execute`). `TerminalSession`: the operating
system runs each thread that can run (main, each timer, the sender); commands may never
print or end, and nobody has to type, send or signal. `Guardrails` states the fairness of
its next-state relation and has no liveness property; the other modules have neither.

## Proofs

Checked by TLAPS, for every value of the constants that satisfies the named
assumptions of the modules.

Each module of proofs extends the modules it is about, so that a theorem names the property
a run checks and nothing in between; where a module holds the proofs of two specifications,
these have names of their own (`LoopSpec`, `RegistrySpec`, `CallsSpec`, `ManagerSpec`,
`SearchSpec`).

The modules of proofs, and the invariants the theorems rest on:

- `SessionEvents_proofs`: what the functions on histories return, for every history: what remains of
  a dialogue when its list is squashed (`DialogOfSquashed`), trimmed, repaired or compacted, and that a
  list in which every call may still be answered is intact after validation and trimming
  (`ValidationMends`, `IntactOfTrimmed`). Trimming keeps at most the limit because it keeps a response for
  each of the last pairs and no other (`KeptResults`, `FewAreRecent`).
  Then `LoopSpec`, the histories of `MCSessionEvents`, of any length and with any number of events
  kept by truncation (`TruncationAssumption`). `TrimOfValidatedIsSafe`: every one is mendable, a
  truncated one because the cut can only lose the call of a response, never put one behind an open call
  (`TruncatedIsMendable`). `ValidateDropsExactlyOrphans` needs one more fact of them, `LoopShape`: nothing without
  content stands between a call and its response. Then the scan keeps what has its partner beside it
  (`ScanPairs`), and a counter that ends at zero means that everything has.
- `CompactingRun_proofs`: the type invariant of a child session; `CompactionKeepsPairs` from `ChildPairInv`, for both strategies, any number of runs
  under the name and any seeded history. As long as no run has failed since a summary or a history replaced the events, calls have their
  responses but for a last one that waits, and responses their calls but for the first event behind a cut (`Linked`); and nothing waits
  where a compaction or the end of a run is (`Settled`). `ContextFits` from `ChildCountInv`: the count is short of the true size
  by the message that started the runner at most, and below the threshold where the model goes on. Neither assumes anything of
  weights or thresholds. `KeptIsLongestEnding`: the backward walk and a sum along the ending agree message by
  message (`EndingGrows`, `LongestEnding`).
- `AgentTurn_proofs`: type correctness and four properties.
  `TornOnlyByCrash` and `AnsweredTurnIsDurable` follow from `StoreInv /\ TurnTypeOK /\ RunHasEvents /\
  TornNeedsCrash`: a coroutine that runs has events in its copy, a torn file is
  being written or a crash has happened; the durability of an answer also needs
  `AnswerIsOnItsWay`: while the squashed session is written, the buffer is the memory.
  `FileHoldsMemory` follows from `SyncInv`: what a turn, a command or the store is about to write is related
  to the memory, so that the file is behind only while a write is in progress.
  `ImplementsConversationLog` is the refinement, step by step under the same invariant: each action
  of `AgentTurn` is a step of `ConversationLog` or leaves the dialogues and the open sessions alone; a read that gives nothing is
  a conversation that is not open, and is begun anew.
  `ModelSeesIntactPairs` follows from `PairInv`: every list in memory, on disk or under way is *mendable*: no
  response stands behind a call that is still open, other than its own. More cannot be claimed of the store:
  after a crash between a call and its response a later trim can leave the response in memory without its
  call. Only what a run sends to the model is intact, because validation comes before it, and a
  history it cannot mend ends the turn with an error.
- `FlowRun_proofs`: `RunsOfATurnKeepApart`, from the fact that the number in the
  session of each sequential run is positive, at most the counter, and its own
  (`Numbered`, `Distinct`), `ClosedAfterTurn`, from the fact that an open
  sequential run is registered (`Known`), and `ResultsComeFromTheirStatements`, from `ResultInv`: the
  run under way was started for the target of the statement the flow is at (`CallFits`), the block under way is
  that of its statement and its runs are parallel (`BlockFits`), a caller is at the call it made
  (`CallersCallFlows`), the last result is none of an earlier turn (`LastFits`) and the sessions of blocks
  hold results of parallel runs or of earlier turns (`OutputsFit`). The property alone is not inductive: an
  unwound stack, for one, must leave its callers where they were. The assumption is `FlowRunAssumption`: the
  programs are what the compiler accepts.
  `PromptCalls` follows (`CallsSpec`). `ResultFitsTheSchema` rests on `TypeIsStable`: what is made
  of a value for a type is made of itself again, so that fields and items fit whatever the answer held.
  `RetriesShowTheFailure` needs the number of messages to be 1, 3 or 5 (`Exchange`). `ConformingAnswerIsTaken`
  follows from what the scan for code blocks finds (`FencedLine`, `BareLine`), from `PlainStays` (texts in a
  value are parsed only where they look like JSON) and from `ConformingStays`. `EscalationSeesTheWord` is
  what `Normalized` makes of a word and its fences (`WordIsShown`), tags included. The last two assume `TextsAssumption`: an
  answer is a sequence of lines, its values nest no deeper than `MaxDepth`, and a normalized condition
  compares a word.
- `Guardrails_proofs`: `EventIsOwn`, `EveryoneGetsTheirOwn`, `MaskedForGood` and `DriftStaysInItsSession`, for every program, any
  guardrails that are async and any number of agents and tool calls; nothing is assumed but `GuardrailsAssumption` and
  `HandlersAssumption`. First, who may await and where (`IInv`): one callback runs at a time, whoever awaits is at a
  step that asks an async guardrail, and no step of another callback changes that (`NoNewAwaits`). Then `OwnInv`: the message is that of the callback
  that runs, and what is awaited is made of the content of the callback that awaits it (`MessageIsOwn`, `AwaitedIsOwn`), unless
  the handlers of its event await a check (`Shared`). This is what makes awaited masks safe: the answer takes the place of whatever
  others left meanwhile. So what a tool has to give and what is in a history are own as well (`GivenIsOwn`, `HistoryIsOwn`). `MaskInv` says of
  the same contents that the masks before the current action have taken what they look for (`Sifted`). The event is that of the active tool
  call as long as its callback has awaited nothing, and nobody's where no tool is in a callback.
  `DriftStaysInItsSession` needs the session to be that of the active callback outside of the inputs, as long as it has awaited nothing.
  `ModelLoading` follows (`RegistrySpec`): type correctness, `SingleLoader`, `FutureTellsState`,
  `AnswersMatchState` and the action property `StateMachine`. None is inductive alone: that the loader's
  model is in state loading needs the future to tell the state, and that needs a single loader.
  Together with `RegistryTypeOK` they are.
- `TerminalSession_proofs`: `TerminalIsRestored`, with `NothingIsHeld` (unless a finally block was cut short, raw mode and the descriptor
  exist only where the main thread is between setting them and the end of its `finally`) and
  `OutcomeTellsProcess` (while there is no outcome the process has not been waited for; after it
  there is none left). The property looks only at the moments between two commands;
  the other two say what leads there on each way out, signals, errors and exceptions included.
  `NothingIsLost` and `SentInputIsJournaled` follow from `KeptInv`: journal and buffer together are what has
  been shown, in order, or a beginning of it once an error or an exception struck (`OutputIsRead`, `OutputIsKept`), the same for keys (`KeysAreKept`), and the
  buffers are empty where no command runs (`BuffersAreEmpty`); each flush moves text between the two. What `finally` throws away leaves
  a beginning (`PrefixFacts`), and a terminal that is stuck stays so (`StuckStays`).
- `AgentCreation_proofs`: `StackFollowsTheCalls`, with `CallsFollowThePhase` (calls are in progress
  only while a run's agents are being created) and `BlocksAreDsl` (only a `.sr` file has blocks left).
  `EveryRunGetsTheWholeTree` follows from `TreeInv`: of each edge a definition lists at an agent that
  is built, or being built, the child is built, still to do, or beyond what the nesting allows.
  `ClosedTreesHoldNothing` follows from `ClosingInv`: while a workload closes, an open tool set in its trees
  lies under a visit that is still to come. `DefinitionOK` ties the definition to
  `AgentCreationAssumption`; no bound on depth or failures is used.
  `Workloads` follows (`ManagerSpec`): `ConversationKeepsItsDefinition`, because what the first turn by name got is among
  the definitions found (`ManagerInv`) and those are never replaced, and `PathRunsTheTextOnDisk`, because what a compilation
  uses is the last of the cache and was found by its text. Neither depends on what discovery finds.
  `DiscoveryFindsTheFirst` does. Its invariant `DiscoveryInv` says that, as long as the files are as
  discovery saw them, a definition comes from the first of the visible files of its name and a name without
  one has no visible file. That a discovery leaves it so is an induction over what it tries: over the
  files of one format in the order of their places, over the formats, the directories, the locations; after each
  of them the names found are those of the visible files so far. `ReferencesAreFinite` is an induction over
  `MaxRefDepth`: the recursive walk through references accepts a file exactly when each chain of references
  from it ends within the levels left (`ReferencesAreChains`). `WorkloadsAssumption` asks that the files are
  finitely many, that no two have one place, and that a YAML file which loads has a list of references.
  `AgentCycles` follows (`SearchSpec`): `CyclesAreFound`, from `SearchInv`. The agents of the path refer each to
  the next and none comes twice (`IsPath`); what a call no longer has left is finished or is the agent
  whose call is in progress (`LeftToFollow`); and agents that are visited and off the path refer to such agents
  only, and none of them is on a circle (`NoCircleIn`). The last is what makes the set of visited agents
  right across several start nodes, and is kept by the step that takes an agent off the path
  (`OneMoreDone`). Nothing is assumed of the agents; the number of agents is not bounded.
- `NaturalFacts`: what these need of induction over natural numbers, stated over sets
  and functions because the provers cannot instantiate an operator, and how the flattening of a
  sequence of sequences grows with it.

Model-checked only, and why:

- Every liveness property: fairness and `ENABLED` are beyond the provers.
- `ScopeIsAssigned`, `AcceptedFilesLoad` and `VerdictIsOrderFree` of `DslProgram`: the transformer, the
  analyzer and the generator are `RECURSIVE` operators over syntax trees, which the provers cannot
  see; `BoundedProgramsEnd` is a liveness property besides. Nor do they hold of every file: what the disagreements above name is kept out of the files of the
  run, and what a handler of `on start` assigns is defined only for the statements behind it.

## Not modelled

- Texts: formatting, telemetry, colours, the grammar itself (a data file of the parser library). They
  have no state.
- What a model answers, whether a call fails, and what is in an event beyond its kind are
  arbitrary choices.
- A write of a session file that raises while the process lives (`session/json_serializer.py:80`): the file would be
  torn, the memory whole, and the turn would fail.
- A run of an agent without a message: the code starts the runner with None when the prompt is empty (`dsl/runtime/workflow.py:668`).
- Of the terminal: a `KeyboardInterrupt` in the first statements of `execute_command` or behind its `finally`, callbacks that raise anything but
  an `OSError`, and two failures of one command beyond the bound.
- Sizes of files and the limits on them (`session/session_service.py:221`).
- The inference pipeline, the batch queue, the session pool and the embedding cache: at this commit
  the provider is built without a pipeline, and the queue and the pool have no caller.
- The stages of the prompt proxy and the MCP guard: tables of patterns and thresholds, one after the
  other. Their verdict is the arbitrary finding of a guardrail.
- Turn numbers, sequences of tools and recovery times of the cognitive monitor: they feed reports.
- Statements inside event handlers are `Guardrails`' own lists of actions, not compiled from `DslAst`.
- Imports, versions and number formats of the language; source maps; command line tools of the language.
- Tools (one-step operations on files and processes), model clients, the user interface.
- External programs (red team tools), AWS Kendra, the ONNX runtime itself.

## Plan

1. Done: sessions, turns, both compactions, the model registry, flows, prompt calls, the language from
   its trees to its loops, workload discovery, agent construction, the guardrails, the terminal.
2. Done for every component with state that is shared between turns, threads or tasks. What is proved and what is not is listed above.
3. Models that remain: the lifecycle of an intervention of the cognitive monitor, and the
   inference pieces once the program uses them.
