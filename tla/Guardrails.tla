----------------------------- MODULE Guardrails -----------------------------
(***************************************************************************)
(* GuardrailPlugin: the event handlers of a DSL program, run around every  *)
(* user message, model call and tool call of the agents of one turn. All of*)
(* them work on one WorkflowContext: its message, its event and the session*)
(* its guardrails look at. Agents of a turn run side by side (parallel     *)
(* blocks, agents used as tools), and so do the tool calls of a model      *)
(* response.                                                               *)
(*                                                                         *)
(* A callback is a coroutine that gives way only where a guardrail awaits: *)
(* a custom one written as an async function. A mask sets the message to   *)
(* its answer when it goes on; a check goes on with whatever message it    *)
(* then finds. ADK calls the callbacks and goes on with what they return.  *)
(***************************************************************************)
EXTENDS Integers, Sequences

CONSTANTS
  Workflows,   \* programs: the agents that run together, their handlers (the
               \* actions of <<timing, event, scope>>), and calls, the bound on
               \* the tool calls in one model response
  Runs,        \* agent runs of the turn, named after their agents
  SessionOf,   \* the ADK session of each run
  Custom,      \* custom guardrails
  Async,       \* custom guardrails that are async functions
  MaxRounds,   \* bound: model calls of a run
  MaxTools     \* bound: tool calls in one model response

Everyone == "every agent"
NoSession == "no session"
Nobody == <<"nobody", 0>>   \* instead of a coroutine

ASSUME GuardrailsAssumption ==
  /\ Async \subseteq Custom
  /\ MaxRounds \in Nat /\ MaxTools \in Nat
  /\ Everyone \notin Runs /\ Nobody[1] \notin Runs
  /\ NoSession \notin {SessionOf[r] : r \in Runs}
  /\ \A w \in Workflows : w.agents \subseteq Runs /\ w.calls \in 0..MaxTools

(* Handlers and what they are made of. *)
Mask(g)  == [op |-> "mask",  guardrail |-> g]
Block(g) == [op |-> "block", guardrail |-> g]
Warn(g)  == [op |-> "warn",  guardrail |-> g]
Fail     == [op |-> "fail",  guardrail |-> "none"]
Retry    == [op |-> "retry", guardrail |-> "none"]
UseEvent == [op |-> "event", guardrail |-> "none"]   \* a test of $event

Actions ==
  [op : {"mask", "block", "warn", "fail", "retry", "event"}, guardrail : STRING]

ASSUME HandlersAssumption ==
  \A w \in Workflows : \A name \in DOMAIN w.handlers : w.handlers[name] \in Seq(Actions)

Masking == Custom \cup {"pii"}

(* A coroutine is a run itself or a tool call of its latest model response.*)
Coroutines == Runs \X (0..MaxTools)
RunOf(c) == c[1]
Main(r) == <<r, 0>>
IsTool(c) == c[2] # 0
ToolsOf(r) == {c \in Coroutines : RunOf(c) = r /\ IsTool(c)}

(* A content is known by the coroutine and the place it comes from and by  *)
(* the guardrails that still find something to mask in it. In the context  *)
(* it is a text, or the arguments or the result of a tool.                 *)
Content(c, part, secrets) ==
  [from |-> c, part |-> part, secrets |-> secrets, form |-> "text"]

FormAt(place) ==
  CASE place = "call" -> "args" [] place = "result" -> "result" [] OTHER -> "text"

As(place, content) == [content EXCEPT !.form = FormAt(place)]

Refusal(c) == Content(c, "refusal", {})   \* BLOCKED_MESSAGE, or an error result

NoContent == Content(Nobody, "none", {})

VARIABLES
  workflow,  \* the program: its agents and their handlers
  message,   \* ctx.message
  event,     \* ctx.vars["event"]: the coroutine it describes, if any
  session,   \* the session of the guardrail provider, or NoSession
  drift,     \* per session, the run whose text the drift monitor saw last
  active,    \* the callback that runs: the event loop runs one at a time
  at,        \* where a coroutine is
  step,      \* the next action of its handlers
  given,     \* what its callback was given
  awaited,   \* what the guardrail it awaits makes of what it was given
  history,   \* the events of a run: what its next request is made of
  request,   \* the last request of a run
  response,  \* the last response of a run: its text and its tool calls
  rounds     \* model calls of a run

ctxVars == <<message, event, session, drift>>
callVars == <<active, at, step, given, awaited>>
runVars == <<history, request, response, rounds>>
vars == <<workflow, ctxVars, callVars, runVars>>

(* input, before, after, call and result are callbacks. *)
Callbacks == {"input", "before", "after", "call", "result"}
Places == Callbacks \cup {"start", "ready", "model", "tools", "ended", "failed",
                          "idle", "asked", "tool", "returned", "done"}

TypeOK ==
  /\ workflow \in Workflows
  /\ event \in Coroutines \cup {Nobody}
  /\ session \in {SessionOf[r] : r \in Runs} \cup {NoSession}
  /\ drift \in [{SessionOf[r] : r \in Runs} -> Runs \cup {"none"}]
  /\ active \in Coroutines \cup {Nobody}
  /\ at \in [Coroutines -> Places]
  /\ \A c \in Coroutines : step[c] \in Nat
  /\ rounds \in [Runs -> 0..MaxRounds]
  /\ active # Nobody => at[active] \in Callbacks

NoResponse == [text |-> NoContent, calls |-> 0]

Text(content)    == [kind |-> "text", role |-> "user", body |-> content]
Model(content)   == [kind |-> "text", role |-> "model", body |-> content]
Calls(n)         == [kind |-> "calls", role |-> "model", body |-> n]
Results(results) == [kind |-> "results", role |-> "user", body |-> results]

Init ==
  /\ workflow \in Workflows
  /\ message = NoContent /\ event = Nobody
  /\ session = NoSession
  /\ drift = [s \in {SessionOf[r] : r \in Runs} |-> "none"]
  /\ active = Nobody
  /\ at = [c \in Coroutines |-> IF IsTool(c) THEN "idle"
                            ELSE IF RunOf(c) \in workflow.agents THEN "start" ELSE "ended"]
  /\ step = [c \in Coroutines |-> 1]
  /\ given = [c \in Coroutines |-> NoContent]
  /\ awaited = [c \in Coroutines |-> NoContent]
  /\ history = [r \in Runs |-> << >>]
  /\ request = [r \in Runs |-> << >>]
  /\ response = [r \in Runs |-> NoResponse]
  /\ rounds = [r \in Runs |-> 0]

----------------------------------------------------------------------------
(* The handlers of a callback, in the order the plugin calls them. *)

ActionsOf(name) ==
  IF name \in DOMAIN workflow.handlers THEN workflow.handlers[name] ELSE << >>

(* The handler of every agent comes first, then the one of the agent. *)
ToolSteps(timing, kind, run) ==
  ActionsOf(<<timing, kind, Everyone>>) \o ActionsOf(<<timing, kind, run>>)

StepsOf(place, run) ==
  CASE place = "input"  -> ActionsOf(<<"on", "input", Everyone>>)
    [] place = "before" -> ActionsOf(<<"after", "input", Everyone>>)
    [] place = "after"  -> ActionsOf(<<"on", "output", Everyone>>)
                           \o ActionsOf(<<"after", "output", Everyone>>)
    [] place = "call"   -> ToolSteps("on", "tool_call", run)
                           \o ToolSteps("after", "tool_call", run)
    [] place = "result" -> ToolSteps("on", "tool_result", run)
                           \o ToolSteps("after", "tool_result", run)

Steps(c) == StepsOf(at[c], RunOf(c))

Handled(place, run) == StepsOf(place, run) # << >>

(* The plugin enters a callback and sets up the context for it. *)
(* MUTANT: the session of the callback is not handed on. *)
Enter_SameSession(c, place, content) ==
  /\ active = Nobody
  /\ active'  = c
  /\ at'      = [at EXCEPT ![c] = place]
  /\ step'    = [step EXCEPT ![c] = 1]
  /\ given'   = [given EXCEPT ![c] = As(place, content)]
  /\ message' = As(place, content)
  /\ session' = IF session = NoSession THEN SessionOf[RunOf(c)] ELSE session
  /\ event'   = IF place \in {"call", "result"} THEN c ELSE event
  /\ UNCHANGED <<workflow, drift, awaited>>

Enter(c, place, content) ==
  /\ active = Nobody
  /\ active'  = c
  /\ at'      = [at EXCEPT ![c] = place]
  /\ step'    = [step EXCEPT ![c] = 1]
  /\ given'   = [given EXCEPT ![c] = As(place, content)]
  /\ message' = As(place, content)
  /\ session' = IF place \in {"after", "call", "result"} THEN SessionOf[RunOf(c)] ELSE session
  /\ event'   = IF place \in {"call", "result"} THEN c ELSE event
  /\ UNCHANGED <<workflow, drift, awaited>>

Skip(c, place) ==
  /\ active = Nobody
  /\ at' = [at EXCEPT ![c] = place]
  /\ UNCHANGED <<workflow, ctxVars, active, step, given, awaited>>

----------------------------------------------------------------------------
(* What a callback returns to ADK, and what ADK does with it. *)

(* The finally of a tool callback drops the event, whoever it describes. *)
Leave(c, place) ==
  /\ active' = Nobody
  /\ at' = [at EXCEPT ![c] = place]
  /\ event' = IF IsTool(c) THEN Nobody ELSE event
  /\ step' = [step EXCEPT ![c] = 1]
  /\ awaited' = [awaited EXCEPT ![c] = NoContent]
  /\ UNCHANGED <<workflow, message, session>>

LastOf(r, entries) ==
  CHOOSE i \in entries : \A j \in entries : j <= i

UserEntries(r) == {i \in DOMAIN history[r] : history[r][i].role = "user"}
UserTexts(r) == {i \in UserEntries(r) : history[r][i].kind = "text"}

(* _update_last_user_text: the last content of the user is replaced by a   *)
(* text, the content that holds the results of tools included.             *)
Updated(r, content) ==
  [history[r] EXCEPT ![LastOf(r, UserEntries(r))] = Text(content)]

(* The response reaches the session. A run ends with a response without    *)
(* tool calls.                                                             *)
Respond(r, text, calls) ==
  /\ history' = [history EXCEPT ![r] =
       @ \o (IF text = NoContent THEN << >> ELSE <<Model(text)>>)
         \o (IF calls = 0 THEN << >> ELSE <<Calls(calls)>>)]
  /\ response' = [response EXCEPT ![r] = NoResponse]
  /\ UNCHANGED <<request, rounds>>

Asked(r, calls) ==
  [c \in Coroutines |->
     IF c = Main(r) THEN IF calls = 0 THEN "ended" ELSE "tools"
     ELSE IF RunOf(c) = r /\ c[2] <= calls THEN "asked" ELSE at[c]]

Changed(c) == message # given[c]

(* The handlers are through. *)
InputPasses(c) ==
  /\ at[c] = "input" /\ message.form = "text"
  /\ history' = [history EXCEPT ![RunOf(c)] = Append(@, Text(message))]
  /\ Leave(c, "ready")
  /\ UNCHANGED <<given, request, response, rounds>>

RequestPasses(c) ==
  /\ at[c] = "before" /\ message.form = "text"
  /\ request' = [request EXCEPT ![RunOf(c)] =
                   IF Changed(c) THEN Updated(RunOf(c), message) ELSE history[RunOf(c)]]
  /\ Leave(c, "model")
  /\ UNCHANGED <<given, history, response, rounds>>

(* A text that was changed makes a new response of nothing but this text. *)
ResponsePasses(c) ==
  /\ at[c] = "after" /\ message.form = "text"
  /\ LET r == RunOf(c)
         calls == IF Changed(c) THEN 0 ELSE response[r].calls
     IN  /\ Respond(r, message, calls)
         /\ at' = Asked(r, calls)
  /\ active' = Nobody
  /\ step' = [step EXCEPT ![c] = 1]
  /\ UNCHANGED <<workflow, message, event, session, given, awaited>>

CallPasses(c) ==
  /\ at[c] = "call"
  /\ Leave(c, "tool")
  /\ UNCHANGED <<given, runVars>>

(* MUTANT: a masked result is not handed back. *)
ResultPasses_Original(c) ==
  /\ at[c] = "result"
  /\ Leave(c, "done")
  /\ UNCHANGED <<given, runVars>>

(* Arguments of a tool call that another callback left in the context are  *)
(* no result: the tool keeps what it returned.                             *)
ResultPasses(c) ==
  /\ at[c] = "result"
  /\ given' = [given EXCEPT ![c] = IF message.form = "args" THEN @ ELSE message]
  /\ Leave(c, "done")
  /\ UNCHANGED runVars

(* A handler raises: BlockedInputError ("blocked"), FailError ("fail") or  *)
(* anything else.                                                          *)
InputRefused(c) ==
  /\ history' = [history EXCEPT ![RunOf(c)] = Append(@, Model(Refusal(c)))]
  /\ Leave(c, "ready")
  /\ UNCHANGED <<given, request, response, rounds>>

RequestRefused(c) ==
  /\ Respond(RunOf(c), Refusal(c), 0)
  /\ Leave(c, "ended")
  /\ UNCHANGED given

ToolRefused(c) ==
  /\ given' = [given EXCEPT ![c] = Refusal(c)]
  /\ Leave(c, IF at[c] = "call" THEN "returned" ELSE "done")
  /\ UNCHANGED runVars

(* The run fails. Tool calls next to this one go on. *)
RunFails(c) ==
  /\ active' = Nobody
  /\ at' = [at EXCEPT ![Main(RunOf(c))] = "failed",
                      ![c] = IF IsTool(c) THEN "done" ELSE "failed"]
  /\ event' = IF IsTool(c) THEN Nobody ELSE event
  /\ step' = [step EXCEPT ![c] = 1]
  /\ awaited' = [awaited EXCEPT ![c] = NoContent]
  /\ UNCHANGED <<workflow, message, session, given, runVars>>

(* What a tool callback left in the context makes no text part.            *)
NoTextPasses(c) ==
  /\ at[c] \in {"input", "before", "after"}
  /\ message.form # "text"
  /\ RunFails(c)

EndCallback(c) ==
  /\ active = c
  /\ step[c] > Len(Steps(c))
  /\ \/ InputPasses(c) \/ RequestPasses(c) \/ ResponsePasses(c)
     \/ CallPasses(c) \/ ResultPasses(c) \/ NoTextPasses(c)
  /\ UNCHANGED drift

Raise(c, error) ==
  CASE at[c] = "input"  /\ error = "blocked" -> InputRefused(c)
    [] at[c] = "before" /\ error = "blocked" -> RequestRefused(c)
    [] at[c] = "call"   /\ error \in {"blocked", "fail"} -> ToolRefused(c)
    [] at[c] = "result" /\ error = "fail" -> ToolRefused(c)
    [] OTHER -> RunFails(c)

----------------------------------------------------------------------------
(* One action of a handler. *)

Action(c) == Steps(c)[step[c]]

Acts(c, op) ==
  /\ active = c
  /\ step[c] <= Len(Steps(c))
  /\ Action(c).op = op

Advance(c) ==
  /\ step' = [step EXCEPT ![c] = @ + 1]
  /\ UNCHANGED <<workflow, session, event, at, given, runVars>>

(* A custom guardrail makes a text of anything; pii leaves the arguments of*)
(* tools alone; what is not a guardrail that masks returns its input.      *)
Masked(content, guardrail) ==
  CASE guardrail \in Custom -> [content EXCEPT !.secrets = @ \ {guardrail}, !.form = "text"]
    [] guardrail = "pii" /\ guardrail \notin Custom /\ content.form # "args" ->
         [content EXCEPT !.secrets = @ \ {guardrail}]
    [] OTHER -> content

ApplyMask(c) ==
  /\ Acts(c, "mask")
  /\ Action(c).guardrail \notin Async
  /\ message' = Masked(message, Action(c).guardrail)
  /\ Advance(c)
  /\ UNCHANGED <<drift, active, awaited>>

(* An async guardrail gets the message as it is now, and other coroutines  *)
(* run until it answers.                                                   *)
AwaitGuardrail(c) ==
  /\ Acts(c, "mask") \/ Acts(c, "block") \/ Acts(c, "warn")
  /\ Action(c).guardrail \in Async
  /\ awaited' = [awaited EXCEPT ![c] = Masked(message, Action(c).guardrail)]
  /\ active' = Nobody
  /\ UNCHANGED <<workflow, ctxVars, at, step, given, runVars>>

Awaits(c) ==
  /\ active = Nobody
  /\ at[c] \in Callbacks
  /\ awaited[c] # NoContent

(* A custom guardrail fails, or Presidio is missing when a text holds what  *)
(* pii would mask.                                                         *)
GuardrailRaises(c) ==
  /\ \/ /\ Acts(c, "mask") \/ Acts(c, "block") \/ Acts(c, "warn")
        /\ Action(c).guardrail \notin Async
     \/ Awaits(c)
  /\ \/ Action(c).guardrail \in Custom
     \/ Action(c) = Mask("pii") /\ message.form # "args"
  /\ Raise(c, "other")
  /\ UNCHANGED drift

(* MUTANT: the answer is taken for the message as it is by then. *)
MaskArrives_Late(c) ==
  /\ Awaits(c)
  /\ Action(c).op = "mask"
  /\ message' = Masked(message, Action(c).guardrail)
  /\ active' = c
  /\ awaited' = [awaited EXCEPT ![c] = NoContent]
  /\ Advance(c)
  /\ UNCHANGED drift

(* ctx.message = await ... *)
MaskArrives(c) ==
  /\ Awaits(c)
  /\ Action(c).op = "mask"
  /\ message' = awaited[c]
  /\ active' = c
  /\ awaited' = [awaited EXCEPT ![c] = NoContent]
  /\ Advance(c)
  /\ UNCHANGED drift

VerdictArrives(c) ==
  /\ Awaits(c)
  /\ Action(c).op \in {"block", "warn"}
  /\ active' = c
  /\ awaited' = [awaited EXCEPT ![c] = NoContent]
  /\ Advance(c)
  /\ UNCHANGED <<message, drift>>

(* pii and names that are not registered never trigger. *)
MayTrigger(guardrail) == guardrail \in Custom \cup {"jailbreak", "mcp_guard"}

CheckPasses(c) ==
  /\ Acts(c, "block") \/ Acts(c, "warn")
  /\ Action(c).guardrail \notin Async \cup {"cognitive_drift"}
  /\ Advance(c)
  /\ UNCHANGED <<message, drift, active, awaited>>

CheckBlocks(c) ==
  /\ \/ Acts(c, "block") /\ Action(c).guardrail \notin Async
     \/ Awaits(c) /\ Action(c).op = "block"
  /\ MayTrigger(Action(c).guardrail)
  /\ Raise(c, "blocked")
  /\ UNCHANGED drift

(* The drift monitor compares the text with the last one of the session,   *)
(* and remembers it there; without a session it has nothing to compare.    *)
Baseline == session # NoSession /\ drift[session] # "none"

Remembers(c) ==
  drift' = IF session = NoSession THEN drift
           ELSE [drift EXCEPT ![session] = RunOf(message.from)]

DriftPasses(c) ==
  /\ Acts(c, "block") \/ Acts(c, "warn")
  /\ Action(c).guardrail = "cognitive_drift"
  /\ Remembers(c)
  /\ Advance(c)
  /\ UNCHANGED <<message, active, awaited>>

DriftBlocks(c) ==
  /\ Acts(c, "block")
  /\ Action(c).guardrail = "cognitive_drift"
  /\ Baseline
  /\ Remembers(c)
  /\ Raise(c, "blocked")

(* The statement is in an if whose condition does not hold. *)
ConditionFails(c) ==
  /\ Acts(c, "fail") \/ Acts(c, "retry")
  /\ Advance(c)
  /\ UNCHANGED <<message, drift, active, awaited>>

FailStatement(c)  == Acts(c, "fail")  /\ Raise(c, "fail")  /\ UNCHANGED drift
RetryStatement(c) == Acts(c, "retry") /\ Raise(c, "other") /\ UNCHANGED drift

(* Without an event the handler fails on ctx.vars["event"]. *)
ReadEvent(c) ==
  /\ Acts(c, "event")
  /\ IF event # Nobody
       THEN Advance(c) /\ UNCHANGED <<message, active, awaited>>
       ELSE Raise(c, "other")
  /\ UNCHANGED drift

HandlerActs(c) ==
  \/ ApplyMask(c) \/ GuardrailRaises(c) \/ AwaitGuardrail(c) \/ MaskArrives(c)
  \/ VerdictArrives(c) \/ CheckPasses(c) \/ CheckBlocks(c)
  \/ DriftPasses(c) \/ DriftBlocks(c)
  \/ ConditionFails(c) \/ FailStatement(c) \/ RetryStatement(c) \/ ReadEvent(c)
  \/ EndCallback(c)

----------------------------------------------------------------------------
(* ADK between the callbacks. A prompt, the arguments and the result of a  *)
(* tool hold what every guardrail masks, a reply may hold nothing of it.   *)

Raw(c, part) == Content(c, part, Masking)
Replies(r) == {Raw(Main(r), "reply"), Content(Main(r), "reply", {}), NoContent}

ReceivePrompt(r) ==
  /\ at[Main(r)] = "start"
  /\ LET prompt == Raw(Main(r), "prompt") IN
       IF Handled("input", r)
         THEN Enter(Main(r), "input", prompt) /\ UNCHANGED runVars
         ELSE /\ Skip(Main(r), "ready")
              /\ history' = [history EXCEPT ![r] = Append(@, Text(prompt))]
              /\ UNCHANGED <<request, response, rounds>>

(* before_model_callback looks for a text of the user, and has nothing to  *)
(* do when there is none.                                                  *)
AskModel(r) ==
  /\ at[Main(r)] = "ready"
  /\ IF Handled("before", r) /\ UserTexts(r) # {}
       THEN /\ Enter(Main(r), "before", history[r][LastOf(r, UserTexts(r))].body)
            /\ UNCHANGED runVars
       ELSE /\ Skip(Main(r), "model")
            /\ request' = [request EXCEPT ![r] = history[r]]
            /\ UNCHANGED <<history, response, rounds>>

(* The model answers with a text, with tool calls, or with both. *)
ModelAnswers(r) ==
  /\ active = Nobody
  /\ at[Main(r)] = "model"
  /\ rounds[r] < MaxRounds
  /\ rounds' = [rounds EXCEPT ![r] = @ + 1]
  /\ \E text \in Replies(r), calls \in 0..workflow.calls :
       /\ text = NoContent => calls > 0
       /\ calls > 0 => rounds'[r] < MaxRounds
       /\ response' = [response EXCEPT ![r] = [text |-> text, calls |-> calls]]
       /\ UNCHANGED request
       /\ IF Handled("after", r) /\ text # NoContent
            THEN Enter(Main(r), "after", text) /\ UNCHANGED history
            ELSE /\ history' = [history EXCEPT ![r] =
                      @ \o (IF text = NoContent THEN << >> ELSE <<Model(text)>>)
                        \o (IF calls = 0 THEN << >> ELSE <<Calls(calls)>>)]
                 /\ at' = Asked(r, calls)
                 /\ UNCHANGED <<workflow, ctxVars, active, step, given, awaited>>

CallTool(c) ==
  /\ at[c] = "asked"
  /\ IF Handled("call", RunOf(c))
       THEN Enter(c, "call", Raw(c, "args"))
       ELSE Skip(c, "tool")
  /\ UNCHANGED runVars

(* A tool may return nothing. *)
ToolRuns(c) ==
  /\ active = Nobody
  /\ at[c] = "tool"
  /\ at' = [at EXCEPT ![c] = "returned"]
  /\ \E result \in {Raw(c, "result"), NoContent} :
       given' = [given EXCEPT ![c] = result]
  /\ UNCHANGED <<workflow, ctxVars, active, step, awaited, runVars>>

(* What before_tool_callback returned in place of a result comes here, too.*)
CheckResult(c) ==
  /\ at[c] = "returned"
  /\ IF Handled("result", RunOf(c)) /\ given[c] # NoContent
       THEN Enter(c, "result", given[c])
       ELSE Skip(c, "done")
  /\ UNCHANGED runVars

JoinTools(r) ==
  /\ active = Nobody
  /\ at[Main(r)] = "tools"
  /\ \A c \in ToolsOf(r) : at[c] \in {"idle", "done"}
  /\ LET results == [i \in {i \in 1..MaxTools : at[<<r, i>>] = "done"} |-> given[<<r, i>>]]
     IN  history' = [history EXCEPT ![r] = Append(@, Results(results))]
  /\ at' = [c \in Coroutines |->
              IF c \in ToolsOf(r) THEN "idle" ELSE IF c = Main(r) THEN "ready" ELSE at[c]]
  /\ given' = [c \in Coroutines |-> IF c \in ToolsOf(r) THEN NoContent ELSE given[c]]
  /\ UNCHANGED <<workflow, ctxVars, active, step, awaited, request, response, rounds>>

Next ==
  \/ \E c \in Coroutines : HandlerActs(c) \/ CallTool(c) \/ ToolRuns(c) \/ CheckResult(c)
  \/ \E r \in Runs : ReceivePrompt(r) \/ AskModel(r) \/ ModelAnswers(r) \/ JoinTools(r)

(* Models, tools and guardrails answer, and the event loop runs. *)
Spec == Init /\ [][Next]_vars /\ WF_vars(Next)

----------------------------------------------------------------------------
(* A check that is awaited gives the context away: it goes on with the     *)
(* message, the session and the event another callback may have left there.*)
AwaitsVerdict(place, run) ==
  \E i \in DOMAIN StepsOf(place, run) :
    StepsOf(place, run)[i].op \in {"block", "warn"} /\ StepsOf(place, run)[i].guardrail \in Async

AwaitedBefore(c) == \E i \in DOMAIN Steps(c) : i < step[c] /\ Steps(c)[i].guardrail \in Async

(* The events of a run hold its own prompt, its own texts and, for each    *)
(* tool call, the result of that call, whatever other agents and tools put *)
(* into the shared context meanwhile, the time a mask is awaited included; *)
(* only where an event's handlers await a check may it be another's.       *)
Own(r, e) ==
  CASE e.kind = "text" /\ e.role = "user" ->
         AwaitsVerdict("input", r) \/ e.body.from = Main(r)
    [] e.kind = "text" /\ e.role = "model" ->
         AwaitsVerdict("after", r) \/ e.body.from = Main(r)
    [] e.kind = "results" ->
         \/ AwaitsVerdict("result", r)
         \/ \A i \in DOMAIN e.body : e.body[i] = NoContent \/ e.body[i].from = <<r, i>>
    [] OTHER -> TRUE

EveryoneGetsTheirOwn ==
  \A r \in Runs : \A i \in DOMAIN history[r] : Own(r, history[r][i])

(* $event describes the tool call whose handler reads it as long as that   *)
(* callback has awaited nothing, and nothing is left of it when the last   *)
(* callback of a tool has ended, however it did.                           *)
EventIsOwn ==
  /\ active # Nobody /\ IsTool(active) /\ ~AwaitedBefore(active) => event = active
  /\ event # Nobody => \E c \in Coroutines : at[c] \in {"call", "result"}

(* A text the drift monitor remembers for a session is one of that session,*)
(* whatever callbacks of other sessions ran before. It is not so where the *)
(* input is checked, as those callbacks do not set the session, nor after  *)
(* an await.                                                               *)
DriftStaysInItsSession ==
  [][\A s \in DOMAIN drift : drift'[s] # drift[s] =>
       \/ SessionOf[drift'[s]] = s
       \/ at[active] \in {"input", "before"}
       \/ AwaitedBefore(active)]_vars

(* What the handlers of an event mask is masked wherever it went through   *)
(* them: in no history does a prompt, a text or a result still hold it. A  *)
(* check that is awaited beside the mask may bring in another content.     *)
MaskedBy(place, run) ==
  IF AwaitsVerdict(place, run) THEN {}
  ELSE {g \in Masking : \E i \in DOMAIN StepsOf(place, run) : StepsOf(place, run)[i] = Mask(g)}

MaskedForGood ==
  \A r \in Runs : \A i \in DOMAIN history[r] :
    LET e == history[r][i] IN
      /\ e.kind = "text" /\ e.role = "user" => e.body.secrets \cap MaskedBy("input", r) = {}
      /\ e.kind = "text" /\ e.role = "model" => e.body.secrets \cap MaskedBy("after", r) = {}
      /\ e.kind = "results" =>
           \A j \in DOMAIN e.body : e.body[j].secrets \cap MaskedBy("result", r) = {}

============================================================================
