---------------------------- MODULE CompactingRun ----------------------------
(***************************************************************************)
(* CompactingRunner.run: an agent of a DSL workflow runs in a child session*)
(* of its own. The wrapper counts tokens as the events pass and, once the  *)
(* count reaches the threshold, closes the run, compacts the session and   *)
(* starts a new run with a message that asks the model to continue.        *)
(*                                                                         *)
(* The name of a child session says where in its flow the agent was called,*)
(* and no more: the invocations are counted from one in every turn, so that*)
(* a run finds whatever the runs of earlier turns left under its name,     *)
(* failed ones included, unless the flow seeds it with a history.          *)
(*                                                                         *)
(* A token is a unit of weight per kind of event. The count of the wrapper *)
(* is not the size of the session: an event of the model may report the    *)
(* usage of the whole call, its prompt included.                           *)
(***************************************************************************)
EXTENDS SessionEvents

CONSTANTS
  Strategies,   \* the strategies an agent may name in its definition
  KeepRecent,   \* keep_recent of the truncation strategy
  Threshold,    \* _calculate_threshold()
  Weight,       \* tokens of an event of each kind
  MaxCalls,     \* bound: tool calls of the agent before it stays with its answer
  Talks,        \* what an agent says beside each call: functions to tokens, 0 for nothing
  Histories,    \* the histories a flow may seed the session with
  MaxRuns       \* bound: runs of the agent under this name

ASSUME CompactingRunAssumption ==
  /\ Strategies \subseteq {"truncate", "summarize"}
  /\ KeepRecent \in Nat /\ Threshold \in Nat /\ MaxCalls \in Nat
  /\ Weight \in [TextKinds \cup ToolKinds -> Nat]
  /\ Talks \subseteq [1..MaxCalls -> Nat]
  /\ Histories \subseteq Seq([kind : {"user", "text"}, of : Turns])
  /\ MaxRuns \in Nat

VARIABLES
  pc,        \* "idle", "starting", "running", "checking", "compacting", "done"
  events,    \* the child session in the store
  tokens,    \* running_token_count
  message,   \* what the next run starts with: "prompt" or "continue"
  calls,     \* tool calls so far
  answered,  \* the agent has produced a final response in this run
  strategy,  \* the strategy of this agent
  talk,      \* what this agent says beside its calls
  said,      \* the texts of the events the run yielded
  history,   \* what was announced of them: the messages kept and the figures
  runs,      \* runs begun under this name
  failed     \* a run failed, and neither a history nor a summary replaced its events

runVars == <<pc, events, tokens, message, calls, answered, strategy>>
historyVars == <<talk, said, history>>
sessionVars == <<runs, failed>>
vars == <<runVars, historyVars, sessionVars>>

CONSTANTS
  Prompt, Continue, Answer, SummaryTag,   \* texts, told apart by Turns
  Window, SummarySize                     \* of HistoryCompaction

ASSUME HistoryAssumption ==
  /\ {Prompt, Continue, Answer, SummaryTag} \subseteq Turns
  /\ Window \in Nat /\ SummarySize \in Nat \ {0}

History == INSTANCE HistoryCompaction
Silent == [announced |-> FALSE]

Size(s) ==
  LET upTo[n \in 0..Len(s)] ==
        IF n = 0 THEN 0 ELSE upTo[n - 1] + Weight[s[n].kind]
  IN  upTo[Len(s)]

LastEvent == events[Len(events)]

TypeOK ==
  /\ pc \in {"idle", "starting", "running", "checking", "compacting", "done"}
  /\ events \in Seq(Event)
  /\ tokens \in Nat
  /\ message \in {Prompt, Continue}
  /\ calls \in 0..MaxCalls
  /\ answered \in BOOLEAN
  /\ strategy \in Strategies
  /\ runs \in 0..MaxRuns /\ failed \in BOOLEAN

Init ==
  /\ pc = "idle"
  /\ events = << >>
  /\ tokens = 0
  /\ message = Prompt
  /\ calls = 0
  /\ answered = FALSE
  /\ \E own, policy \in Strategies \cup {"none"} :
       strategy = History!GetHistoryStrategy(own, policy)
  /\ strategy # "none"   \* without one nothing wraps the runner
  /\ talk \in Talks
  /\ said = << >>
  /\ history = Silent
  /\ runs = 0
  /\ failed = FALSE

(* _execute_agent_run: the session is fetched or created, and its events   *)
(* are replaced by the history of the flow, if that has any. The wrapper   *)
(* starts its count with what it finds.                                    *)
RunAgent ==
  /\ pc = "idle"
  /\ runs < MaxRuns
  /\ runs' = runs + 1
  /\ \/ UNCHANGED <<events, failed>>
     \/ \E seed \in Histories \ {<< >>} : events' = seed /\ failed' = FALSE
  /\ tokens' = Size(events')
  /\ message' = Prompt
  /\ calls' = 0
  /\ answered' = FALSE
  /\ said' = << >>
  /\ history' = Silent
  /\ pc' = "starting"
  /\ UNCHANGED <<strategy, talk>>

(* The model, a tool or the summary raises, or the user interrupts: what   *)
(* was appended stays.                                                     *)
RunFails ==
  /\ pc \in {"starting", "running", "checking", "compacting"}
  /\ pc' = "idle"
  /\ failed' = TRUE
  /\ UNCHANGED <<events, tokens, message, calls, answered, strategy, historyVars, runs>>

(* Runner.run_async appends the new message; it is not yielded, so that    *)
(* the wrapper does not count it.                                          *)
StartRunner ==
  /\ pc = "starting"
  /\ events' = Append(events, UserText(message))
  /\ answered' = FALSE
  /\ pc' = "running"
  /\ UNCHANGED <<tokens, message, calls, strategy, historyVars, sessionVars>>

(* An event of the model counts as what its usage metadata reports (prompt *)
(* and response), or as its own estimate when it reports nothing.          *)
ModelYields(e) ==
  /\ events' = Append(events, e)
  /\ tokens' \in {tokens + Size(events'), tokens + Weight[e.kind]}
  /\ pc' = "checking"
  /\ UNCHANGED <<message, talk, history, sessionVars>>

CallTool ==
  /\ pc = "running"
  /\ ~IsToolCall(LastEvent)
  /\ calls < MaxCalls
  /\ \E t \in Tools : ModelYields(Call(t))
  /\ calls' = calls + 1
  /\ said' = Append(said, talk[calls'])
  /\ UNCHANGED <<answered, strategy>>

GiveAnswer ==
  /\ pc = "running"
  /\ ~IsToolCall(LastEvent)
  /\ ModelYields(AgentText(Answer))
  /\ answered' = TRUE
  /\ said' = Append(said, Weight["text"])
  /\ UNCHANGED <<calls, strategy>>

ToolReturns ==
  /\ pc = "running"
  /\ IsToolCall(LastEvent)
  /\ events' = Append(events, Result(LastEvent.of))
  /\ tokens' = tokens + Weight["result"]
  /\ pc' = "checking"
  /\ UNCHANGED <<message, calls, answered, strategy, historyVars, sessionVars>>

(* After each event: compact, unless it is a call whose result is due. *)
(* MUTANT: responses put compaction off as well as calls. *)
CompactionDue_NotInToolLoop ==
  tokens >= Threshold /\ LastEvent.kind \notin ToolKinds

CompactionDue == tokens >= Threshold /\ ~IsToolCall(LastEvent)

CheckThreshold ==
  /\ pc = "checking"
  /\ pc' = IF CompactionDue THEN "compacting"
           ELSE IF answered THEN "done" ELSE "running"
  /\ UNCHANGED <<events, tokens, message, calls, answered, strategy, historyVars, sessionVars>>

Compacted(s) ==
  IF strategy = "truncate" THEN Truncated(s, KeepRecent) ELSE Summarized(s, SummaryTag)

(* MUTANT: compacts until the count is low enough, and does not recount. *)
CompactAndRestart_UntilLow ==
  /\ pc = "compacting"
  /\ events'  = Compacted(events)
  /\ message' = Continue
  /\ pc' = IF tokens >= Threshold THEN "compacting" ELSE "starting"
  /\ UNCHANGED <<tokens, calls, answered, strategy, historyVars, sessionVars>>

CompactAndRestart ==
  /\ pc = "compacting"
  /\ events'  = Compacted(events)
  /\ tokens'  = Size(events')
  /\ message' = Continue
  /\ pc' = "starting"
  /\ failed' = (failed /\ strategy = "truncate")
  /\ UNCHANGED <<calls, answered, strategy, historyVars, runs>>

(* run_agent, once the run is over: check_and_compact_history looks at the *)
(* texts the run yielded and announces what it would keep of them.         *)
CheckHistory ==
  /\ pc = "done"
  /\ LET messages == History!ExtractMessages(said)
     IN  IF messages # << >> /\ History!ShouldCompact(messages)
           THEN \E kept \in History!Compactions(messages, strategy) :
                  history' = [announced |-> TRUE, kept |-> kept,
                              figures |-> History!Announcement(messages, kept)]
           ELSE history' = Silent
  /\ pc' = "idle"
  /\ UNCHANGED <<events, tokens, message, calls, answered, strategy, talk, said, sessionVars>>

Next ==
  \/ RunAgent \/ RunFails \/ StartRunner \/ CallTool \/ GiveAnswer \/ ToolReturns
  \/ CheckThreshold \/ CompactAndRestart \/ CheckHistory

(* The model and the tools answer; the agent stops calling tools. *)
Fairness ==
  /\ WF_vars(StartRunner)
  /\ WF_vars(GiveAnswer \/ CallTool)
  /\ WF_vars(ToolReturns)
  /\ WF_vars(CheckThreshold)
  /\ WF_vars(CompactAndRestart)
  /\ WF_vars(CheckHistory)

Spec == Init /\ [][Next]_vars /\ Fairness

----------------------------------------------------------------------------
(* The model is about to be called with the events of the session. *)
CallsModel == pc = "running" /\ ~IsToolCall(LastEvent)

(* Where truncation cuts: after the opening event it keeps.                *)
CutPlace == IF events[1].kind \in {"user", "system"} THEN 2 ELSE 1

(* Only failed runs and truncation break pairs, and truncation breaks one  *)
(* at most: at every model call, of any run under the name, every call has *)
(* its response and every response its call, but the first event after a   *)
(* cut. A summary mends what failed runs left.                             *)
CompactionKeepsPairs ==
  CallsModel /\ ~failed =>
    /\ \A i \in DOMAIN events : IsToolCall(events[i]) => i + 1 \in ResultsIn(events)
    /\ \A i \in ResultsIn(events) :
         AnsweredAt(events, i) \/ (strategy = "truncate" /\ i = CutPlace)

(* However far the count is from the truth, it is never so low that the    *)
(* model goes on with more than the threshold and the message the wrapper  *)
(* did not count. This says nothing of the first model call of a runner:   *)
(* nobody looks at the count before it.                                    *)
ContextFits ==
  CallsModel /\ LastEvent.kind # "user" => Size(events) < Threshold + Weight["user"]

(* Every run ends: compaction brings the session far enough below the      *)
(* threshold for the agent to answer before the next one is due.           *)
RunEnds == pc = "starting" ~> pc = "idle"

(* What truncation keeps, told without saying how: the first message and   *)
(* the longest ending of the rest that fits half the window with it, in    *)
(* its order and without a gap.                                            *)
KeptIsLongestEnding ==
  LET messages == History!ExtractMessages(said)
      Ending(n) == SubSeq(messages, Len(messages) - n + 1, Len(messages))
      Fits(n)   == messages[1].size + History!CountTokens(Ending(n)) <= Window \div 2
  IN  history.announced /\ strategy = "truncate" /\ Len(messages) > 4 =>
        \E n \in 0..(Len(messages) - 1) :
          /\ history.kept = <<messages[1]>> \o Ending(n)
          /\ n > 0 => Fits(n)
          /\ n < Len(messages) - 1 => ~Fits(n + 1)
============================================================================
