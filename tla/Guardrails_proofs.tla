------------------------- MODULE Guardrails_proofs -------------------------
(***************************************************************************)
(* The callbacks of the guardrail plugin share one context, and a callback *)
(* that awaits an async guardrail lets others use it meanwhile. For every  *)
(* program and any number of agents and tool calls: no mask that is awaited*)
(* lets contents be mixed up or a mask be undone, as its answer, made of   *)
(* the content of its own callback, takes the place of whatever others     *)
(* left; and the event and the session are those of the callback as long as*)
(* it has awaited nothing. Checks that are awaited give the context away.  *)
(*                                                                         *)
(* The proofs need to know who may be awaiting, and where: IInv. From there*)
(* on they follow one coroutine at a time, and a callback that awaits is   *)
(* left as it is by the steps of all others (NoNewAwaits).                 *)
(***************************************************************************)
EXTENDS Guardrails, ModelLoading, NaturalFacts, SequenceTheorems

(* The places of a tool call; all others are those of a run. *)
ToolPlaces == {"idle", "asked", "call", "tool", "returned", "result", "done"}

Fits(c, place) == place \in ToolPlaces <=> IsTool(c)

PlacesFit ==
  /\ at \in [Coroutines -> Places]
  /\ \A c \in Coroutines : Fits(c, at[c])

ActiveFits ==
  /\ active \in Coroutines \cup {Nobody}
  /\ active # Nobody => at[active] \in Callbacks

HandlersRun ==
  /\ workflow \in Workflows
  /\ step = [c \in Coroutines |-> step[c]]
  /\ \A c \in Coroutines : step[c] \in Nat \ {0}

(* Tool calls are under way only while their run waits for them, or failed.*)
ToolsRest ==
  \A c \in Coroutines : IsTool(c) /\ at[c] # "idle" => at[Main(RunOf(c))] \in {"tools", "failed"}

(* Who awaits a guardrail is in a callback, at the step that asks it.      *)
AwaitsFit ==
  /\ awaited = [c \in Coroutines |-> awaited[c]]
  /\ \A c \in Coroutines : awaited[c] # NoContent =>
       /\ at[c] \in Callbacks /\ active # c /\ step[c] \in DOMAIN Steps(c)
       /\ Action(c).op \in {"mask", "block", "warn"} /\ Action(c).guardrail \in Async

IInv == PlacesFit /\ ActiveFits /\ HandlersRun /\ ToolsRest /\ AwaitsFit

(* A step that leaves those that await alone, or ends their waiting.       *)
NoNewAwaits ==
  /\ awaited' = [c \in Coroutines |-> awaited'[c]]
  /\ \A c \in Coroutines : awaited'[c] # NoContent =>
       awaited'[c] = awaited[c] /\ at'[c] = at[c] /\ step'[c] = step[c] /\ active' # c

(* A callback that may be left: it runs, or what it awaits is there.       *)
InCallback(c) == active = c \/ Awaits(c)

LEMMA NobodyIsNoTool == ~IsTool(Nobody)
  BY DEF IsTool, Nobody

LEMMA MainIsNoTool ==
  ASSUME NEW r \in Runs
  PROVE  Main(r) \in Coroutines /\ ~IsTool(Main(r)) /\ RunOf(Main(r)) = r
  BY GuardrailsAssumption DEF Main, Coroutines, IsTool, RunOf

LEMMA MainOf ==
  ASSUME NEW c \in Coroutines
  PROVE  /\ RunOf(c) \in Runs /\ c # Nobody
         /\ ~IsTool(c) => c = Main(RunOf(c))
  BY GuardrailsAssumption DEF Coroutines, RunOf, IsTool, Main, Nobody

(* The actions of the handlers of a callback are in an order.              *)
LEMMA StepsAreASequence ==
  ASSUME workflow \in Workflows, NEW place \in Callbacks, NEW r
  PROVE  /\ StepsOf(place, r) \in Seq(Actions) /\ DOMAIN StepsOf(place, r) = 1..Len(StepsOf(place, r))
         /\ Len(StepsOf(place, r)) \in Nat
<1>1. \A name : ActionsOf(name) \in Seq(Actions)
  <2>1. << >> \in Seq(Actions)
    BY EmptySeq
  <2>2. QED
    BY <2>1, HandlersAssumption DEF ActionsOf
<1>2. \A p, q \in Seq(Actions) : p \o q \in Seq(Actions)
  BY ConcatProperties
<1> HIDE DEF Actions
<1>3. \A timing, kind : ToolSteps(timing, kind, r) \in Seq(Actions)
  BY <1>1, <1>2 DEF ToolSteps
<1>4. StepsOf(place, r) \in Seq(Actions)
  BY <1>1, <1>2, <1>3 DEF StepsOf, Callbacks
<1>5. QED
  BY <1>4, LenProperties

(* The handlers belong to the program, which stays.                        *)
LEMMA SameHandlers ==
  ASSUME workflow' = workflow
  PROVE  /\ \A place, r : StepsOf(place, r)' = StepsOf(place, r)
         /\ \A place, r : MaskedBy(place, r)' = MaskedBy(place, r)
         /\ \A place, r : AwaitsVerdict(place, r)' <=> AwaitsVerdict(place, r)
<1>1. \A name : ActionsOf(name)' = ActionsOf(name)
  BY DEF ActionsOf
<1>2. \A place, r : StepsOf(place, r)' = StepsOf(place, r)
  BY <1>1 DEF StepsOf, ToolSteps
<1>3. \A place, r : AwaitsVerdict(place, r)' <=> AwaitsVerdict(place, r)
  BY <1>2 DEF AwaitsVerdict
<1>4. \A place, r : MaskedBy(place, r)' = MaskedBy(place, r)
  BY <1>2, <1>3 DEF MaskedBy
<1>5. QED
  BY <1>2, <1>3, <1>4

(* Where a callback that may be left is.                                   *)
LEMMA CallbackPlace ==
  ASSUME IInv, NEW c \in Coroutines, InCallback(c)
  PROVE  /\ at[c] \in Callbacks /\ Fits(c, at[c]) /\ RunOf(c) \in Runs
         /\ ~IsTool(c) => c = Main(RunOf(c)) /\ at[c] \notin {"tools", "failed"}
         /\ IsTool(c) => at[c] # "idle"
<1>1. at[c] \in Callbacks /\ Fits(c, at[c])
  BY MainOf DEF IInv, PlacesFit, ActiveFits, InCallback, Awaits
<1>2. QED
  BY <1>1, MainOf DEF Callbacks

(* A coroutine that goes to a place of its kind leaves the places fitting: *)
(* a run is not waiting for tools then, and a tool call is under way.      *)
LEMMA MoveFits ==
  ASSUME IInv, NEW c \in Coroutines, NEW place \in Places, Fits(c, place),
         IsTool(c) => at[c] # "idle", ~IsTool(c) => at[c] \notin {"tools", "failed"},
         at' = [at EXCEPT ![c] = place]
  PROVE  PlacesFit' /\ ToolsRest'
<1>1. at' \in [Coroutines -> Places]
  BY DEF IInv, PlacesFit
<1>2. ASSUME NEW d \in Coroutines PROVE Fits(d, at'[d])
  BY DEF IInv, PlacesFit
<1>3. PlacesFit'
  BY <1>1, <1>2 DEF PlacesFit, Fits, IsTool
<1>4. at'[c] = place /\ \A d \in Coroutines : d # c => at'[d] = at[d]
  BY DEF IInv, PlacesFit
<1>5. ASSUME NEW d \in Coroutines, IsTool(d), at'[d] # "idle"
      PROVE  at'[Main(RunOf(d))] \in {"tools", "failed"}
  <2>1. RunOf(d) \in Runs /\ Main(RunOf(d)) \in Coroutines /\ ~IsTool(Main(RunOf(d)))
    BY MainOf, MainIsNoTool
  <2>2. at[d] # "idle"
    BY <1>4, <1>5
  <2>3. at[Main(RunOf(d))] \in {"tools", "failed"}
    BY <1>5, <2>2 DEF IInv, ToolsRest
  <2>4. Main(RunOf(d)) # c
    BY <2>1, <2>3
  <2>5. QED
    BY <1>4, <2>1, <2>3, <2>4
<1>6. QED
  BY <1>3, <1>5 DEF ToolsRest, IsTool, RunOf, Main

(* Those that await are still where they were.                             *)
LEMMA AwaitsStay ==
  ASSUME IInv, workflow' = workflow, NoNewAwaits
  PROVE  AwaitsFit'
<1>1. ASSUME NEW c \in Coroutines, awaited'[c] # NoContent
      PROVE  /\ at'[c] \in Callbacks /\ active' # c /\ step'[c] \in DOMAIN Steps(c)'
             /\ Action(c)'.op \in {"mask", "block", "warn"} /\ Action(c)'.guardrail \in Async
  <2>1. awaited[c] # NoContent /\ at'[c] = at[c] /\ step'[c] = step[c] /\ active' # c
    BY <1>1 DEF NoNewAwaits
  <2>2. Steps(c)' = Steps(c)
    BY <2>1, SameHandlers DEF Steps, RunOf
  <2>3. Action(c)' = Action(c)
    BY <2>1, <2>2 DEF Action
  <2>4. QED
    BY <2>1, <2>2, <2>3 DEF IInv, AwaitsFit
<1>2. QED
  BY <1>1 DEF AwaitsFit, NoNewAwaits, NoContent, Content, Nobody

(* One coroutine moves, and does not await: the others are left alone.     *)
LEMMA OneMoves ==
  ASSUME IInv, NEW c \in Coroutines, NEW place, at' = [at EXCEPT ![c] = place],
         awaited' = awaited \/ awaited' = [awaited EXCEPT ![c] = NoContent],
         awaited'[c] = NoContent,
         step' = step \/ step' = [step EXCEPT ![c] = 1], active' \in {c, Nobody}
  PROVE  NoNewAwaits
<1>1. awaited' = [d \in Coroutines |-> awaited'[d]]
  BY DEF IInv, AwaitsFit
<1>2. ASSUME NEW d \in Coroutines, awaited'[d] # NoContent
      PROVE  awaited'[d] = awaited[d] /\ at'[d] = at[d] /\ step'[d] = step[d] /\ active' # d
  <2>1. d # c /\ d # Nobody
    BY <1>2, MainOf
  <2>2. QED
    BY <2>1 DEF IInv, PlacesFit, HandlersRun, AwaitsFit
<1>3. QED
  BY <1>1, <1>2 DEF NoNewAwaits

LEMMA StepBegins ==
  ASSUME HandlersRun, workflow' = workflow,
         step' = step \/ \E c \in Coroutines : step' = [step EXCEPT ![c] = 1]
  PROVE  HandlersRun'
  BY DEF HandlersRun

LEMMA EnterKeeps ==
  ASSUME IInv, NEW c \in Coroutines, NEW place \in Callbacks, Fits(c, place),
         IsTool(c) => at[c] # "idle", at[c] \notin Callbacks \cup {"tools", "failed"},
         NEW content, Enter(c, place, content)
  PROVE  IInv' /\ NoNewAwaits
<1>1. /\ active' = c /\ UNCHANGED <<workflow, awaited>>
      /\ at' = [at EXCEPT ![c] = place] /\ step' = [step EXCEPT ![c] = 1]
  BY DEF Enter
<1>2. PlacesFit' /\ ToolsRest'
  BY <1>1, MoveFits DEF Places
<1>3. awaited[c] = NoContent
  BY DEF IInv, AwaitsFit
<1>4. NoNewAwaits
  BY <1>1, <1>3, OneMoves
<1>5. ActiveFits'
  BY <1>1 DEF ActiveFits, IInv, PlacesFit
<1>6. QED
  BY <1>1, <1>2, <1>4, <1>5, AwaitsStay, StepBegins DEF IInv

LEMMA SkipKeeps ==
  ASSUME IInv, NEW c \in Coroutines, NEW place \in Places, Fits(c, place),
         IsTool(c) => at[c] # "idle", at[c] \notin Callbacks \cup {"tools", "failed"},
         active = Nobody, at' = [at EXCEPT ![c] = place],
         UNCHANGED <<workflow, active, step, awaited>>
  PROVE  IInv' /\ NoNewAwaits
<1>1. PlacesFit' /\ ToolsRest'
  BY MoveFits
<1>2. awaited[c] = NoContent
  BY DEF IInv, AwaitsFit
<1>3. NoNewAwaits
  BY <1>2, OneMoves
<1>4. QED
  BY <1>1, <1>3, AwaitsStay, StepBegins DEF IInv, ActiveFits

LEMMA LeaveKeeps ==
  ASSUME IInv, NEW c \in Coroutines, InCallback(c), NEW place \in Places, Fits(c, place),
         Leave(c, place)
  PROVE  IInv' /\ NoNewAwaits
<1>1. /\ active' = Nobody /\ at' = [at EXCEPT ![c] = place] /\ step' = [step EXCEPT ![c] = 1]
      /\ awaited' = [awaited EXCEPT ![c] = NoContent] /\ UNCHANGED workflow
  BY DEF Leave
<1>2. PlacesFit' /\ ToolsRest'
  BY <1>1, CallbackPlace, MoveFits
<1>3. awaited'[c] = NoContent
  BY <1>1 DEF IInv, AwaitsFit
<1>4. NoNewAwaits
  BY <1>1, <1>3, OneMoves
<1>5. QED
  BY <1>1, <1>2, <1>4, AwaitsStay, StepBegins DEF IInv, ActiveFits

(* A run that fails takes its tool calls along, one way or the other.      *)
LEMMA RunFailsKeeps ==
  ASSUME IInv, NEW c \in Coroutines, InCallback(c), RunFails(c)
  PROVE  IInv' /\ NoNewAwaits
<1> DEFINE r == RunOf(c)
           last == IF IsTool(c) THEN "done" ELSE "failed"
<1>1. /\ r \in Runs /\ Main(r) \in Coroutines /\ ~IsTool(Main(r)) /\ RunOf(Main(r)) = r
      /\ ~IsTool(c) => c = Main(r)
  BY MainOf, MainIsNoTool
<1>2. /\ active' = Nobody /\ step' = [step EXCEPT ![c] = 1] /\ UNCHANGED workflow
      /\ awaited' = [awaited EXCEPT ![c] = NoContent]
      /\ at' = [at EXCEPT ![Main(r)] = "failed", ![c] = last]
  BY DEF RunFails
<1>3. /\ at' \in [Coroutines -> Places] /\ at'[c] = last /\ at'[Main(r)] = "failed"
      /\ \A d \in Coroutines : d # c /\ d # Main(r) => at'[d] = at[d]
  BY <1>1, <1>2 DEF IInv, PlacesFit, Places
<1>4. ASSUME NEW d \in Coroutines PROVE Fits(d, at'[d])
  BY <1>1, <1>3 DEF IInv, PlacesFit, Fits, ToolPlaces
<1>5. PlacesFit'
  BY <1>3, <1>4 DEF PlacesFit, Fits, IsTool
<1>6. ASSUME NEW d \in Coroutines, IsTool(d), at'[d] # "idle"
      PROVE  at'[Main(RunOf(d))] \in {"tools", "failed"}
  <2>1. CASE RunOf(d) = r
    BY <1>3, <2>1
  <2>2. CASE RunOf(d) # r
    <3>1. /\ Main(RunOf(d)) \in Coroutines /\ ~IsTool(Main(RunOf(d))) /\ RunOf(Main(RunOf(d))) = RunOf(d)
      BY MainOf, MainIsNoTool
    <3>2. at'[d] = at[d] /\ at'[Main(RunOf(d))] = at[Main(RunOf(d))]
      BY <1>1, <1>3, <2>2, <3>1
    <3>3. QED
      BY <1>6, <3>2 DEF IInv, ToolsRest
  <2>3. QED
    BY <2>1, <2>2
<1>7. ToolsRest'
  BY <1>6 DEF ToolsRest, IsTool, RunOf, Main
<1>8. IsTool(c) => awaited[Main(r)] = NoContent
  <2>1. IsTool(c) => at[Main(r)] \in {"tools", "failed"}
    BY CallbackPlace DEF IInv, ToolsRest
  <2>2. at[Main(r)] \in {"tools", "failed"} => at[Main(r)] \notin Callbacks
    BY DEF Callbacks
  <2>3. QED
    BY <1>1, <2>1, <2>2 DEF IInv, AwaitsFit
<1>9. ASSUME NEW d \in Coroutines, awaited'[d] # NoContent
      PROVE  awaited'[d] = awaited[d] /\ at'[d] = at[d] /\ step'[d] = step[d] /\ active' # d
  <2>1. d # c /\ awaited'[d] = awaited[d]
    BY <1>2, <1>9 DEF IInv, AwaitsFit
  <2>2. d # Main(r)
    BY <1>1, <1>8, <1>9, <2>1
  <2>3. d # Nobody
    BY MainOf
  <2>4. QED
    BY <1>2, <1>3, <2>1, <2>2, <2>3 DEF IInv, HandlersRun
<1>10. NoNewAwaits
  BY <1>2, <1>9 DEF NoNewAwaits, IInv, AwaitsFit
<1>11. QED
  BY <1>2, <1>5, <1>7, <1>10, AwaitsStay, StepBegins DEF IInv, ActiveFits

(* Whatever a handler raises, the callback is left. *)
LEMMA RaiseKeeps ==
  ASSUME IInv, NEW c \in Coroutines, InCallback(c), NEW error, Raise(c, error)
  PROVE  IInv' /\ NoNewAwaits
<1>1. Fits(c, at[c])
  BY DEF IInv, PlacesFit
<1>2. CASE at[c] = "input" /\ InputRefused(c)
  BY <1>1, <1>2, LeaveKeeps DEF InputRefused, Fits, ToolPlaces, Places
<1>3. CASE at[c] = "before" /\ RequestRefused(c)
  BY <1>1, <1>3, LeaveKeeps DEF RequestRefused, Fits, ToolPlaces, Places
<1>4. CASE at[c] \in {"call", "result"} /\ ToolRefused(c)
  BY <1>1, <1>4, LeaveKeeps DEF ToolRefused, Fits, ToolPlaces, Places
<1>5. CASE RunFails(c)
  BY <1>5, RunFailsKeeps
<1>6. \/ at[c] = "input" /\ InputRefused(c)
      \/ at[c] = "before" /\ RequestRefused(c)
      \/ at[c] \in {"call", "result"} /\ ToolRefused(c)
      \/ RunFails(c)
  BY DEF Raise
<1>7. QED
  BY <1>2, <1>3, <1>4, <1>5, <1>6

(* An action of a handler that goes on, after an await or without.         *)
LEMMA AdvanceKeeps ==
  ASSUME IInv, NEW c \in Coroutines, InCallback(c), Advance(c), active' = c,
         \/ awaited' = awaited /\ active = c
         \/ awaited' = [awaited EXCEPT ![c] = NoContent]
  PROVE  IInv' /\ NoNewAwaits
<1>1. UNCHANGED <<workflow, at>> /\ step' = [step EXCEPT ![c] = @ + 1]
  BY DEF Advance
<1>2. PlacesFit' /\ ToolsRest' /\ ActiveFits' /\ HandlersRun'
  <2>1. ActiveFits'
    BY <1>1, CallbackPlace DEF ActiveFits
  <2>2. PlacesFit' /\ ToolsRest'
    BY <1>1 DEF IInv, PlacesFit, ToolsRest, Fits, IsTool, RunOf, Main
  <2>3. HandlersRun'
    BY <1>1 DEF IInv, HandlersRun
  <2>4. QED
    BY <2>1, <2>2, <2>3
<1>3. awaited'[c] = NoContent
  BY DEF IInv, AwaitsFit
<1>4. ASSUME NEW d \in Coroutines, awaited'[d] # NoContent
      PROVE  awaited'[d] = awaited[d] /\ at'[d] = at[d] /\ step'[d] = step[d] /\ active' # d
  <2>1. d # c
    BY <1>3, <1>4
  <2>2. QED
    BY <1>1, <2>1 DEF IInv, HandlersRun, AwaitsFit
<1>5. NoNewAwaits
  BY <1>4 DEF NoNewAwaits, IInv, AwaitsFit
<1>6. QED
  BY <1>1, <1>2, <1>5, AwaitsStay DEF IInv

(* A callback begins to await.                                             *)
LEMMA AwaitKeeps ==
  ASSUME IInv, NEW c \in Coroutines, AwaitGuardrail(c)
  PROVE  IInv'
<1>1. /\ active = c /\ active' = Nobody /\ UNCHANGED <<workflow, at, step>>
      /\ \E m : awaited' = [awaited EXCEPT ![c] = m]
      /\ step[c] <= Len(Steps(c)) /\ Action(c).op \in {"mask", "block", "warn"}
      /\ Action(c).guardrail \in Async
  BY DEF AwaitGuardrail, Acts
<1>2. at[c] \in Callbacks /\ step[c] \in Nat \ {0}
  BY <1>1, CallbackPlace DEF InCallback, IInv, HandlersRun
<1>3. step[c] \in DOMAIN Steps(c)
  BY <1>1, <1>2, StepsAreASequence DEF Steps, IInv, HandlersRun
<1>4. \A d \in Coroutines : Steps(d)' = Steps(d) /\ Action(d)' = Action(d)
  BY <1>1, SameHandlers DEF Steps, Action, RunOf
<1>5. PlacesFit' /\ ToolsRest' /\ HandlersRun'
  BY <1>1 DEF IInv, PlacesFit, ToolsRest, HandlersRun, Fits, IsTool, RunOf, Main
<1>6. \A d \in Coroutines : d # Nobody /\ (d # c => awaited'[d] = awaited[d])
  BY <1>1, MainOf DEF IInv, AwaitsFit
<1>7. ASSUME NEW d \in Coroutines, awaited'[d] # NoContent
      PROVE  /\ at'[d] \in Callbacks /\ active' # d /\ step'[d] \in DOMAIN Steps(d)'
             /\ Action(d)'.op \in {"mask", "block", "warn"} /\ Action(d)'.guardrail \in Async
  <2>1. CASE d = c
    BY <1>1, <1>2, <1>3, <1>4, <1>6, <2>1
  <2>2. CASE d # c
    BY <1>1, <1>4, <1>6, <1>7, <2>2 DEF IInv, AwaitsFit
  <2>3. QED
    BY <2>1, <2>2
<1>8. awaited' = [d \in Coroutines |-> awaited'[d]]
  BY <1>1 DEF IInv, AwaitsFit
<1>9. AwaitsFit'
  BY <1>7, <1>8 DEF AwaitsFit, NoContent, Content, Nobody
<1>10. QED
  BY <1>1, <1>5, <1>9 DEF IInv, ActiveFits

(* The model has answered: only tool calls are asked, and only the run     *)
(* itself goes on without them.                                            *)
LEMMA AskedKeeps ==
  ASSUME IInv, NEW r \in Runs, at[Main(r)] \notin {"tools", "failed"}, awaited[Main(r)] = NoContent,
         NEW asks, at' = Asked(r, asks), active' = Nobody, UNCHANGED <<workflow, awaited>>,
         step' = step \/ step' = [step EXCEPT ![Main(r)] = 1]
  PROVE  IInv' /\ NoNewAwaits
<1>1. Main(r) \in Coroutines /\ ~IsTool(Main(r)) /\ RunOf(Main(r)) = r
  BY MainIsNoTool
<1>2. \A c \in Coroutines : IsTool(c) /\ RunOf(c) = r => at[c] = "idle"
  BY DEF IInv, ToolsRest
<1>3. \A c \in Coroutines : /\ RunOf(c) # r => at'[c] = at[c]
                            /\ IsTool(c) /\ RunOf(c) = r => at'[c] = IF c[2] <= asks THEN "asked" ELSE "idle"
  BY <1>1, <1>2 DEF Asked
<1>4. at'[Main(r)] = IF asks = 0 THEN "ended" ELSE "tools"
  BY <1>1 DEF Asked
<1>5. ASSUME NEW c \in Coroutines PROVE at'[c] \in Places /\ Fits(c, at'[c])
  <2>1. CASE RunOf(c) # r
    BY <1>3, <2>1 DEF IInv, PlacesFit
  <2>2. CASE RunOf(c) = r /\ IsTool(c)
    BY <1>3, <2>2 DEF Fits, ToolPlaces, Places
  <2>3. CASE RunOf(c) = r /\ ~IsTool(c)
    <3>1. c = Main(r)
      BY <2>3, MainOf
    <3>2. QED
      BY <1>4, <2>3, <3>1 DEF Fits, ToolPlaces, Places
  <2>4. QED
    BY <2>1, <2>2, <2>3
<1>6. PlacesFit'
  <2>1. at' \in [Coroutines -> Places]
    BY <1>5 DEF Asked
  <2>2. QED
    BY <1>5, <2>1 DEF PlacesFit, Fits, IsTool
<1>7. \A c \in Coroutines : IsTool(c) => ~(c[2] <= 0)
  BY GuardrailsAssumption DEF Coroutines, IsTool
<1>8. ASSUME NEW c \in Coroutines, IsTool(c), at'[c] # "idle"
      PROVE  at'[Main(RunOf(c))] \in {"tools", "failed"}
  <2>1. CASE RunOf(c) = r
    BY <1>3, <1>4, <1>7, <1>8, <2>1
  <2>2. CASE RunOf(c) # r
    <3>1. RunOf(Main(RunOf(c))) = RunOf(c) /\ Main(RunOf(c)) \in Coroutines
      BY MainOf, MainIsNoTool
    <3>2. QED
      BY <1>3, <1>8, <2>2, <3>1 DEF IInv, ToolsRest
  <2>3. QED
    BY <2>1, <2>2
<1>9. ToolsRest'
  BY <1>8 DEF ToolsRest, IsTool, RunOf, Main
<1>10. ASSUME NEW c \in Coroutines, awaited'[c] # NoContent
       PROVE  awaited'[c] = awaited[c] /\ at'[c] = at[c] /\ step'[c] = step[c] /\ active' # c
  <2>1. c # Main(r) /\ c # Nobody /\ at[c] \in Callbacks
    BY <1>10, MainOf DEF IInv, AwaitsFit
  <2>2. RunOf(c) # r
    BY <1>2, <2>1, MainOf DEF Callbacks
  <2>3. QED
    BY <1>3, <2>1, <2>2 DEF IInv, HandlersRun
<1>11. NoNewAwaits
  BY <1>10 DEF NoNewAwaits, IInv, AwaitsFit
<1>12. QED
  BY <1>1, <1>6, <1>9, <1>11, AwaitsStay, StepBegins DEF IInv, ActiveFits

LEMMA EndKeeps ==
  ASSUME IInv, NEW c \in Coroutines, EndCallback(c)
  PROVE  IInv' /\ NoNewAwaits
<1>1. active = c /\ InCallback(c) /\ Fits(c, at[c])
  BY DEF EndCallback, IInv, PlacesFit, InCallback
<1>2. CASE InputPasses(c)
  BY <1>1, <1>2, LeaveKeeps DEF InputPasses, Fits, ToolPlaces, Places
<1>3. CASE RequestPasses(c)
  BY <1>1, <1>3, LeaveKeeps DEF RequestPasses, Fits, ToolPlaces, Places
<1>4. CASE ResponsePasses(c)
  <2> DEFINE r == RunOf(c)
             asks == IF Changed(c) THEN 0 ELSE response[r].calls
  <2>1. c = Main(r) /\ r \in Runs /\ at[c] = "after"
    BY <1>1, <1>4, MainOf DEF ResponsePasses, Fits, ToolPlaces
  <2>2. /\ at' = Asked(r, asks) /\ active' = Nobody /\ UNCHANGED <<workflow, awaited>>
        /\ step' = [step EXCEPT ![c] = 1]
    BY <1>4 DEF ResponsePasses
  <2>3. awaited[c] = NoContent
    BY <1>1 DEF IInv, AwaitsFit
  <2> HIDE DEF asks
  <2>4. QED
    BY <2>1, <2>2, <2>3, AskedKeeps
<1>5. CASE CallPasses(c)
  BY <1>1, <1>5, LeaveKeeps DEF CallPasses, Fits, ToolPlaces, Places
<1>6. CASE ResultPasses(c)
  BY <1>1, <1>6, LeaveKeeps DEF ResultPasses, Fits, ToolPlaces, Places
<1>7. CASE NoTextPasses(c)
  BY <1>1, <1>7, RunFailsKeeps DEF NoTextPasses
<1>8. QED
  BY <1>2, <1>3, <1>4, <1>5, <1>6, <1>7 DEF EndCallback

(* Only a guardrail that is asked begins to be awaited.                    *)
LEMMA HandlerKeeps ==
  ASSUME IInv, NEW c \in Coroutines, HandlerActs(c)
  PROVE  IInv' /\ (AwaitGuardrail(c) \/ NoNewAwaits)
<1>1. active = c => InCallback(c)
  BY DEF InCallback
<1>2. CASE ApplyMask(c)
  BY <1>1, <1>2, AdvanceKeeps DEF ApplyMask, Acts
<1>3. CASE GuardrailRaises(c)
  BY <1>1, <1>3, RaiseKeeps DEF GuardrailRaises, Acts, InCallback
<1>4. CASE AwaitGuardrail(c)
  BY <1>4, AwaitKeeps
<1>5. CASE MaskArrives(c) \/ VerdictArrives(c)
  BY <1>5, AdvanceKeeps DEF MaskArrives, VerdictArrives, InCallback
<1>6. CASE CheckPasses(c)
  BY <1>1, <1>6, AdvanceKeeps DEF CheckPasses, Acts
<1>7. CASE CheckBlocks(c)
  BY <1>1, <1>7, RaiseKeeps DEF CheckBlocks, Acts, InCallback
<1>8. CASE DriftPasses(c)
  BY <1>1, <1>8, AdvanceKeeps DEF DriftPasses, Acts
<1>9. CASE DriftBlocks(c)
  BY <1>1, <1>9, RaiseKeeps DEF DriftBlocks, Acts
<1>10. CASE ConditionFails(c)
  BY <1>1, <1>10, AdvanceKeeps DEF ConditionFails, Acts
<1>11. CASE FailStatement(c)
  BY <1>1, <1>11, RaiseKeeps DEF FailStatement, Acts
<1>12. CASE RetryStatement(c)
  BY <1>1, <1>12, RaiseKeeps DEF RetryStatement, Acts
<1>13. CASE ReadEvent(c)
  <2>1. CASE Advance(c) /\ UNCHANGED <<message, active, awaited>>
    BY <1>1, <1>13, <2>1, AdvanceKeeps DEF ReadEvent, Acts
  <2>2. CASE Raise(c, "other")
    BY <1>1, <1>13, <2>2, RaiseKeeps DEF ReadEvent, Acts
  <2>3. QED
    BY <1>13, <2>1, <2>2 DEF ReadEvent
<1>14. CASE EndCallback(c)
  BY <1>14, EndKeeps
<1>15. QED
  BY <1>2, <1>3, <1>4, <1>5, <1>6, <1>7, <1>8, <1>9, <1>10, <1>11, <1>12, <1>13, <1>14
  DEF HandlerActs

LEMMA ToolKeeps ==
  ASSUME IInv, NEW c \in Coroutines, CallTool(c) \/ ToolRuns(c) \/ CheckResult(c)
  PROVE  IInv' /\ NoNewAwaits
<1>1. at[c] \in {"asked", "tool", "returned"} /\ Fits(c, at[c])
  BY DEF CallTool, ToolRuns, CheckResult, IInv, PlacesFit
<1>2. IsTool(c) /\ at[c] # "idle" /\ at[c] \notin Callbacks \cup {"tools", "failed"}
  BY <1>1 DEF Fits, ToolPlaces, Callbacks
<1>3. \A place \in ToolPlaces : place \in Places /\ Fits(c, place)
  BY <1>2 DEF Fits, ToolPlaces, Places, Callbacks
<1>4. {"call", "tool", "returned", "result", "done"} \subseteq ToolPlaces /\ {"call", "result"} \subseteq Callbacks
  BY DEF ToolPlaces, Callbacks
<1>5. ASSUME NEW place \in ToolPlaces, Skip(c, place)
      PROVE  IInv' /\ NoNewAwaits
  BY <1>2, <1>3, <1>5, SkipKeeps DEF Skip
<1>6. CASE CallTool(c)
  <2>1. CASE Enter(c, "call", Raw(c, "args"))
    BY <1>2, <1>3, <1>4, <2>1, EnterKeeps
  <2>2. QED
    BY <1>4, <1>5, <1>6, <2>1 DEF CallTool
<1>7. CASE ToolRuns(c)
  BY <1>2, <1>3, <1>4, <1>7, SkipKeeps DEF ToolRuns
<1>8. CASE CheckResult(c)
  <2>1. CASE Enter(c, "result", given[c])
    BY <1>2, <1>3, <1>4, <2>1, EnterKeeps
  <2>2. QED
    BY <1>4, <1>5, <1>8, <2>1 DEF CheckResult
<1>9. QED
  BY <1>6, <1>7, <1>8

(* The results of the tools are put together, and the run goes on.         *)
LEMMA JoinKeeps ==
  ASSUME IInv, NEW r \in Runs, JoinTools(r)
  PROVE  IInv' /\ NoNewAwaits
<1> DEFINE c == Main(r)
<1>1. /\ active = Nobody /\ at[c] = "tools" /\ UNCHANGED <<workflow, active, step, awaited>>
      /\ \A d \in ToolsOf(r) : at[d] \in {"idle", "done"}
      /\ at' = [d \in Coroutines |->
                  IF d \in ToolsOf(r) THEN "idle" ELSE IF d = c THEN "ready" ELSE at[d]]
  BY DEF JoinTools
<1>2. c \in Coroutines /\ ~IsTool(c) /\ RunOf(c) = r
  BY MainIsNoTool
<1>3. /\ \A d \in Coroutines : IsTool(d) /\ RunOf(d) = r => at'[d] = "idle"
      /\ at'[c] = "ready"
      /\ \A d \in Coroutines : RunOf(d) # r => at'[d] = at[d]
  BY <1>1, <1>2 DEF ToolsOf
<1>4. ASSUME NEW d \in Coroutines PROVE at'[d] \in Places /\ Fits(d, at'[d])
  <2>1. CASE RunOf(d) # r
    BY <1>3, <2>1 DEF IInv, PlacesFit
  <2>2. CASE RunOf(d) = r
    BY <1>3, <2>2, MainOf DEF Fits, ToolPlaces, Places
  <2>3. QED
    BY <2>1, <2>2
<1>5. PlacesFit'
  <2>1. at' \in [Coroutines -> Places]
    BY <1>1, <1>4
  <2>2. QED
    BY <1>4, <2>1 DEF PlacesFit, Fits, IsTool
<1>6. ASSUME NEW d \in Coroutines, IsTool(d), at'[d] # "idle"
      PROVE  at'[Main(RunOf(d))] \in {"tools", "failed"}
  <2>1. RunOf(d) # r /\ Main(RunOf(d)) \in Coroutines /\ RunOf(Main(RunOf(d))) = RunOf(d)
    BY <1>3, <1>6, MainOf, MainIsNoTool
  <2>2. QED
    BY <1>3, <1>6, <2>1 DEF IInv, ToolsRest
<1>7. ToolsRest'
  BY <1>6 DEF ToolsRest, IsTool, RunOf, Main
<1>8. ASSUME NEW d \in Coroutines, awaited'[d] # NoContent
      PROVE  awaited'[d] = awaited[d] /\ at'[d] = at[d] /\ step'[d] = step[d] /\ active' # d
  <2>1. at[d] \in Callbacks /\ d # Nobody
    BY <1>1, <1>8, MainOf DEF IInv, AwaitsFit
  <2>2. d \notin ToolsOf(r) /\ d # c
    BY <1>1, <2>1 DEF Callbacks
  <2>3. QED
    BY <1>1, <2>1, <2>2
<1>9. NoNewAwaits
  BY <1>1, <1>8 DEF NoNewAwaits, IInv, AwaitsFit
<1>10. QED
  BY <1>1, <1>5, <1>7, <1>9, AwaitsStay, StepBegins DEF IInv, ActiveFits

LEMMA RunKeeps ==
  ASSUME IInv, NEW r \in Runs, ReceivePrompt(r) \/ AskModel(r) \/ ModelAnswers(r)
  PROVE  IInv' /\ NoNewAwaits
<1> DEFINE c == Main(r)
<1>1. c \in Coroutines /\ ~IsTool(c) /\ RunOf(c) = r
  BY MainIsNoTool
<1>2. at[c] \notin Callbacks \cup {"tools", "failed"} /\ awaited[c] = NoContent
  <2>1. at[c] \in {"start", "ready", "model"}
    BY DEF ReceivePrompt, AskModel, ModelAnswers
  <2>2. QED
    BY <1>1, <2>1 DEF Callbacks, IInv, AwaitsFit
<1>3. \A place \in {"input", "before", "after", "ready", "model"} :
        place \in Places /\ Fits(c, place)
  BY <1>1 DEF Fits, ToolPlaces, Places, Callbacks
<1>4. {"input", "before", "after"} \subseteq Callbacks
  BY DEF Callbacks
<1>5. ASSUME NEW place \in {"ready", "model"}, Skip(c, place)
      PROVE  IInv' /\ NoNewAwaits
  BY <1>1, <1>2, <1>3, <1>5, SkipKeeps DEF Skip
<1>6. ASSUME NEW place \in {"input", "before", "after"}, NEW content, Enter(c, place, content)
      PROVE  IInv' /\ NoNewAwaits
  BY <1>1, <1>2, <1>3, <1>4, <1>6, EnterKeeps
<1>7. CASE ReceivePrompt(r)
  BY <1>5, <1>6, <1>7 DEF ReceivePrompt
<1>8. CASE AskModel(r)
  BY <1>5, <1>6, <1>8 DEF AskModel
<1>9. CASE ModelAnswers(r)
  <2>1. \/ \E text : Enter(c, "after", text)
        \/ /\ \E asks : at' = Asked(r, asks)
           /\ active = Nobody /\ UNCHANGED <<workflow, active, step, awaited>>
    BY <1>9 DEF ModelAnswers
  <2>2. CASE \E text : Enter(c, "after", text)
    BY <1>6, <2>2
  <2>3. CASE (\E asks : at' = Asked(r, asks)) /\ active = Nobody /\ UNCHANGED <<workflow, active, step, awaited>>
    BY <1>2, <2>3, AskedKeeps
  <2>4. QED
    BY <2>1, <2>2, <2>3
<1>10. QED
  BY <1>7, <1>8, <1>9

LEMMA NextKeeps ==
  ASSUME IInv, [Next]_vars
  PROVE  IInv' /\ (NoNewAwaits \/ \E c \in Coroutines : AwaitGuardrail(c))
<1>1. CASE \E c \in Coroutines : HandlerActs(c)
  BY <1>1, HandlerKeeps
<1>2. CASE \E c \in Coroutines : CallTool(c) \/ ToolRuns(c) \/ CheckResult(c)
  BY <1>2, ToolKeeps
<1>3. CASE \E r \in Runs : ReceivePrompt(r) \/ AskModel(r) \/ ModelAnswers(r)
  BY <1>3, RunKeeps
<1>4. CASE \E r \in Runs : JoinTools(r)
  BY <1>4, JoinKeeps
<1>5. CASE UNCHANGED vars
  <2>1. UNCHANGED <<workflow, active, at, step, awaited>>
    BY <1>5 DEF vars, ctxVars, callVars
  <2>2. PlacesFit' /\ ToolsRest' /\ HandlersRun' /\ ActiveFits'
    BY <2>1 DEF IInv, PlacesFit, ToolsRest, HandlersRun, ActiveFits, Fits, IsTool, RunOf, Main
  <2>3. NoNewAwaits
    BY <2>1 DEF NoNewAwaits, IInv, AwaitsFit
  <2>4. QED
    BY <2>1, <2>2, <2>3, AwaitsStay DEF IInv
<1>6. QED
  BY <1>1, <1>2, <1>3, <1>4, <1>5 DEF Next

(* Where coroutines are, what they await and what is active fit together.  *)
LEMMA PlacesInvariant == Spec => []IInv
<1>1. Init => IInv
  <2> SUFFICES ASSUME Init PROVE IInv
    OBVIOUS
  <2>1. \A c \in Coroutines : at[c] \in Places /\ Fits(c, at[c])
    BY DEF Init, Fits, ToolPlaces, Places
  <2>2. at \in [Coroutines -> Places]
    BY <2>1 DEF Init
  <2>3. ToolsRest
    BY DEF Init, ToolsRest
  <2>4. QED
    BY <2>1, <2>2, <2>3 DEF Init, IInv, PlacesFit, ActiveFits, HandlersRun, AwaitsFit
<1>2. IInv /\ [Next]_vars => IInv'
  BY NextKeeps
<1>3. QED
  BY <1>1, <1>2, PTL DEF Spec

----------------------------------------------------------------------------
(* Contents and whom they belong to. *)

IsContent(m) == m = [from |-> m.from, part |-> m.part, secrets |-> m.secrets, form |-> m.form]

(* The callback has awaited a check, and may find the message of another.  *)
VerdictAwaited(c) ==
  \E i \in DOMAIN Steps(c) :
    i < step[c] /\ Steps(c)[i].op \in {"block", "warn"} /\ Steps(c)[i].guardrail \in Async

(* What is left in a history by an earlier check comes back to the handlers*)
(* of a request.                                                           *)
Shared(c) == at[c] = "before" \/ VerdictAwaited(c)

OwnAt(c, place, m) == m.from = c /\ (place # "call" => m.form # "args")

OwnMessage(c, m) == OwnAt(c, at[c], m)

MessageIsOwn ==
  /\ IsContent(message)
  /\ active # Nobody /\ ~Shared(active) => OwnMessage(active, message)

AwaitedIsOwn ==
  \A c \in Coroutines : awaited[c] # NoContent =>
    IsContent(awaited[c]) /\ (~Shared(c) => OwnMessage(c, awaited[c]))

GivenIsOwn ==
  /\ given = [c \in Coroutines |-> given[c]]
  /\ \A c \in Coroutines : IsTool(c) =>
       /\ IsContent(given[c])
       /\ \/ given[c] = NoContent
          \/ given[c].from = c
          \/ at[c] = "done" /\ AwaitsVerdict("result", RunOf(c))

OwnEntry(r, e) ==
  \/ /\ e.kind = "text" /\ e.role = "user" /\ IsContent(e.body)
     /\ AwaitsVerdict("input", r) \/ e.body.from = Main(r)
  \/ /\ e.kind = "text" /\ e.role = "model" /\ IsContent(e.body)
     /\ AwaitsVerdict("after", r) \/ e.body.from = Main(r)
  \/ e.kind = "calls"
  \/ /\ e.kind = "results"
     /\ \/ AwaitsVerdict("result", r)
        \/ \A i \in DOMAIN e.body : e.body[i] = NoContent \/ e.body[i].from = <<r, i>>

OwnEntries(r, s) == \E S : s \in Seq(S) /\ \A e \in S : OwnEntry(r, e)

HistoryIsOwn ==
  /\ history = [r \in Runs |-> history[r]]
  /\ \A r \in Runs : OwnEntries(r, history[r])

OwnInv == MessageIsOwn /\ AwaitedIsOwn /\ GivenIsOwn /\ HistoryIsOwn

LEMMA ContentIs ==
  ASSUME NEW c, NEW part, NEW secrets
  PROVE  /\ IsContent(Content(c, part, secrets)) /\ Content(c, part, secrets).from = c
         /\ Content(c, part, secrets).secrets = secrets
  BY DEF IsContent, Content

LEMMA AsIs ==
  ASSUME NEW m, IsContent(m), NEW place \in Callbacks
  PROVE  /\ IsContent(As(place, m)) /\ As(place, m).from = m.from /\ As(place, m).secrets = m.secrets
         /\ place # "call" => As(place, m).form # "args"
  BY DEF IsContent, As, FormAt, Callbacks

(* What a mask makes of a content.                                         *)
LEMMA MaskTakes ==
  ASSUME NEW m, IsContent(m), NEW guardrail
  PROVE  /\ IsContent(Masked(m, guardrail)) /\ Masked(m, guardrail).from = m.from
         /\ \A g : g \in Masked(m, guardrail).secrets => g \in m.secrets
         /\ m.form # "args" => /\ Masked(m, guardrail).form # "args"
                               /\ guardrail \in Masking => guardrail \notin Masked(m, guardrail).secrets
<1>1. CASE guardrail \in Custom
  <2>1. Masked(m, guardrail) = [m EXCEPT !.secrets = @ \ {guardrail}, !.form = "text"]
    BY <1>1 DEF Masked
  <2>2. QED
    BY <2>1 DEF IsContent
<1>2. CASE guardrail \notin Custom /\ guardrail = "pii" /\ m.form # "args"
  <2>1. Masked(m, guardrail) = [m EXCEPT !.secrets = @ \ {guardrail}]
    BY <1>2 DEF Masked
  <2>2. QED
    BY <1>2, <2>1 DEF IsContent
<1>3. CASE guardrail \notin Custom /\ ~(guardrail = "pii" /\ m.form # "args")
  <2>1. Masked(m, guardrail) = m
    BY <1>3 DEF Masked
  <2>2. QED
    BY <1>3, <2>1 DEF Masking
<1>4. QED
  BY <1>1, <1>2, <1>3

(* The entries of a history are judged by the program, which stays.        *)
LEMMA SameEntries ==
  ASSUME workflow' = workflow
  PROVE  /\ \A r, e : OwnEntry(r, e)' <=> OwnEntry(r, e)
         /\ \A r, s : OwnEntries(r, s)' <=> OwnEntries(r, s)
<1>1. \A r, e : OwnEntry(r, e)' <=> OwnEntry(r, e)
  BY SameHandlers DEF OwnEntry, IsContent, Main, NoContent, Content, Nobody
<1>2. \A r, s : OwnEntries(r, s)' <=> OwnEntries(r, s)
  BY <1>1 DEF OwnEntries
<1>3. QED
  BY <1>1, <1>2

(* What a callback awaited stays behind it.                                *)
LEMMA StepGrows ==
  ASSUME IInv, NEW c \in Coroutines, at[c] \in Callbacks, workflow' = workflow, at' = at,
         step' = [step EXCEPT ![c] = @ + 1]
  PROVE  /\ step[c] \in Nat /\ step'[c] = step[c] + 1
         /\ Steps(c)' = Steps(c)
         /\ VerdictAwaited(c) => VerdictAwaited(c)'
         /\ AwaitedBefore(c) => AwaitedBefore(c)'
         /\ DOMAIN Steps(c) \subseteq Nat \ {0}
<1>1. step[c] \in Nat /\ step'[c] = step[c] + 1
  BY DEF IInv, HandlersRun
<1>2. Steps(c)' = Steps(c)
  BY SameHandlers DEF Steps, RunOf
<1>3. DOMAIN Steps(c) \subseteq Nat \ {0}
  BY StepsAreASequence DEF Steps, IInv, HandlersRun
<1>4. ASSUME VerdictAwaited(c) PROVE VerdictAwaited(c)'
  <2>1. PICK i \in DOMAIN Steps(c) :
          i < step[c] /\ Steps(c)[i].op \in {"block", "warn"} /\ Steps(c)[i].guardrail \in Async
    BY <1>4 DEF VerdictAwaited
  <2>2. i < step[c] + 1
    BY <1>1, <1>3, <2>1
  <2>3. QED
    BY <1>1, <1>2, <2>1, <2>2 DEF VerdictAwaited
<1>5. ASSUME AwaitedBefore(c) PROVE AwaitedBefore(c)'
  <2>1. PICK i \in DOMAIN Steps(c) : i < step[c] /\ Steps(c)[i].guardrail \in Async
    BY <1>5 DEF AwaitedBefore
  <2>2. i < step[c] + 1
    BY <1>1, <1>3, <2>1
  <2>3. QED
    BY <1>1, <1>2, <2>1, <2>2 DEF AwaitedBefore
<1>6. QED
  BY <1>1, <1>2, <1>3, <1>4, <1>5

LEMMA ConcatOwn ==
  ASSUME NEW r, NEW s, OwnEntries(r, s), NEW t, OwnEntries(r, t)
  PROVE  OwnEntries(r, s \o t)
<1>1. PICK S : s \in Seq(S) /\ \A e \in S : OwnEntry(r, e)
  BY DEF OwnEntries
<1>2. PICK T : t \in Seq(T) /\ \A e \in T : OwnEntry(r, e)
  BY DEF OwnEntries
<1> DEFINE U == S \cup T
<1>3. s \in Seq(U) /\ t \in Seq(U)
  BY <1>1, <1>2
<1>4. \A e \in U : OwnEntry(r, e)
  BY <1>1, <1>2
<1>5. s \o t \in Seq(U)
  <2> HIDE DEF U
  <2> QED
    BY <1>3, ConcatProperties
<1>6. QED
  BY <1>4, <1>5 DEF OwnEntries

LEMMA NoneOwn ==
  ASSUME NEW r
  PROVE  OwnEntries(r, << >>)
<1> DEFINE s == << >>  S == {}
<1>1. s \in Seq(S) /\ \A e \in S : OwnEntry(r, e)
  OBVIOUS
<1>2. OwnEntries(r, s)
  <2> HIDE DEF s, S
  <2> QED
    BY <1>1 DEF OwnEntries
<1>3. QED
  BY <1>2

LEMMA OneOwn ==
  ASSUME NEW r, NEW e, OwnEntry(r, e)
  PROVE  OwnEntries(r, <<e>>)
<1> DEFINE s == <<e>>  S == {e}
<1>1. s \in Seq(S) /\ \A d \in S : OwnEntry(r, d)
  OBVIOUS
<1>2. OwnEntries(r, s)
  <2> HIDE DEF s, S
  <2> QED
    BY <1>1 DEF OwnEntries
<1>3. QED
  BY <1>2

LEMMA AppendOwn ==
  ASSUME NEW r, NEW s, OwnEntries(r, s), NEW e, OwnEntry(r, e)
  PROVE  OwnEntries(r, Append(s, e))
<1>1. PICK S : s \in Seq(S) /\ \A d \in S : OwnEntry(r, d)
  BY DEF OwnEntries
<1> DEFINE U == S \cup {e}
<1>2. s \in Seq(U) /\ e \in U
  BY <1>1
<1>3. Append(s, e) \in Seq(U)
  <2> HIDE DEF U
  <2> QED
    BY <1>2
<1>4. \A d \in U : OwnEntry(r, d)
  BY <1>1
<1>5. QED
  BY <1>3, <1>4 DEF OwnEntries

LEMMA EntryOwn ==
  ASSUME NEW r, NEW s, OwnEntries(r, s), NEW i \in DOMAIN s
  PROVE  OwnEntry(r, s[i])
  BY DEF OwnEntries

LEMMA TextsOwn ==
  ASSUME NEW r, NEW m, IsContent(m)
  PROVE  /\ AwaitsVerdict("input", r) \/ m.from = Main(r) => OwnEntry(r, Text(m))
         /\ AwaitsVerdict("after", r) \/ m.from = Main(r) => OwnEntry(r, Model(m))
  BY DEF OwnEntry, Text, Model

(* A history grows by entries of its own. *)
LEMMA GrowsOwn ==
  ASSUME HistoryIsOwn, workflow' = workflow, NEW r \in Runs, NEW s, OwnEntries(r, s),
         history' = [history EXCEPT ![r] = s]
  PROVE  HistoryIsOwn'
<1>1. history' = [q \in Runs |-> history'[q]] /\ \A q \in Runs : OwnEntries(q, history'[q])
  BY DEF HistoryIsOwn
<1>2. QED
  BY <1>1, SameEntries DEF HistoryIsOwn

LEMMA RespondOwn ==
  ASSUME HistoryIsOwn, workflow' = workflow, NEW r \in Runs, NEW text, IsContent(text),
         \/ text = NoContent \/ AwaitsVerdict("after", r) \/ text.from = Main(r),
         NEW asks,
         history' = [history EXCEPT ![r] =
           @ \o (IF text = NoContent THEN << >> ELSE <<Model(text)>>)
             \o (IF asks = 0 THEN << >> ELSE <<Calls(asks)>>)]
  PROVE  HistoryIsOwn'
<1> DEFINE a == IF text = NoContent THEN << >> ELSE <<Model(text)>>
           b == IF asks = 0 THEN << >> ELSE <<Calls(asks)>>
<1>1. OwnEntries(r, a)
  <2>1. CASE text = NoContent
    BY <2>1, NoneOwn
  <2>2. CASE text # NoContent
    BY <2>2, TextsOwn, OneOwn
  <2>3. QED
    BY <2>1, <2>2
<1>2. OwnEntries(r, b)
  <2>1. OwnEntry(r, Calls(asks))
    BY DEF OwnEntry, Calls
  <2>2. QED
    BY <2>1, NoneOwn, OneOwn
<1>3. OwnEntries(r, history[r])
  BY DEF HistoryIsOwn
<1>4. history' = [history EXCEPT ![r] = (history[r] \o a) \o b]
  OBVIOUS
<1> HIDE DEF a, b
<1>5. OwnEntries(r, history[r] \o a)
  BY <1>1, <1>3, ConcatOwn
<1>6. OwnEntries(r, (history[r] \o a) \o b)
  BY <1>2, <1>5, ConcatOwn
<1>7. QED
  BY <1>4, <1>6, GrowsOwn

LEMMA TextEntryOwn ==
  ASSUME HistoryIsOwn, workflow' = workflow, NEW r \in Runs, NEW e, OwnEntry(r, e),
         history' = [history EXCEPT ![r] = Append(@, e)]
  PROVE  HistoryIsOwn'
<1>1. OwnEntries(r, Append(history[r], e))
  BY AppendOwn DEF HistoryIsOwn
<1>2. QED
  BY <1>1, GrowsOwn

LEMMA HistoryStays ==
  ASSUME HistoryIsOwn, UNCHANGED <<workflow, history>>
  PROVE  HistoryIsOwn'
  BY SameEntries DEF HistoryIsOwn

LEMMA GivenStays ==
  ASSUME GivenIsOwn, workflow' = workflow, given' = [c \in Coroutines |-> given'[c]],
         \A c \in Coroutines : IsTool(c) =>
           \/ given'[c] = NoContent
           \/ IsContent(given'[c]) /\ given'[c].from = c
           \/ given'[c] = given[c] /\ (at[c] = "done" => at'[c] = "done")
  PROVE  GivenIsOwn'
<1>1. IsContent(NoContent)
  BY DEF IsContent, NoContent, Content
<1>2. ASSUME NEW c \in Coroutines, IsTool(c)
      PROVE  /\ IsContent(given'[c])
             /\ \/ given'[c] = NoContent
                \/ given'[c].from = c
                \/ at'[c] = "done" /\ AwaitsVerdict("result", RunOf(c))'
  BY <1>1, <1>2, SameHandlers DEF GivenIsOwn
<1>3. QED
  BY <1>2 DEF GivenIsOwn, IsTool, IsContent, NoContent, Content, Nobody, RunOf

(* Once the handlers are through, all of their checks have been awaited.   *)
LEMMA ThroughAll ==
  ASSUME IInv, NEW c \in Coroutines, active = c, step[c] > Len(Steps(c))
  PROVE  /\ \A i \in DOMAIN Steps(c) : i < step[c]
         /\ VerdictAwaited(c) => AwaitsVerdict(at[c], RunOf(c))
<1>1. step[c] \in Nat /\ at[c] \in Callbacks
  BY CallbackPlace DEF InCallback, IInv, HandlersRun
<1>2. DOMAIN Steps(c) = 1..Len(Steps(c)) /\ Len(Steps(c)) \in Nat
  BY <1>1, StepsAreASequence DEF Steps, IInv, HandlersRun
<1>3. \A i \in DOMAIN Steps(c) : i < step[c]
  BY <1>1, <1>2
<1>4. QED
  BY <1>3 DEF VerdictAwaited, AwaitsVerdict, Steps

LEMMA EnterOwn ==
  ASSUME IInv, OwnInv, NEW c \in Coroutines, NEW place \in Callbacks, IsTool(c) => place # "before",
         NEW content, IsContent(content), place = "before" \/ content.from = c,
         Enter(c, place, content), UNCHANGED history, at[c] # "done"
  PROVE  MessageIsOwn' /\ GivenIsOwn' /\ HistoryIsOwn'
<1>1. /\ active' = c /\ message' = As(place, content) /\ UNCHANGED workflow
      /\ given' = [given EXCEPT ![c] = As(place, content)] /\ at' = [at EXCEPT ![c] = place]
  BY DEF Enter
<1>2. at'[c] = place /\ \A d \in Coroutines : d # c => at'[d] = at[d]
  BY <1>1 DEF IInv, PlacesFit
<1>3. /\ IsContent(As(place, content)) /\ As(place, content).from = content.from
      /\ place # "call" => As(place, content).form # "args"
  BY AsIs
<1>4. MessageIsOwn'
  BY <1>1, <1>2, <1>3 DEF MessageIsOwn, Shared, OwnMessage, OwnAt, IsContent
<1>5. GivenIsOwn'
  BY <1>1, <1>2, <1>3, GivenStays DEF OwnInv, GivenIsOwn
<1>6. QED
  BY <1>1, <1>4, <1>5, HistoryStays DEF OwnInv

(* A callback that is left owes nothing about the message.                 *)
LEMMA LeftOwn ==
  ASSUME OwnInv, active' = Nobody, UNCHANGED message
  PROVE  MessageIsOwn'
  BY DEF OwnInv, MessageIsOwn, IsContent

LEMMA RefusalIsOwn ==
  ASSUME NEW c
  PROVE  IsContent(Refusal(c)) /\ Refusal(c).from = c /\ Refusal(c).secrets = {}
  BY ContentIs DEF Refusal

LEMMA RunFailsOwn ==
  ASSUME IInv, OwnInv, NEW c \in Coroutines, InCallback(c), RunFails(c)
  PROVE  MessageIsOwn' /\ GivenIsOwn' /\ HistoryIsOwn'
<1>1. /\ active' = Nobody /\ UNCHANGED <<workflow, message, given, history>>
      /\ at' = [at EXCEPT ![Main(RunOf(c))] = "failed",
                          ![c] = IF IsTool(c) THEN "done" ELSE "failed"]
  BY DEF RunFails, runVars
<1>2. \A d \in Coroutines : IsTool(d) /\ at[d] = "done" => at'[d] = "done"
  BY <1>1, MainOf, MainIsNoTool DEF IInv, PlacesFit
<1>3. GivenIsOwn'
  BY <1>1, <1>2, GivenStays DEF OwnInv, GivenIsOwn
<1>4. QED
  BY <1>1, <1>3, LeftOwn, HistoryStays DEF OwnInv

LEMMA RaiseOwn ==
  ASSUME IInv, OwnInv, NEW c \in Coroutines, InCallback(c), NEW error, Raise(c, error)
  PROVE  MessageIsOwn' /\ GivenIsOwn' /\ HistoryIsOwn'
<1>1. Fits(c, at[c]) /\ at[c] \in Callbacks
  BY CallbackPlace
<1>2. IsContent(Refusal(c)) /\ Refusal(c).from = c
  BY RefusalIsOwn
<1>3. CASE at[c] = "input" /\ InputRefused(c)
  <2>1. c = Main(RunOf(c)) /\ RunOf(c) \in Runs /\ ~IsTool(c)
    BY <1>1, <1>3, MainOf DEF Fits, ToolPlaces
  <2>2. /\ history' = [history EXCEPT ![RunOf(c)] = Append(@, Model(Refusal(c)))]
        /\ active' = Nobody /\ UNCHANGED <<workflow, message, given>> /\ at' = [at EXCEPT ![c] = "ready"]
    BY <1>3 DEF InputRefused, Leave
  <2>3. OwnEntry(RunOf(c), Model(Refusal(c)))
    BY <1>2, <2>1, TextsOwn
  <2>4. HistoryIsOwn'
    BY <2>1, <2>2, <2>3, TextEntryOwn DEF OwnInv
  <2>5. GivenIsOwn'
    BY <2>1, <2>2, GivenStays DEF OwnInv, GivenIsOwn, IInv, PlacesFit
  <2>6. QED
    BY <2>2, <2>4, <2>5, LeftOwn
<1>4. CASE at[c] = "before" /\ RequestRefused(c)
  <2>1. c = Main(RunOf(c)) /\ RunOf(c) \in Runs /\ ~IsTool(c)
    BY <1>1, <1>4, MainOf DEF Fits, ToolPlaces
  <2>2. /\ Respond(RunOf(c), Refusal(c), 0) /\ active' = Nobody /\ UNCHANGED <<workflow, message, given>>
        /\ at' = [at EXCEPT ![c] = "ended"]
    BY <1>4 DEF RequestRefused, Leave
  <2>3. HistoryIsOwn'
    BY <1>2, <2>1, <2>2, RespondOwn DEF OwnInv, Respond
  <2>4. GivenIsOwn'
    BY <2>1, <2>2, GivenStays DEF OwnInv, GivenIsOwn, IInv, PlacesFit
  <2>5. QED
    BY <2>2, <2>3, <2>4, LeftOwn
<1>5. CASE at[c] \in {"call", "result"} /\ ToolRefused(c)
  <2>1. /\ given' = [given EXCEPT ![c] = Refusal(c)]
        /\ active' = Nobody /\ UNCHANGED <<workflow, message, history>>
        /\ \E place : at' = [at EXCEPT ![c] = place]
    BY <1>5 DEF ToolRefused, Leave, runVars
  <2>2. GivenIsOwn'
    BY <1>2, <2>1, GivenStays DEF OwnInv, GivenIsOwn, IInv, PlacesFit
  <2>3. QED
    BY <2>1, <2>2, LeftOwn, HistoryStays DEF OwnInv
<1>6. CASE RunFails(c)
  BY <1>6, RunFailsOwn
<1>7. \/ at[c] = "input" /\ InputRefused(c)
      \/ at[c] = "before" /\ RequestRefused(c)
      \/ at[c] \in {"call", "result"} /\ ToolRefused(c)
      \/ RunFails(c)
  BY DEF Raise
<1>8. QED
  BY <1>3, <1>4, <1>5, <1>6, <1>7

(* The model has answered: tool calls begin, and none is done.             *)
LEMMA AskedOwn ==
  ASSUME IInv, OwnInv, NEW r \in Runs, at[Main(r)] \notin {"tools", "failed"}, NEW asks,
         at' = Asked(r, asks), UNCHANGED <<workflow, given>>
  PROVE  GivenIsOwn'
<1>1. \A c \in Coroutines : IsTool(c) /\ RunOf(c) = r => at[c] = "idle"
  BY DEF IInv, ToolsRest
<1>2. \A c \in Coroutines : RunOf(c) # r => at'[c] = at[c]
  BY MainIsNoTool DEF Asked
<1>3. QED
  BY <1>1, <1>2, GivenStays DEF OwnInv, GivenIsOwn

LEMMA EndOwn ==
  ASSUME IInv, OwnInv, NEW c \in Coroutines, EndCallback(c)
  PROVE  MessageIsOwn' /\ GivenIsOwn' /\ HistoryIsOwn'
<1>1. active = c /\ c # Nobody /\ InCallback(c) /\ Fits(c, at[c]) /\ IsContent(message)
  BY MainOf DEF EndCallback, InCallback, IInv, PlacesFit, OwnInv, MessageIsOwn
<1>2. at[c] # "before" => AwaitsVerdict(at[c], RunOf(c)) \/ OwnMessage(c, message)
  BY <1>1, ThroughAll DEF EndCallback, OwnInv, MessageIsOwn, Shared
<1>3. CASE InputPasses(c)
  <2>1. c = Main(RunOf(c)) /\ RunOf(c) \in Runs /\ ~IsTool(c) /\ at[c] = "input"
    BY <1>1, <1>3, MainOf DEF InputPasses, Fits, ToolPlaces
  <2>2. /\ history' = [history EXCEPT ![RunOf(c)] = Append(@, Text(message))]
        /\ active' = Nobody /\ UNCHANGED <<workflow, message, given>> /\ at' = [at EXCEPT ![c] = "ready"]
    BY <1>3 DEF InputPasses, Leave
  <2>3. OwnEntry(RunOf(c), Text(message))
    BY <1>1, <1>2, <2>1, TextsOwn DEF OwnMessage, OwnAt
  <2>4. HistoryIsOwn'
    BY <2>1, <2>2, <2>3, TextEntryOwn DEF OwnInv
  <2>5. GivenIsOwn'
    BY <2>1, <2>2, GivenStays DEF OwnInv, GivenIsOwn, IInv, PlacesFit
  <2>6. QED
    BY <2>2, <2>4, <2>5, LeftOwn
<1>4. CASE RequestPasses(c)
  <2>1. ~IsTool(c)
    BY <1>1, <1>4 DEF RequestPasses, Fits, ToolPlaces
  <2>2. /\ active' = Nobody /\ UNCHANGED <<workflow, message, given, history>>
        /\ at' = [at EXCEPT ![c] = "model"]
    BY <1>4 DEF RequestPasses, Leave
  <2>3. GivenIsOwn'
    BY <2>1, <2>2, GivenStays DEF OwnInv, GivenIsOwn, IInv, PlacesFit
  <2>4. QED
    BY <2>2, <2>3, LeftOwn, HistoryStays DEF OwnInv
<1>5. CASE ResponsePasses(c)
  <2> DEFINE r == RunOf(c)
             asks == IF Changed(c) THEN 0 ELSE response[r].calls
  <2>1. c = Main(r) /\ r \in Runs /\ at[c] = "after"
    BY <1>1, <1>5, MainOf DEF ResponsePasses, Fits, ToolPlaces
  <2>2. /\ Respond(r, message, asks) /\ active' = Nobody /\ UNCHANGED <<workflow, message, given>>
        /\ at' = Asked(r, asks)
    BY <1>5 DEF ResponsePasses
  <2> HIDE DEF asks
  <2>3. HistoryIsOwn'
    BY <1>1, <1>2, <2>1, <2>2, RespondOwn DEF OwnInv, Respond, OwnMessage, OwnAt
  <2>4. GivenIsOwn'
    BY <2>1, <2>2, AskedOwn
  <2>5. QED
    BY <2>2, <2>3, <2>4, LeftOwn
<1>6. CASE CallPasses(c)
  <2>1. /\ active' = Nobody /\ UNCHANGED <<workflow, message, given, history>>
        /\ at[c] = "call" /\ at' = [at EXCEPT ![c] = "tool"]
    BY <1>6 DEF CallPasses, Leave, runVars
  <2>2. GivenIsOwn'
    BY <2>1, GivenStays DEF OwnInv, GivenIsOwn, IInv, PlacesFit
  <2>3. QED
    BY <2>1, <2>2, LeftOwn, HistoryStays DEF OwnInv
<1>7. CASE ResultPasses(c)
  <2>1. /\ given' = [given EXCEPT ![c] = IF message.form = "args" THEN @ ELSE message]
        /\ active' = Nobody /\ UNCHANGED <<workflow, message, history>>
        /\ at[c] = "result" /\ at' = [at EXCEPT ![c] = "done"]
    BY <1>7 DEF ResultPasses, Leave, runVars
  <2>2. IsTool(c)
    BY <1>1, <2>1 DEF Fits, ToolPlaces
  <2>3. /\ at'[c] = "done" /\ given'[c] = IF message.form = "args" THEN given[c] ELSE message
        /\ \A d \in Coroutines : d # c => at'[d] = at[d] /\ given'[d] = given[d]
    BY <2>1 DEF IInv, PlacesFit, OwnInv, GivenIsOwn
  <2>4. /\ IsContent(given'[c])
        /\ \/ given'[c] = NoContent
           \/ given'[c].from = c
           \/ at'[c] = "done" /\ AwaitsVerdict("result", RunOf(c))
    BY <1>1, <1>2, <2>1, <2>2, <2>3 DEF OwnInv, GivenIsOwn, OwnMessage, OwnAt
  <2>5. given' = [d \in Coroutines |-> given'[d]]
    BY <2>1 DEF OwnInv, GivenIsOwn
  <2>6. \A d \in Coroutines : AwaitsVerdict("result", RunOf(d))' <=> AwaitsVerdict("result", RunOf(d))
    BY <2>1, SameHandlers DEF RunOf
  <2>7. ASSUME NEW d \in Coroutines, IsTool(d)
        PROVE  /\ IsContent(given'[d])
               /\ \/ given'[d] = NoContent
                  \/ given'[d].from = d
                  \/ at'[d] = "done" /\ AwaitsVerdict("result", RunOf(d))'
    BY <2>3, <2>4, <2>6, <2>7 DEF OwnInv, GivenIsOwn
  <2>8. GivenIsOwn'
    BY <2>5, <2>7 DEF GivenIsOwn, IsTool, IsContent, NoContent, Content, Nobody, RunOf
  <2>9. QED
    BY <2>1, <2>8, LeftOwn, HistoryStays DEF OwnInv
<1>8. CASE NoTextPasses(c)
  BY <1>1, <1>8, RunFailsOwn DEF NoTextPasses
<1>9. QED
  BY <1>3, <1>4, <1>5, <1>6, <1>7, <1>8 DEF EndCallback

(* An action of a handler that goes on with a content that is its own if   *)
(* it was: after a check that is awaited it may not be.                    *)
LEMMA AdvanceOwn ==
  ASSUME IInv, OwnInv, NEW c \in Coroutines, InCallback(c), Advance(c), active' = c,
         IsContent(message'), ~VerdictAwaited(c)' /\ ~Shared(c) => OwnMessage(c, message')
  PROVE  MessageIsOwn' /\ GivenIsOwn' /\ HistoryIsOwn'
<1>1. UNCHANGED <<workflow, at, given, history>> /\ step' = [step EXCEPT ![c] = @ + 1]
  BY DEF Advance, runVars
<1>2. VerdictAwaited(c) => VerdictAwaited(c)'
  BY <1>1, CallbackPlace, StepGrows
<1>3. MessageIsOwn'
  BY <1>1, <1>2 DEF MessageIsOwn, Shared, OwnMessage, OwnAt, IsContent
<1>4. GivenIsOwn'
  BY <1>1, GivenStays DEF OwnInv, GivenIsOwn
<1>5. QED
  BY <1>1, <1>3, <1>4, HistoryStays DEF OwnInv

(* An action that leaves the message alone.                                *)
LEMMA PassesOwn ==
  ASSUME IInv, OwnInv, NEW c \in Coroutines, active = c, Advance(c), UNCHANGED <<message, active>>
  PROVE  MessageIsOwn' /\ GivenIsOwn' /\ HistoryIsOwn'
<1>1. IsContent(message) /\ (~Shared(c) => OwnMessage(c, message))
  BY MainOf DEF OwnInv, MessageIsOwn
<1>2. QED
  BY <1>1, AdvanceOwn DEF InCallback, IsContent

(* A check that was awaited has been awaited.                              *)
LEMMA VerdictIsAwaited ==
  ASSUME IInv, NEW c \in Coroutines, Awaits(c), Advance(c)
  PROVE  /\ AwaitedBefore(c)'
         /\ Action(c).op \in {"block", "warn"} => VerdictAwaited(c)'
<1>1. /\ step[c] \in DOMAIN Steps(c) /\ Action(c) = Steps(c)[step[c]]
      /\ Action(c).guardrail \in Async /\ at[c] \in Callbacks
  BY DEF IInv, AwaitsFit, Awaits, Action
<1>2. UNCHANGED <<workflow, at>> /\ step' = [step EXCEPT ![c] = @ + 1]
  BY DEF Advance
<1>3. step[c] \in Nat /\ step'[c] = step[c] + 1 /\ Steps(c)' = Steps(c)
  BY <1>1, <1>2, StepGrows
<1>4. step[c] < step'[c]
  BY <1>3
<1>5. QED
  BY <1>1, <1>3, <1>4 DEF AwaitedBefore, VerdictAwaited

LEMMA HandlerOwn ==
  ASSUME IInv, OwnInv, NEW c \in Coroutines, HandlerActs(c)
  PROVE  MessageIsOwn' /\ GivenIsOwn' /\ HistoryIsOwn'
<1>1. active = c => InCallback(c)
  BY DEF InCallback
<1>2. CASE ApplyMask(c)
  <2> DEFINE g == Action(c).guardrail
  <2>1. active = c /\ active' = c /\ message' = Masked(message, g) /\ Advance(c)
    BY <1>2 DEF ApplyMask, Acts
  <2>2. IsContent(message) /\ (~Shared(c) => OwnMessage(c, message))
    BY <2>1, MainOf DEF OwnInv, MessageIsOwn
  <2>3. IsContent(Masked(message, g)) /\ (~Shared(c) => OwnMessage(c, Masked(message, g)))
    BY <2>2, MaskTakes DEF OwnMessage, OwnAt
  <2> HIDE DEF g
  <2>4. QED
    BY <1>1, <2>1, <2>3, AdvanceOwn DEF IsContent, OwnMessage, OwnAt
<1>3. CASE GuardrailRaises(c)
  BY <1>1, <1>3, RaiseOwn DEF GuardrailRaises, Acts, InCallback
<1>4. CASE AwaitGuardrail(c)
  <2>1. active' = Nobody /\ UNCHANGED <<workflow, message, at, given, history>>
    BY <1>4 DEF AwaitGuardrail, ctxVars, runVars
  <2>2. GivenIsOwn'
    BY <2>1, GivenStays DEF OwnInv, GivenIsOwn
  <2>3. QED
    BY <2>1, <2>2, LeftOwn, HistoryStays DEF OwnInv
<1>5. CASE MaskArrives(c)
  <2>1. Awaits(c) /\ active' = c /\ message' = awaited[c] /\ Advance(c)
    BY <1>5 DEF MaskArrives
  <2>2. IsContent(awaited[c]) /\ (~Shared(c) => OwnMessage(c, awaited[c]))
    BY <2>1 DEF OwnInv, AwaitedIsOwn, Awaits
  <2>3. QED
    BY <2>1, <2>2, AdvanceOwn DEF InCallback, IsContent, OwnMessage, OwnAt
<1>6. CASE VerdictArrives(c)
  <2>1. Awaits(c) /\ active' = c /\ message' = message /\ Advance(c) /\ Action(c).op \in {"block", "warn"}
    BY <1>6 DEF VerdictArrives
  <2>2. VerdictAwaited(c)'
    BY <2>1, VerdictIsAwaited
  <2>3. QED
    BY <2>1, <2>2, AdvanceOwn DEF InCallback, OwnInv, MessageIsOwn, IsContent
<1>7. CASE CheckPasses(c)
  BY <1>7, PassesOwn DEF CheckPasses, Acts
<1>8. CASE CheckBlocks(c)
  BY <1>1, <1>8, RaiseOwn DEF CheckBlocks, Acts, InCallback
<1>9. CASE DriftPasses(c)
  BY <1>9, PassesOwn DEF DriftPasses, Acts
<1>10. CASE DriftBlocks(c)
  BY <1>1, <1>10, RaiseOwn DEF DriftBlocks, Acts
<1>11. CASE ConditionFails(c)
  BY <1>11, PassesOwn DEF ConditionFails, Acts
<1>12. CASE FailStatement(c)
  BY <1>1, <1>12, RaiseOwn DEF FailStatement, Acts
<1>13. CASE RetryStatement(c)
  BY <1>1, <1>13, RaiseOwn DEF RetryStatement, Acts
<1>14. CASE ReadEvent(c)
  <2>1. CASE Advance(c) /\ UNCHANGED <<message, active, awaited>>
    BY <1>14, <2>1, PassesOwn DEF ReadEvent, Acts
  <2>2. CASE Raise(c, "other")
    BY <1>1, <1>14, <2>2, RaiseOwn DEF ReadEvent, Acts
  <2>3. QED
    BY <1>14, <2>1, <2>2 DEF ReadEvent
<1>15. CASE EndCallback(c)
  BY <1>15, EndOwn
<1>16. QED
  BY <1>2, <1>3, <1>4, <1>5, <1>6, <1>7, <1>8, <1>9, <1>10, <1>11, <1>12, <1>13, <1>14, <1>15
  DEF HandlerActs

(* A step that leaves the context alone.                                   *)
LEMMA QuietOwn ==
  ASSUME OwnInv, UNCHANGED <<active, message>>, active = Nobody
  PROVE  MessageIsOwn'
  BY DEF OwnInv, MessageIsOwn, IsContent

LEMMA ToolOwn ==
  ASSUME IInv, OwnInv, NEW c \in Coroutines, CallTool(c) \/ ToolRuns(c) \/ CheckResult(c)
  PROVE  MessageIsOwn' /\ GivenIsOwn' /\ HistoryIsOwn'
<1>1. at[c] \in {"asked", "tool", "returned"} /\ IsTool(c)
  BY DEF CallTool, ToolRuns, CheckResult, IInv, PlacesFit, Fits, ToolPlaces
<1>2. \A place : at' = [at EXCEPT ![c] = place] =>
        \A d \in Coroutines : at[d] = "done" => at'[d] = "done"
  BY <1>1 DEF IInv, PlacesFit
<1>3. ASSUME NEW place, Skip(c, place), UNCHANGED runVars
      PROVE  MessageIsOwn' /\ GivenIsOwn' /\ HistoryIsOwn'
  <2>1. UNCHANGED <<workflow, active, message, given, history>> /\ active = Nobody
        /\ at' = [at EXCEPT ![c] = place]
    BY <1>3 DEF Skip, ctxVars, runVars
  <2>2. GivenIsOwn'
    BY <1>2, <2>1, GivenStays DEF OwnInv, GivenIsOwn
  <2>3. QED
    BY <2>1, <2>2, QuietOwn, HistoryStays DEF OwnInv
<1>4. CASE CallTool(c)
  <2>1. CASE Enter(c, "call", Raw(c, "args"))
    BY <1>1, <1>4, <2>1, ContentIs, EnterOwn DEF CallTool, Raw, runVars, Callbacks
  <2>2. CASE Skip(c, "tool")
    BY <1>3, <1>4, <2>2 DEF CallTool
  <2>3. QED
    BY <1>4, <2>1, <2>2 DEF CallTool
<1>5. CASE ToolRuns(c)
  <2>1. PICK result \in {Raw(c, "result"), NoContent} : given' = [given EXCEPT ![c] = result]
    BY <1>5 DEF ToolRuns
  <2>2. result = NoContent \/ (IsContent(result) /\ result.from = c)
    BY <2>1, ContentIs DEF Raw
  <2>3. /\ UNCHANGED <<workflow, active, message, history>> /\ active = Nobody
        /\ at' = [at EXCEPT ![c] = "returned"]
    BY <1>5 DEF ToolRuns, ctxVars, runVars
  <2>4. GivenIsOwn'
    BY <1>2, <2>1, <2>2, <2>3, GivenStays DEF OwnInv, GivenIsOwn
  <2>5. QED
    BY <2>3, <2>4, QuietOwn, HistoryStays DEF OwnInv
<1>6. CASE CheckResult(c)
  <2>1. CASE Enter(c, "result", given[c]) /\ given[c] # NoContent
    <3>1. IsContent(given[c]) /\ given[c].from = c
      BY <1>1, <2>1 DEF OwnInv, GivenIsOwn
    <3>2. QED
      BY <1>1, <1>6, <2>1, <3>1, EnterOwn DEF CheckResult, runVars, Callbacks
  <2>2. CASE Skip(c, "done")
    BY <1>3, <1>6, <2>2 DEF CheckResult
  <2>3. QED
    BY <1>6, <2>1, <2>2 DEF CheckResult
<1>7. QED
  BY <1>4, <1>5, <1>6

(* The text a request ends with is a content.                              *)
LEMMA LastTextOwn ==
  ASSUME HistoryIsOwn, NEW r \in Runs, UserTexts(r) # {}
  PROVE  IsContent(history[r][LastOf(r, UserTexts(r))].body)
<1> DEFINE s == history[r]
           T == UserTexts(r)
<1>1. OwnEntries(r, s)
  BY DEF HistoryIsOwn
<1>2. Len(s) \in Nat /\ DOMAIN s = 1..Len(s)
  BY <1>1 DEF OwnEntries
<1>3. T \subseteq 1..Len(s)
  BY <1>2 DEF UserTexts, UserEntries
<1>4. \E i \in T : \A j \in T : j <= i
  BY <1>2, <1>3, LastPlace
<1>5. LastOf(r, T) \in T
  BY <1>4 DEF LastOf
<1>6. OwnEntry(r, s[LastOf(r, T)])
  BY <1>1, <1>2, <1>3, <1>5, EntryOwn
<1>7. s[LastOf(r, T)].kind = "text"
  BY <1>5 DEF UserTexts
<1>8. QED
  BY <1>6, <1>7 DEF OwnEntry

LEMMA RunOwn ==
  ASSUME IInv, OwnInv, NEW r \in Runs, ReceivePrompt(r) \/ AskModel(r) \/ ModelAnswers(r)
  PROVE  MessageIsOwn' /\ GivenIsOwn' /\ HistoryIsOwn'
<1> DEFINE c == Main(r)
<1>1. c \in Coroutines /\ ~IsTool(c) /\ at[c] \in {"start", "ready", "model"}
  BY MainIsNoTool DEF ReceivePrompt, AskModel, ModelAnswers
<1>2. ASSUME NEW place, Skip(c, place)
      PROVE  MessageIsOwn' /\ GivenIsOwn' /\ workflow' = workflow
  <2>1. UNCHANGED <<workflow, active, message, given>> /\ active = Nobody
        /\ at' = [at EXCEPT ![c] = place]
    BY <1>2 DEF Skip, ctxVars
  <2>2. \A d \in Coroutines : IsTool(d) => at'[d] = at[d]
    BY <1>1, <2>1 DEF IInv, PlacesFit
  <2>3. GivenIsOwn'
    BY <2>1, <2>2, GivenStays DEF OwnInv, GivenIsOwn
  <2>4. QED
    BY <2>1, <2>3, QuietOwn
<1>3. CASE ReceivePrompt(r)
  <2> DEFINE prompt == Raw(c, "prompt")
  <2>1. IsContent(prompt) /\ prompt.from = c
    BY ContentIs DEF Raw
  <2> HIDE DEF prompt
  <2>2. CASE Enter(c, "input", prompt) /\ UNCHANGED runVars
    BY <1>1, <2>1, <2>2, EnterOwn DEF runVars, Callbacks
  <2>3. CASE Skip(c, "ready") /\ history' = [history EXCEPT ![r] = Append(@, Text(prompt))]
    <3>1. OwnEntry(r, Text(prompt))
      BY <2>1, TextsOwn
    <3>2. HistoryIsOwn'
      BY <1>2, <2>3, <3>1, TextEntryOwn DEF OwnInv
    <3>3. QED
      BY <1>2, <2>3, <3>2
  <2>4. QED
    BY <1>3, <2>2, <2>3 DEF ReceivePrompt, prompt
<1>4. CASE AskModel(r)
  <2> DEFINE text == history[r][LastOf(r, UserTexts(r))].body
  <2>1. CASE UserTexts(r) # {} /\ Enter(c, "before", text) /\ UNCHANGED runVars
    <3>1. IsContent(text)
      BY <2>1, LastTextOwn DEF OwnInv
    <3> HIDE DEF text
    <3>2. QED
      BY <1>1, <2>1, <3>1, EnterOwn DEF runVars, Callbacks
  <2>2. CASE Skip(c, "model") /\ UNCHANGED history
    BY <1>2, <2>2, HistoryStays DEF OwnInv
  <2>3. QED
    BY <1>4, <2>1, <2>2 DEF AskModel
<1>5. CASE ModelAnswers(r)
  <2>1. PICK text \in Replies(r), asks \in 0..workflow.calls :
          \/ text # NoContent /\ Enter(c, "after", text) /\ UNCHANGED history
          \/ /\ history' = [history EXCEPT ![r] =
                  @ \o (IF text = NoContent THEN << >> ELSE <<Model(text)>>)
                    \o (IF asks = 0 THEN << >> ELSE <<Calls(asks)>>)]
             /\ at' = Asked(r, asks) /\ active = Nobody
             /\ UNCHANGED <<workflow, active, message, given>>
    BY <1>5 DEF ModelAnswers, ctxVars
  <2>2. IsContent(text) /\ (text = NoContent \/ text.from = c)
    BY <2>1, ContentIs DEF Replies, Raw, NoContent
  <2>3. CASE text # NoContent /\ Enter(c, "after", text) /\ UNCHANGED history
    BY <1>1, <2>2, <2>3, EnterOwn DEF Callbacks
  <2>4. CASE /\ history' = [history EXCEPT ![r] =
                  @ \o (IF text = NoContent THEN << >> ELSE <<Model(text)>>)
                    \o (IF asks = 0 THEN << >> ELSE <<Calls(asks)>>)]
             /\ at' = Asked(r, asks) /\ active = Nobody
             /\ UNCHANGED <<workflow, active, message, given>>
    <3>1. HistoryIsOwn'
      BY <2>2, <2>4, RespondOwn DEF OwnInv
    <3>2. GivenIsOwn'
      BY <1>1, <2>4, AskedOwn
    <3>3. QED
      BY <2>4, <3>1, <3>2, QuietOwn
  <2>5. QED
    BY <2>1, <2>3, <2>4
<1>6. QED
  BY <1>3, <1>4, <1>5

LEMMA JoinOwn ==
  ASSUME IInv, OwnInv, NEW r \in Runs, JoinTools(r)
  PROVE  MessageIsOwn' /\ GivenIsOwn' /\ HistoryIsOwn'
<1> DEFINE done == {i \in 1..MaxTools : at[<<r, i>>] = "done"}
           results == [i \in done |-> given[<<r, i>>]]
<1>1. /\ history' = [history EXCEPT ![r] = Append(@, Results(results))]
      /\ given' = [d \in Coroutines |-> IF d \in ToolsOf(r) THEN NoContent ELSE given[d]]
      /\ at' = [d \in Coroutines |->
                  IF d \in ToolsOf(r) THEN "idle" ELSE IF d = Main(r) THEN "ready" ELSE at[d]]
      /\ active = Nobody /\ UNCHANGED <<workflow, active, message>>
  BY DEF JoinTools, ctxVars
<1>2. ASSUME NEW i \in done
      PROVE  AwaitsVerdict("result", r) \/ results[i] = NoContent \/ results[i].from = <<r, i>>
  <2>1. <<r, i>> \in Coroutines /\ IsTool(<<r, i>>) /\ RunOf(<<r, i>>) = r
    BY GuardrailsAssumption DEF Coroutines, IsTool, RunOf
  <2>2. QED
    BY <2>1 DEF OwnInv, GivenIsOwn
<1>3. OwnEntry(r, Results(results))
  BY <1>2 DEF OwnEntry, Results
<1>4. HistoryIsOwn'
  <2> HIDE DEF results
  <2>1. QED
    BY <1>1, <1>3, TextEntryOwn DEF OwnInv
<1>5. GivenIsOwn'
  <2>1. \A d \in Coroutines : IsTool(d) => d # Main(r)
    BY MainIsNoTool
  <2>2. QED
    BY <1>1, <2>1, GivenStays DEF OwnInv, GivenIsOwn
<1>6. QED
  BY <1>1, <1>4, <1>5, QuietOwn

(* What is awaited stays what it was, or is made of the message.           *)
LEMMA AwaitedOwn ==
  ASSUME IInv, OwnInv, workflow' = workflow, NoNewAwaits \/ \E c \in Coroutines : AwaitGuardrail(c)
  PROVE  AwaitedIsOwn'
<1>1. ASSUME NEW d \in Coroutines, awaited'[d] # NoContent,
             awaited'[d] = awaited[d], at'[d] = at[d], step'[d] = step[d]
      PROVE  IsContent(awaited'[d]) /\ (~Shared(d)' => OwnAt(d, at'[d], awaited'[d]))
  <2>1. Steps(d)' = Steps(d)
    BY <1>1, SameHandlers DEF Steps, RunOf
  <2>2. Shared(d)' <=> Shared(d)
    BY <1>1, <2>1 DEF Shared, VerdictAwaited
  <2>3. QED
    BY <1>1, <2>2 DEF OwnInv, AwaitedIsOwn, OwnMessage, OwnAt
<1>2. CASE NoNewAwaits
  BY <1>1, <1>2 DEF NoNewAwaits, AwaitedIsOwn, OwnMessage, OwnAt, IsContent, NoContent, Content, Nobody
<1>3. CASE \E c \in Coroutines : AwaitGuardrail(c)
  <2>1. PICK c \in Coroutines : AwaitGuardrail(c)
    BY <1>3
  <2> DEFINE g == Action(c).guardrail
  <2>2. active = c /\ UNCHANGED <<at, step>> /\ awaited' = [awaited EXCEPT ![c] = Masked(message, g)]
    BY <2>1 DEF AwaitGuardrail, Acts
  <2>3. IsContent(message) /\ (~Shared(c) => OwnMessage(c, message))
    BY <2>2, MainOf DEF OwnInv, MessageIsOwn
  <2>4. IsContent(Masked(message, g)) /\ (~Shared(c) => OwnMessage(c, Masked(message, g)))
    BY <2>3, MaskTakes DEF OwnMessage, OwnAt
  <2> HIDE DEF g
  <2>5. awaited'[c] = Masked(message, g) /\ \A d \in Coroutines : d # c => awaited'[d] = awaited[d]
    BY <2>2 DEF IInv, AwaitsFit
  <2>6. Steps(c)' = Steps(c)
    BY <2>2, SameHandlers DEF Steps, RunOf
  <2>7. Shared(c)' <=> Shared(c)
    BY <2>2, <2>6 DEF Shared, VerdictAwaited
  <2>8. IsContent(awaited'[c]) /\ (~Shared(c)' => OwnAt(c, at'[c], awaited'[c]))
    BY <2>2, <2>4, <2>5, <2>7 DEF OwnMessage, OwnAt
  <2>9. QED
    BY <1>1, <2>2, <2>5, <2>8 DEF AwaitedIsOwn, OwnMessage, OwnAt, IsContent, NoContent, Content, Nobody
<1>4. QED
  BY <1>2, <1>3

LEMMA ProgramStays ==
  ASSUME [Next]_vars
  PROVE  workflow' = workflow
<1>1. CASE \E c \in Coroutines : HandlerActs(c)
  <2>1. PICK c \in Coroutines : HandlerActs(c)
    BY <1>1
  <2>2. \A error : Raise(c, error) => workflow' = workflow
    BY DEF Raise, InputRefused, RequestRefused, ToolRefused, RunFails, Leave
  <2>3. EndCallback(c) => workflow' = workflow
    BY DEF EndCallback, InputPasses, RequestPasses, ResponsePasses, CallPasses, ResultPasses,
           NoTextPasses, RunFails, Leave
  <2>4. QED
    BY <2>1, <2>2, <2>3 DEF HandlerActs, ApplyMask, GuardrailRaises, AwaitGuardrail, MaskArrives,
       VerdictArrives, CheckPasses, CheckBlocks, DriftPasses, DriftBlocks, ConditionFails,
       FailStatement, RetryStatement, ReadEvent, Advance
<1>2. CASE \E c \in Coroutines : CallTool(c) \/ ToolRuns(c) \/ CheckResult(c)
  BY <1>2 DEF CallTool, ToolRuns, CheckResult, Enter, Skip
<1>3. CASE \E r \in Runs : ReceivePrompt(r) \/ AskModel(r) \/ ModelAnswers(r) \/ JoinTools(r)
  BY <1>3, ZenonT(60) DEF ReceivePrompt, AskModel, ModelAnswers, JoinTools, Enter, Skip
<1>4. CASE UNCHANGED vars
  BY <1>4 DEF vars
<1>5. QED
  BY <1>1, <1>2, <1>3, <1>4 DEF Next

(* What is in the one context of the plugin belongs to the callback that is*)
(* active, and every history to its run, unless a check was awaited: an    *)
(* inductive invariant.                                                    *)
THEOREM OwnInvariant == Spec => [](IInv /\ OwnInv)
<1>1. Init => OwnInv
  <2> SUFFICES ASSUME Init PROVE OwnInv
    OBVIOUS
  <2>1. MessageIsOwn /\ AwaitedIsOwn
    BY ContentIs DEF Init, MessageIsOwn, AwaitedIsOwn, NoContent
  <2>2. GivenIsOwn
    BY ContentIs DEF Init, GivenIsOwn, NoContent
  <2>3. HistoryIsOwn
    BY NoneOwn DEF Init, HistoryIsOwn
  <2>4. QED
    BY <2>1, <2>2, <2>3 DEF OwnInv
<1>2. IInv /\ OwnInv /\ [Next]_vars => OwnInv'
  <2> SUFFICES ASSUME IInv, OwnInv, [Next]_vars PROVE OwnInv'
    OBVIOUS
  <2>1. AwaitedIsOwn'
    BY NextKeeps, ProgramStays, AwaitedOwn
  <2>2. CASE \E c \in Coroutines : HandlerActs(c)
    BY <2>1, <2>2, HandlerOwn DEF OwnInv
  <2>3. CASE \E c \in Coroutines : CallTool(c) \/ ToolRuns(c) \/ CheckResult(c)
    BY <2>1, <2>3, ToolOwn DEF OwnInv
  <2>4. CASE \E r \in Runs : ReceivePrompt(r) \/ AskModel(r) \/ ModelAnswers(r)
    BY <2>1, <2>4, RunOwn DEF OwnInv
  <2>5. CASE \E r \in Runs : JoinTools(r)
    BY <2>1, <2>5, JoinOwn DEF OwnInv
  <2>6. CASE UNCHANGED vars
    <3>1. UNCHANGED <<workflow, active, message, at, step, given, history>>
      BY <2>6 DEF vars, ctxVars, callVars, runVars
    <3>2. \A c : Steps(c)' = Steps(c)
      BY <3>1, SameHandlers DEF Steps, RunOf
    <3>3. MessageIsOwn'
      BY <3>1, <3>2 DEF OwnInv, MessageIsOwn, Shared, VerdictAwaited, OwnMessage, OwnAt, IsContent
    <3>4. GivenIsOwn'
      BY <3>1, GivenStays DEF OwnInv, GivenIsOwn
    <3>5. QED
      BY <2>1, <3>1, <3>3, <3>4, HistoryStays DEF OwnInv
  <2>7. QED
    BY <2>2, <2>3, <2>4, <2>5, <2>6 DEF Next
<1>3. QED
  BY <1>1, <1>2, PlacesInvariant, PTL DEF Spec

(* No agent finds a content of another in its history, and no tool call a  *)
(* result of another, however agents and tool calls run side by side on the*)
(* one context of the plugin and whatever masks are awaited meanwhile; only*)
(* where the handlers of an event await a check may it be another's.       *)
THEOREM NothingIsMixed == Spec => []EveryoneGetsTheirOwn
<1>1. OwnInv => EveryoneGetsTheirOwn
  <2> SUFFICES ASSUME OwnInv, NEW r \in Runs, NEW i \in DOMAIN history[r]
               PROVE  Own(r, history[r][i])
    BY DEF EveryoneGetsTheirOwn
  <2>1. OwnEntry(r, history[r][i])
    BY EntryOwn DEF OwnInv, HistoryIsOwn
  <2>2. QED
    BY <2>1 DEF OwnEntry, Own
<1>2. QED
  BY <1>1, OwnInvariant, PTL

----------------------------------------------------------------------------
(* What is masked stays masked. *)

(* The message of the callback is its own, and more than what a tool is    *)
(* called with, which no mask of the result sees.                          *)
Keeps(c) == ~Shared(c) /\ at[c] # "call"

(* The masks before step k have taken from the content what they look for. *)
Sifted(c, k, m) ==
  \A i \in DOMAIN Steps(c), g \in Masking : i < k /\ Steps(c)[i] = Mask(g) => g \notin m.secrets

(* What a handler has masked so far stays masked.                          *)
MessageIsSifted ==
  active # Nobody /\ Keeps(active) => Sifted(active, step[active], message)

AwaitedIsSifted ==
  \A c \in Coroutines : awaited[c] # NoContent /\ Keeps(c) /\ Action(c).op = "mask" =>
    Sifted(c, step[c] + 1, awaited[c])

MaskedEntry(r, e) ==
  /\ e.kind = "text" /\ e.role = "user" => e.body.secrets \cap MaskedBy("input", r) = {}
  /\ e.kind = "text" /\ e.role = "model" => e.body.secrets \cap MaskedBy("after", r) = {}
  /\ e.kind = "results" =>
       \A j \in DOMAIN e.body : e.body[j].secrets \cap MaskedBy("result", r) = {}

HistoryIsMasked == \A r \in Runs : \A i \in DOMAIN history[r] : MaskedEntry(r, history[r][i])

(* What waits to be joined has been through the handlers of a result.      *)
ResultsAreMasked ==
  \A c \in Coroutines :
    IsTool(c) /\ at[c] = "done" /\ at[Main(RunOf(c))] # "failed" =>
      given[c].secrets \cap MaskedBy("result", RunOf(c)) = {}

ContextIsMasked == MessageIsSifted /\ HistoryIsMasked /\ ResultsAreMasked

MaskInv == ContextIsMasked /\ AwaitedIsSifted

LEMMA SameMasks ==
  ASSUME workflow' = workflow
  PROVE  \A r, e : MaskedEntry(r, e)' <=> MaskedEntry(r, e)
  BY SameHandlers DEF MaskedEntry

(* A callback that begins has masked nothing yet.                          *)
LEMMA BeginsSifted ==
  ASSUME IInv, NEW c \in Coroutines, NEW place \in Callbacks,
         workflow' = workflow, active' = c, at' = [at EXCEPT ![c] = place],
         step' = [step EXCEPT ![c] = 1]
  PROVE  MessageIsSifted'
<1>1. at'[c] = place /\ step'[c] = 1
  BY DEF IInv, PlacesFit, HandlersRun
<1>2. DOMAIN StepsOf(place, RunOf(c))' \subseteq Nat \ {0}
  BY SameHandlers, StepsAreASequence DEF IInv, HandlersRun
<1>3. \A i \in Nat \ {0} : ~(i < 1)
  OBVIOUS
<1>4. QED
  BY <1>1, <1>2, <1>3 DEF MessageIsSifted, Sifted, Steps

(* When the callback is left, nothing is promised of the message.          *)
LEMMA LeftSifted ==
  ASSUME active' = Nobody
  PROVE  MessageIsSifted'
  BY DEF MessageIsSifted

(* A step that adds nothing to the histories leaves them masked.           *)
LEMMA HistoryStaysMasked ==
  ASSUME HistoryIsMasked, UNCHANGED <<workflow, history>>
  PROVE  HistoryIsMasked'
  BY SameMasks DEF HistoryIsMasked

(* A content that the step before did not bring anything back to, and the  *)
(* step itself has taken from what it masks.                               *)
LEMMA OneMoreStep ==
  ASSUME IInv, NEW c \in Coroutines, at[c] \in Callbacks, NEW m, Sifted(c, step[c], m), NEW n,
         \A g : g \in n.secrets => g \in m.secrets,
         \A g \in Masking : step[c] \in DOMAIN Steps(c) /\ Action(c) = Mask(g) => g \notin n.secrets
  PROVE  Sifted(c, step[c] + 1, n)
<1>1. step[c] \in Nat
  BY DEF IInv, HandlersRun
<1>2. DOMAIN Steps(c) \subseteq Nat
  BY StepsAreASequence DEF Steps, IInv, HandlersRun
<1>3. ASSUME NEW i \in DOMAIN Steps(c), NEW g \in Masking, i < step[c] + 1, Steps(c)[i] = Mask(g)
      PROVE  g \notin n.secrets
  <2>1. CASE i = step[c]
    BY <1>3, <2>1 DEF Action
  <2>2. CASE i # step[c]
    <3>1. i < step[c]
      BY <1>1, <1>2, <1>3, <2>2
    <3>2. QED
      BY <1>3, <3>1 DEF Sifted
  <2>3. QED
    BY <2>1, <2>2
<1>4. QED
  BY <1>3 DEF Sifted

(* A mask takes from a content of the callback what it looks for.          *)
LEMMA MaskSifts ==
  ASSUME IInv, NEW c \in Coroutines, at[c] \in Callbacks, NEW m, IsContent(m), OwnMessage(c, m),
         Keeps(c), Sifted(c, step[c], m)
  PROVE  Sifted(c, step[c] + 1, Masked(m, Action(c).guardrail))
<1> DEFINE n == Masked(m, Action(c).guardrail)
<1>1. m.form # "args"
  BY DEF OwnMessage, OwnAt, Keeps
<1>2. \A g : g \in n.secrets => g \in m.secrets
  BY MaskTakes
<1>3. ASSUME NEW g \in Masking, Action(c) = Mask(g) PROVE g \notin n.secrets
  <2>1. Action(c).guardrail = g
    BY <1>3 DEF Mask
  <2>2. QED
    BY <1>1, <2>1, MaskTakes
<1> HIDE DEF n
<1>4. Sifted(c, step[c] + 1, n)
  BY <1>2, <1>3, OneMoreStep
<1>5. QED
  BY <1>4 DEF n

(* The next step of the handler is done, after an await or without.        *)
LEMMA GoesOnSifted ==
  ASSUME IInv, ContextIsMasked, NEW c \in Coroutines, InCallback(c), Advance(c), active' = c,
         Keeps(c) /\ ~VerdictAwaited(c)' => Sifted(c, step[c] + 1, message')
  PROVE  ContextIsMasked'
<1>1. UNCHANGED <<workflow, at, given, history>> /\ step' = [step EXCEPT ![c] = @ + 1]
  BY DEF Advance, runVars
<1>2. /\ step'[c] = step[c] + 1 /\ Steps(c)' = Steps(c)
      /\ VerdictAwaited(c) => VerdictAwaited(c)'
  BY <1>1, CallbackPlace, StepGrows
<1>3. MessageIsSifted'
  BY <1>1, <1>2 DEF MessageIsSifted, Sifted, Keeps, Shared
<1>4. ResultsAreMasked'
  BY <1>1, SameHandlers DEF ContextIsMasked, ResultsAreMasked, IsTool, RunOf, Main
<1>5. QED
  BY <1>1, <1>3, <1>4, HistoryStaysMasked DEF ContextIsMasked

(* When the handlers are through, everything they mask is masked.          *)
LEMMA ThroughIsMasked ==
  ASSUME IInv, ContextIsMasked, NEW c \in Coroutines, active = c, step[c] > Len(Steps(c)),
         at[c] \notin {"before", "call"}
  PROVE  message.secrets \cap MaskedBy(at[c], RunOf(c)) = {}
<1>1. CASE AwaitsVerdict(at[c], RunOf(c))
  BY <1>1 DEF MaskedBy
<1>2. CASE ~AwaitsVerdict(at[c], RunOf(c))
  <2>1. Keeps(c) /\ c # Nobody /\ \A i \in DOMAIN Steps(c) : i < step[c]
    BY <1>2, MainOf, ThroughAll DEF Keeps, Shared
  <2>2. QED
    BY <1>2, <2>1 DEF ContextIsMasked, MessageIsSifted, Sifted, MaskedBy, Steps
<1>3. QED
  BY <1>1, <1>2

(* Where nothing handles an event, nothing is masked.                      *)
LEMMA UnhandledMasksNothing ==
  ASSUME NEW place, NEW r, ~Handled(place, r)
  PROVE  MaskedBy(place, r) = {}
  BY DEF Handled, MaskedBy

(* A run that is not waiting for tools has none.                           *)
LEMMA RunMoves ==
  ASSUME IInv, ResultsAreMasked, workflow' = workflow, NEW r \in Runs,
         at[Main(r)] \notin {"tools", "failed"}, NEW place,
         at' = [at EXCEPT ![Main(r)] = place],
         \A c \in Coroutines : IsTool(c) => given'[c] = given[c]
  PROVE  ResultsAreMasked'
<1>1. \A c \in Coroutines : IsTool(c) /\ RunOf(c) = r => at[c] = "idle"
  BY DEF IInv, ToolsRest
<1>2. \A c \in Coroutines : IsTool(c) => at'[c] = at[c] /\ c # Main(r) /\ RunOf(c) \in Runs
  BY MainOf, MainIsNoTool DEF IInv, PlacesFit
<1>3. \A q \in Runs : q # r => at'[Main(q)] = at[Main(q)]
  BY MainIsNoTool DEF IInv, PlacesFit, Main
<1>4. QED
  BY <1>1, <1>2, <1>3, SameHandlers DEF ResultsAreMasked, IsTool, RunOf, Main

(* A tool call that goes on, with a masked result when it is done.         *)
LEMMA ToolMoves ==
  ASSUME IInv, ResultsAreMasked, workflow' = workflow, NEW c \in Coroutines,
         IsTool(c), NEW place, at' = [at EXCEPT ![c] = place],
         \A d \in Coroutines : d # c => given'[d] = given[d],
         place = "done" => given'[c].secrets \cap MaskedBy("result", RunOf(c)) = {}
  PROVE  ResultsAreMasked'
<1>1. at'[c] = place /\ \A d \in Coroutines : d # c => at'[d] = at[d]
  BY DEF IInv, PlacesFit
<1>2. \A d \in Coroutines : Main(RunOf(d)) # c /\ at'[Main(RunOf(d))] = at[Main(RunOf(d))]
  BY <1>1, MainOf, MainIsNoTool
<1>3. QED
  BY <1>1, <1>2, SameHandlers DEF ResultsAreMasked, IsTool, RunOf, Main

(* A history that grows by masked entries stays masked.                    *)
LEMMA GrowsMasked ==
  ASSUME HistoryIsOwn, HistoryIsMasked, workflow' = workflow, NEW r \in Runs, NEW t, OwnEntries(r, t),
         \A j \in DOMAIN t : MaskedEntry(r, t[j]),
         history' = [history EXCEPT ![r] = history[r] \o t]
  PROVE  HistoryIsMasked'
<1> DEFINE s == history[r]
           u == s \o t
<1>1. PICK S : s \in Seq(S)
  BY DEF HistoryIsOwn, OwnEntries
<1>2. PICK T : t \in Seq(T)
  BY DEF OwnEntries
<1>3. /\ DOMAIN s = 1..Len(s) /\ DOMAIN t = 1..Len(t) /\ Len(s) \in Nat /\ Len(t) \in Nat
      /\ DOMAIN u = 1..(Len(s) + Len(t))
      /\ \A i \in 1..(Len(s) + Len(t)) : u[i] = IF i <= Len(s) THEN s[i] ELSE t[i - Len(s)]
  <2>1. s \in Seq(S \cup T) /\ t \in Seq(S \cup T)
    <3>1. S \subseteq S \cup T /\ T \subseteq S \cup T
      OBVIOUS
    <3> HIDE DEF s
    <3>2. QED
      BY <1>1, <1>2, <3>1, SeqMonotonic
  <2> HIDE DEF s
  <2>2. QED
    BY <2>1, ConcatProperties, LenProperties
<1>4. \A i \in DOMAIN s : MaskedEntry(r, s[i])
  BY DEF HistoryIsMasked
<1>5. ASSUME NEW i \in DOMAIN u PROVE MaskedEntry(r, u[i])
  <2> HIDE DEF s, u
  <2>1. CASE i <= Len(s)
    BY <1>3, <1>4, <1>5, <2>1
  <2>2. CASE ~(i <= Len(s))
    <3>1. i - Len(s) \in 1..Len(t)
      BY <1>3, <2>2
    <3>2. QED
      BY <1>3, <2>2, <3>1
  <2>3. QED
    BY <2>1, <2>2
<1>6. history'[r] = u /\ \A q \in Runs : q # r => history'[q] = history[q]
  BY DEF HistoryIsOwn
<1> HIDE DEF u, s
<1>7. ASSUME NEW q \in Runs, NEW i \in DOMAIN history'[q] PROVE MaskedEntry(q, history'[q][i])
  <2>1. CASE q = r
    BY <1>5, <1>6, <1>7, <2>1
  <2>2. CASE q # r
    BY <1>6, <1>7, <2>2 DEF HistoryIsMasked
  <2>3. QED
    BY <2>1, <2>2
<1>8. QED
  BY <1>7, SameMasks DEF HistoryIsMasked

(* One entry more.                                                         *)
LEMMA OneMoreMasked ==
  ASSUME HistoryIsOwn, HistoryIsMasked, workflow' = workflow, NEW r \in Runs, NEW e, OwnEntry(r, e),
         MaskedEntry(r, e), history' = [history EXCEPT ![r] = Append(@, e)]
  PROVE  HistoryIsMasked'
<1> DEFINE t == <<e>>
<1>1. OwnEntries(r, t) /\ DOMAIN t = {1} /\ t[1] = e
  BY OneOwn
<1> HIDE DEF t
<1>2. Append(history[r], e) = history[r] \o t
  <2>1. PICK S : history[r] \in Seq(S)
    BY DEF HistoryIsOwn, OwnEntries
  <2>2. history[r] \in Seq(S \cup {e})
    <3>1. S \subseteq S \cup {e}
      OBVIOUS
    <3>2. QED
      BY <2>1, <3>1, SeqMonotonic
  <2>3. QED
    BY <2>2, AppendIsConcat DEF t
<1>3. QED
  BY <1>1, <1>2, GrowsMasked

(* A response that has been through its handlers, or needs none.           *)
LEMMA RespondMasked ==
  ASSUME HistoryIsOwn, HistoryIsMasked, workflow' = workflow, NEW r \in Runs, NEW text,
         IsContent(text), text = NoContent \/ AwaitsVerdict("after", r) \/ text.from = Main(r),
         text = NoContent \/ text.secrets \cap MaskedBy("after", r) = {}, NEW asks,
         history' = [history EXCEPT ![r] =
           @ \o (IF text = NoContent THEN << >> ELSE <<Model(text)>>)
             \o (IF asks = 0 THEN << >> ELSE <<Calls(asks)>>)]
  PROVE  HistoryIsMasked'
<1> DEFINE a == IF text = NoContent THEN << >> ELSE <<Model(text)>>
           b == IF asks = 0 THEN << >> ELSE <<Calls(asks)>>
           t == a \o b
<1>1. OwnEntries(r, a)
  <2>1. CASE text = NoContent
    BY <2>1, NoneOwn
  <2>2. CASE text # NoContent
    BY <2>2, TextsOwn, OneOwn
  <2>3. QED
    BY <2>1, <2>2
<1>2. OwnEntries(r, b)
  <2>1. OwnEntry(r, Calls(asks))
    BY DEF OwnEntry, Calls
  <2>2. QED
    BY <2>1, NoneOwn, OneOwn
<1>3. text # NoContent => MaskedEntry(r, Model(text))
  BY DEF MaskedEntry, Model
<1>4. MaskedEntry(r, Calls(asks))
  BY DEF MaskedEntry, Calls
<1>5. \A j \in DOMAIN t : MaskedEntry(r, t[j])
  <2>1. CASE text = NoContent /\ asks = 0
    BY <2>1
  <2>2. CASE text # NoContent /\ asks = 0
    BY <1>3, <2>2
  <2>3. CASE text = NoContent /\ asks # 0
    BY <1>4, <2>3
  <2>4. CASE text # NoContent /\ asks # 0
    BY <1>3, <1>4, <2>4
  <2>5. QED
    BY <2>1, <2>2, <2>3, <2>4
<1>6. history' = [history EXCEPT ![r] = (history[r] \o a) \o b]
  OBVIOUS
<1> HIDE DEF a, b
<1>7. (history[r] \o a) \o b = history[r] \o t
  <2>1. PICK S1, S2, S3 : history[r] \in Seq(S1) /\ a \in Seq(S2) /\ b \in Seq(S3)
    BY <1>1, <1>2 DEF HistoryIsOwn, OwnEntries
  <2> DEFINE h == history[r]
  <2>2. h \in Seq(S1)
    BY <2>1
  <2> HIDE DEF h
  <2>3. (h \o a) \o b = h \o (a \o b)
    BY <2>1, <2>2, ConcatRegroups, SMTT(40)
  <2>4. QED
    BY <2>3 DEF h
<1>8. OwnEntries(r, t)
  BY <1>1, <1>2, ConcatOwn
<1> HIDE DEF t
<1>9. QED
  BY <1>5, <1>6, <1>7, <1>8, GrowsMasked

(* Where the coroutines are when the model has answered.                   *)
LEMMA AskedMasked ==
  ASSUME IInv, ResultsAreMasked, workflow' = workflow, NEW r \in Runs,
         at[Main(r)] \notin {"tools", "failed"}, NEW asks, at' = Asked(r, asks), given' = given
  PROVE  ResultsAreMasked'
<1>1. \A c \in Coroutines : IsTool(c) /\ RunOf(c) = r => at[c] = "idle"
  BY DEF IInv, ToolsRest
<1>2. \A c \in Coroutines : /\ RunOf(c) # r => at'[c] = at[c]
                            /\ IsTool(c) /\ RunOf(c) = r => at'[c] # "done"
  BY <1>1, MainIsNoTool DEF Asked
<1>3. \A c \in Coroutines : RunOf(Main(RunOf(c))) = RunOf(c) /\ Main(RunOf(c)) \in Coroutines
  BY MainOf, MainIsNoTool
<1>4. ASSUME NEW c \in Coroutines, IsTool(c), at'[c] = "done", at'[Main(RunOf(c))] # "failed"
      PROVE  given[c].secrets \cap MaskedBy("result", RunOf(c)) = {}
  <2>1. RunOf(c) # r
    BY <1>2, <1>4
  <2>2. at[c] = "done" /\ at[Main(RunOf(c))] # "failed"
    BY <1>2, <1>3, <1>4, <2>1
  <2>3. QED
    BY <1>4, <2>2 DEF ResultsAreMasked
<1>5. QED
  BY <1>4, SameHandlers DEF ResultsAreMasked, IsTool, RunOf, Main

(* What a failed run leaves behind is not joined.                          *)
LEMMA FailsMasked ==
  ASSUME IInv, ContextIsMasked, NEW c \in Coroutines, RunFails(c)
  PROVE  ContextIsMasked'
<1> DEFINE r == RunOf(c)
<1>1. /\ active' = Nobody /\ UNCHANGED <<workflow, given, history>>
      /\ at' = [at EXCEPT ![Main(r)] = "failed", ![c] = IF IsTool(c) THEN "done" ELSE "failed"]
  BY DEF RunFails, runVars
<1>2. /\ r \in Runs /\ Main(r) \in Coroutines /\ ~IsTool(Main(r)) /\ RunOf(Main(r)) = r
      /\ ~IsTool(c) => c = Main(r)
  BY MainOf, MainIsNoTool
<1>3. at'[Main(r)] = "failed" /\ \A d \in Coroutines : d # c /\ d # Main(r) => at'[d] = at[d]
  BY <1>1, <1>2 DEF IInv, PlacesFit
<1>4. \A d \in Coroutines : RunOf(d) # r =>
        Main(RunOf(d)) \in Coroutines /\ Main(RunOf(d)) # Main(r) /\ Main(RunOf(d)) # c
  BY <1>2, MainOf, MainIsNoTool
<1>5. ASSUME NEW d \in Coroutines, IsTool(d), at'[d] = "done", at'[Main(RunOf(d))] # "failed"
      PROVE  given[d].secrets \cap MaskedBy("result", RunOf(d)) = {}
  <2>1. RunOf(d) # r
    BY <1>3, <1>5
  <2>2. at'[d] = at[d] /\ at'[Main(RunOf(d))] = at[Main(RunOf(d))]
    BY <1>2, <1>3, <1>4, <2>1
  <2>3. QED
    BY <1>5, <2>2 DEF ContextIsMasked, ResultsAreMasked
<1>6. ResultsAreMasked'
  BY <1>1, <1>5, SameHandlers DEF ResultsAreMasked, IsTool, RunOf, Main
<1>7. QED
  BY <1>1, <1>6, LeftSifted, HistoryStaysMasked DEF ContextIsMasked

(* Whatever a handler raises, what goes on from here holds nothing to      *)
(* mask: a refusal, or nothing, as the run has failed.                     *)
LEMMA RaiseMasked ==
  ASSUME IInv, OwnInv, ContextIsMasked, NEW c \in Coroutines, InCallback(c), NEW error, Raise(c, error)
  PROVE  ContextIsMasked'
<1>1. /\ at[c] \in Callbacks /\ Fits(c, at[c]) /\ RunOf(c) \in Runs
      /\ ~IsTool(c) => c = Main(RunOf(c)) /\ at[c] \notin {"tools", "failed"}
      /\ IsTool(c) => at[c] # "idle"
  BY CallbackPlace
<1>2. IsContent(Refusal(c)) /\ Refusal(c).from = c /\ Refusal(c).secrets = {}
  BY RefusalIsOwn
<1>3. CASE at[c] = "input" /\ InputRefused(c)
  <2>1. ~IsTool(c)
    BY <1>1, <1>3 DEF Fits, ToolPlaces
  <2>2. /\ history' = [history EXCEPT ![RunOf(c)] = Append(@, Model(Refusal(c)))]
        /\ active' = Nobody /\ UNCHANGED <<workflow, given>>
        /\ at' = [at EXCEPT ![c] = "ready"]
    BY <1>3 DEF InputRefused, Leave
  <2>3. MaskedEntry(RunOf(c), Model(Refusal(c))) /\ OwnEntry(RunOf(c), Model(Refusal(c)))
    BY <1>1, <1>2, <2>1, TextsOwn DEF MaskedEntry, Model
  <2>4. HistoryIsMasked'
    BY <1>1, <2>2, <2>3, OneMoreMasked DEF ContextIsMasked, OwnInv
  <2>5. ResultsAreMasked'
    BY <1>1, <2>1, <2>2, RunMoves DEF ContextIsMasked
  <2>6. QED
    BY <2>2, <2>4, <2>5, LeftSifted DEF ContextIsMasked
<1>4. CASE at[c] = "before" /\ RequestRefused(c)
  <2>1. ~IsTool(c)
    BY <1>1, <1>4 DEF Fits, ToolPlaces
  <2>2. /\ Respond(RunOf(c), Refusal(c), 0)
        /\ active' = Nobody /\ UNCHANGED <<workflow, given>>
        /\ at' = [at EXCEPT ![c] = "ended"]
    BY <1>4 DEF RequestRefused, Leave
  <2>3. HistoryIsMasked'
    BY <1>1, <1>2, <2>1, <2>2, RespondMasked DEF ContextIsMasked, OwnInv, Respond
  <2>4. ResultsAreMasked'
    BY <1>1, <2>1, <2>2, RunMoves DEF ContextIsMasked
  <2>5. QED
    BY <2>2, <2>3, <2>4, LeftSifted DEF ContextIsMasked
<1>5. CASE at[c] \in {"call", "result"} /\ ToolRefused(c)
  <2>1. IsTool(c)
    BY <1>1, <1>5 DEF Fits, ToolPlaces
  <2> DEFINE place == IF at[c] = "call" THEN "returned" ELSE "done"
  <2>2. /\ given' = [given EXCEPT ![c] = Refusal(c)] /\ at' = [at EXCEPT ![c] = place]
        /\ active' = Nobody /\ UNCHANGED <<workflow, history>>
    BY <1>5 DEF ToolRefused, Leave, runVars
  <2> HIDE DEF place
  <2>3. given'[c] = Refusal(c) /\ \A d \in Coroutines : d # c => given'[d] = given[d]
    BY <2>2 DEF OwnInv, GivenIsOwn
  <2>4. given'[c].secrets \cap MaskedBy("result", RunOf(c)) = {}
    BY <1>2, <2>3
  <2>5. ResultsAreMasked'
    BY <1>1, <2>1, <2>2, <2>3, <2>4, ToolMoves DEF ContextIsMasked
  <2>6. QED
    BY <2>2, <2>5, LeftSifted, HistoryStaysMasked DEF ContextIsMasked
<1>6. CASE RunFails(c)
  BY <1>6, FailsMasked
<1>7. \/ at[c] = "input" /\ InputRefused(c)
      \/ at[c] = "before" /\ RequestRefused(c)
      \/ at[c] \in {"call", "result"} /\ ToolRefused(c)
      \/ RunFails(c)
  BY DEF Raise
<1>8. QED
  BY <1>3, <1>4, <1>5, <1>6, <1>7

(* When a callback returns, what it hands to ADK has been through every    *)
(* mask.                                                                   *)
LEMMA EndMasked ==
  ASSUME IInv, OwnInv, ContextIsMasked, NEW c \in Coroutines, EndCallback(c)
  PROVE  ContextIsMasked'
<1>1. active = c /\ step[c] > Len(Steps(c))
  BY DEF EndCallback
<1>2. /\ at[c] \in Callbacks /\ Fits(c, at[c]) /\ RunOf(c) \in Runs
      /\ ~IsTool(c) => c = Main(RunOf(c)) /\ at[c] \notin {"tools", "failed"}
      /\ IsTool(c) => at[c] # "idle"
  BY <1>1, CallbackPlace DEF InCallback
<1>3. /\ IsContent(message)
      /\ at[c] # "before" => AwaitsVerdict(at[c], RunOf(c)) \/ OwnMessage(c, message)
  BY <1>1, MainOf, ThroughAll DEF OwnInv, MessageIsOwn, Shared
<1>4. at[c] \notin {"before", "call"} => message.secrets \cap MaskedBy(at[c], RunOf(c)) = {}
  BY <1>1, ThroughIsMasked DEF ContextIsMasked
<1>5. CASE InputPasses(c)
  <2>1. ~IsTool(c) /\ at[c] = "input"
    BY <1>2, <1>5 DEF InputPasses, Fits, ToolPlaces
  <2>2. /\ history' = [history EXCEPT ![RunOf(c)] = Append(@, Text(message))]
        /\ active' = Nobody /\ UNCHANGED <<workflow, given>>
        /\ at' = [at EXCEPT ![c] = "ready"]
    BY <1>5 DEF InputPasses, Leave
  <2>3. MaskedEntry(RunOf(c), Text(message)) /\ OwnEntry(RunOf(c), Text(message))
    BY <1>2, <1>3, <1>4, <2>1, TextsOwn DEF MaskedEntry, Text, OwnMessage, OwnAt
  <2>4. HistoryIsMasked'
    BY <1>2, <2>2, <2>3, OneMoreMasked DEF ContextIsMasked, OwnInv
  <2>5. ResultsAreMasked'
    BY <1>2, <2>1, <2>2, RunMoves DEF ContextIsMasked
  <2>6. QED
    BY <2>2, <2>4, <2>5, LeftSifted DEF ContextIsMasked
<1>6. CASE RequestPasses(c)
  <2>1. ~IsTool(c)
    BY <1>2, <1>6 DEF RequestPasses, Fits, ToolPlaces
  <2>2. /\ active' = Nobody /\ UNCHANGED <<workflow, given, history>>
        /\ at' = [at EXCEPT ![c] = "model"]
    BY <1>6 DEF RequestPasses, Leave
  <2>3. ResultsAreMasked'
    BY <1>2, <2>1, <2>2, RunMoves DEF ContextIsMasked
  <2>4. QED
    BY <2>2, <2>3, LeftSifted, HistoryStaysMasked DEF ContextIsMasked
<1>7. CASE ResponsePasses(c)
  <2> DEFINE r == RunOf(c)
             asks == IF Changed(c) THEN 0 ELSE response[r].calls
  <2>1. ~IsTool(c) /\ at[c] = "after"
    BY <1>2, <1>7 DEF ResponsePasses, Fits, ToolPlaces
  <2>2. /\ Respond(r, message, asks) /\ at' = Asked(r, asks)
        /\ active' = Nobody /\ UNCHANGED <<workflow, given>>
    BY <1>7 DEF ResponsePasses
  <2> HIDE DEF asks
  <2>3. HistoryIsMasked'
    BY <1>2, <1>3, <1>4, <2>1, <2>2, RespondMasked DEF ContextIsMasked, OwnInv, Respond, OwnMessage, OwnAt
  <2>4. ResultsAreMasked'
    BY <1>2, <2>1, <2>2, AskedMasked DEF ContextIsMasked
  <2>5. QED
    BY <2>2, <2>3, <2>4, LeftSifted DEF ContextIsMasked
<1>8. CASE CallPasses(c)
  <2>1. IsTool(c)
    BY <1>2, <1>8 DEF CallPasses, Fits, ToolPlaces
  <2>2. /\ active' = Nobody /\ UNCHANGED <<workflow, given, history>>
        /\ at' = [at EXCEPT ![c] = "tool"]
    BY <1>8 DEF CallPasses, Leave, runVars
  <2>3. ResultsAreMasked'
    BY <1>2, <2>1, <2>2, ToolMoves DEF ContextIsMasked
  <2>4. QED
    BY <2>2, <2>3, LeftSifted, HistoryStaysMasked DEF ContextIsMasked
<1>9. CASE ResultPasses(c)
  <2>1. IsTool(c) /\ at[c] = "result"
    BY <1>2, <1>9 DEF ResultPasses, Fits, ToolPlaces
  <2>2. /\ given' = [given EXCEPT ![c] = IF message.form = "args" THEN @ ELSE message]
        /\ at' = [at EXCEPT ![c] = "done"]
        /\ active' = Nobody /\ UNCHANGED <<workflow, history>>
    BY <1>9 DEF ResultPasses, Leave, runVars
  <2>3. /\ given'[c] = IF message.form = "args" THEN given[c] ELSE message
        /\ \A d \in Coroutines : d # c => given'[d] = given[d]
    BY <2>2 DEF OwnInv, GivenIsOwn
  <2>4. message.form = "args" => MaskedBy("result", RunOf(c)) = {}
    BY <1>3, <2>1 DEF OwnMessage, OwnAt, MaskedBy
  <2>5. given'[c].secrets \cap MaskedBy("result", RunOf(c)) = {}
    BY <1>4, <2>1, <2>3, <2>4
  <2>6. ResultsAreMasked'
    BY <1>2, <2>1, <2>2, <2>3, <2>5, ToolMoves DEF ContextIsMasked
  <2>7. QED
    BY <2>2, <2>6, LeftSifted, HistoryStaysMasked DEF ContextIsMasked
<1>10. CASE NoTextPasses(c)
  BY <1>10, FailsMasked DEF NoTextPasses
<1>11. QED
  BY <1>5, <1>6, <1>7, <1>8, <1>9, <1>10 DEF EndCallback

(* An action of a handler that does not mask, and lets it go on.           *)
LEMMA PassesMasked ==
  ASSUME IInv, ContextIsMasked, NEW c \in Coroutines, active = c, Advance(c), UNCHANGED <<message, active>>,
         step[c] \in DOMAIN Steps(c) => Action(c).op # "mask"
  PROVE  ContextIsMasked'
<1>1. InCallback(c) /\ c # Nobody /\ at[c] \in Callbacks
  BY MainOf, CallbackPlace DEF InCallback
<1>2. \A g : Mask(g).op = "mask"
  BY DEF Mask
<1>3. Keeps(c) => Sifted(c, step[c], message)
  BY <1>1 DEF ContextIsMasked, MessageIsSifted
<1>4. Keeps(c) => Sifted(c, step[c] + 1, message)
  BY <1>1, <1>2, <1>3, OneMoreStep
<1>5. Keeps(c) => Sifted(c, step[c] + 1, message')
  BY <1>4
<1>6. QED
  BY <1>1, <1>5, GoesOnSifted

(* No action of a handler undoes a mask.                                   *)
LEMMA HandlerMasked ==
  ASSUME IInv, OwnInv, MaskInv, NEW c \in Coroutines, HandlerActs(c)
  PROVE  ContextIsMasked'
<1>1. (active = c => InCallback(c)) /\ ContextIsMasked
  BY DEF InCallback, MaskInv
<1>2. CASE ApplyMask(c)
  <2> DEFINE g == Action(c).guardrail
  <2>1. active = c /\ active' = c /\ message' = Masked(message, g) /\ Advance(c) /\ c # Nobody
    BY <1>2, MainOf DEF ApplyMask, Acts
  <2>2. IsContent(message) /\ at[c] \in Callbacks
    BY <1>1, <2>1, CallbackPlace DEF OwnInv, MessageIsOwn
  <2>3. Keeps(c) => OwnMessage(c, message) /\ Sifted(c, step[c], message)
    BY <1>1, <2>1 DEF OwnInv, MessageIsOwn, ContextIsMasked, MessageIsSifted, Keeps
  <2>4. Keeps(c) => Sifted(c, step[c] + 1, Masked(message, g))
    BY <2>2, <2>3, MaskSifts
  <2> HIDE DEF g
  <2>5. Keeps(c) => Sifted(c, step[c] + 1, message')
    BY <2>1, <2>4
  <2>6. QED
    BY <1>1, <2>1, <2>5, GoesOnSifted
<1>3. CASE GuardrailRaises(c)
  BY <1>1, <1>3, RaiseMasked DEF GuardrailRaises, Acts, InCallback
<1>4. CASE AwaitGuardrail(c)
  <2>1. active' = Nobody /\ UNCHANGED <<workflow, at, given, history>>
    BY <1>4 DEF AwaitGuardrail, ctxVars, runVars
  <2>2. ResultsAreMasked'
    BY <1>1, <2>1, SameHandlers DEF ContextIsMasked, ResultsAreMasked, IsTool, RunOf, Main
  <2>3. QED
    BY <1>1, <2>1, <2>2, LeftSifted, HistoryStaysMasked DEF ContextIsMasked
<1>5. CASE MaskArrives(c)
  <2>1. Awaits(c) /\ active' = c /\ message' = awaited[c] /\ Advance(c) /\ Action(c).op = "mask"
    BY <1>5 DEF MaskArrives
  <2>2. Keeps(c) => Sifted(c, step[c] + 1, awaited[c])
    BY <2>1 DEF Awaits, MaskInv, AwaitedIsSifted
  <2>3. Keeps(c) => Sifted(c, step[c] + 1, message')
    BY <2>1, <2>2
  <2>4. QED
    BY <1>1, <2>1, <2>3, GoesOnSifted DEF InCallback
<1>6. CASE VerdictArrives(c)
  <2>1. Awaits(c) /\ active' = c /\ Advance(c) /\ Action(c).op \in {"block", "warn"}
    BY <1>6 DEF VerdictArrives
  <2>2. VerdictAwaited(c)'
    BY <2>1, VerdictIsAwaited
  <2>3. QED
    BY <1>1, <2>1, <2>2, GoesOnSifted DEF InCallback
<1>7. CASE CheckPasses(c)
  BY <1>1, <1>7, PassesMasked DEF CheckPasses, Acts
<1>8. CASE CheckBlocks(c)
  BY <1>1, <1>8, RaiseMasked DEF CheckBlocks, Acts, InCallback
<1>9. CASE DriftPasses(c)
  BY <1>1, <1>9, PassesMasked DEF DriftPasses, Acts
<1>10. CASE DriftBlocks(c)
  BY <1>1, <1>10, RaiseMasked DEF DriftBlocks, Acts
<1>11. CASE ConditionFails(c)
  BY <1>1, <1>11, PassesMasked DEF ConditionFails, Acts
<1>12. CASE FailStatement(c)
  BY <1>1, <1>12, RaiseMasked DEF FailStatement, Acts
<1>13. CASE RetryStatement(c)
  BY <1>1, <1>13, RaiseMasked DEF RetryStatement, Acts
<1>14. CASE ReadEvent(c)
  <2>1. CASE Advance(c) /\ UNCHANGED <<message, active, awaited>>
    BY <1>1, <1>14, <2>1, PassesMasked DEF ReadEvent, Acts
  <2>2. CASE Raise(c, "other")
    BY <1>1, <1>14, <2>2, RaiseMasked DEF ReadEvent, Acts
  <2>3. QED
    BY <1>14, <2>1, <2>2 DEF ReadEvent
<1>15. CASE EndCallback(c)
  BY <1>1, <1>15, EndMasked
<1>16. QED
  BY <1>2, <1>3, <1>4, <1>5, <1>6, <1>7, <1>8, <1>9, <1>10, <1>11, <1>12, <1>13, <1>14, <1>15
  DEF HandlerActs

(* What is awaited stays what it was, or is the message, masked.           *)
LEMMA AwaitedMasked ==
  ASSUME IInv, OwnInv, MaskInv, workflow' = workflow, NoNewAwaits \/ \E c \in Coroutines : AwaitGuardrail(c)
  PROVE  AwaitedIsSifted'
<1>1. ASSUME NEW d \in Coroutines, awaited'[d] # NoContent, awaited'[d] = awaited[d],
             at'[d] = at[d], step'[d] = step[d], Keeps(d)', Action(d)'.op = "mask"
      PROVE  Sifted(d, step[d] + 1, awaited[d])'
  <2>1. Steps(d)' = Steps(d)
    BY <1>1, SameHandlers DEF Steps, RunOf
  <2>2. Keeps(d) /\ Action(d).op = "mask"
    BY <1>1, <2>1 DEF Keeps, Shared, VerdictAwaited, Action
  <2>3. Sifted(d, step[d] + 1, awaited[d])
    BY <1>1, <2>2 DEF MaskInv, AwaitedIsSifted
  <2>4. QED
    BY <1>1, <2>1, <2>3 DEF Sifted
<1>2. CASE NoNewAwaits
  BY <1>1, <1>2 DEF NoNewAwaits, AwaitedIsSifted, NoContent, Content, Nobody
<1>3. CASE \E c \in Coroutines : AwaitGuardrail(c)
  <2>1. PICK c \in Coroutines : AwaitGuardrail(c)
    BY <1>3
  <2> DEFINE g == Action(c).guardrail
  <2>2. active = c /\ UNCHANGED <<at, step>> /\ awaited' = [awaited EXCEPT ![c] = Masked(message, g)]
    BY <2>1 DEF AwaitGuardrail, Acts
  <2>3. IsContent(message) /\ at[c] \in Callbacks /\ c # Nobody
    BY <2>2, MainOf, CallbackPlace DEF OwnInv, MessageIsOwn, InCallback
  <2>4. Keeps(c) => OwnMessage(c, message) /\ Sifted(c, step[c], message)
    BY <2>2, <2>3 DEF OwnInv, MessageIsOwn, MaskInv, ContextIsMasked, MessageIsSifted, Keeps
  <2>5. Keeps(c) => Sifted(c, step[c] + 1, Masked(message, g))
    BY <2>3, <2>4, MaskSifts
  <2> HIDE DEF g
  <2>6. awaited'[c] = Masked(message, g) /\ \A d \in Coroutines : d # c => awaited'[d] = awaited[d]
    BY <2>2 DEF IInv, AwaitsFit
  <2>7. Steps(c)' = Steps(c)
    BY <2>2, SameHandlers DEF Steps, RunOf
  <2>8. Keeps(c)' => Keeps(c)
    BY <2>2, <2>7 DEF Keeps, Shared, VerdictAwaited
  <2>9. Keeps(c)' => Sifted(c, step[c] + 1, awaited[c])'
    BY <2>2, <2>5, <2>6, <2>7, <2>8 DEF Sifted
  <2>10. QED
    BY <1>1, <2>2, <2>6, <2>9 DEF AwaitedIsSifted, NoContent, Content, Nobody
<1>4. QED
  BY <1>2, <1>3

(* A tool call comes to its end through the handlers of its result, or had *)
(* none, or nothing to give them.                                          *)
LEMMA ToolMasked ==
  ASSUME IInv, OwnInv, ContextIsMasked, NEW c \in Coroutines, CallTool(c) \/ ToolRuns(c) \/ CheckResult(c)
  PROVE  ContextIsMasked'
<1>1. IsTool(c)
  BY DEF CallTool, ToolRuns, CheckResult, IInv, PlacesFit, Fits, ToolPlaces
<1>2. ASSUME NEW place \in {"call", "result"}, NEW content, Enter(c, place, content), UNCHANGED runVars
      PROVE  ContextIsMasked'
  <2>1. /\ active' = c /\ at' = [at EXCEPT ![c] = place] /\ step' = [step EXCEPT ![c] = 1]
        /\ given' = [given EXCEPT ![c] = As(place, content)] /\ UNCHANGED <<workflow, history>>
    BY <1>2 DEF Enter, runVars
  <2>2. MessageIsSifted'
    BY <2>1, BeginsSifted DEF Callbacks
  <2>3. \A d \in Coroutines : d # c => given'[d] = given[d]
    BY <2>1 DEF OwnInv, GivenIsOwn
  <2>4. ResultsAreMasked'
    BY <1>1, <2>1, <2>3, ToolMoves DEF ContextIsMasked
  <2>5. QED
    BY <2>1, <2>2, <2>4, HistoryStaysMasked DEF ContextIsMasked
<1>3. ASSUME NEW place, active = Nobody, at' = [at EXCEPT ![c] = place],
             UNCHANGED <<workflow, active, history>>,
             \A d \in Coroutines : d # c => given'[d] = given[d],
             place = "done" => given'[c].secrets \cap MaskedBy("result", RunOf(c)) = {}
      PROVE  ContextIsMasked'
  <2>1. ResultsAreMasked'
    BY <1>1, <1>3, ToolMoves DEF ContextIsMasked
  <2>2. MessageIsSifted'
    BY <1>3, LeftSifted
  <2>3. QED
    BY <1>3, <2>1, <2>2, HistoryStaysMasked DEF ContextIsMasked
<1>4. CASE CallTool(c)
  <2>1. CASE Enter(c, "call", Raw(c, "args"))
    BY <1>2, <1>4, <2>1 DEF CallTool
  <2>2. CASE Skip(c, "tool")
    BY <1>3, <1>4, <2>2 DEF CallTool, Skip, runVars
  <2>3. QED
    BY <1>4, <2>1, <2>2 DEF CallTool
<1>5. CASE ToolRuns(c)
  <2>1. PICK result \in {Raw(c, "result"), NoContent} : given' = [given EXCEPT ![c] = result]
    BY <1>5 DEF ToolRuns
  <2>2. \A d \in Coroutines : d # c => given'[d] = given[d]
    BY <2>1 DEF OwnInv, GivenIsOwn
  <2>3. QED
    BY <1>3, <1>5, <2>2 DEF ToolRuns, runVars
<1>6. CASE CheckResult(c)
  <2>1. CASE Handled("result", RunOf(c)) /\ given[c] # NoContent
    BY <1>2, <1>6, <2>1 DEF CheckResult
  <2>2. CASE ~(Handled("result", RunOf(c)) /\ given[c] # NoContent)
    <3>1. Skip(c, "done") /\ UNCHANGED runVars
      BY <1>6, <2>2 DEF CheckResult
    <3>2. given[c].secrets \cap MaskedBy("result", RunOf(c)) = {}
      <4>1. CASE given[c] = NoContent
        BY <4>1 DEF NoContent, Content
      <4>2. CASE ~Handled("result", RunOf(c))
        BY <4>2, UnhandledMasksNothing
      <4>3. QED
        BY <2>2, <4>1, <4>2
    <3>3. QED
      BY <1>3, <3>1, <3>2 DEF Skip, runVars
  <2>3. QED
    BY <2>1, <2>2
<1>7. QED
  BY <1>4, <1>5, <1>6

(* The results that are joined have been through their handlers.           *)
LEMMA JoinMasked ==
  ASSUME IInv, OwnInv, ContextIsMasked, NEW r \in Runs, JoinTools(r)
  PROVE  ContextIsMasked'
<1> DEFINE done == {i \in 1..MaxTools : at[<<r, i>>] = "done"}
           results == [i \in done |-> given[<<r, i>>]]
           c == Main(r)
<1>1. /\ history' = [history EXCEPT ![r] = Append(@, Results(results))]
      /\ at' = [d \in Coroutines |->
                  IF d \in ToolsOf(r) THEN "idle" ELSE IF d = c THEN "ready" ELSE at[d]]
      /\ given' = [d \in Coroutines |-> IF d \in ToolsOf(r) THEN NoContent ELSE given[d]]
      /\ active = Nobody /\ at[c] = "tools" /\ UNCHANGED <<workflow, active>>
  BY DEF JoinTools
<1>2. ASSUME NEW i \in done
      PROVE  /\ AwaitsVerdict("result", r) \/ results[i] = NoContent \/ results[i].from = <<r, i>>
             /\ results[i].secrets \cap MaskedBy("result", r) = {}
  <2>1. <<r, i>> \in Coroutines /\ IsTool(<<r, i>>) /\ RunOf(<<r, i>>) = r
    BY GuardrailsAssumption DEF Coroutines, IsTool, RunOf
  <2>2. at[<<r, i>>] = "done" /\ at[Main(RunOf(<<r, i>>))] # "failed"
    BY <1>1, <2>1
  <2>3. QED
    BY <2>1, <2>2 DEF OwnInv, GivenIsOwn, ContextIsMasked, ResultsAreMasked
<1>3. OwnEntry(r, Results(results)) /\ MaskedEntry(r, Results(results))
  BY <1>2 DEF OwnEntry, MaskedEntry, Results
<1>4. HistoryIsMasked'
  <2> HIDE DEF results
  <2>1. QED
    BY <1>1, <1>3, OneMoreMasked DEF OwnInv, ContextIsMasked
<1>5. ~IsTool(c) /\ c \in Coroutines /\ \A d \in Coroutines : RunOf(d) \in Runs
  BY MainOf, MainIsNoTool
<1>6. \A d \in Coroutines : IsTool(d) /\ RunOf(d) = r => at'[d] = "idle"
  BY <1>1 DEF ToolsOf
<1>7. \A d \in Coroutines : RunOf(d) # r => at'[d] = at[d] /\ given'[d] = given[d]
  BY <1>1, MainIsNoTool DEF ToolsOf
<1>8. \A d \in Coroutines : RunOf(d) # r =>
        at'[Main(RunOf(d))] = at[Main(RunOf(d))]
  BY <1>5, <1>7, MainIsNoTool
<1>9. ResultsAreMasked'
  <2>1. ASSUME NEW d \in Coroutines, IsTool(d), at'[d] = "done", at'[Main(RunOf(d))] # "failed"
        PROVE  given'[d].secrets \cap MaskedBy("result", RunOf(d)) = {}
    BY <1>6, <1>7, <1>8, <2>1 DEF ContextIsMasked, ResultsAreMasked
  <2>2. QED
    BY <1>1, <2>1, SameHandlers DEF ResultsAreMasked, IsTool, RunOf, Main
<1>10. QED
  BY <1>1, <1>4, <1>9, LeftSifted DEF ContextIsMasked

(* A run takes up prompts and responses through the handlers, where there  *)
(* are any.                                                                *)
LEMMA RunMasked ==
  ASSUME IInv, OwnInv, ContextIsMasked, NEW r \in Runs, ReceivePrompt(r) \/ AskModel(r) \/ ModelAnswers(r)
  PROVE  ContextIsMasked'
<1> DEFINE c == Main(r)
<1>1. c \in Coroutines /\ ~IsTool(c) /\ RunOf(c) = r
  BY MainIsNoTool
<1>2. at[c] \notin {"tools", "failed"}
  BY DEF ReceivePrompt, AskModel, ModelAnswers
<1>3. ASSUME NEW place \in {"input", "before", "after"}, NEW content, Enter(c, place, content), UNCHANGED history
      PROVE  ContextIsMasked'
  <2>1. /\ active' = c /\ at' = [at EXCEPT ![c] = place] /\ step' = [step EXCEPT ![c] = 1]
        /\ given' = [given EXCEPT ![c] = As(place, content)] /\ UNCHANGED <<workflow, history>>
    BY <1>3 DEF Enter
  <2>2. MessageIsSifted'
    BY <1>1, <2>1, BeginsSifted DEF Callbacks
  <2>3. \A d \in Coroutines : IsTool(d) => given'[d] = given[d]
    BY <1>1, <2>1 DEF OwnInv, GivenIsOwn
  <2>4. ResultsAreMasked'
    BY <1>2, <2>1, <2>3, RunMoves DEF ContextIsMasked
  <2>5. QED
    BY <2>1, <2>2, <2>4, HistoryStaysMasked DEF ContextIsMasked
<1>4. ASSUME NEW place, Skip(c, place) PROVE MessageIsSifted' /\ ResultsAreMasked'
  <2>1. /\ at' = [at EXCEPT ![c] = place] /\ active' = Nobody /\ UNCHANGED <<workflow, given>>
    BY <1>4 DEF Skip
  <2>2. ResultsAreMasked'
    BY <1>2, <2>1, RunMoves DEF ContextIsMasked
  <2>3. QED
    BY <2>1, <2>2, LeftSifted DEF ContextIsMasked
<1>5. CASE ReceivePrompt(r)
  <2> DEFINE prompt == Raw(c, "prompt")
  <2>1. CASE Handled("input", r)
    BY <1>3, <1>5, <2>1 DEF ReceivePrompt, runVars
  <2>2. CASE ~Handled("input", r)
    <3>1. Skip(c, "ready") /\ history' = [history EXCEPT ![r] = Append(@, Text(prompt))]
      BY <1>5, <2>2 DEF ReceivePrompt
    <3>2. IsContent(prompt) /\ prompt.from = c
      BY ContentIs DEF Raw
    <3> HIDE DEF prompt
    <3>3. OwnEntry(r, Text(prompt)) /\ MaskedEntry(r, Text(prompt))
      BY <2>2, <3>2, TextsOwn, UnhandledMasksNothing DEF MaskedEntry, Text
    <3>4. workflow' = workflow
      BY <3>1 DEF Skip
    <3>5. HistoryIsMasked'
      BY <3>1, <3>3, <3>4, OneMoreMasked DEF OwnInv, ContextIsMasked
    <3>6. QED
      BY <1>4, <3>1, <3>5 DEF ContextIsMasked
  <2>3. QED
    BY <2>1, <2>2
<1>6. CASE AskModel(r)
  <2> DEFINE text == history[r][LastOf(r, UserTexts(r))].body
  <2>1. CASE Enter(c, "before", text) /\ UNCHANGED runVars
    BY <1>3, <2>1 DEF runVars
  <2>2. CASE Skip(c, "model") /\ UNCHANGED history
    <3>1. HistoryIsMasked'
      BY <2>2, HistoryStaysMasked DEF Skip, ContextIsMasked
    <3>2. QED
      BY <1>4, <2>2, <3>1 DEF ContextIsMasked
  <2>3. QED
    BY <1>6, <2>1, <2>2 DEF AskModel
<1>7. CASE ModelAnswers(r)
  <2>1. PICK text \in Replies(r), asks \in 0..workflow.calls :
          \/ Enter(c, "after", text) /\ UNCHANGED history
          \/ /\ ~Handled("after", r) \/ text = NoContent
             /\ history' = [history EXCEPT ![r] =
                  @ \o (IF text = NoContent THEN << >> ELSE <<Model(text)>>)
                    \o (IF asks = 0 THEN << >> ELSE <<Calls(asks)>>)]
             /\ at' = Asked(r, asks) /\ active = Nobody
             /\ UNCHANGED <<workflow, active, step, given>>
    BY <1>7 DEF ModelAnswers
  <2>2. IsContent(text) /\ (text = NoContent \/ text.from = c)
    BY <2>1, ContentIs DEF Replies, Raw, NoContent
  <2>3. CASE Enter(c, "after", text) /\ UNCHANGED history
    BY <1>3, <2>3
  <2>4. CASE /\ ~Handled("after", r) \/ text = NoContent
             /\ history' = [history EXCEPT ![r] =
                  @ \o (IF text = NoContent THEN << >> ELSE <<Model(text)>>)
                    \o (IF asks = 0 THEN << >> ELSE <<Calls(asks)>>)]
             /\ at' = Asked(r, asks) /\ active = Nobody
             /\ UNCHANGED <<workflow, active, step, given>>
    <3>1. text = NoContent \/ text.secrets \cap MaskedBy("after", r) = {}
      BY <2>4, UnhandledMasksNothing
    <3>2. HistoryIsMasked'
      BY <2>2, <2>4, <3>1, RespondMasked DEF OwnInv, ContextIsMasked
    <3>3. ResultsAreMasked'
      BY <1>2, <2>4, AskedMasked DEF ContextIsMasked
    <3>4. QED
      BY <2>4, <3>2, <3>3, LeftSifted DEF ContextIsMasked
  <2>5. QED
    BY <2>1, <2>3, <2>4
<1>8. QED
  BY <1>5, <1>6, <1>7

(* What the handlers of the callback in progress have masked is out of the *)
(* message, and what is to be joined or already in a history has been      *)
(* through all of them: an inductive invariant.                            *)
THEOREM MaskInvariant == Spec => [](IInv /\ OwnInv /\ MaskInv)
<1>1. Init => MaskInv
  BY DEF Init, MaskInv, ContextIsMasked, MessageIsSifted, AwaitedIsSifted, HistoryIsMasked, ResultsAreMasked
<1>2. IInv /\ OwnInv /\ MaskInv /\ [Next]_vars => MaskInv'
  <2> SUFFICES ASSUME IInv, OwnInv, MaskInv, [Next]_vars PROVE MaskInv'
    OBVIOUS
  <2>1. AwaitedIsSifted'
    BY NextKeeps, ProgramStays, AwaitedMasked
  <2>2. ContextIsMasked
    BY DEF MaskInv
  <2>3. CASE \E c \in Coroutines : HandlerActs(c)
    BY <2>1, <2>3, HandlerMasked DEF MaskInv
  <2>4. CASE \E c \in Coroutines : CallTool(c) \/ ToolRuns(c) \/ CheckResult(c)
    BY <2>1, <2>2, <2>4, ToolMasked DEF MaskInv
  <2>5. CASE \E r \in Runs : ReceivePrompt(r) \/ AskModel(r) \/ ModelAnswers(r)
    BY <2>1, <2>2, <2>5, RunMasked DEF MaskInv
  <2>6. CASE \E r \in Runs : JoinTools(r)
    BY <2>1, <2>2, <2>6, JoinMasked DEF MaskInv
  <2>7. CASE UNCHANGED vars
    <3>1. UNCHANGED <<workflow, active, message, at, step, given, history>>
      BY <2>7 DEF vars, ctxVars, callVars, runVars
    <3>2. ResultsAreMasked'
      BY <2>2, <3>1, SameHandlers DEF ContextIsMasked, ResultsAreMasked, IsTool, RunOf, Main
    <3>3. \A c : Steps(c)' = Steps(c)
      BY <3>1, SameHandlers DEF Steps, RunOf
    <3>4. MessageIsSifted'
      BY <2>2, <3>1, <3>3 DEF ContextIsMasked, MessageIsSifted, Keeps, Shared, VerdictAwaited, Sifted
    <3>5. QED
      BY <2>1, <2>2, <3>1, <3>2, <3>4, HistoryStaysMasked DEF MaskInv, ContextIsMasked
  <2>8. QED
    BY <2>3, <2>4, <2>5, <2>6, <2>7 DEF Next
<1>3. QED
  BY <1>1, <1>2, OwnInvariant, PTL DEF Spec

(* What the handlers of an event mask is masked wherever it went through   *)
(* them: no history holds it, whatever the plugin returns to ADK on the    *)
(* way and whatever other callbacks do while a mask is awaited. A wrong    *)
(* comparison of ctx.message with what came in, or a callback that returns *)
(* None after a mask, would leave the original there.                      *)
THEOREM MaskedForGoodTheorem == Spec => []MaskedForGood
<1>1. MaskInv => MaskedForGood
  BY DEF MaskInv, ContextIsMasked, HistoryIsMasked, MaskedEntry, MaskedForGood
<1>2. QED
  BY <1>1, MaskInvariant, PTL

----------------------------------------------------------------------------
(* The session and the event of the context. *)

(* A callback begins, goes on or is left: what becomes of the active one.  *)
LEMMA ActiveMoves ==
  ASSUME IInv, [Next]_vars
  PROVE  \/ \E c \in Coroutines, place \in Callbacks :
              Fits(c, place) /\ \E content : Enter(c, place, content)
         \/ \E c \in Coroutines : (active = c \/ Awaits(c)) /\ Advance(c) /\ active' = c
         \/ active' = Nobody
         \/ UNCHANGED vars
<1>1. CASE \E c \in Coroutines : HandlerActs(c)
  <2>1. PICK c \in Coroutines : HandlerActs(c)
    BY <1>1
  <2>2. \A error : Raise(c, error) => active' = Nobody
    BY DEF Raise, InputRefused, RequestRefused, ToolRefused, RunFails, Leave
  <2>3. EndCallback(c) => active' = Nobody
    BY DEF EndCallback, InputPasses, RequestPasses, ResponsePasses, CallPasses, ResultPasses,
           NoTextPasses, RunFails, Leave
  <2>4. CASE GuardrailRaises(c) \/ CheckBlocks(c) \/ DriftBlocks(c) \/ FailStatement(c)
             \/ RetryStatement(c) \/ AwaitGuardrail(c) \/ EndCallback(c)
    BY <2>2, <2>3, <2>4 DEF GuardrailRaises, CheckBlocks, DriftBlocks, FailStatement, RetryStatement,
       AwaitGuardrail
  <2>5. CASE ApplyMask(c) \/ CheckPasses(c) \/ DriftPasses(c) \/ ConditionFails(c)
    BY <2>5 DEF ApplyMask, CheckPasses, DriftPasses, ConditionFails, Acts
  <2>6. CASE MaskArrives(c) \/ VerdictArrives(c)
    BY <2>6 DEF MaskArrives, VerdictArrives
  <2>7. CASE ReadEvent(c)
    BY <2>2, <2>7 DEF ReadEvent, Acts
  <2>8. QED
    BY <2>1, <2>4, <2>5, <2>6, <2>7 DEF HandlerActs
<1>2. CASE \E c \in Coroutines : CallTool(c) \/ ToolRuns(c) \/ CheckResult(c)
  <2>1. PICK c \in Coroutines : CallTool(c) \/ ToolRuns(c) \/ CheckResult(c)
    BY <1>2
  <2>2. Fits(c, "call") /\ Fits(c, "result")
    BY <2>1 DEF CallTool, ToolRuns, CheckResult, IInv, PlacesFit, Fits, ToolPlaces
  <2>3. QED
    BY <2>1, <2>2 DEF CallTool, ToolRuns, CheckResult, Skip, Callbacks
<1>3. CASE \E r \in Runs : ReceivePrompt(r) \/ AskModel(r) \/ ModelAnswers(r) \/ JoinTools(r)
  <2>1. PICK r \in Runs : ReceivePrompt(r) \/ AskModel(r) \/ ModelAnswers(r) \/ JoinTools(r)
    BY <1>3
  <2>2. Main(r) \in Coroutines /\ Fits(Main(r), "input") /\ Fits(Main(r), "before") /\ Fits(Main(r), "after")
    BY MainIsNoTool DEF Fits, ToolPlaces
  <2>3. CASE ReceivePrompt(r)
    BY <2>2, <2>3 DEF ReceivePrompt, Skip, Callbacks
  <2>4. CASE AskModel(r)
    BY <2>2, <2>4 DEF AskModel, Skip, Callbacks
  <2>5. CASE ModelAnswers(r)
    BY <2>2, <2>5 DEF ModelAnswers, Callbacks
  <2>6. CASE JoinTools(r)
    BY <2>6 DEF JoinTools
  <2>7. QED
    BY <2>1, <2>3, <2>4, <2>5, <2>6
<1>4. QED
  BY <1>1, <1>2, <1>3 DEF Next

(* The callbacks that set the session find their own until they await.     *)
SessionFits ==
  active # Nobody /\ at[active] \in {"after", "call", "result"} /\ ~AwaitedBefore(active) =>
    session = SessionOf[RunOf(active)]

(* So do those of tools with the event.                                    *)
EventFits ==
  active # Nobody /\ IsTool(active) /\ ~AwaitedBefore(active) => event = active

LEMMA ContextFits ==
  ASSUME IInv, SessionFits, EventFits, [Next]_vars
  PROVE  SessionFits' /\ EventFits'
<1>1. CASE \E c \in Coroutines, place \in Callbacks :
              Fits(c, place) /\ \E content : Enter(c, place, content)
  <2>1. PICK c \in Coroutines, place \in Callbacks : Fits(c, place) /\ \E content : Enter(c, place, content)
    BY <1>1
  <2>2. /\ active' = c /\ at'[c] = place
        /\ place \in {"after", "call", "result"} => session' = SessionOf[RunOf(c)]
        /\ place \in {"call", "result"} => event' = c
    BY <2>1 DEF Enter, IInv, PlacesFit
  <2>3. IsTool(c) => place \in {"call", "result"}
    BY <2>1 DEF Fits, ToolPlaces, Callbacks
  <2>4. QED
    BY <2>2, <2>3 DEF SessionFits, EventFits, IsTool, RunOf
<1>2. CASE \E c \in Coroutines : (active = c \/ Awaits(c)) /\ Advance(c) /\ active' = c
  <2>1. PICK c \in Coroutines : (active = c \/ Awaits(c)) /\ Advance(c) /\ active' = c
    BY <1>2
  <2>2. UNCHANGED <<workflow, session, event, at>> /\ step' = [step EXCEPT ![c] = @ + 1]
    BY <2>1 DEF Advance
  <2>3. at[c] \in Callbacks /\ c # Nobody
    BY <2>1, MainOf, CallbackPlace DEF InCallback
  <2>4. AwaitedBefore(c) => AwaitedBefore(c)'
    BY <2>2, <2>3, StepGrows
  <2>5. CASE active = c
    BY <2>1, <2>2, <2>3, <2>4, <2>5 DEF SessionFits, EventFits, IsTool, RunOf
  <2>6. CASE Awaits(c)
    <3>1. AwaitedBefore(c)'
      BY <2>1, <2>6, VerdictIsAwaited
    <3>2. QED
      BY <2>1, <3>1 DEF SessionFits, EventFits
  <2>7. QED
    BY <2>1, <2>5, <2>6
<1>3. CASE active' = Nobody
  BY <1>3 DEF SessionFits, EventFits
<1>4. CASE UNCHANGED vars
  <2>1. UNCHANGED <<workflow, active, session, event, at, step>>
    BY <1>4 DEF vars, ctxVars, callVars
  <2>2. \A c : Steps(c)' = Steps(c)
    BY <2>1, SameHandlers DEF Steps, RunOf
  <2>3. QED
    BY <2>1, <2>2 DEF SessionFits, EventFits, AwaitedBefore, IsTool, RunOf
<1>5. QED
  BY <1>1, <1>2, <1>3, <1>4, ActiveMoves

(* Only the check of drift changes what the monitor remembers.             *)
LEMMA DriftChanges ==
  ASSUME IInv, [Next]_vars, drift' # drift
  PROVE  \E c \in Coroutines : active = c /\ Remembers(c)
<1>1. PICK c \in Coroutines : HandlerActs(c)
  <2>1. CASE \E c \in Coroutines : CallTool(c) \/ ToolRuns(c) \/ CheckResult(c)
    BY <2>1 DEF CallTool, ToolRuns, CheckResult, Enter, Skip, ctxVars
  <2>2. CASE \E r \in Runs : ReceivePrompt(r) \/ AskModel(r) \/ ModelAnswers(r) \/ JoinTools(r)
    <3>1. PICK r \in Runs : ReceivePrompt(r) \/ AskModel(r) \/ ModelAnswers(r) \/ JoinTools(r)
      BY <2>2
    <3>2. CASE ReceivePrompt(r)
      BY <3>2 DEF ReceivePrompt, Enter, Skip, ctxVars
    <3>3. CASE AskModel(r)
      BY <3>3 DEF AskModel, Enter, Skip, ctxVars
    <3>4. CASE ModelAnswers(r)
      BY <3>4 DEF ModelAnswers, Enter, ctxVars
    <3>5. CASE JoinTools(r)
      BY <3>5 DEF JoinTools, ctxVars
    <3>6. QED
      BY <3>1, <3>2, <3>3, <3>4, <3>5
  <2>3. CASE UNCHANGED vars
    BY <2>3 DEF vars, ctxVars
  <2>4. QED
    BY <2>1, <2>2, <2>3 DEF Next
<1>2. DriftPasses(c) \/ DriftBlocks(c)
  BY <1>1 DEF HandlerActs, ApplyMask, GuardrailRaises, AwaitGuardrail, MaskArrives, VerdictArrives,
     CheckPasses, CheckBlocks, ConditionFails, FailStatement, RetryStatement, ReadEvent, EndCallback,
     ctxVars
<1>3. QED
  BY <1>2 DEF DriftPasses, DriftBlocks, Acts

(* What the drift monitor comes to remember for a session is a text of that*)
(* session, however callbacks of other sessions are mixed with this one and*)
(* whatever program it is. It takes the session from the guardrail provider*)
(* and the text from the context; both are another's only where the code   *)
(* does not set the session, around user inputs, or after an await.        *)
THEOREM DriftTheorem == Spec => DriftStaysInItsSession
<1>1. Init => SessionFits /\ EventFits
  BY DEF Init, SessionFits, EventFits
<1>2. IInv /\ SessionFits /\ EventFits /\ [Next]_vars => SessionFits' /\ EventFits'
  BY ContextFits
<1>3. ASSUME IInv, OwnInv, SessionFits, [Next]_vars, NEW s \in DOMAIN drift, drift'[s] # drift[s],
             ~(at[active] \in {"input", "before"}), ~AwaitedBefore(active)
      PROVE  SessionOf[drift'[s]] = s
  <2>1. PICK c \in Coroutines : active = c /\ Remembers(c)
    BY <1>3, DriftChanges
  <2>2. c # Nobody /\ at[c] \in {"after", "call", "result"}
    BY <1>3, <2>1, MainOf DEF IInv, ActiveFits, Callbacks
  <2>3. ~Shared(c)
    BY <1>3, <2>1, <2>2 DEF Shared, VerdictAwaited, AwaitedBefore
  <2>4. message.from = c
    BY <1>3, <2>1, <2>2, <2>3 DEF OwnInv, MessageIsOwn, OwnMessage, OwnAt
  <2>5. session = SessionOf[RunOf(c)]
    BY <1>3, <2>1, <2>2 DEF SessionFits
  <2>6. drift' = drift \/ drift' = [drift EXCEPT ![session] = RunOf(c)]
    BY <2>1, <2>4 DEF Remembers
  <2>7. QED
    BY <1>3, <2>5, <2>6
<1>4. IInv /\ OwnInv /\ SessionFits /\ [Next]_vars =>
        [\A s \in DOMAIN drift : drift'[s] # drift[s] =>
           \/ SessionOf[drift'[s]] = s
           \/ at[active] \in {"input", "before"}
           \/ AwaitedBefore(active)]_vars
  BY <1>3
<1>5. QED
  BY <1>1, <1>2, <1>4, OwnInvariant, PTL DEF Spec, DriftStaysInItsSession

(* The event, if any, is a tool call in one of its callbacks.              *)
EventIsTool ==
  event # Nobody => event \in Coroutines /\ IsTool(event) /\ at[event] \in {"call", "result"}

(* A step of a coroutine that the event does not describe.                 *)
LEMMA OthersMove ==
  ASSUME IInv, EventIsTool, event' = event, NEW c \in Coroutines, event # c,
         NEW place, at' = [at EXCEPT ![c] = place]
  PROVE  EventIsTool'
  BY DEF EventIsTool, IInv, PlacesFit, IsTool, Nobody

LEMMA EventGone ==
  ASSUME event' = Nobody
  PROVE  EventIsTool'
  BY DEF EventIsTool

LEMMA EventStays ==
  ASSUME EventIsTool, UNCHANGED <<event, at>>
  PROVE  EventIsTool'
  BY DEF EventIsTool, IsTool, Nobody

(* Who leaves a callback of a tool drops the event, and who leaves another *)
(* is not what it describes.                                               *)
LEMMA LeaveEvent ==
  ASSUME IInv, EventIsTool, NEW c \in Coroutines, NEW place, Leave(c, place)
  PROVE  EventIsTool'
<1>1. CASE IsTool(c)
  BY <1>1, EventGone DEF Leave
<1>2. CASE ~IsTool(c)
  <2>1. event # c /\ event' = event /\ at' = [at EXCEPT ![c] = place]
    BY <1>2, MainOf DEF EventIsTool, Leave
  <2>2. QED
    BY <2>1, OthersMove
<1>3. QED
  BY <1>1, <1>2

LEMMA RunFailsEvent ==
  ASSUME IInv, EventIsTool, NEW c \in Coroutines, RunFails(c)
  PROVE  EventIsTool'
<1>1. CASE IsTool(c)
  BY <1>1, EventGone DEF RunFails
<1>2. CASE ~IsTool(c)
  <2>1. c = Main(RunOf(c)) /\ event # c /\ event' = event
    BY <1>2, MainOf DEF EventIsTool, RunFails
  <2>2. \A d \in Coroutines : d # c => at'[d] = at[d]
    BY <2>1 DEF RunFails, IInv, PlacesFit
  <2>3. QED
    BY <2>1, <2>2 DEF EventIsTool, IsTool, Nobody
<1>3. QED
  BY <1>1, <1>2

LEMMA RaiseEvent ==
  ASSUME IInv, EventIsTool, NEW c \in Coroutines, NEW error, Raise(c, error)
  PROVE  EventIsTool'
  BY LeaveEvent, RunFailsEvent DEF Raise, InputRefused, RequestRefused, ToolRefused

(* The tool calls of a run that is about to ask for some are at rest.      *)
LEMMA AskedEvent ==
  ASSUME IInv, EventIsTool, event' = event, NEW r \in Runs, at[Main(r)] \notin {"tools", "failed"},
         NEW asks, at' = Asked(r, asks)
  PROVE  EventIsTool'
<1>1. event # Nobody => RunOf(event) # r
  BY DEF EventIsTool, IInv, ToolsRest
<1>2. \A d \in Coroutines : RunOf(d) # r => at'[d] = at[d]
  BY MainIsNoTool DEF Asked
<1>3. QED
  BY <1>1, <1>2 DEF EventIsTool, IsTool, Nobody

LEMMA HandlerEvent ==
  ASSUME IInv, EventIsTool, NEW c \in Coroutines, HandlerActs(c)
  PROVE  EventIsTool'
<1>1. Advance(c) => EventIsTool'
  BY EventStays DEF Advance
<1>2. CASE EndCallback(c)
  <2>1. CASE InputPasses(c) \/ RequestPasses(c) \/ CallPasses(c) \/ ResultPasses(c)
    BY <2>1, LeaveEvent DEF InputPasses, RequestPasses, CallPasses, ResultPasses
  <2>2. CASE ResponsePasses(c)
    <3> DEFINE asks == IF Changed(c) THEN 0 ELSE response[RunOf(c)].calls
    <3>1. at' = Asked(RunOf(c), asks) /\ event' = event /\ at[c] = "after"
      BY <2>2 DEF ResponsePasses
    <3>2. c = Main(RunOf(c)) /\ RunOf(c) \in Runs
      BY <3>1, MainOf DEF IInv, PlacesFit, Fits, ToolPlaces
    <3> HIDE DEF asks
    <3>3. QED
      BY <3>1, <3>2, AskedEvent
  <2>3. CASE NoTextPasses(c)
    BY <2>3, RunFailsEvent DEF NoTextPasses
  <2>4. QED
    BY <1>2, <2>1, <2>2, <2>3 DEF EndCallback
<1>3. CASE AwaitGuardrail(c)
  BY <1>3, EventStays DEF AwaitGuardrail, ctxVars
<1>4. QED
  BY <1>1, <1>2, <1>3, RaiseEvent DEF HandlerActs, ApplyMask, GuardrailRaises, MaskArrives, VerdictArrives,
     CheckPasses, CheckBlocks, DriftPasses, DriftBlocks, ConditionFails, FailStatement, RetryStatement,
     ReadEvent

LEMMA ToolEvent ==
  ASSUME IInv, EventIsTool, NEW c \in Coroutines, CallTool(c) \/ ToolRuns(c) \/ CheckResult(c)
  PROVE  EventIsTool'
<1>1. at[c] \in {"asked", "tool", "returned"} /\ IsTool(c) /\ c # Nobody
  BY MainOf DEF CallTool, ToolRuns, CheckResult, IInv, PlacesFit, Fits, ToolPlaces
<1>2. event # c
  BY <1>1 DEF EventIsTool
<1>3. ASSUME NEW place \in {"call", "result"}, NEW content, Enter(c, place, content)
      PROVE  EventIsTool'
  <2>1. event' = c /\ at'[c] = place
    BY <1>3 DEF Enter, IInv, PlacesFit
  <2>2. QED
    BY <1>1, <2>1 DEF EventIsTool, IsTool
<1>4. ASSUME event' = event, NEW place, at' = [at EXCEPT ![c] = place]
      PROVE  EventIsTool'
  BY <1>2, <1>4, OthersMove
<1>5. QED
  BY <1>3, <1>4 DEF CallTool, ToolRuns, CheckResult, Skip, ctxVars

LEMMA RunEvent ==
  ASSUME IInv, EventIsTool, NEW r \in Runs,
         ReceivePrompt(r) \/ AskModel(r) \/ ModelAnswers(r) \/ JoinTools(r)
  PROVE  EventIsTool'
<1> DEFINE c == Main(r)
<1>1. c \in Coroutines /\ ~IsTool(c) /\ RunOf(c) = r /\ event # c
  BY MainIsNoTool, MainOf DEF EventIsTool
<1>2. ASSUME NEW place \in {"input", "before", "after"}, NEW content, Enter(c, place, content)
      PROVE  EventIsTool'
  BY <1>1, <1>2, OthersMove DEF Enter
<1>3. ASSUME NEW place, Skip(c, place) PROVE EventIsTool'
  BY <1>1, <1>3, OthersMove DEF Skip, ctxVars
<1>4. CASE ReceivePrompt(r)
  BY <1>2, <1>3, <1>4 DEF ReceivePrompt
<1>5. CASE AskModel(r)
  BY <1>2, <1>3, <1>5 DEF AskModel
<1>6. CASE ModelAnswers(r)
  <2>1. \/ \E text : Enter(c, "after", text)
        \/ (\E asks : at' = Asked(r, asks)) /\ event' = event /\ at[c] = "model"
    BY <1>6 DEF ModelAnswers, ctxVars
  <2>2. QED
    BY <1>2, <2>1, AskedEvent
<1>7. CASE JoinTools(r)
  <2>1. /\ \A d \in ToolsOf(r) : at[d] \in {"idle", "done"}
        /\ event' = event
        /\ at' = [d \in Coroutines |->
                    IF d \in ToolsOf(r) THEN "idle" ELSE IF d = c THEN "ready" ELSE at[d]]
    BY <1>7 DEF JoinTools, ctxVars
  <2>2. event \notin ToolsOf(r)
    BY <2>1 DEF EventIsTool, ToolsOf, Nobody, IsTool
  <2>3. QED
    BY <1>1, <2>1, <2>2 DEF EventIsTool, IsTool, Nobody
<1>8. QED
  BY <1>4, <1>5, <1>6, <1>7

(* What a handler reads as $event is the tool call it handles as long as   *)
(* its callback has awaited nothing, and no event outlives the callbacks of*)
(* tools: the finally that drops it may drop another's, but never leaves   *)
(* one behind, however tool calls of all agents are mixed and awaited.     *)
THEOREM EventsAreOwn == Spec => []EventIsOwn
<1>1. Init => SessionFits /\ EventFits /\ EventIsTool
  BY DEF Init, SessionFits, EventFits, EventIsTool
<1>2. IInv /\ SessionFits /\ EventFits /\ EventIsTool /\ [Next]_vars =>
        SessionFits' /\ EventFits' /\ EventIsTool'
  <2> SUFFICES ASSUME IInv, SessionFits, EventFits, EventIsTool, [Next]_vars
               PROVE  SessionFits' /\ EventFits' /\ EventIsTool'
    OBVIOUS
  <2>1. UNCHANGED vars => EventIsTool'
    BY EventStays DEF vars, ctxVars, callVars
  <2>2. EventIsTool'
    BY <2>1, HandlerEvent, ToolEvent, RunEvent DEF Next
  <2>3. QED
    BY <2>2, ContextFits
<1>3. EventFits /\ EventIsTool => EventIsOwn
  BY DEF EventFits, EventIsTool, EventIsOwn
<1>4. QED
  BY <1>1, <1>2, <1>3, PlacesInvariant, PTL DEF Spec

----------------------------------------------------------------------------
(* The registry that loads the models of the cognitive monitor             *)
(* (ModelLoading), for any number of tasks and models, whatever loads raise*)
(* and whoever is cancelled. Its inductive invariant is the conjunction of *)
(* what it promises: that two tasks never load one model follows from the  *)
(* loader's model having a future, and that from the future telling the    *)
(* state.                                                                  *)

RegistryInv == RegistryTypeOK /\ FutureTellsState /\ SingleLoader /\ AnswersMatchState

(* No step of a task is taken without one of these. *)
LEMMA RegistryCases ==
  ASSUME RegistryNext
  PROVE  \E t \in Tasks :
           \/ \E m \in Models : Call(t, m)
           \/ Acquire(t) \/ LoadSucceeds(t) \/ LoadFails(t) \/ LoadRaises(t)
           \/ Resume(t) \/ CancelQueued(t) \/ CancelWaiting(t) \/ CancelLoading(t)
BY DEF RegistryNext, Proceeds

(* The queue without the task at place i is a queue. *)
LEMMA WithoutOne ==
  ASSUME NEW q \in Seq(Tasks), NEW i \in DOMAIN q
  PROVE  SubSeq(q, 1, i - 1) \o SubSeq(q, i + 1, Len(q)) \in Seq(Tasks)
<1>1. Len(q) \in Nat /\ i \in 1..Len(q)
  OBVIOUS
<1>2. SubSeq(q, 1, i - 1) \in Seq(Tasks)
  BY <1>1
<1>3. SubSeq(q, i + 1, Len(q)) \in Seq(Tasks)
  BY <1>1
<1>4. QED
  BY <1>2, <1>3

(* The locked section keeps the types of what it changes. *)
LEMMA LockedTypes ==
  ASSUME RegistryTypeOK, NEW t \in Tasks, NEW m \in Models, Locked(t, m)
  PROVE  /\ state'  \in [Models -> States]
         /\ future' \in [Models -> Futures]
         /\ holder' \in SUBSET Tasks
         /\ pc' \in [Tasks -> {"idle"} \cup Busy \cup Ends]
<1> USE DEF RegistryTypeOK, Goes, States, Futures, Busy, Ends
<1>1. CASE AlreadySettled(t, m)
  BY <1>1 DEF AlreadySettled, Verdict
<1>2. CASE StartsLoading(t, m)
  BY <1>2 DEF StartsLoading
<1>3. CASE WaitsForFuture(t, m)
  BY <1>3 DEF WaitsForFuture
<1>4. CASE FindsCancelledFuture(t, m)
  BY <1>4 DEF FindsCancelledFuture
<1>5. QED
  BY <1>1, <1>2, <1>3, <1>4 DEF Locked

LEMMA RegistryTypeStep ==
  ASSUME RegistryTypeOK, [RegistryNext]_registryVars
  PROVE  RegistryTypeOK'
<1>0. CASE UNCHANGED registryVars
  BY <1>0 DEF RegistryTypeOK, registryVars
<1> SUFFICES ASSUME NEW t \in Tasks,
                    \/ \E m \in Models : Call(t, m)
                    \/ Acquire(t) \/ LoadSucceeds(t) \/ LoadFails(t)
                    \/ LoadRaises(t) \/ Resume(t)
                    \/ CancelQueued(t) \/ CancelWaiting(t) \/ CancelLoading(t)
             PROVE  RegistryTypeOK'
  BY <1>0, RegistryCases
<1>1. ASSUME NEW m \in Models, Call(t, m) PROVE RegistryTypeOK'
  <2>1. calls' \in [Tasks -> 0..MaxCalls]
    BY <1>1, ModelLoadingAssumption DEF Call, RegistryTypeOK
  <2>2. want' \in [Tasks -> Models] /\ cancels' \in 0..MaxCancels
    BY <1>1 DEF Call, RegistryTypeOK
  <2>3. CASE Locked(t, m) /\ UNCHANGED queue
    BY <2>1, <2>2, <2>3, LockedTypes DEF RegistryTypeOK
  <2>4. CASE /\ Goes(t, "queued")
             /\ queue' = Append(queue, t)
             /\ UNCHANGED <<state, future, holder>>
    BY <2>1, <2>2, <2>4 DEF RegistryTypeOK, Goes, Busy
  <2>5. QED
    BY <1>1, <2>3, <2>4 DEF Call
<1>2. CASE Acquire(t)
  <2>1. Locked(t, want[t]) /\ want[t] \in Models /\ queue' \in Seq(Tasks)
    BY <1>2 DEF Acquire, RegistryTypeOK
  <2>2. QED
    BY <1>2, <2>1, LockedTypes DEF Acquire, RegistryTypeOK
<1>3. CASE LoadSucceeds(t)
  BY <1>3 DEF LoadSucceeds, RegistryTypeOK, Goes, States, Futures, Ends, Busy
<1>4. CASE LoadFails(t)
  BY <1>4 DEF LoadFails, RegistryTypeOK, Goes, States, Futures, Ends, Busy
<1>5. CASE LoadRaises(t)
  BY <1>5 DEF LoadRaises, RegistryTypeOK, Goes, Ends
<1>6. CASE Resume(t)
  BY <1>6 DEF Resume, RegistryTypeOK, Goes, Ends
<1>7. CASE CancelQueued(t)
  <2>1. queue' \in Seq(Tasks)
    BY <1>7, WithoutOne DEF CancelQueued, RegistryTypeOK
  <2>2. Cancelled(t) /\ UNCHANGED <<future, holder>>
    BY <1>7 DEF CancelQueued
  <2>3. QED
    BY <2>1, <2>2, ModelLoadingAssumption DEF Cancelled, RegistryTypeOK, Goes, Ends
<1>8. CASE CancelWaiting(t)
  BY <1>8, ModelLoadingAssumption DEF CancelWaiting, Cancelled, RegistryTypeOK, Goes, Ends, Futures
<1>9. CASE CancelLoading(t)
  BY <1>9, ModelLoadingAssumption DEF CancelLoading, Cancelled, RegistryTypeOK, Goes, Ends
<1>10. QED
  BY <1>1, <1>2, <1>3, <1>4, <1>5, <1>6, <1>7, <1>8, <1>9

(* Every variable of ModelLoading keeps to its type. *)
THEOREM RegistryTypeCorrect == RegistrySpec => []RegistryTypeOK
<1>1. RegistryInit => RegistryTypeOK
  BY ModelLoadingAssumption DEF RegistryInit, RegistryTypeOK, States, Futures, Busy, Ends
<1>2. RegistryTypeOK /\ [RegistryNext]_registryVars => RegistryTypeOK'
  BY RegistryTypeStep
<1>3. QED
  BY <1>1, <1>2, PTL DEF RegistrySpec
----------------------------------------------------------------------------
(* Who starts loading finds no future, so that nobody is loading yet. *)
LEMMA NobodyLoads ==
  ASSUME RegistryInv, NEW m \in Models, future[m] = "none"
  PROVE  Loaders(m) = {}
BY DEF RegistryInv, SingleLoader, LoadedInTheOpen, Loaders

(* The locked section, entered by a task that is not loading, keeps the    *)
(* invariant. Its model is the one it wants from now on.                   *)
LEMMA LockedStep ==
  ASSUME RegistryInv, NEW t \in Tasks, NEW m \in Models,
         pc[t] # "loading", Locked(t, m), want' = [want EXCEPT ![t] = m]
  PROVE  FutureTellsState' /\ SingleLoader' /\ AnswersMatchState'
<1> USE DEF RegistryInv, RegistryTypeOK, Goes
<1>1. CASE AlreadySettled(t, m)
  BY <1>1 DEF AlreadySettled, Settled, Verdict, FutureTellsState, SingleLoader,
     LoadedByOne, LoadedInTheOpen, AnswersMatchState, States, Futures, Busy, Ends
<1>2. CASE StartsLoading(t, m)
  <2>1. state[m] = "unloaded" /\ \A u \in Tasks : pc[u] = "loading" => want[u] # m
    BY <1>2, NobodyLoads DEF StartsLoading, FutureTellsState, Loaders
  <2>2. FutureTellsState'
    BY <1>2 DEF StartsLoading, FutureTellsState
  <2>3. SingleLoader'
    BY <1>2, <2>1 DEF StartsLoading, SingleLoader, LoadedByOne, LoadedInTheOpen
  <2>4. AnswersMatchState'
    BY <1>2, <2>1 DEF StartsLoading, AnswersMatchState
  <2>5. QED
    BY <2>2, <2>3, <2>4
<1>3. CASE WaitsForFuture(t, m)
  BY <1>3 DEF WaitsForFuture, FutureTellsState, SingleLoader, LoadedByOne,
     LoadedInTheOpen, AnswersMatchState
<1>4. CASE FindsCancelledFuture(t, m)
  BY <1>4 DEF FindsCancelledFuture, FutureTellsState, SingleLoader, LoadedByOne,
     LoadedInTheOpen, AnswersMatchState
<1>5. QED
  BY <1>1, <1>2, <1>3, <1>4 DEF Locked

(* A call that ends or is cancelled without a word to its model. *)
LEMMA QuietEnd ==
  ASSUME RegistryInv, NEW t \in Tasks, NEW place \in {"error", "cancelled", "queued"},
         Goes(t, place), UNCHANGED state,
         want' \in [Tasks -> Models], \A u \in Tasks \ {t} : want'[u] = want[u],
         \/ UNCHANGED future
         \/ \E m \in Models : /\ future[m] = "pending"
                             /\ future' = [future EXCEPT ![m] = "cancelled"]
  PROVE  FutureTellsState' /\ SingleLoader' /\ AnswersMatchState'
<1> USE DEF RegistryInv, RegistryTypeOK, Goes
<1>1. pc' = [pc EXCEPT ![t] = place] /\ pc'[t] = place
  BY DEF Goes
<1>2. pc'[t] \notin {"loading", "session", "missing"}
  BY <1>1
<1>3. \A u \in Tasks : pc'[u] \in {"loading", "session", "missing"} =>
         pc'[u] = pc[u] /\ want'[u] = want[u]
  BY <1>1, <1>2
<1>4. ASSUME NEW m \in Models
      PROVE  \/ future'[m] = future[m]
             \/ future[m] = "pending" /\ future'[m] = "cancelled"
  <2>1. CASE UNCHANGED future
    BY <2>1
  <2>2. ASSUME NEW k \in Models, future[k] = "pending",
               future' = [future EXCEPT ![k] = "cancelled"]
        PROVE  \/ future'[m] = future[m]
               \/ future[m] = "pending" /\ future'[m] = "cancelled"
    BY <2>2
  <2>3. QED
    BY <2>1, <2>2
<1>5. FutureTellsState'
  BY <1>4 DEF FutureTellsState
<1>6. SingleLoader'
  <2>1. LoadedByOne'
    BY <1>3 DEF SingleLoader, LoadedByOne
  <2>2. LoadedInTheOpen'
    BY <1>3, <1>4 DEF SingleLoader, LoadedInTheOpen
  <2>3. QED
    BY <2>1, <2>2 DEF SingleLoader
<1>7. AnswersMatchState'
  BY <1>3 DEF AnswersMatchState
<1>8. QED
  BY <1>5, <1>6, <1>7

LEMMA RegistryInvStep ==
  ASSUME RegistryInv, [RegistryNext]_registryVars
  PROVE  RegistryInv'
<1>0. RegistryTypeOK'
  BY RegistryTypeStep DEF RegistryInv
<1>a. CASE UNCHANGED registryVars
  BY <1>0, <1>a DEF RegistryInv, registryVars, FutureTellsState, SingleLoader, LoadedByOne,
     LoadedInTheOpen, AnswersMatchState
<1> SUFFICES ASSUME NEW t \in Tasks,
                    \/ \E m \in Models : Call(t, m)
                    \/ Acquire(t) \/ LoadSucceeds(t) \/ LoadFails(t)
                    \/ LoadRaises(t) \/ Resume(t)
                    \/ CancelQueued(t) \/ CancelWaiting(t) \/ CancelLoading(t)
             PROVE  FutureTellsState' /\ SingleLoader' /\ AnswersMatchState'
  BY <1>0, <1>a, RegistryCases DEF RegistryInv
<1> DEFINE Wish == want[t]
<1>. want \in [Tasks -> Models] /\ Wish \in Models
  BY DEF RegistryInv, RegistryTypeOK
<1>1. ASSUME NEW m \in Models, Call(t, m)
      PROVE  FutureTellsState' /\ SingleLoader' /\ AnswersMatchState'
  <2>1. CASE Locked(t, m)
    BY <1>1, <2>1, LockedStep DEF Call, Busy
  <2>2. CASE Goes(t, "queued") /\ UNCHANGED <<state, future, holder>>
    BY <1>1, <2>2, QuietEnd DEF Call
  <2>3. QED
    BY <1>1, <2>1, <2>2 DEF Call
<1>2. CASE Acquire(t)
  <2>1. /\ pc[t] # "loading" /\ Locked(t, Wish)
        /\ want' = [want EXCEPT ![t] = Wish]
    BY <1>2 DEF Acquire
  <2>2. QED
    BY <2>1, LockedStep
<1>3. CASE LoadSucceeds(t)
  <2>1. /\ pc[t] = "loading" /\ UNCHANGED want
        /\ state' = [state EXCEPT ![Wish] = "ready"]
        /\ \A u \in Tasks \ {t} : pc'[u] = pc[u]
        /\ pc'[t] \in {"session", "error"}
    BY <1>3 DEF LoadSucceeds, Goes, RegistryInv, RegistryTypeOK
  <2>2. future' = [future EXCEPT ![Wish] = IF @ = "pending" THEN "result" ELSE @]
    BY <1>3 DEF LoadSucceeds, RegistryInv, RegistryTypeOK
  <2>3. \A u \in Tasks \ {t} : pc[u] = "loading" => want[u] # Wish
    BY <2>1 DEF RegistryInv, SingleLoader, LoadedByOne
  <2>4. FutureTellsState'
    BY <2>1, <2>2 DEF RegistryInv, RegistryTypeOK, FutureTellsState, SingleLoader, LoadedInTheOpen
  <2>5. SingleLoader'
    BY <2>1, <2>2, <2>3, ZenonT(60) DEF RegistryInv, RegistryTypeOK, SingleLoader, LoadedByOne, LoadedInTheOpen
  <2>6. AnswersMatchState'
    <3>1. state[Wish] = "loading"
      BY <2>1 DEF RegistryInv, SingleLoader, LoadedInTheOpen
    <3>2. QED
      BY <2>1, <3>1 DEF RegistryInv, RegistryTypeOK, AnswersMatchState
  <2>7. QED
    BY <2>4, <2>5, <2>6
<1>4. CASE LoadFails(t)
  BY <1>4 DEF LoadFails, Goes, RegistryInv, RegistryTypeOK, FutureTellsState, SingleLoader,
     LoadedByOne, LoadedInTheOpen, AnswersMatchState
<1>5. CASE LoadRaises(t)
  BY <1>5, QuietEnd DEF LoadRaises
<1>6. CASE Resume(t)
  BY <1>6 DEF Resume, Goes, RegistryInv, RegistryTypeOK, FutureTellsState, SingleLoader,
     LoadedByOne, LoadedInTheOpen, AnswersMatchState
<1>7. CASE CancelQueued(t)
  <2>1. Cancelled(t) /\ UNCHANGED future
    BY <1>7 DEF CancelQueued
  <2>2. QED
    BY <2>1, QuietEnd DEF Cancelled
<1>8. CASE CancelWaiting(t)
  <2>1. Goes(t, "cancelled") /\ UNCHANGED <<state, want>>
    BY <1>8 DEF CancelWaiting, Cancelled
  <2>2. CASE future[Wish] = "pending"
    BY <1>8, <2>1, <2>2, QuietEnd DEF CancelWaiting
  <2>3. CASE future[Wish] # "pending"
    <3>1. UNCHANGED future
      BY <1>8, <2>3 DEF CancelWaiting, RegistryInv, RegistryTypeOK
    <3>2. QED
      BY <2>1, <3>1, QuietEnd
  <2>4. QED
    BY <2>2, <2>3
<1>9. CASE CancelLoading(t)
  BY <1>9, QuietEnd DEF CancelLoading, Cancelled
<1>10. QED
  BY <1>1, <1>2, <1>3, <1>4, <1>5, <1>6, <1>7, <1>8, <1>9

LEMMA RegistryInvariant == RegistrySpec => []RegistryInv
<1>1. RegistryInit => RegistryInv
  <2>1. RegistryInit => RegistryTypeOK
    BY ModelLoadingAssumption DEF RegistryInit, RegistryTypeOK, States, Futures, Busy, Ends
  <2>2. QED
    BY <2>1 DEF RegistryInit, RegistryInv, FutureTellsState, SingleLoader, LoadedByOne,
       LoadedInTheOpen, AnswersMatchState
<1>2. RegistryInv /\ [RegistryNext]_registryVars => RegistryInv'
  BY RegistryInvStep
<1>3. QED
  BY <1>1, <1>2, PTL DEF RegistrySpec

(* "Concurrent requests share a single load future to prevent duplicate    *)
(* loading": no two of any number of tasks load one model.                 *)
THEOREM OneLoader == RegistrySpec => []SingleLoader
<1>1. RegistryInv => SingleLoader
  BY DEF RegistryInv
<1>2. QED
  BY <1>1, RegistryInvariant, PTL

(* A caller gets a session only of a ready model and MissingDependencyError*)
(* only of a failed one, whatever its way to the answer.                   *)
THEOREM TruthfulAnswers == RegistrySpec => []AnswersMatchState
<1>1. RegistryInv => AnswersMatchState
  BY DEF RegistryInv
<1>2. QED
  BY <1>1, RegistryInvariant, PTL

(* The load future of a model and its state never contradict each other.   *)
THEOREM FutureAgrees == RegistrySpec => []FutureTellsState
<1>1. RegistryInv => FutureTellsState
  BY DEF RegistryInv
<1>2. QED
  BY <1>1, RegistryInvariant, PTL

(* The locked section moves a model only out of unloaded. *)
LEMMA LockedKeepsOrder ==
  ASSUME RegistryInv, NEW t \in Tasks, NEW k \in Models, Locked(t, k), NEW m \in Models
  PROVE  \/ state'[m] = state[m]
         \/ state[m] = "unloaded" /\ state'[m] = "loading"
<1>1. CASE StartsLoading(t, k)
  <2>1. state[k] = "unloaded"
    BY <1>1 DEF StartsLoading, RegistryInv, FutureTellsState
  <2>2. QED
    BY <1>1, <2>1 DEF StartsLoading, RegistryInv, RegistryTypeOK
<1>2. CASE ~StartsLoading(t, k)
  BY <1>2 DEF Locked, AlreadySettled, WaitsForFuture, FindsCancelledFuture
<1>3. QED
  BY <1>1, <1>2

(* unloaded -> loading -> ready | failed, for every model and every step.  *)
THEOREM StatesInOrder == RegistrySpec => StateMachine
<1> DEFINE InOrder == \A m \in Models :
       \/ state'[m] = state[m]
       \/ state[m] = "unloaded" /\ state'[m] = "loading"
       \/ state[m] = "loading"  /\ state'[m] \in {"ready", "failed"}
<1>1. RegistryInv /\ [RegistryNext]_registryVars => [InOrder]_registryVars
  <2> SUFFICES ASSUME RegistryInv, RegistryNext, NEW m \in Models
               PROVE  \/ state'[m] = state[m]
                      \/ state[m] = "unloaded" /\ state'[m] = "loading"
                      \/ state[m] = "loading"  /\ state'[m] \in {"ready", "failed"}
    OBVIOUS
  <2> SUFFICES ASSUME NEW t \in Tasks,
                      \/ \E k \in Models : Call(t, k)
                      \/ Acquire(t) \/ LoadSucceeds(t) \/ LoadFails(t)
                      \/ LoadRaises(t) \/ Resume(t)
                      \/ CancelQueued(t) \/ CancelWaiting(t) \/ CancelLoading(t)
               PROVE  \/ state'[m] = state[m]
                      \/ state[m] = "unloaded" /\ state'[m] = "loading"
                      \/ state[m] = "loading"  /\ state'[m] \in {"ready", "failed"}
    BY RegistryCases
  <2>1. CASE \E k \in Models : Call(t, k)
    BY <2>1, LockedKeepsOrder DEF Call
  <2>2. CASE Acquire(t)
    BY <2>2, LockedKeepsOrder DEF Acquire, RegistryInv, RegistryTypeOK
  <2>3. CASE LoadSucceeds(t) \/ LoadFails(t)
    <3>1. want[t] \in Models /\ state[want[t]] = "loading"
      BY <2>3 DEF LoadSucceeds, LoadFails, RegistryInv, RegistryTypeOK, SingleLoader, LoadedInTheOpen
    <3>2. QED
      BY <2>3, <3>1 DEF LoadSucceeds, LoadFails, RegistryInv, RegistryTypeOK
  <2>4. CASE LoadRaises(t) \/ Resume(t)
    BY <2>4 DEF LoadRaises, Resume
  <2>5. CASE CancelQueued(t) \/ CancelWaiting(t) \/ CancelLoading(t)
    BY <2>5 DEF CancelQueued, CancelWaiting, CancelLoading, Cancelled
  <2>6. QED
    BY <2>1, <2>2, <2>3, <2>4, <2>5
<1>2. QED
  BY <1>1, RegistryInvariant, PTL DEF RegistrySpec, StateMachine
============================================================================
