----------------------------- MODULE DslProgram -----------------------------
(***************************************************************************)
(* The life of a .sr file: compile_dsl analyzes it definition by           *)
(* definition and generates its class, the loader runs the class body, and *)
(* a turn runs the lines of the entry flow. The agents' answers, the       *)
(* conditions and the lengths of lists are arbitrary; of ctx.vars the keys *)
(* are kept.                                                               *)
(***************************************************************************)
EXTENDS DslCodegen, AgentCycles

CONSTANTS
  Files,      \* the files, as the transformer leaves them
  MaxCalls,   \* the depth of calls at which Python's recursion limit is reached
  MaxItems    \* bound: the items of a list still to come, the rounds of a loop without maximum

ASSUME DslProgramAssumption ==
  /\ \A f \in Files : f.kind = "DslFile" /\ IsNode(f)
  /\ MaxCalls \in Nat \ {0} /\ MaxItems \in Nat

VARIABLES
  file,
  phase,      \* what compile_dsl, the loader or the workflow does next
  at,         \* the definition the pass is at
  analysis,
  class,      \* the generated class
  frames,     \* the flows that run, the entry flow first
  assigned,   \* the keys of ctx.vars
  escalated,  \* of the last run
  outcome

vars ==
  <<file, phase, at, analysis, class, frames, assigned, escalated, outcome, searchVars>>

compiled == <<file, at, analysis, class, searchVars>>
compiling == <<compiled, phase>>

NoClass == [flows |-> NoEntries]

Init ==
  /\ file \in Files
  /\ phase = "collect" /\ at = 1
  /\ analysis = NewAnalysis /\ SearchInit
  /\ class = NoClass
  /\ frames = << >> /\ assigned = {} /\ escalated = FALSE
  /\ outcome = "none"

-----------------------------------------------------------------------------
(* compile_dsl and DslLoader.load.                                         *)

NotRunning == UNCHANGED <<frames, assigned, escalated>>

Collect ==
  /\ phase = "collect"
  /\ IF at <= Len(file.statements)
       THEN /\ analysis' = CollectDefinition(analysis, file.statements[at])
            /\ at' = at + 1 /\ UNCHANGED phase
       ELSE /\ analysis' = ValidatePromptsHaveBodies(analysis)
            /\ at' = 1 /\ phase' = "validate"
  /\ UNCHANGED <<file, class, outcome, searchVars>> /\ NotRunning

Validate ==
  /\ phase = "validate"
  /\ IF at <= Len(file.statements)
       THEN /\ analysis' = ValidateReference(analysis, file.statements[at])
            /\ at' = at + 1 /\ UNCHANGED <<phase, searchVars>>
       ELSE /\ SearchOf(analysis.symbols.agents)
            /\ at' = 1 /\ phase' = "search" /\ UNCHANGED analysis
  /\ UNCHANGED <<file, class, outcome>> /\ NotRunning

(* The search for circles of agents, call by call.                         *)
Search ==
  /\ phase = "search" /\ SearchStep
  /\ UNCHANGED <<file, phase, at, analysis, class, outcome>> /\ NotRunning

Validated ==
  /\ phase = "search" /\ Searched
  /\ analysis' = ValidateInstructionPrompts(DetectCircularAgentRefs(analysis, cycle # NoCycle))
  /\ phase' = "generate"
  /\ UNCHANGED <<file, at, class, outcome, searchVars>> /\ NotRunning

Stop(why) == phase' = "ended" /\ outcome' = why

Reject ==
  /\ phase = "generate" /\ ~IsValid(analysis)
  /\ Stop("rejected")
  /\ UNCHANGED compiled /\ NotRunning

(* Generating, compiling and running the class body each may raise.        *)
Load ==
  /\ phase = "generate" /\ IsValid(analysis)
  /\ class' = Generate(file, analysis.symbols.prompts)
  /\ IF ~Generated(class') THEN Stop("no code")
     ELSE IF ~Compiles(class') THEN Stop("no bytecode")
     ELSE IF ~Loads(class') THEN Stop("no class")
     ELSE phase' = "loaded" /\ UNCHANGED outcome
  /\ UNCHANGED <<file, at, analysis, searchVars>> /\ NotRunning

-----------------------------------------------------------------------------
(* run_async: the entry flow.                                              *)

Frame(flow) == [flow |-> flow, at |-> 2, count |-> 0, max |-> 0, loops |-> << >>]

EntryFlow == IF "main" \in DOMAIN class.flows THEN "main" ELSE "default"

(* _determine_entry_point: without a flow, the agent main, the agent       *)
(* default or the only agent.                                              *)
EntryAgent ==
  IF "main" \in DOMAIN class.agents THEN {"main"}
  ELSE IF "default" \in DOMAIN class.agents THEN {"default"}
  ELSE IF Cardinality(DOMAIN class.agents) = 1 THEN DOMAIN class.agents
  ELSE {}

(* A flow without a line that yields is no generator.                      *)
IsGenerator(code) ==
  \E n \in DOMAIN code : code[n].op \in {"run agent", "run flow", "call llm", "parallel"}

Begin ==
  /\ phase = "loaded"
  /\ IF EntryFlow \notin DOMAIN class.flows
       THEN /\ Stop(IF EntryAgent = {} THEN "no entry point" ELSE "agent")
            /\ NotRunning
     ELSE IF ~IsGenerator(class.flows[EntryFlow])
       THEN Stop("no generator") /\ NotRunning
     ELSE /\ phase' = "running" /\ frames' = <<Frame(EntryFlow)>>
          /\ assigned' = {"input_prompt"}
          /\ UNCHANGED <<escalated, outcome>>
  /\ UNCHANGED compiled

-----------------------------------------------------------------------------
(* The lines of a flow.                                                    *)

Top == Last(frames)

Code == class.flows[Top.flow]

Over == Len(Code) + 1

Current == Code[Top.at]

Executes(op) == phase = "running" /\ frames # << >> /\ Top.at < Over /\ Current.op = op

HeaderOf(code, n) ==
  CHOOSE h \in 1..(n - 1) :
    /\ code[h].indent = code[n].indent - 1
    /\ \A k \in (h + 1)..(n - 1) : code[k].indent >= code[n].indent

(* The line after line n and its block: a loop goes back to its header, a  *)
(* `case` leaves its `match`.                                              *)
RECURSIVE After(_, _)
After(code, n) ==
  LET next == Sibling(code, n)
      header == HeaderOf(code, n)
  IN  IF code[n].indent = 1
        THEN next
      ELSE IF code[n].op # "case" /\ next <= Len(code) /\ code[next].indent = code[n].indent
        THEN next
      ELSE IF code[header].op \in {"while", "for"} THEN header
      ELSE After(code, header)

(* The innermost loop around a line. *)
RECURSIVE LoopOf(_, _)
LoopOf(code, n) ==
  LET header == HeaderOf(code, n) IN
  IF code[header].op \in {"while", "for"} THEN header ELSE LoopOf(code, header)

(* A `for` over a list that others may hold: no list written there or      *)
(* filtered for it.                                                        *)
IsLive(line) == line.op = "for" /\ line.expr.kind \in {"VarRef", "NameRef", "PropertyAccess"}

Goto(f, n) ==
  [f EXCEPT !.at = n,
            !.loops = SelectSeq(@, LAMBDA l : n >= l.line /\ n < Sibling(class.flows[f.flow], l.line))]

Replace(f) == frames' = Append(Front(frames), f)

Proceed == Replace(Goto(Top, After(Code, Top.at)))

(* What a name in an input stands for: a variable, or a prompt and all     *)
(* its body names.                                                         *)
RECURSIVE Resolves(_, _)
Resolves(name, path) ==
  \/ name \in assigned
  \/ /\ name \in DOMAIN class.prompts /\ name \notin path
     /\ \A x \in ToSet(class.prompts[name].names) : Resolves(x, path \cup {name})

RECURSIVE Unresolved(_)
Unresolved(e) ==
  CASE e.kind = "Resolve" -> ~Resolves(e.name, {})
    [] e.kind = "ListLiteral" -> \E n \in DOMAIN e.elements : Unresolved(e.elements[n])
    [] OTHER -> FALSE

Missing(e) == ReadsOf(e) \ assigned

Readable(e) == Missing(e) = {} /\ ~Unresolved(e)

Fail(why) ==
  /\ Stop(why) /\ frames' = << >>
  /\ UNCHANGED <<compiled, assigned, escalated>>

(* What a filter misses once its list has an item.                         *)
MissingForItems(e) == FilterReads(e) \ assigned

(* A line that reads a key ctx.vars has not, or a name that stands for     *)
(* nothing.                                                                *)
ReadFails ==
  /\ phase = "running" /\ frames # << >> /\ Top.at < Over
  /\ "expr" \in DOMAIN Current
  /\ \/ Missing(Current.expr) \cup MissingForItems(Current.expr) # {} /\ Fail("KeyError")
     \/ Missing(Current.expr) = {} /\ Unresolved(Current.expr) /\ Fail("undefined")

Steps(op) == Executes(op) /\ ("expr" \in DOMAIN Current => Readable(Current.expr))

Assign(names) ==
  /\ assigned' = assigned \cup names /\ Proceed
  /\ UNCHANGED <<compiling, escalated, outcome>>

SetVar ==
  \E op \in {"set", "store", "set item"} : Steps(op) /\ Assign({Current.arg})

Evaluate ==
  \E op \in {"set return", "log", "notify", "escalate", "pass"} : Steps(op) /\ Assign({})

(* ctx.vars[x][p] = v reads x.                                             *)
SetIn ==
  /\ Steps("set in")
  /\ IF Current.arg \in assigned THEN Assign({}) ELSE Fail("KeyError")

(* ctx.vars[x].append(v): the list of x may be the one a `for` of this     *)
(* flow or of its callers is going through; that `for` comes to the new    *)
(* item as well.                                                           *)
Grown(f, lines) ==
  [f EXCEPT !.loops = [n \in DOMAIN @ |->
     IF @[n].line \in lines /\ @[n].left < MaxItems THEN [@[n] EXCEPT !.left = @ + 1] ELSE @[n]]]

OverLists(f) ==
  {l.line : l \in {k \in ToSet(f.loops) : IsLive(class.flows[f.flow][k.line])}}

AppendItem ==
  /\ Steps("append")
  /\ IF Current.arg \notin assigned THEN Fail("KeyError")
     ELSE /\ \E grown \in SUBSET UNION {{k} \X OverLists(frames[k]) : k \in DOMAIN frames} :
               LET Lines(k) == {g[2] : g \in {h \in grown : h[1] = k}}
                   grownFrames == [k \in DOMAIN frames |-> Grown(frames[k], Lines(k))]
               IN  frames' = Append(Front(grownFrames),
                                    Goto(Last(grownFrames), After(Code, Top.at)))
          /\ UNCHANGED <<compiling, assigned, escalated, outcome>>

RunAgent ==
  /\ Steps("run agent")
  /\ IF Current.arg \notin DOMAIN class.agents
       THEN Fail("not found")
       ELSE /\ escalated' \in BOOLEAN /\ Proceed
            /\ UNCHANGED <<compiling, assigned, outcome>>

RunFlow ==
  /\ Steps("run flow")
  /\ IF Len(frames) = MaxCalls THEN Fail("recursion")
     ELSE IF Current.arg \notin DOMAIN class.flows THEN Fail("not found")
     ELSE IF ~IsGenerator(class.flows[Current.arg]) THEN Fail("no generator")
     ELSE /\ frames' = Front(frames) \o <<Goto(Top, After(Code, Top.at)), Frame(Current.arg)>>
          /\ UNCHANGED <<compiling, assigned, escalated, outcome>>

(* A prompt that is not there yields nothing and None is the result.       *)
CallLlm ==
  /\ Steps("call llm")
  /\ IF Current.arg \in DOMAIN class.prompts /\ ~Resolves(Current.arg, {})
       THEN Fail("undefined") ELSE Assign({})

RunParallel ==
  /\ Steps("parallel")
  /\ LET branches == Current.arg IN
     IF \E n \in DOMAIN branches : branches[n].agent \notin DOMAIN class.agents
       THEN Fail("not found")
       ELSE Assign({branches[n].target : n \in DOMAIN branches} \ {""})

EnterBlock == Replace([Top EXCEPT !.at = @ + 1])

If ==
  /\ Steps("if")
  /\ \/ Current.arg = "condition" /\ (EnterBlock \/ Proceed)
     \/ Current.arg = "escalated" /\ escalated /\ EnterBlock
     \/ Current.arg = "escalated" /\ ~escalated /\ Proceed
  /\ UNCHANGED <<compiling, assigned, escalated, outcome>>

CaseLines == {n \in DOMAIN Code : Code[n].op = "case" /\ HeaderOf(Code, n) = Top.at}

Match ==
  /\ Steps("match")
  /\ \/ (\A n \in CaseLines : Code[n].arg # "_") /\ Proceed
     \/ \E n \in CaseLines : Replace([Top EXCEPT !.at = n + 1])
  /\ UNCHANGED <<compiling, assigned, escalated, outcome>>

(* The counter and the maximum are variables of the flow, not of the loop. *)
StartLoop ==
  /\ \/ Executes("_loop_count = 0") /\ Replace([Top EXCEPT !.at = @ + 1, !.count = 0])
     \/ Executes("_max_iterations =")
        /\ Replace([Top EXCEPT !.at = @ + 1, !.max = Current.arg])
     \/ Executes("_loop_count += 1") /\ Replace([Goto(Top, After(Code, Top.at)) EXCEPT !.count = @ + 1])
  /\ UNCHANGED <<compiling, assigned, escalated, outcome>>

(* How often the body of the loop at this line was begun.                  *)
Begun(f) ==
  LET here == SelectSeq(f.loops, LAMBDA l : l.line = f.at)
  IN  IF here = << >> THEN 0 ELSE here[1].begun

(* Of more rounds than the maximum one is remembered. *)
Rounds == IF Current.op = "while" /\ Current.arg # -1 /\ Begun(Top) > Current.arg
            THEN Begun(Top) ELSE Begun(Top) + 1

EnterLoop(rounds, left) ==
  Replace([Top EXCEPT !.at = @ + 1,
                      !.loops = Append(SelectSeq(@, LAMBDA l : l.line # Top.at),
                                       [line |-> Top.at, begun |-> rounds, left |-> left])])

LeaveLoop ==
  Replace(Goto([Top EXCEPT !.loops = SelectSeq(@, LAMBDA l : l.line # Top.at)],
               After(Code, Top.at)))

While ==
  /\ Executes("while")
  /\ \/ Current.arg = -1 /\ Begun(Top) < MaxItems /\ EnterLoop(Rounds, 0)
     \/ Current.arg # -1 /\ Top.count < Top.max /\ EnterLoop(Rounds, 0)
     \/ Current.arg # -1 /\ Top.count >= Top.max /\ LeaveLoop
  /\ UNCHANGED <<compiling, assigned, escalated, outcome>>

(* The items a `for` has not come to yet: any number at its begin.         *)
ItemsLeft ==
  LET here == {l \in ToSet(Top.loops) : l.line = Top.at}
  IN  IF here = {} THEN 0..MaxItems ELSE {l.left : l \in here}

For ==
  /\ Steps("for")
  /\ \E left \in ItemsLeft :
       IF left = 0 THEN LeaveLoop ELSE EnterLoop(1, left - 1)
  /\ UNCHANGED <<compiling, assigned, escalated, outcome>>

Continue ==
  /\ Executes("continue")
  /\ Replace(Goto(Top, LoopOf(Code, Top.at)))
  /\ UNCHANGED <<compiling, assigned, escalated, outcome>>

Abort == Executes("raise") /\ Fail("aborted")

(* The end of a flow, or its return: its caller goes on.                   *)
Return ==
  /\ phase = "running" /\ frames # << >>
  /\ Top.at < Over => Current.op = "return"
  /\ IF Len(frames) = 1
       THEN Stop("done") /\ frames' = << >>
       ELSE frames' = Front(frames) /\ UNCHANGED <<phase, outcome>>
  /\ UNCHANGED <<compiled, assigned, escalated>>

Compile == Collect \/ Validate \/ Search \/ Validated \/ Reject \/ Load

Execute ==
  \/ Begin \/ ReadFails \/ SetVar \/ Evaluate \/ SetIn \/ AppendItem \/ RunAgent \/ RunFlow \/ CallLlm
  \/ RunParallel \/ If \/ Match \/ StartLoop \/ While \/ For \/ Continue \/ Abort \/ Return

Next == Compile \/ Execute

Spec == Init /\ [][Next]_vars

(* The interpreter runs the lines it comes to, whatever the compiler does  *)
(* with other files.                                                       *)
FairSpec == Spec /\ WF_vars(Execute)

-----------------------------------------------------------------------------
(* Properties.                                                             *)

Analyzed == phase = "generate"

(* A flow of an accepted file finds every variable it reads: a scope the   *)
(* analyzer closes, a branch not taken, a list without items and an        *)
(* escalation that leaves early never hide that a variable it took for     *)
(* defined was not assigned. What the analyzer does not look at at all is  *)
(* another matter: the files of the runs read no unassigned variable in a  *)
(* text, a filter, a log, a match body or as a bare name.                  *)
ScopeIsAssigned == outcome # "KeyError"

(* An accepted file becomes a class: every statement has code Python       *)
(* takes, every block has a statement and no schema reads a later one. The *)
(* analyzer does not look at spelling: a file whose names or texts do not  *)
(* fit into Python as they stand is another matter, and only such a file   *)
(* may fail.                                                               *)
AcceptedFilesLoad ==
  outcome \in {"no code", "no bytecode", "no class"} => ~TextsFit(class)

(* A file may declare its parts in any order: reversed, it is accepted or  *)
(* rejected as before, and the modifiers its prompts add up to are the     *)
(* same.                                                                   *)
VerdictIsOrderFree ==
  Analyzed =>
    LET other == Analyze([file EXCEPT !.statements = Reverse(@)]) IN
    /\ IsValid(other) = IsValid(analysis)
    /\ IsValid(analysis) =>
         \A p \in DOMAIN analysis.symbols.prompts : \A m \in Modifiers :
           other.symbols.prompts[p][m] = analysis.symbols.prompts[p][m]

(* A line inside the block of line n, or of a flow called from there.      *)
Inside(code, n) == {code[m] : m \in (n + 1)..(Sibling(code, n) - 1)}

Called(lines) == {l.arg : l \in {k \in lines : k.op = "run flow"}} \cap DOMAIN class.flows

RECURSIVE CalledFrom(_)
CalledFrom(flows) ==
  LET more == flows \cup UNION {Called(ToSet(class.flows[f])) : f \in flows}
  IN  IF more = flows THEN flows ELSE CalledFrom(more)

MayPush(lines) ==
  \E l \in lines \cup UNION {ToSet(class.flows[f]) : f \in CalledFrom(Called(lines))} :
    l.op = "append"

Endless(code) ==
  \E n \in DOMAIN code :
    \/ code[n].op = "while" /\ code[n].arg = -1
    \/ IsLive(code[n]) /\ MayPush(Inside(code, n))

(* A class whose loops all have a maximum, and whose `for` over a list of  *)
(* the program pushes to no list on the way, comes to an end: its entry    *)
(* flow returns or fails, whatever the agents answer.                      *)
BoundedProgramsEnd ==
  phase = "loaded" /\ (\A f \in DOMAIN class.flows : ~Endless(class.flows[f]))
    ~> phase = "ended"

=============================================================================
