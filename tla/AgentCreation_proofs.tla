-------------------------- MODULE AgentCreation_proofs --------------------------
(***************************************************************************)
(* Proofs about the trees of agents. The stack of the factory follows the  *)
(* calls in progress: the names on it are those at the end of their paths, *)
(* and only how a sequence of calls grows, shrinks and forgets a step      *)
(* matters. Every run gets the whole tree of its definition: each call has *)
(* built, or has yet to do, every child it may have. Closing a tree closes *)
(* all of it: what is still open lies under a visit that is to come.       *)
(* The definitions come from Workloads: what a turn gets by its name or by *)
(* its path, which file discovery finds for a name, and which YAML files   *)
(* are agents. The search for circles of agents finds one exactly when     *)
(* there is one: what it has left behind is on none.                       *)
(***************************************************************************)
EXTENDS AgentCreation, Workloads, AgentCycles, FiniteSetTheorems, NaturalFacts

CallNames(cs) == [i \in DOMAIN cs |-> Name(cs[i].path)]

(* A sequence of records with the fields of a call, whatever is in them.   *)
AreCalls(cs) == \E P, T : cs \in Seq([path : P, todo : T])

Answered(cs, todo) == [cs EXCEPT ![Len(cs)].todo = todo]

(* A call is appended: so is its name.                                     *)
LEMMA OneMoreCall ==
  ASSUME NEW cs, AreCalls(cs), NEW path, NEW todo
  PROVE  /\ AreCalls(Append(cs, [path |-> path, todo |-> todo]))
         /\ CallNames(Append(cs, [path |-> path, todo |-> todo])) = Append(CallNames(cs), Name(path))
         /\ Append(cs, [path |-> path, todo |-> todo]) # << >>
<1> DEFINE c == [path |-> path, todo |-> todo]
           longer == Append(cs, c)
           names == [i \in DOMAIN cs |-> Name(cs[i].path)]
<1>1. PICK P, T : cs \in Seq([path : P, todo : T])
  BY DEF AreCalls
<1>2. longer \in Seq([path : P \cup {path}, todo : T \cup {todo}])
  <2>1. [path : P, todo : T] \subseteq [path : P \cup {path}, todo : T \cup {todo}]
    OBVIOUS
  <2>2. cs \in Seq([path : P \cup {path}, todo : T \cup {todo}])
    BY <1>1, <2>1, SeqMonotonic
  <2>3. c \in [path : P \cup {path}, todo : T \cup {todo}]
    OBVIOUS
  <2> HIDE DEF c
  <2> QED BY <2>2, <2>3
<1>3. /\ DOMAIN cs = 1..Len(cs) /\ Len(cs) \in Nat
      /\ DOMAIN longer = 1..(Len(cs) + 1)
      /\ \A i \in 1..Len(cs) : longer[i] = cs[i]
      /\ longer[Len(cs) + 1] = c
  BY <1>1
<1> DEFINE values == {Name(cs[i].path) : i \in 1..Len(cs)} \cup {Name(path)}
<1>4. names \in Seq(values) /\ Len(names) = Len(cs)
  <2>1. names \in [1..Len(cs) -> values]
    BY <1>3
  <2> QED BY <2>1, <1>3
<1>5. CallNames(longer) = Append(names, Name(path))
  <2>1. Append(names, Name(path)) \in Seq(values) /\ Len(Append(names, Name(path))) = Len(cs) + 1
    BY <1>4
  <2>2. CallNames(longer) \in [1..(Len(cs) + 1) -> values]
    BY <1>3 DEF CallNames
  <2>3. \A i \in 1..(Len(cs) + 1) : CallNames(longer)[i] = Append(names, Name(path))[i]
    <3>1. \A i \in 1..Len(cs) : CallNames(longer)[i] = names[i]
      BY <1>3 DEF CallNames
    <3>2. CallNames(longer)[Len(cs) + 1] = Name(path)
      BY <1>3 DEF CallNames
    <3>3. /\ \A i \in 1..Len(cs) : Append(names, Name(path))[i] = names[i]
          /\ Append(names, Name(path))[Len(cs) + 1] = Name(path)
      <4> HIDE DEF names, values
      <4> QED BY <1>3, <1>4
    <3> QED BY <3>1, <3>2, <3>3, <1>3
  <2> HIDE DEF names, values, longer
  <2> QED BY <2>1, <2>2, <2>3, <1>3
<1>6. AreCalls(longer)
  <2> HIDE DEF longer
  <2> QED BY <1>2 DEF AreCalls
<1>7. longer # << >>
  <2>1. Len(longer) = Len(cs) + 1
    BY <1>1
  <2> HIDE DEF longer
  <2> QED BY <2>1, <1>3
<1>8. names = CallNames(cs)
  BY DEF CallNames
<1> HIDE DEF longer, names
<1>9. AreCalls(longer) /\ CallNames(longer) = Append(CallNames(cs), Name(path)) /\ longer # << >>
  BY <1>5, <1>6, <1>7, <1>8
<1> QED BY <1>9 DEF longer

(* The last call goes: so does its name.                                   *)
LEMMA OneCallLess ==
  ASSUME NEW cs, AreCalls(cs), cs # << >>
  PROVE  /\ AreCalls(Front(cs))
         /\ CallNames(Front(cs)) = Front(CallNames(cs))
         /\ Len(cs) = 1 => Front(cs) = << >>
         /\ Len(cs) # 1 => Front(cs) # << >>
<1>1. PICK P, T : cs \in Seq([path : P, todo : T])
  BY DEF AreCalls
<1>a. DOMAIN cs = 1..Len(cs) /\ Len(cs) \in Nat /\ Len(cs) # 0
  <2> DEFINE R == [path : P, todo : T]
  <2>1. cs \in Seq(R)
    BY <1>1
  <2> HIDE DEF R
  <2> QED BY <2>1
<1>b. \A i \in 1..(Len(cs) - 1) : cs[i] \in [path : P, todo : T]
  <2> DEFINE R == [path : P, todo : T]
  <2>1. cs \in Seq(R)
    BY <1>1
  <2> HIDE DEF R
  <2>2. \A i \in 1..(Len(cs) - 1) : cs[i] \in R
    BY <1>a, <2>1
  <2> QED BY <2>2 DEF R
<1>c. Front(cs) = SubSeq(cs, 1, Len(cs) - 1) /\ Len(cs) - 1 \in Int /\ 1 \in Int
  BY <1>a DEF Front
<1>d. /\ Front(cs) \in Seq([path : P, todo : T])
      /\ Len(Front(cs)) = Len(cs) - 1
      /\ \A i \in 1..(Len(cs) - 1) : Front(cs)[i] = cs[i]
  <2> DEFINE R == [path : P, todo : T]
             n == Len(cs) - 1
  <2>1. n \in Int /\ 1 \in Int /\ \A i \in 1..n : cs[i] \in R
    BY <1>b, <1>c
  <2>2. Front(cs) = SubSeq(cs, 1, n) /\ (1 <= n \/ n = 0)
    BY <1>a, <1>c
  <2> HIDE DEF R, n
  <2>3. /\ SubSeq(cs, 1, n) \in Seq(R)
        /\ Len(SubSeq(cs, 1, n)) = IF 1 <= n THEN n - 1 + 1 ELSE 0
        /\ \A i \in 1..(n - 1 + 1) : SubSeq(cs, 1, n)[i] = cs[1 + i - 1]
    BY <2>1, SubSeqProperties
  <2>4. Front(cs) \in Seq(R) /\ Len(Front(cs)) = n /\ \A i \in 1..n : Front(cs)[i] = cs[i]
    BY <2>1, <2>2, <2>3
  <2> QED BY <2>4 DEF R, n
<1>2. /\ DOMAIN Front(cs) = 1..(Len(cs) - 1)
      /\ Len(Front(cs)) = Len(cs) - 1
      /\ \A i \in 1..(Len(cs) - 1) : Front(cs)[i] = cs[i]
  <2> DEFINE R == [path : P, todo : T]
  <2>1. Front(cs) \in Seq(R)
    BY <1>d
  <2> HIDE DEF R
  <2> QED BY <1>d, <2>1, LenProperties
<1> DEFINE values == {Name(cs[i].path) : i \in 1..Len(cs)}
           names == CallNames(cs)
<1>3. names \in Seq(values) /\ Len(names) = Len(cs)
  <2>1. names \in [1..Len(cs) -> values]
    BY <1>a DEF CallNames
  <2> QED BY <2>1, <1>a
<1>4. /\ DOMAIN Front(names) = 1..(Len(cs) - 1)
      /\ Front(names) \in [1..(Len(cs) - 1) -> values]
      /\ \A i \in 1..(Len(cs) - 1) : Front(names)[i] = names[i]
  <2> DEFINE n == Len(cs) - 1
  <2> HIDE DEF names, values
  <2>1. n \in Int /\ 1 \in Int /\ (1 <= n \/ n = 0) /\ \A i \in 1..n : names[i] \in values
    BY <1>a, <1>3
  <2>2. Front(names) = SubSeq(names, 1, n)
    BY <1>3 DEF Front
  <2> HIDE DEF n
  <2>3. /\ SubSeq(names, 1, n) \in Seq(values)
        /\ Len(SubSeq(names, 1, n)) = IF 1 <= n THEN n - 1 + 1 ELSE 0
        /\ \A i \in 1..(n - 1 + 1) : SubSeq(names, 1, n)[i] = names[1 + i - 1]
    BY <2>1, SubSeqProperties
  <2>4. Front(names) \in Seq(values) /\ Len(Front(names)) = n /\ \A i \in 1..n : Front(names)[i] = names[i]
    BY <2>1, <2>2, <2>3
  <2>5. Front(names) \in [1..n -> values] /\ DOMAIN Front(names) = 1..n
    BY <2>4, LenProperties
  <2> QED BY <2>4, <2>5 DEF n
<1>5. CallNames(Front(cs)) \in [1..(Len(cs) - 1) -> values]
  BY <1>a, <1>2 DEF CallNames
<1>6. \A i \in 1..(Len(cs) - 1) : CallNames(Front(cs))[i] = names[i]
  BY <1>a, <1>2 DEF CallNames
<1>7. CallNames(Front(cs)) = Front(names)
  <2> HIDE DEF names, values
  <2> QED BY <1>4, <1>5, <1>6
<1>8. AreCalls(Front(cs))
  BY <1>d DEF AreCalls
<1>9. Len(cs) = 1 => Front(cs) = << >>
  BY <1>d
<1>10. Len(cs) # 1 => Front(cs) # << >>
  BY <1>d, <1>a
<1> QED BY <1>7, <1>8, <1>9, <1>10

(* The last call has one step less to do: the names stay.                  *)
LEMMA OneStepLess ==
  ASSUME NEW cs, AreCalls(cs), cs # << >>, NEW todo
  PROVE  /\ AreCalls(Answered(cs, todo))
         /\ CallNames(Answered(cs, todo)) = CallNames(cs)
         /\ Answered(cs, todo) # << >>
<1>1. PICK P, T : cs \in Seq([path : P, todo : T])
  BY DEF AreCalls
<1> DEFINE R == [path : P, todo : T \cup {todo}]
<1>2. cs \in Seq(R) /\ Len(cs) \in Nat \ {0} /\ DOMAIN cs = 1..Len(cs)
  <2>1. [path : P, todo : T] \subseteq R
    OBVIOUS
  <2>2. cs \in Seq(R)
    BY <1>1, <2>1, SeqMonotonic
  <2> HIDE DEF R
  <2> QED BY <2>2
<1>3. [cs[Len(cs)] EXCEPT !.todo = todo] \in R
  <2>1. cs[Len(cs)] \in R
    <3> HIDE DEF R
    <3> QED BY <1>2
  <2> QED BY <2>1
<1>4. Answered(cs, todo) = [cs EXCEPT ![Len(cs)] = [cs[Len(cs)] EXCEPT !.todo = todo]]
  BY DEF Answered
<1>5. Answered(cs, todo) \in Seq(R) /\ Len(Answered(cs, todo)) = Len(cs)
  <2> HIDE DEF R
  <2> QED BY <1>2, <1>3, <1>4, ExceptSeq
<1>6. \A i \in 1..Len(cs) : Answered(cs, todo)[i].path = cs[i].path
  <2>1. \A i \in 1..Len(cs) : cs[i] \in R
    <3> HIDE DEF R
    <3> QED BY <1>2
  <2> QED BY <1>2, <1>4, <2>1
<1>7. DOMAIN Answered(cs, todo) = 1..Len(cs)
  BY <1>2, <1>4
<1>8. CallNames(Answered(cs, todo)) = CallNames(cs)
  BY <1>2, <1>6, <1>7 DEF CallNames
<1>9. AreCalls(Answered(cs, todo))
  BY <1>5 DEF AreCalls
<1>10. Answered(cs, todo) # << >>
  BY <1>2, <1>5
<1> QED BY <1>8, <1>9, <1>10

-----------------------------------------------------------------------------
InProgress == phase \in {"creating", "raising"}

(* There is a call in progress while an agent is created or an exception   *)
(* passes through, and none else.                                          *)
CallsFollowThePhase ==
  /\ AreCalls(calls)
  /\ InProgress <=> calls # << >>

(* Only a .sr file has parallel blocks.                                    *)
BlocksAreDsl == block # << >> => definition.format = "dsl"

StackInv == CallsFollowThePhase /\ StackFollowsTheCalls /\ BlocksAreDsl

(* No call, no name.                                                       *)
LEMMA NamesOfNoCalls == AreCalls(<< >>) /\ CallNames(<< >>) = << >>
<1>1. << >> \in Seq([path : {}, todo : {}])
  OBVIOUS
<1> QED BY <1>1 DEF AreCalls, CallNames

(* The stack in terms of the names of the calls.                           *)
LEMMA StackNames ==
  StackFollowsTheCalls <=> stack = IF definition.format = "dsl" THEN CallNames(calls) ELSE << >>
BY DEF StackFollowsTheCalls, CallNames

-----------------------------------------------------------------------------
(* A call more: its name is pushed.                                        *)
LEMMA NestedCallKeeps ==
  ASSUME StackInv, phase = "creating", phase' = phase, definition' = definition, block' = block,
         NestedCall
  PROVE  StackInv'
<1> DEFINE path == Append(Path, Head(Top.todo))
           done == Answered(calls, Tail(Top.todo))
<1>1. AreCalls(calls) /\ calls # << >>
  BY DEF StackInv, CallsFollowThePhase, InProgress
<1>2. AreCalls(done) /\ CallNames(done) = CallNames(calls)
  BY <1>1, OneStepLess
<1>3. Done = done
  BY DEF Done, Answered, Top, Last
<1>4. calls' = Append(done, [path |-> path, todo |-> Plan(Name(path))]) /\ stack' = Pushed(Name(path))
  BY <1>3 DEF NestedCall, Call
<1> HIDE DEF path, done
<1>5. AreCalls(calls') /\ CallNames(calls') = Append(CallNames(calls), Name(path)) /\ calls' # << >>
  BY <1>2, <1>4, OneMoreCall
<1>6. stack' = IF definition.format = "dsl" THEN CallNames(calls') ELSE << >>
  <2>1. stack = IF definition.format = "dsl" THEN CallNames(calls) ELSE << >>
    BY StackNames DEF StackInv
  <2> QED BY <1>4, <1>5, <2>1 DEF Pushed
<1> QED BY <1>5, <1>6 DEF StackInv, CallsFollowThePhase, InProgress, StackFollowsTheCalls, CallNames, BlocksAreDsl

(* A step of the call on top: nothing is pushed or popped.                 *)
LEMMA DoneKeeps ==
  ASSUME StackInv, phase = "creating", phase' = phase, definition' = definition, block' = block,
         calls' = Done, stack' = stack
  PROVE  StackInv'
<1>1. AreCalls(calls) /\ calls # << >>
  BY DEF StackInv, CallsFollowThePhase, InProgress
<1>2. calls' = Answered(calls, Tail(Top.todo))
  BY DEF Done, Answered, Top, Last
<1>3. AreCalls(calls') /\ CallNames(calls') = CallNames(calls) /\ calls' # << >>
  BY <1>1, <1>2, OneStepLess
<1>4. stack' = IF definition.format = "dsl" THEN CallNames(calls') ELSE << >>
  BY <1>3, StackNames DEF StackInv
<1> QED BY <1>3, <1>4 DEF StackInv, CallsFollowThePhase, InProgress, StackFollowsTheCalls, CallNames, BlocksAreDsl

(* A run calls create_agent with no call in progress.                      *)
LEMMA FirstCallKeeps ==
  ASSUME StackInv, phase = "open", phase' = "creating", definition' = definition,
         BlocksAreDsl', NEW path, StartCall(path)
  PROVE  StackInv'
<1>1. AreCalls(calls) /\ calls = << >>
  BY DEF StackInv, CallsFollowThePhase, InProgress
<1>2. calls' = Append(calls, [path |-> path, todo |-> Plan(Name(path))]) /\ stack' = Pushed(Name(path))
  BY DEF StartCall, Call
<1>3. AreCalls(calls') /\ CallNames(calls') = Append(CallNames(calls), Name(path)) /\ calls' # << >>
  BY <1>1, <1>2, OneMoreCall
<1>4. stack' = IF definition.format = "dsl" THEN CallNames(calls') ELSE << >>
  <2>1. stack = IF definition.format = "dsl" THEN CallNames(calls) ELSE << >>
    BY StackNames DEF StackInv
  <2> QED BY <1>2, <1>3, <2>1 DEF Pushed
<1> QED BY <1>3, <1>4 DEF StackInv, CallsFollowThePhase, InProgress, StackFollowsTheCalls, CallNames, BlocksAreDsl

(* A call less, by return or by exception: the stack loses its last name.  *)
LEMMA PoppedNames ==
  ASSUME StackInv, InProgress
  PROVE  /\ AreCalls(Front(calls))
         /\ Popped = IF definition.format = "dsl" THEN CallNames(Front(calls)) ELSE << >>
         /\ Len(calls) = 1 <=> Front(calls) = << >>
<1>1. AreCalls(calls) /\ calls # << >>
  BY DEF StackInv, CallsFollowThePhase
<1>2. stack = IF definition.format = "dsl" THEN CallNames(calls) ELSE << >>
  BY StackNames DEF StackInv
<1> QED BY <1>1, <1>2, OneCallLess DEF Popped

(* With or without the first call of the next agent of a parallel block.   *)
LEMMA ReturnKeeps ==
  ASSUME StackInv, Return
  PROVE  StackInv'
<1>1. InProgress /\ phase = "creating" /\ definition' = definition
  BY DEF Return, InProgress
<1>2. /\ AreCalls(Front(calls))
      /\ Popped = IF definition.format = "dsl" THEN CallNames(Front(calls)) ELSE << >>
      /\ Len(calls) = 1 <=> Front(calls) = << >>
  BY <1>1, PoppedNames
<1>3. CASE Len(calls) = 1 /\ block # << >>
  <2> DEFINE path == Root(Head(block))
  <2>1. /\ calls' = <<Call(path)>> /\ stack' = Append(Popped, Name(path))
        /\ phase' = phase /\ definition' = definition
    BY <1>3 DEF Return
  <2>2. definition.format = "dsl"
    BY <1>3 DEF StackInv, BlocksAreDsl
  <2>3. Popped = << >> /\ AreCalls(<< >>) /\ CallNames(<< >>) = << >>
    BY <1>2, <1>3, <2>2, NamesOfNoCalls
  <2> HIDE DEF path
  <2>4. calls' = Append(<< >>, [path |-> path, todo |-> Plan(Name(path))])
    BY <2>1 DEF Call
  <2>5. AreCalls(calls') /\ CallNames(calls') = Append(<< >>, Name(path)) /\ calls' # << >>
    BY <2>3, <2>4, OneMoreCall
  <2>6. stack' = IF definition'.format = "dsl" THEN CallNames(calls') ELSE << >>
    BY <2>1, <2>2, <2>3, <2>5
  <2>7. BlocksAreDsl'
    BY <2>1, <2>2 DEF BlocksAreDsl
  <2> QED BY <1>1, <2>1, <2>5, <2>6, <2>7
          DEF StackInv, CallsFollowThePhase, InProgress, StackFollowsTheCalls, CallNames
<1>4. CASE ~(Len(calls) = 1 /\ block # << >>)
  <2>1. /\ calls' = Front(calls) /\ stack' = Popped /\ block' = block
        /\ phase' = IF Len(calls) = 1 THEN "open" ELSE phase
    BY <1>4 DEF Return
  <2>2. stack' = IF definition'.format = "dsl" THEN CallNames(calls') ELSE << >>
    BY <1>1, <1>2, <2>1
  <2>3. BlocksAreDsl'
    BY <1>1, <2>1 DEF StackInv, BlocksAreDsl
  <2>4. AreCalls(calls') /\ (InProgress' <=> calls' # << >>)
    BY <1>1, <1>2, <2>1 DEF InProgress
  <2> QED BY <2>2, <2>3, <2>4 DEF StackInv, CallsFollowThePhase, StackFollowsTheCalls, CallNames
<1> QED BY <1>3, <1>4

(* An exception passes through one call.                                   *)
LEMMA UnwindKeeps ==
  ASSUME StackInv, Unwind
  PROVE  StackInv'
<1>1. InProgress /\ phase = "raising" /\ definition' = definition
  BY DEF Unwind, InProgress
<1>2. /\ AreCalls(Front(calls))
      /\ Popped = IF definition.format = "dsl" THEN CallNames(Front(calls)) ELSE << >>
      /\ Len(calls) = 1 <=> Front(calls) = << >>
  BY <1>1, PoppedNames
<1>3. /\ calls' = Front(calls) /\ stack' = Popped /\ block' \in {block, << >>}
      /\ phase' = IF Len(calls) = 1 THEN "open" ELSE phase
  BY DEF Unwind
<1>4. stack' = IF definition'.format = "dsl" THEN CallNames(calls') ELSE << >>
  BY <1>1, <1>2, <1>3
<1>5. BlocksAreDsl'
  BY <1>1, <1>3 DEF StackInv, BlocksAreDsl
<1>6. AreCalls(calls') /\ (InProgress' <=> calls' # << >>)
  BY <1>1, <1>2, <1>3 DEF InProgress
<1> QED BY <1>4, <1>5, <1>6 DEF StackInv, CallsFollowThePhase, StackFollowsTheCalls, CallNames

-----------------------------------------------------------------------------
(* The format of a definition is one of the two.                           *)
DefinitionOK == definition \in Definition

(* A run begins: only the run of a .sr file leaves agents for later.       *)
LEMMA RunKeeps ==
  ASSUME DefinitionOK, StackInv, NEW agents, NEW isBlock \in BOOLEAN, Run(agents, isBlock),
         ~isBlock => Tail(agents) = << >>
  PROVE  StackInv'
<1>1. phase = "open" /\ phase' = "creating" /\ definition' = definition
  BY DEF Run
<1>2. BlocksAreDsl'
  <2>1. definition.format \in {"dsl", "yaml"}
    BY DEF DefinitionOK, Definition
  <2> QED BY <2>1 DEF Run, BlocksAreDsl
<1>3. StartCall(Root(Head(agents)))
  BY DEF Run
<1> QED BY <1>1, <1>2, <1>3, FirstCallKeeps

(* The definition stays, and the stack follows the calls.                  *)
THEOREM StackInvariant == Spec => [](DefinitionOK /\ StackInv)
<1>1. Init => DefinitionOK /\ StackInv
  <2>1. Init => AreCalls(calls) /\ CallNames(calls) = << >>
    BY NamesOfNoCalls DEF Init
  <2> QED BY <2>1, StackNames, AgentCreationAssumption
          DEF Init, StackInv, CallsFollowThePhase, InProgress, BlocksAreDsl, DefinitionOK
<1>2. DefinitionOK /\ StackInv /\ [Next]_vars => (DefinitionOK /\ StackInv)'
  <2> SUFFICES ASSUME DefinitionOK, StackInv, [Next]_vars PROVE (DefinitionOK /\ StackInv)'
    OBVIOUS
  <2>1. DefinitionOK'
    <3>1. definition' = definition
      BY DEF Next, Step, RunAgent, RunParallel, Run, Close, NextWorkload, ResolveInstruction,
             ResolveModel, AdkConfig, Resolve, ResolveTools, ResolveSubAgent, ResolveAgentTool,
             SkipAgentTool, Return, Raise, Unwind, CloseAgent, CloseTools, CloseRaises, CloseEnds,
             Creating, Closing, vars
    <3> QED BY <3>1 DEF DefinitionOK
  <2>2. CASE RunAgent
    <3>1. PICK name \in definition.agents : Run(<<name>>, FALSE)
      BY <2>2 DEF RunAgent
    <3>2. Tail(<<name>>) = << >>
      OBVIOUS
    <3> QED BY <2>1, <3>1, <3>2, RunKeeps
  <2>3. CASE RunParallel
    <3>1. PICK first, second \in definition.agents : Run(<<first, second>>, TRUE)
      BY <2>3 DEF RunParallel
    <3> QED BY <2>1, <3>1, RunKeeps
  <2>4. CASE ResolveInstruction \/ ResolveModel \/ AdkConfig \/ ResolveTools \/ SkipAgentTool
    <3>1. /\ phase = "creating" /\ phase' = phase /\ definition' = definition /\ block' = block
          /\ calls' = Done /\ stack' = stack
      BY <2>4 DEF ResolveInstruction, ResolveModel, AdkConfig, Resolve, ResolveTools, SkipAgentTool,
                  Asks, Creating, run
    <3> QED BY <2>1, <3>1, DoneKeeps
  <2>5. CASE ResolveSubAgent \/ ResolveAgentTool
    <3>1. /\ phase = "creating" /\ phase' = phase /\ definition' = definition /\ block' = block
          /\ NestedCall
      BY <2>5 DEF ResolveSubAgent, ResolveAgentTool, Asks, Creating, run
    <3> QED BY <2>1, <3>1, NestedCallKeeps
  <2>6. CASE Return
    BY <2>1, <2>6, ReturnKeeps
  <2>7. CASE Unwind
    BY <2>1, <2>7, UnwindKeeps
  <2>8. ASSUME UNCHANGED <<definition, stack, calls>>, BlocksAreDsl', InProgress' <=> InProgress
        PROVE  StackInv'
    BY <2>8 DEF StackInv, CallsFollowThePhase, StackFollowsTheCalls, AreCalls
  <2>9. CASE Raise
    <3>1. UNCHANGED <<definition, stack, calls>> /\ BlocksAreDsl' /\ (InProgress' <=> InProgress)
      BY <2>9 DEF Raise, run, InProgress, StackInv, BlocksAreDsl
    <3> QED BY <2>1, <2>8, <3>1
  <2>10. CASE Close \/ CloseAgent \/ CloseTools \/ CloseRaises \/ CloseEnds
    <3>1. UNCHANGED <<definition, stack, calls>> /\ BlocksAreDsl' /\ (InProgress' <=> InProgress)
      BY <2>10 DEF Close, CloseAgent, CloseTools, CloseRaises, CloseEnds, Closing, run, InProgress,
                   StackInv, BlocksAreDsl
    <3> QED BY <2>1, <2>8, <3>1
  <2>11. CASE NextWorkload
    <3>1. UNCHANGED <<definition, stack, calls>> /\ BlocksAreDsl' /\ (InProgress' <=> InProgress)
      BY <2>11 DEF NextWorkload, InProgress, BlocksAreDsl
    <3> QED BY <2>1, <2>8, <3>1
  <2>12. CASE UNCHANGED vars
    <3>1. UNCHANGED <<definition, stack, calls>> /\ BlocksAreDsl' /\ (InProgress' <=> InProgress)
      BY <2>12 DEF vars, run, InProgress, StackInv, BlocksAreDsl
    <3> QED BY <2>1, <2>8, <3>1
  <2> QED BY <2>2, <2>3, <2>4, <2>5, <2>6, <2>7, <2>9, <2>10, <2>11, <2>12 DEF Next, Step
<1> QED BY <1>1, <1>2, PTL DEF Spec

(* The stack of the factory names exactly the calls of create_agent in     *)
(* progress (the push and the finally of create_agent), whatever raised in *)
(* this workload or in an earlier one of the definition.                   *)
THEOREM StackFollowsTheCallsTheorem == Spec => []StackFollowsTheCalls
BY StackInvariant, PTL DEF StackInv

-----------------------------------------------------------------------------

(* What a sequence has in it, when it grows and when it shrinks.           *)
LEMMA RangeOfAppend ==
  ASSUME NEW E, NEW s \in Seq(E), NEW e \in E
  PROVE  Range(Append(s, e)) = Range(s) \cup {e}
<1> DEFINE t == Append(s, e)
<1>1. /\ t \in Seq(E) /\ Len(t) = Len(s) + 1 /\ t[Len(s) + 1] = e /\ Len(s) \in Nat
      /\ \A i \in 1..Len(s) : t[i] = s[i]
  BY AppendProperties, LenProperties
<1>2. Range(t) = {t[i] : i \in 1..Len(t)} /\ Range(s) = {s[i] : i \in 1..Len(s)}
  <2> HIDE DEF t
  <2> QED
    BY <1>1, RangeEquality
<1> HIDE DEF t
<1>3. \A i \in 1..Len(t) : i \in 1..Len(s) \/ i = Len(s) + 1
  BY <1>1
<1>4. \A i \in 1..Len(s) : i \in 1..Len(t)
  BY <1>1
<1>5. Len(s) + 1 \in 1..Len(t)
  BY <1>1
<1>6. Range(t) = Range(s) \cup {e}
  BY <1>1, <1>2, <1>3, <1>4, <1>5
<1>7. QED
  BY <1>6 DEF t

(* The elements of a sequence are its head and those of its tail.          *)
LEMMA RangeOfTail ==
  ASSUME NEW E, NEW s \in Seq(E), s # << >>
  PROVE  /\ Head(s) \in E /\ Tail(s) \in Seq(E)
         /\ Range(s) = {Head(s)} \cup Range(Tail(s))
<1> DEFINE t == Tail(s)
<1>1. /\ Head(s) \in E /\ t \in Seq(E) /\ Len(t) = Len(s) - 1 /\ Head(s) = s[1]
      /\ \A i \in 1..Len(t) : t[i] = s[i + 1]
  BY HeadTailProperties
<1>2. Len(s) \in Nat \ {0}
  BY EmptySeq
<1>3. Range(t) = {t[i] : i \in 1..Len(t)} /\ Range(s) = {s[i] : i \in 1..Len(s)}
  <2> HIDE DEF t
  <2> QED
    BY <1>1, RangeEquality
<1> HIDE DEF t
<1>4. \A i \in 1..Len(t) : i + 1 \in 1..Len(s)
  BY <1>1, <1>2
<1>5. \A i \in 1..Len(s) : i = 1 \/ (i - 1 \in 1..Len(t) /\ (i - 1) + 1 = i)
  BY <1>1, <1>2
<1>6. 1 \in 1..Len(s)
  BY <1>2
<1>7. Range(s) \subseteq {Head(s)} \cup Range(t)
  <2> SUFFICES ASSUME NEW i \in 1..Len(s) PROVE s[i] \in {Head(s)} \cup Range(t)
    BY <1>3
  <2>1. CASE i = 1
    BY <1>1, <2>1
  <2>2. CASE i # 1
    <3>1. i - 1 \in 1..Len(t) /\ t[i - 1] = s[i]
      BY <1>1, <1>5, <2>2
    <3>2. QED
      BY <1>3, <3>1
  <2>3. QED
    BY <2>1, <2>2
<1>8. {Head(s)} \cup Range(t) \subseteq Range(s)
  BY <1>1, <1>3, <1>4, <1>6
<1>9. Range(s) = {Head(s)} \cup Range(t)
  BY <1>7, <1>8
<1>10. QED
  BY <1>1, <1>9 DEF t

(* Kept, element by element.                                               *)
Singles(s, S) == [i \in DOMAIN s |-> IF s[i] \in S THEN <<s[i]>> ELSE << >>]

(* Kept of a longer sequence: the new element is in it if the set holds    *)
(* it.                                                                     *)
LEMMA KeptMore ==
  ASSUME NEW E, NEW s \in Seq(E), NEW e \in E, NEW S
  PROVE  Kept(Append(s, e), S) = IF e \in S THEN Append(Kept(s, S), e) ELSE Kept(s, S)
<1> DEFINE t == Append(s, e)
           single == IF e \in S THEN <<e>> ELSE << >>
<1>1. /\ t \in Seq(E) /\ Len(t) = Len(s) + 1 /\ t[Len(s) + 1] = e
      /\ Len(s) \in Nat /\ DOMAIN s = 1..Len(s) /\ DOMAIN t = 1..(Len(s) + 1)
      /\ \A i \in 1..Len(s) : t[i] = s[i] /\ s[i] \in E
  <2>1. t \in Seq(E)
    BY AppendProperties
  <2>2. QED
    BY <2>1, AppendProperties, LenProperties, ElementOfSeq
<1>2. single \in Seq(E) /\ << >> \in Seq(E)
  OBVIOUS
<1>3. Singles(s, S) \in Seq(Seq(E)) /\ Len(Singles(s, S)) = Len(s)
  <2>1. \A i \in 1..Len(s) : (IF s[i] \in S THEN <<s[i]>> ELSE << >>) \in Seq(E)
    BY <1>1
  <2>2. QED
    BY <1>1, <2>1 DEF Singles
<1>4. Singles(t, S) = Append(Singles(s, S), single)
  <2> DEFINE a == Singles(t, S)
             b == Append(Singles(s, S), single)
  <2>1. /\ b \in Seq(Seq(E)) /\ Len(b) = Len(s) + 1 /\ b[Len(s) + 1] = single
        /\ \A i \in 1..Len(s) : b[i] = Singles(s, S)[i]
    <3> HIDE DEF single
    <3> QED
      BY <1>2, <1>3, AppendProperties
  <2>2. /\ DOMAIN a = 1..(Len(s) + 1)
        /\ \A i \in 1..(Len(s) + 1) : a[i] = IF t[i] \in S THEN <<t[i]>> ELSE << >>
    BY <1>1 DEF Singles
  <2>3. \A i \in 1..Len(s) : Singles(s, S)[i] = IF s[i] \in S THEN <<s[i]>> ELSE << >>
    BY <1>1 DEF Singles
  <2>4. \A i \in 1..(Len(s) + 1) : a[i] = b[i]
    <3> SUFFICES ASSUME NEW i \in 1..(Len(s) + 1) PROVE a[i] = b[i]
      OBVIOUS
    <3> HIDE DEF a, b, t
    <3>1. CASE i = Len(s) + 1
      <4>1. a[i] = single
        BY <1>1, <2>2, <3>1
      <4> HIDE DEF single
      <4>2. QED
        BY <2>1, <3>1, <4>1
    <3>2. CASE i # Len(s) + 1
      <4>1. i \in 1..Len(s)
        BY <1>1, <3>2
      <4>2. b[i] = Singles(s, S)[i]
        BY <2>1, <4>1
      <4>3. t[i] = s[i]
        BY <1>1, <4>1
      <4>4. QED
        BY <2>2, <2>3, <4>1, <4>2, <4>3
    <3>3. QED
      BY <3>1, <3>2
  <2>5. a \in Seq(Seq(E)) /\ Len(a) = Len(s) + 1
    <3>1. a = [i \in 1..(Len(s) + 1) |-> a[i]]
      BY <1>1 DEF Singles
    <3>2. \A i \in 1..(Len(s) + 1) : a[i] \in Seq(E)
      <4> HIDE DEF a, b
      <4> QED
        BY <2>1, <2>4, ElementOfSeq
    <3> HIDE DEF a, b
    <3>3. QED
      BY <1>1, <3>1, <3>2
  <2>6. QED
    <3> HIDE DEF a, b
    <3>1. a = b
      BY <2>1, <2>4, <2>5, SeqEqual
    <3>2. QED
      BY <3>1 DEF a, b
<1>5. /\ FlattenSeq(Singles(s, S)) \in Seq(E)
      /\ FlattenSeq(Append(Singles(s, S), single)) = FlattenSeq(Singles(s, S)) \o single
  <2> HIDE DEF single
  <2> QED
    BY <1>2, <1>3, FlattenAppend
<1>6. Kept(s, S) = FlattenSeq(Singles(s, S)) /\ Kept(t, S) = FlattenSeq(Singles(t, S))
  BY DEF Kept, Singles
<1>7. /\ FlattenSeq(Singles(s, S)) \o << >> = FlattenSeq(Singles(s, S))
      /\ FlattenSeq(Singles(s, S)) \o <<e>> = Append(FlattenSeq(Singles(s, S)), e)
  BY <1>5, ConcatEmptySeq, AppendIsConcat
<1>8. QED
  BY <1>4, <1>5, <1>6, <1>7 DEF t

(* It has what the sequence and the set have in common.                    *)
LEMMA KeptIsCommon ==
  ASSUME NEW E, NEW s \in Seq(E), NEW S
  PROVE  Kept(s, S) \in Seq(E \cap S) /\ Range(Kept(s, S)) = Range(s) \cap S
<1> DEFINE A == {q \in Seq(E) : Kept(q, S) \in Seq(E \cap S) /\ Range(Kept(q, S)) = Range(q) \cap S}
<1>1. << >> \in A
  <2>1. << >> \in Seq(E) /\ << >> \in Seq(E \cap S) /\ Range(<< >>) = {}
    BY EmptySeq DEF Range
  <2>2. Kept(<< >>, S) = << >>
    <3>1. [i \in DOMAIN << >> |-> IF << >>[i] \in S THEN << << >>[i]>> ELSE << >>] = << >>
      OBVIOUS
    <3>2. FlattenSeq(<< >>) = << >>
      BY DEF FlattenSeq
    <3>3. QED
      BY <3>1, <3>2 DEF Kept
  <2>3. QED
    BY <2>1, <2>2
<1>2. ASSUME NEW q \in Seq(E), NEW e \in E, q \in A PROVE Append(q, e) \in A
  <2>1. Append(q, e) \in Seq(E) /\ Range(Append(q, e)) = Range(q) \cup {e}
    BY RangeOfAppend, AppendProperties
  <2>2. Kept(q, S) \in Seq(E \cap S) /\ Range(Kept(q, S)) = Range(q) \cap S
    BY <1>2
  <2>3. Kept(Append(q, e), S) = IF e \in S THEN Append(Kept(q, S), e) ELSE Kept(q, S)
    BY KeptMore
  <2>4. CASE e \in S
    <3>1. e \in E \cap S
      BY <2>4
    <3>2. /\ Append(Kept(q, S), e) \in Seq(E \cap S)
          /\ Range(Append(Kept(q, S), e)) = Range(Kept(q, S)) \cup {e}
      BY <2>2, <3>1, RangeOfAppend, AppendProperties
    <3>3. (Range(q) \cap S) \cup {e} = (Range(q) \cup {e}) \cap S
      BY <2>4
    <3>4. QED
      BY <2>1, <2>2, <2>3, <2>4, <3>2, <3>3
  <2>5. CASE e \notin S
    <3>1. Range(q) \cap S = (Range(q) \cup {e}) \cap S
      BY <2>5
    <3>2. QED
      BY <2>1, <2>2, <2>3, <2>5, <3>1
  <2>6. QED
    BY <2>4, <2>5
<1>3. \A q \in Seq(E) : q \in A
  <2>1. \A q \in Seq(E), e \in E : q \in A => Append(q, e) \in A
    BY <1>2
  <2> HIDE DEF A
  <2>2. QED
    BY <1>1, <2>1, SequenceInduction
<1>4. QED
  BY <1>3

-----------------------------------------------------------------------------

TreeEdges == [list : {"run", "sub_agents", "agent_tools"}, place : Nat, name : Names]
OwnSteps == [list : {"instruction", "model", "tools", "config"}, place : {0}, name : {""}]
PlanSteps == TreeEdges \cup OwnSteps
Paths == {p \in Seq(TreeEdges) : p # << >>}

ChildEdges(name) == Range(SubAgents(name)) \cup Range(AgentTools(name))
Children(path) == ChildEdges(Name(path))

(* The edges of a list are edges of the tree, each with the name of its    *)
(* list.                                                                   *)
LEMMA EdgesFacts ==
  ASSUME NEW list \in {"sub_agents", "agent_tools"}, NEW names \in Seq(Names)
  PROVE  /\ Edges(list, names) \in Seq(TreeEdges)
         /\ \A e \in Range(Edges(list, names)) : e \in TreeEdges /\ e.list = list
<1> DEFINE listed == Kept(names, definition.agents)
<1>1. listed \in Seq(Names \cap definition.agents)
  BY KeptIsCommon
<1> HIDE DEF listed
<1>2. /\ Len(listed) \in Nat /\ DOMAIN listed = 1..Len(listed)
      /\ \A i \in 1..Len(listed) : listed[i] \in Names
  BY <1>1
<1>3. Edges(list, names) = [i \in 1..Len(listed) |-> Edge(list, i, listed[i])]
  BY <1>2 DEF Edges, listed
<1>4. \A i \in 1..Len(listed) : Edge(list, i, listed[i]) \in TreeEdges /\ Edge(list, i, listed[i]).list = list
  BY <1>2 DEF Edge, TreeEdges
<1>5. Edges(list, names) \in Seq(TreeEdges)
  <2> HIDE DEF TreeEdges
  <2> QED
    BY <1>2, <1>3, <1>4
<1>6. \A e \in Range(Edges(list, names)) : e \in TreeEdges /\ e.list = list
  BY <1>3, <1>4 DEF Range
<1>7. QED
  BY <1>5, <1>6

(* The children of a definition are edges of the two lists of agents.      *)
LEMMA ChildFacts ==
  ASSUME DefinitionOK, NEW name \in Names
  PROVE  /\ SubAgents(name) \in Seq(TreeEdges) /\ AgentTools(name) \in Seq(TreeEdges)
         /\ \A e \in Range(SubAgents(name)) : e \in TreeEdges /\ e.list = "sub_agents"
         /\ \A e \in Range(AgentTools(name)) : e \in TreeEdges /\ e.list = "agent_tools"
<1>1. definition.sub_agents[name] \in Seq(Names) /\ definition.agent_tools[name] \in Seq(Names)
  BY DEF DefinitionOK, Definition
<1>2. QED
  BY <1>1, EdgesFacts DEF SubAgents, AgentTools

(* A step of the agent itself is a step of a plan.                         *)
LEMMA OwnIsAStep ==
  \A step \in {"instruction", "model", "tools", "config"} :
    /\ Own(step) \in OwnSteps /\ <<Own(step)>> \in Seq(PlanSteps)
    /\ Range(<<Own(step)>>) = {Own(step)}
<1> SUFFICES ASSUME NEW step \in {"instruction", "model", "tools", "config"}
             PROVE  /\ Own(step) \in OwnSteps /\ <<Own(step)>> \in Seq(PlanSteps)
                    /\ Range(<<Own(step)>>) = {Own(step)}
  OBVIOUS
<1>1. Own(step) \in OwnSteps
  BY DEF Own, Edge, OwnSteps
<1>2. Own(step) \in PlanSteps
  BY <1>1 DEF PlanSteps
<1> HIDE DEF PlanSteps
<1>3. Range(<<Own(step)>>) = {Own(step)}
  BY DEF Range
<1>4. QED
  BY <1>1, <1>2, <1>3

(* The plan of a call holds every child of the definition, and no other    *)
(* edge: both factories go through both lists.                             *)
LEMMA PlanFacts ==
  ASSUME DefinitionOK, NEW name \in Names
  PROVE  /\ Plan(name) \in Seq(PlanSteps)
         /\ ChildEdges(name) \subseteq Range(Plan(name))
         /\ \A e \in Range(Plan(name)) : e \in OwnSteps \/ e \in ChildEdges(name)
<1> DEFINE S == SubAgents(name)
           A == AgentTools(name)
           i == <<Own("instruction")>>
           m == <<Own("model")>>
           t == <<Own("tools")>>
           c == <<Own("config")>>
<1>1. S \in Seq(PlanSteps) /\ A \in Seq(PlanSteps)
  <2>1. S \in Seq(TreeEdges) /\ A \in Seq(TreeEdges) /\ TreeEdges \subseteq PlanSteps
    BY ChildFacts DEF PlanSteps
  <2> HIDE DEF S, A
  <2>2. QED
    BY <2>1, SeqMonotonic
<1>2. /\ i \in Seq(PlanSteps) /\ m \in Seq(PlanSteps) /\ t \in Seq(PlanSteps) /\ c \in Seq(PlanSteps)
      /\ Range(i) \subseteq OwnSteps /\ Range(m) \subseteq OwnSteps
      /\ Range(t) \subseteq OwnSteps /\ Range(c) \subseteq OwnSteps
  BY OwnIsAStep
<1>3. ChildEdges(name) = Range(S) \cup Range(A)
  BY DEF ChildEdges
<1>4. \A p, q \in Seq(PlanSteps) : p \o q \in Seq(PlanSteps) /\ Range(p \o q) = Range(p) \cup Range(q)
  BY ConcatProperties, RangeConcatenation
<1>5. DslPlan(name) = (<<Own("instruction"), Own("model"), Own("tools")>> \o S) \o A
  BY DEF DslPlan
<1>6. <<Own("instruction"), Own("model"), Own("tools")>> = (i \o m) \o t
  OBVIOUS
<1>7. YamlPlan(name) = (((m \o A) \o t) \o S) \o c
  BY DEF YamlPlan
<1> HIDE DEF S, A, i, m, t, c
<1>8. /\ DslPlan(name) \in Seq(PlanSteps)
      /\ Range(DslPlan(name)) = ((Range(i) \cup Range(m)) \cup Range(t)) \cup Range(S) \cup Range(A)
  <2>1. i \o m \in Seq(PlanSteps) /\ Range(i \o m) = Range(i) \cup Range(m)
    BY <1>2, <1>4
  <2>2. (i \o m) \o t \in Seq(PlanSteps) /\ Range((i \o m) \o t) = Range(i \o m) \cup Range(t)
    BY <1>2, <1>4, <2>1
  <2>3. ((i \o m) \o t) \o S \in Seq(PlanSteps)
        /\ Range(((i \o m) \o t) \o S) = Range((i \o m) \o t) \cup Range(S)
    BY <1>1, <1>4, <2>2
  <2>4. (((i \o m) \o t) \o S) \o A \in Seq(PlanSteps)
        /\ Range((((i \o m) \o t) \o S) \o A) = Range(((i \o m) \o t) \o S) \cup Range(A)
    BY <1>1, <1>4, <2>3
  <2>5. QED
    BY <1>5, <1>6, <2>1, <2>2, <2>3, <2>4
<1>9. /\ YamlPlan(name) \in Seq(PlanSteps)
      /\ Range(YamlPlan(name)) = ((Range(m) \cup Range(A)) \cup Range(t)) \cup Range(S) \cup Range(c)
  <2>1. m \o A \in Seq(PlanSteps) /\ Range(m \o A) = Range(m) \cup Range(A)
    BY <1>1, <1>2, <1>4
  <2>2. (m \o A) \o t \in Seq(PlanSteps) /\ Range((m \o A) \o t) = Range(m \o A) \cup Range(t)
    BY <1>2, <1>4, <2>1
  <2>3. ((m \o A) \o t) \o S \in Seq(PlanSteps)
        /\ Range(((m \o A) \o t) \o S) = Range((m \o A) \o t) \cup Range(S)
    BY <1>1, <1>4, <2>2
  <2>4. (((m \o A) \o t) \o S) \o c \in Seq(PlanSteps)
        /\ Range((((m \o A) \o t) \o S) \o c) = Range(((m \o A) \o t) \o S) \cup Range(c)
    BY <1>2, <1>4, <2>3
  <2>5. QED
    BY <1>7, <2>1, <2>2, <2>3, <2>4
<1>10. CASE definition.format = "dsl"
  BY <1>2, <1>3, <1>8, <1>10 DEF Plan
<1>11. CASE definition.format # "dsl"
  BY <1>2, <1>3, <1>9, <1>11 DEF Plan
<1>12. QED
  BY <1>10, <1>11

(* A path and one edge more.                                               *)
LEMMA LongerPath ==
  ASSUME NEW p \in Paths, NEW e \in TreeEdges
  PROVE  /\ Append(p, e) \in Paths /\ Len(Append(p, e)) = Len(p) + 1 /\ Len(p) \in Nat \ {0}
         /\ Last(Append(p, e)) = e /\ Append(p, e)[Len(p) + 1] = e
         /\ Name(p) \in Names /\ Last(p) \in TreeEdges
         /\ \A i \in 1..Len(p) : Append(p, e)[i] = p[i] /\ p[i] \in TreeEdges
<1>1. p \in Seq(TreeEdges) /\ Len(p) \in Nat \ {0}
  BY EmptySeq DEF Paths
<1>2. /\ Append(p, e) \in Seq(TreeEdges) /\ Append(p, e) # << >> /\ Len(Append(p, e)) = Len(p) + 1
      /\ Append(p, e)[Len(p) + 1] = e /\ \A i \in 1..Len(p) : Append(p, e)[i] = p[i]
  BY <1>1, AppendProperties
<1>3. Len(p) \in 1..Len(p) /\ \A i \in 1..Len(p) : p[i] \in TreeEdges
  BY <1>1, ElementOfSeq
<1>4. Name(p) \in Names
  BY <1>3 DEF Name, Last, TreeEdges
<1>5. QED
  BY <1>1, <1>2, <1>3, <1>4 DEF Paths, Last

Allowed(p) == \A i \in 2..Len(p) : Follows(p, i)

(* Whether a path may go on as it does depends on what is above.           *)
LEMMA FollowsAlike ==
  ASSUME NEW p, NEW q, NEW n \in Nat \ {0}, \A i \in 1..n : p[i] = q[i]
  PROVE  \A i \in 2..n : Follows(p, i) <=> Follows(q, i)
<1> SUFFICES ASSUME NEW i \in 2..n PROVE Follows(p, i) <=> Follows(q, i)
  OBVIOUS
<1>1. p[i] = q[i] /\ p[i - 1] = q[i - 1]
  BY i \in 1..n, i - 1 \in 1..n
<1>2. \A k \in 1..(i - 1) : p[k] = q[k]
  BY \A k \in 1..(i - 1) : k \in 1..n
<1>3. {k \in 1..(i - 1) : p[k].name = p[i].name} = {k \in 1..(i - 1) : q[k].name = q[i].name}
  BY <1>1, <1>2
<1>4. Above(p, i) = Above(q, i)
  BY <1>3 DEF Above
<1>5. QED
  BY <1>1, <1>4 DEF Follows

(* A path that goes on as it may is an allowed path.                       *)
LEMMA AllowedGrows ==
  ASSUME NEW p \in Paths, NEW e \in TreeEdges, Allowed(p), Follows(Append(p, e), Len(p) + 1)
  PROVE  Allowed(Append(p, e))
<1>1. Len(p) \in Nat \ {0} /\ Len(Append(p, e)) = Len(p) + 1
      /\ \A i \in 1..Len(p) : Append(p, e)[i] = p[i]
  BY LongerPath
<1>2. \A i \in 2..Len(p) : Follows(Append(p, e), i) <=> Follows(p, i)
  BY <1>1, FollowsAlike
<1>3. \A i \in 2..(Len(p) + 1) : i \in 2..Len(p) \/ i = Len(p) + 1
  BY <1>1
<1>4. QED
  BY <1>1, <1>2, <1>3 DEF Allowed

-----------------------------------------------------------------------------

Calls == [path : Paths, todo : Seq(PlanSteps)]

(* An edge that the k-th of the calls has yet to answer for.               *)
Promised(cs, k, e) ==
  e \in Range(cs[k].todo) \/ (k < Len(cs) /\ cs[k + 1].path = Append(cs[k].path, e))

CallIsFaithful(cs, k) ==
  /\ Len(cs[k].path) = k /\ Allowed(cs[k].path)
  /\ \A j \in 1..k : cs[k].path[j] = Last(cs[j].path)
  /\ \A e \in Range(cs[k].todo) : e \in OwnSteps \/ e \in Children(cs[k].path)
  /\ \A e \in Children(cs[k].path) :
       Follows(Append(cs[k].path, e), k + 1) =>
         Append(cs[k].path, e) \in built \/ Promised(cs, k, e)

CallsAreFaithful ==
  phase = "creating" =>
    calls \in Seq(Calls) /\ \A k \in 1..Len(calls) : CallIsFaithful(calls, k)

Whole(p) == \A e \in Children(p) : Follows(Append(p, e), Len(p) + 1) => Append(p, e) \in built

BuiltIsWhole == \A p \in built : p \in Paths /\ Allowed(p) /\ Whole(p)

RunsAreNamed == block \in Seq(Names) /\ created \in Seq(built) /\ runs \in Nat

TreeInv == CallsAreFaithful /\ BuiltIsWhole /\ RunsAreNamed

(* Where a path may go depends on the definition alone.                    *)
LEMMA SameDefinition ==
  ASSUME definition' = definition
  PROVE  /\ \A p, i : Follows(p, i)' <=> Follows(p, i)
         /\ \A p : Children(p)' = Children(p)
         /\ \A p : Allowed(p)' <=> Allowed(p)
         /\ \A n : Plan(n)' = Plan(n)
<1>1. /\ \A n : SubAgents(n)' = SubAgents(n) /\ AgentTools(n)' = AgentTools(n)
  BY DEF SubAgents, AgentTools, Edges
<1>2. \A p, i : Follows(p, i)' <=> Follows(p, i)
  BY <1>1 DEF Follows, Above
<1>3. \A p : Children(p)' = Children(p)
  BY <1>1 DEF Children, ChildEdges
<1>4. \A n : Plan(n)' = Plan(n)
  BY <1>1 DEF Plan, DslPlan, YamlPlan
<1>5. QED
  BY <1>2, <1>3, <1>4 DEF Allowed

(* Nothing is asked of the trees when none is being built.                 *)
LEMMA TreesRest ==
  ASSUME TreeInv, definition' = definition, built' = built, block' \in {block, << >>},
         created' \in {created, << >>}, runs' \in {runs, 0},
         phase' # "creating" \/ (phase' = phase /\ calls' = calls)
  PROVE  TreeInv'
<1>1. BuiltIsWhole'
  BY SameDefinition DEF TreeInv, BuiltIsWhole, Whole
<1>2. RunsAreNamed'
  <2>1. block \in Seq(Names) /\ created \in Seq(built) /\ runs \in Nat
    BY DEF TreeInv, RunsAreNamed
  <2>2. << >> \in Seq(Names) /\ << >> \in Seq(built)
    BY EmptySeq
  <2>3. block' \in Seq(Names) /\ created' \in Seq(built') /\ runs' \in Nat
    <3>1. block' \in Seq(Names)
      <4>1. CASE block' = block
        BY <2>1, <4>1
      <4>2. CASE block' = << >>
        BY <2>2, <4>2
      <4>3. QED
        BY <4>1, <4>2
    <3>2. created' \in Seq(built)
      <4>1. CASE created' = created
        BY <2>1, <4>1
      <4>2. CASE created' = << >>
        BY <2>2, <4>2
      <4>3. QED
        BY <4>1, <4>2
    <3>3. QED
      BY <2>1, <3>1, <3>2
  <2>4. QED
    BY <2>3 DEF RunsAreNamed
<1>3. CallsAreFaithful'
  <2>1. CASE phase' # "creating"
    BY <2>1 DEF CallsAreFaithful
  <2>2. CASE phase' = "creating"
    <3>1. /\ phase = "creating" /\ calls' = calls
          /\ calls \in Seq(Calls) /\ \A k \in 1..Len(calls) : CallIsFaithful(calls, k)
      BY <2>2 DEF TreeInv, CallsAreFaithful
    <3>2. ASSUME NEW k \in 1..Len(calls) PROVE CallIsFaithful(calls, k)'
      <4>1. CallIsFaithful(calls, k)
        BY <3>1
      <4>2. QED
        BY <3>1, <4>1, SameDefinition DEF CallIsFaithful, Promised
    <3>3. QED
      BY <3>1, <3>2 DEF CallsAreFaithful
  <2>3. QED
    BY <2>1, <2>2
<1>4. QED
  BY <1>1, <1>2, <1>3 DEF TreeInv

(* The call on top, and the calls after it has done a step.                *)
LEMMA TopFacts ==
  ASSUME StackInv, TreeInv, phase = "creating"
  PROVE  /\ calls \in Seq(Calls) /\ Len(calls) \in Nat \ {0}
         /\ Top = calls[Len(calls)] /\ Path = calls[Len(calls)].path
         /\ Path \in Paths /\ Len(Path) = Len(calls) /\ Top.todo \in Seq(PlanSteps)
         /\ \A k \in 1..Len(calls) : CallIsFaithful(calls, k) /\ calls[k] \in Calls
<1>1. calls \in Seq(Calls) /\ calls # << >> /\ \A k \in 1..Len(calls) : CallIsFaithful(calls, k)
  BY DEF TreeInv, CallsAreFaithful, StackInv, CallsFollowThePhase, InProgress
<1>2. Len(calls) \in Nat \ {0} /\ Len(calls) \in 1..Len(calls)
  BY <1>1, EmptySeq
<1>3. \A k \in 1..Len(calls) : calls[k] \in Calls
  BY <1>1, ElementOfSeq
<1>4. Top = calls[Len(calls)] /\ Path = calls[Len(calls)].path
  BY DEF Top, Path, Last
<1>5. Path \in Paths /\ Top.todo \in Seq(PlanSteps)
  BY <1>2, <1>3, <1>4 DEF Calls
<1>6. Len(Path) = Len(calls)
  BY <1>1, <1>2, <1>4 DEF CallIsFaithful
<1>7. QED
  BY <1>1, <1>2, <1>3, <1>4, <1>5, <1>6

(* Doing a step takes it from the list of the call on top, and changes no  *)
(* other call.                                                             *)
LEMMA DoneFacts ==
  ASSUME StackInv, TreeInv, phase = "creating", Top.todo # << >>
  PROVE  /\ Done \in Seq(Calls) /\ Len(Done) = Len(calls)
         /\ \A k \in 1..Len(calls) : k # Len(calls) => Done[k] = calls[k]
         /\ Done[Len(calls)].path = Path /\ Done[Len(calls)].todo = Tail(Top.todo)
         /\ Head(Top.todo) \in PlanSteps
         /\ Range(Top.todo) = {Head(Top.todo)} \cup Range(Tail(Top.todo))
<1>1. /\ calls \in Seq(Calls) /\ Len(calls) \in Nat \ {0}
      /\ Top = calls[Len(calls)] /\ Path = calls[Len(calls)].path
      /\ Path \in Paths /\ Top.todo \in Seq(PlanSteps) /\ Top \in Calls
  BY TopFacts
<1>2. Head(Top.todo) \in PlanSteps /\ Tail(Top.todo) \in Seq(PlanSteps)
      /\ Range(Top.todo) = {Head(Top.todo)} \cup Range(Tail(Top.todo))
  BY <1>1, RangeOfTail
<1> DEFINE less == [Top EXCEPT !.todo = Tail(@)]
<1>3. less \in Calls /\ less.path = Path /\ less.todo = Tail(Top.todo)
  BY <1>1, <1>2 DEF Calls
<1>4. Done = [calls EXCEPT ![Len(calls)] = less]
  BY <1>1 DEF Done
<1> HIDE DEF less
<1>5. /\ Done \in Seq(Calls) /\ Len(Done) = Len(calls)
      /\ \A k \in 1..Len(calls) : Done[k] = IF k = Len(calls) THEN less ELSE calls[k]
  BY <1>1, <1>3, <1>4, ExceptSeq
<1>6. Done[Len(calls)] = less
  BY <1>1, <1>5
<1>7. QED
  BY <1>2, <1>3, <1>5, <1>6

(* Every call but the one on top is as faithful as before; that one still  *)
(* has to answer for the step it has done.                                 *)
LEMMA DoneIsFaithful ==
  ASSUME StackInv, TreeInv, phase = "creating", Top.todo # << >>
  PROVE  /\ \A k \in 1..Len(calls) : k # Len(calls) => CallIsFaithful(Done, k)
         /\ LET n == Len(calls)
            IN  /\ Len(Path) = n /\ Allowed(Path)
                /\ \A j \in 1..n : Path[j] = Last(Done[j].path)
                /\ \A e \in Range(Done[n].todo) : e \in OwnSteps \/ e \in Children(Path)
                /\ \A e \in Children(Path) : e # Head(Top.todo) /\ Follows(Append(Path, e), n + 1) =>
                     Append(Path, e) \in built \/ e \in Range(Done[n].todo)
<1> DEFINE n == Len(calls)
<1>1. /\ n \in Nat \ {0} /\ Len(Done) = n /\ n \in 1..n
      /\ \A k \in 1..n : CallIsFaithful(calls, k)
      /\ Path = calls[n].path /\ Top = calls[n]
  BY TopFacts, DoneFacts
<1>2. /\ \A k \in 1..n : k # n => Done[k] = calls[k]
      /\ Done[n].path = Path /\ Done[n].todo = Tail(Top.todo)
      /\ Range(Top.todo) = {Head(Top.todo)} \cup Range(Tail(Top.todo))
  BY DoneFacts
<1> HIDE DEF n
<1>3. \A k \in 1..n : Done[k].path = calls[k].path
  BY <1>1, <1>2
<1>4. ASSUME NEW k \in 1..n, k # n PROVE CallIsFaithful(Done, k)
  <2>1. k + 1 \in 1..n /\ \A j \in 1..k : j \in 1..n
    BY <1>1, <1>4
  <2>2. Done[k] = calls[k] /\ Done[k + 1].path = calls[k + 1].path
        /\ \A j \in 1..k : Done[j].path = calls[j].path
    BY <1>2, <1>3, <1>4, <2>1
  <2>3. CallIsFaithful(calls, k)
    BY <1>1
  <2>4. \A e : Promised(calls, k, e) => Promised(Done, k, e)
    BY <1>1, <2>2 DEF Promised, n
  <2>5. QED
    BY <2>2, <2>3, <2>4 DEF CallIsFaithful
<1>5. CallIsFaithful(calls, n)
  BY <1>1
<1>6. /\ Len(Path) = n /\ Allowed(Path) /\ \A j \in 1..n : Path[j] = Last(Done[j].path)
  BY <1>1, <1>3, <1>5 DEF CallIsFaithful
<1>7. \A e \in Range(Done[n].todo) : e \in OwnSteps \/ e \in Children(Path)
  BY <1>1, <1>2, <1>5 DEF CallIsFaithful
<1>8. \A e \in Children(Path) : Follows(Append(Path, e), n + 1) =>
         Append(Path, e) \in built \/ e \in Range(Top.todo)
  BY <1>1, <1>5 DEF CallIsFaithful, Promised, n
<1>9. QED
  BY <1>2, <1>4, <1>6, <1>7, <1>8 DEF n

(* A step that is no child, or one whose nesting or name forbids a call,   *)
(* leaves nothing to answer for.                                           *)
LEMMA DoneStep ==
  ASSUME StackInv, TreeInv, phase = "creating", phase' = phase, Top.todo # << >>, calls' = Done,
         UNCHANGED <<definition, built, block, created, runs>>,
         Head(Top.todo) \in Children(Path) =>
           ~Follows(Append(Path, Head(Top.todo)), Len(calls) + 1)
  PROVE  TreeInv'
<1> DEFINE n == Len(calls)
<1>1. n \in Nat \ {0} /\ Len(Done) = n /\ Done \in Seq(Calls) /\ Done[n].path = Path
  BY TopFacts, DoneFacts
<1>2. CallIsFaithful(Done, n)
  BY <1>1, DoneIsFaithful DEF CallIsFaithful, Promised
<1>3. \A k \in 1..Len(Done) : CallIsFaithful(Done, k)
  BY <1>1, <1>2, DoneIsFaithful
<1>4. CallsAreFaithful'
  <2>1. Len(calls') = n /\ calls' \in Seq(Calls)
    BY <1>1
  <2>2. ASSUME NEW k \in 1..n PROVE CallIsFaithful(calls, k)'
    <3>1. CallIsFaithful(Done, k)
      BY <1>1, <1>3
    <3>2. QED
      BY <3>1, SameDefinition DEF CallIsFaithful, Promised
  <2>3. QED
    BY <2>1, <2>2 DEF CallsAreFaithful
<1>5. BuiltIsWhole' /\ RunsAreNamed'
  BY SameDefinition DEF TreeInv, BuiltIsWhole, Whole, RunsAreNamed
<1>6. QED
  BY <1>4, <1>5 DEF TreeInv

(* A nested call answers for its edge.                                     *)
LEMMA NestedStep ==
  ASSUME DefinitionOK, StackInv, TreeInv, phase = "creating", phase' = phase, Top.todo # << >>,
         NestedCall, UNCHANGED <<definition, built, block, created, runs>>,
         Head(Top.todo) \in Children(Path),
         Follows(Append(Path, Head(Top.todo)), Len(calls) + 1)
  PROVE  TreeInv'
<1> DEFINE n == Len(calls)
           e0 == Head(Top.todo)
           path == Append(Path, e0)
           call == Call(path)
           next == Append(Done, call)
<1>1. /\ n \in Nat \ {0} /\ Len(Done) = n /\ Done \in Seq(Calls) /\ Done[n].path = Path
      /\ Path \in Paths /\ Len(Path) = n
  BY TopFacts, DoneFacts
<1>2. e0 \in TreeEdges
  <2>1. Name(Path) \in Names
    <3>1. Last(Path) \in TreeEdges
      BY <1>1, EmptySeq, ElementOfSeq DEF Paths, Last
    <3>2. QED
      BY <3>1 DEF Name, TreeEdges
  <2>2. \A e \in Children(Path) : e \in TreeEdges
    BY <2>1, ChildFacts DEF Children, ChildEdges
  <2>3. QED
    BY <2>2
<1>3. /\ path \in Paths /\ Len(path) = n + 1 /\ Last(path) = e0 /\ path[n + 1] = e0
      /\ \A i \in 1..n : path[i] = Path[i]
  <2> HIDE DEF e0, n
  <2>1. /\ Append(Path, e0) \in Paths /\ Len(Append(Path, e0)) = Len(Path) + 1
        /\ Last(Append(Path, e0)) = e0 /\ Append(Path, e0)[Len(Path) + 1] = e0
        /\ \A i \in 1..Len(Path) : Append(Path, e0)[i] = Path[i]
    BY <1>1, <1>2, LongerPath, SMTT(40)
  <2> QED
    BY <1>1, <2>1
<1>4. Name(path) \in Names
  BY <1>2, <1>3 DEF Name, TreeEdges
<1>5. /\ call.path = path /\ call.todo = Plan(Name(path)) /\ call \in Calls
  BY <1>3, <1>4, PlanFacts DEF Call, Calls
<1>6. calls' = next
  BY DEF NestedCall
<1>7. Allowed(path)
  BY <1>1, <1>2, DoneIsFaithful, AllowedGrows
<1> HIDE DEF path, call, e0
<1>8. /\ next \in Seq(Calls) /\ Len(next) = n + 1 /\ next[n + 1] = call
      /\ \A k \in 1..n : next[k] = Done[k]
  BY <1>1, <1>5, AppendProperties
<1> HIDE DEF next
<1>9. ASSUME NEW k \in 1..(n + 1) PROVE CallIsFaithful(next, k)
  <2>1. CASE k < n
    <3>1. k \in 1..n /\ k + 1 \in 1..n /\ k # n /\ k < Len(next) /\ k < Len(Done)
          /\ \A j \in 1..k : j \in 1..n
      BY <1>1, <1>8, <2>1
    <3>2. next[k] = Done[k] /\ next[k + 1] = Done[k + 1] /\ \A j \in 1..k : next[j] = Done[j]
      BY <1>8, <3>1
    <3>3. CallIsFaithful(Done, k)
      BY <3>1, DoneIsFaithful
    <3>4. QED
      BY <3>1, <3>2, <3>3 DEF CallIsFaithful, Promised
  <2>2. CASE k = n
    <3>1. next[n] = Done[n] /\ next[n].path = Path /\ next[n + 1].path = path /\ n < Len(next)
          /\ \A j \in 1..n : next[j] = Done[j]
      BY <1>1, <1>5, <1>8
    <3>2. \A e : e = e0 \/ e \in Range(Done[n].todo) => Promised(next, n, e)
      BY <3>1 DEF Promised, path
    <3>3. \A e \in Children(Path) : e # e0 /\ Follows(Append(Path, e), n + 1) =>
                     Append(Path, e) \in built \/ e \in Range(Done[n].todo)
      BY DoneIsFaithful DEF e0
    <3>4. /\ Len(Path) = n /\ Allowed(Path) /\ \A j \in 1..n : Path[j] = Last(Done[j].path)
          /\ \A e \in Range(Done[n].todo) : e \in OwnSteps \/ e \in Children(Path)
      BY DoneIsFaithful
    <3>5. QED
      BY <2>2, <3>1, <3>2, <3>3, <3>4 DEF CallIsFaithful
  <2>3. CASE k = n + 1
    <3>1. next[k] = call /\ next[k].path = path /\ next[k].todo = Plan(Name(path))
      BY <1>5, <1>8, <2>3
    <3>2. ASSUME NEW j \in 1..k PROVE path[j] = Last(next[j].path)
      <4>1. CASE j = n + 1
        BY <1>3, <1>5, <1>8, <4>1
      <4>2. CASE j # n + 1
        <5>1. j \in 1..n
          BY <1>1, <2>3, <4>2
        <5>2. QED
          BY <1>3, <1>8, <5>1, DoneIsFaithful
      <4>3. QED
        BY <4>1, <4>2
    <3>3. /\ \A e \in Range(next[k].todo) : e \in OwnSteps \/ e \in Children(path)
          /\ \A e \in Children(path) : Promised(next, k, e)
      BY <1>4, <3>1, PlanFacts DEF Children, Promised
    <3>4. QED
      BY <1>3, <1>7, <2>3, <3>1, <3>2, <3>3 DEF CallIsFaithful
  <2>4. QED
    BY <1>1, <2>1, <2>2, <2>3
<1>10. CallsAreFaithful'
  <2>1. Len(calls') = n + 1 /\ calls' \in Seq(Calls)
    BY <1>6, <1>8
  <2>2. ASSUME NEW k \in 1..(n + 1) PROVE CallIsFaithful(calls, k)'
    <3>1. CallIsFaithful(next, k)
      BY <1>9
    <3>2. QED
      BY <1>6, <3>1, SameDefinition DEF CallIsFaithful, Promised
  <2>3. QED
    BY <2>1, <2>2 DEF CallsAreFaithful
<1>11. BuiltIsWhole' /\ RunsAreNamed'
  BY SameDefinition DEF TreeInv, BuiltIsWhole, Whole, RunsAreNamed
<1>12. QED
  BY <1>10, <1>11 DEF TreeInv

(* The call for a run has everything to do.                                *)
LEMMA RootCall ==
  ASSUME DefinitionOK, runs \in Nat, NEW name \in Names
  PROVE  /\ <<Call(Root(name))>> \in Seq(Calls) /\ Len(<<Call(Root(name))>>) = 1
         /\ CallIsFaithful(<<Call(Root(name))>>, 1)
         /\ \A e \in Children(Root(name)) : Promised(<<Call(Root(name))>>, 1, e)
<1> DEFINE root == Root(name)
           call == Call(root)
           cs == <<call>>
           e == Edge("run", runs + 1, name)
<1>1. e \in TreeEdges
  BY DEF Edge, TreeEdges
<1>2. root = <<e>> /\ root \in Paths /\ Len(root) = 1 /\ root[1] = e /\ Last(root) = e /\ Name(root) = name
  <2>1. e.name = name
    BY DEF Edge
  <2>2. root = <<e>>
    BY DEF Root
  <2> HIDE DEF e, root
  <2>3. QED
    BY <1>1, <2>1, <2>2 DEF Paths, Last, Name
<1>3. call.path = root /\ call.todo = Plan(name) /\ call \in Calls
  BY <1>2, PlanFacts DEF Call, Calls
<1> HIDE DEF e, root, call
<1>4. cs \in Seq(Calls) /\ Len(cs) = 1 /\ cs[1] = call
  BY <1>3
<1> HIDE DEF cs
<1>5. \A x \in Children(root) : Promised(cs, 1, x)
  BY <1>2, <1>3, <1>4, PlanFacts DEF Promised, Children
<1>6. \A x \in Range(cs[1].todo) : x \in OwnSteps \/ x \in Children(root)
  BY <1>2, <1>3, <1>4, PlanFacts DEF Children
<1>7. Allowed(root)
  BY <1>2 DEF Allowed
<1>8. \A j \in 1..1 : root[j] = Last(cs[j].path)
  BY <1>2, <1>3, <1>4
<1>9. CallIsFaithful(cs, 1)
  BY <1>2, <1>3, <1>4, <1>5, <1>6, <1>7, <1>8 DEF CallIsFaithful
<1>10. QED
  BY <1>4, <1>5, <1>9 DEF cs, call, root

(* A run starts with a call for the root alone.                            *)
LEMMA RootStep ==
  ASSUME DefinitionOK, runs \in Nat, NEW name \in Names, calls' = <<Call(Root(name))>>,
         definition' = definition
  PROVE  CallsAreFaithful'
<1> DEFINE cs == <<Call(Root(name))>>
<1>1. /\ cs \in Seq(Calls) /\ Len(cs) = 1 /\ CallIsFaithful(cs, 1)
      /\ \A e \in Children(cs[1].path) : Promised(cs, 1, e)
  <2>1. cs[1].path = Root(name)
    BY DEF Call
  <2>2. QED
    BY <2>1, RootCall
<1> HIDE DEF cs
<1>2. calls' = cs
  BY DEF cs
<1>3. CallIsFaithful(calls, 1)'
  BY <1>1, <1>2, SameDefinition DEF CallIsFaithful, Promised
<1>4. \A k \in 1..1 : k = 1
  OBVIOUS
<1>5. QED
  BY <1>1, <1>2, <1>3, <1>4 DEF CallsAreFaithful

(* A call returns: its agent is there, and whole.                          *)
LEMMA ReturnStep ==
  ASSUME DefinitionOK, StackInv, TreeInv, Return
  PROVE  TreeInv'
<1> DEFINE n == Len(calls)
<1>0. phase = "creating" /\ Top.todo = << >>
  BY DEF Return
<1>1. /\ n \in Nat \ {0} /\ calls \in Seq(Calls) /\ Path = calls[n].path /\ Top = calls[n]
      /\ Path \in Paths /\ Len(Path) = n
      /\ \A k \in 1..n : CallIsFaithful(calls, k) /\ calls[k] \in Calls
  BY <1>0, TopFacts
<1>2. /\ built' = built \cup {Path} /\ definition' = definition
      /\ created' \in {created, Append(created, Path)}
  BY DEF Return
<1>3. Allowed(Path) /\ \A e \in Children(Path) : Follows(Append(Path, e), n + 1) => Append(Path, e) \in built
  <2>1. CallIsFaithful(calls, n)
    BY <1>1
  <2>2. \A e : ~Promised(calls, n, e)
    BY <1>0, <1>1 DEF Promised, Range
  <2>3. QED
    BY <1>1, <2>1, <2>2 DEF CallIsFaithful
<1>4. BuiltIsWhole'
  BY <1>1, <1>2, <1>3, SameDefinition DEF TreeInv, BuiltIsWhole, Whole
<1>5. created' \in Seq(built')
  <2>1. created \in Seq(built')
    BY <1>2, SeqMonotonic DEF TreeInv, RunsAreNamed
  <2>2. Path \in built'
    BY <1>2
  <2>3. Append(created, Path) \in Seq(built')
    BY <2>1, <2>2, AppendProperties
  <2>4. QED
    BY <1>2, <2>1, <2>3
<1>6. block \in Seq(Names) /\ runs \in Nat
  BY DEF TreeInv, RunsAreNamed
<1>7. CASE n = 1 /\ block # << >>
  <2>1. /\ calls' = <<Call(Root(Head(block)))>> /\ block' = Tail(block) /\ runs' = runs + 1
    BY <1>7 DEF Return
  <2>2. Head(block) \in Names /\ Tail(block) \in Seq(Names)
    BY <1>6, <1>7, HeadTailProperties
  <2>3. CallsAreFaithful'
    BY <1>2, <1>6, <2>1, <2>2, RootStep
  <2>4. QED
    BY <1>4, <1>5, <1>6, <2>1, <2>2, <2>3 DEF TreeInv, RunsAreNamed
<1>8. CASE ~(n = 1 /\ block # << >>)
  <2>1. /\ calls' = Front(calls) /\ block' = block /\ runs' = runs
        /\ phase' = IF n = 1 THEN "open" ELSE phase
    BY <1>8 DEF Return
  <2>2. RunsAreNamed'
    BY <1>5, <1>6, <2>1 DEF RunsAreNamed
  <2>3. CASE n = 1
    BY <1>4, <2>1, <2>2, <2>3 DEF TreeInv, CallsAreFaithful
  <2>4. CASE n # 1
    <3> DEFINE fewer == Front(calls)
    <3>1. n - 1 \in Nat \ {0} /\ \A k \in 1..(n - 1) : k \in 1..n /\ k + 1 \in 1..n
      BY <1>1, <2>4
    <3>2. fewer \in Seq(Calls) /\ Len(fewer) = n - 1 /\ \A k \in 1..(n - 1) : fewer[k] = calls[k]
      <4>1. \A k \in 1..(n - 1) : calls[k] \in Calls
        BY <1>1, <3>1
      <4> DEFINE m == n - 1
      <4>2. 1 \in Int /\ m \in Int /\ 1 <= m /\ m - 1 + 1 = m /\ \A k \in 1..m : 1 + k - 1 = k
        <5>1. m \in Nat \ {0}
          BY <3>1
        <5> HIDE DEF m
        <5>2. QED
          BY <5>1
      <4>3. fewer = SubSeq(calls, 1, m)
        BY DEF Front
      <4>4. \A k \in 1..m : calls[k] \in Calls
        BY <4>1
      <4> HIDE DEF m, fewer
      <4>5. fewer \in Seq(Calls) /\ Len(fewer) = m - 1 + 1 /\ \A k \in 1..(m - 1 + 1) : fewer[k] = calls[1 + k - 1]
        BY <4>2, <4>3, <4>4, SubSeqProperties
      <4>6. fewer \in Seq(Calls) /\ Len(fewer) = m /\ \A k \in 1..m : fewer[k] = calls[k]
        BY <4>2, <4>5
      <4>7. QED
        BY <4>6 DEF m
    <3> HIDE DEF fewer
    <3>3. ASSUME NEW k \in 1..(n - 1), NEW e, Promised(calls, k, e)
          PROVE  Append(calls[k].path, e) \in built' \/ Promised(fewer, k, e)
      <4>1. CASE e \in Range(calls[k].todo)
        BY <3>2, <4>1 DEF Promised
      <4>2. CASE k < n /\ calls[k + 1].path = Append(calls[k].path, e) /\ k = n - 1
        <5>1. k + 1 = n
          BY <1>1, <4>2
        <5>2. QED
          BY <1>1, <1>2, <4>2, <5>1
      <4>3. CASE k < n /\ calls[k + 1].path = Append(calls[k].path, e) /\ k # n - 1
        <5>1. k + 1 \in 1..(n - 1) /\ k < n - 1
          BY <1>1, <4>3
        <5>2. fewer[k + 1] = calls[k + 1] /\ fewer[k] = calls[k] /\ k < Len(fewer)
          BY <3>2, <5>1
        <5>3. QED
          BY <4>3, <5>2 DEF Promised
      <4>4. QED
        BY <3>3, <4>1, <4>2, <4>3 DEF Promised
    <3>4. ASSUME NEW k \in 1..(n - 1) PROVE CallIsFaithful(calls, k)'
      <4>1. CallIsFaithful(calls, k) /\ \A j \in 1..k : j \in 1..(n - 1)
        BY <1>1, <3>1
      <4>2. calls'[k] = calls[k] /\ \A j \in 1..k : calls'[j] = calls[j]
        BY <2>1, <3>2, <4>1 DEF fewer
      <4>3. \A e : Promised(calls, k, e) => Append(calls[k].path, e) \in built' \/ Promised(calls, k, e)'
        BY <2>1, <3>3 DEF fewer, Promised
      <4>4. built \subseteq built'
        BY <1>2
      <4>5. QED
        BY <1>2, <4>1, <4>2, <4>3, <4>4, SameDefinition DEF CallIsFaithful
    <3>5. CallsAreFaithful'
      BY <2>1, <3>2, <3>4 DEF CallsAreFaithful, fewer
    <3>6. QED
      BY <1>4, <2>2, <3>5 DEF TreeInv
  <2>5. QED
    BY <2>3, <2>4
<1>9. QED
  BY <1>7, <1>8

(* A run begins.                                                           *)
LEMMA RunStep ==
  ASSUME DefinitionOK, StackInv, TreeInv, NEW agents \in Seq(definition.agents), agents # << >>,
         NEW isBlock, Run(agents, isBlock)
  PROVE  TreeInv'
<1>1. phase = "open" /\ UNCHANGED <<definition, built, created>> /\ runs' = runs + 1
      /\ block' = Tail(agents) /\ StartCall(Root(Head(agents)))
  BY DEF Run
<1>2. calls = << >>
  BY <1>1 DEF StackInv, CallsFollowThePhase, InProgress
<1>3. definition.agents \subseteq Names /\ runs \in Nat /\ created \in Seq(built)
  BY DEF DefinitionOK, Definition, TreeInv, RunsAreNamed
<1>4. Head(agents) \in Names /\ Tail(agents) \in Seq(Names)
  <2>1. agents \in Seq(Names)
    BY <1>3, SeqMonotonic
  <2>2. QED
    BY <2>1, HeadTailProperties
<1>5. calls' = <<Call(Root(Head(agents)))>>
  BY <1>1, <1>2 DEF StartCall
<1>6. CallsAreFaithful'
  BY <1>1, <1>3, <1>4, <1>5, RootStep
<1>7. BuiltIsWhole'
  BY <1>1, SameDefinition DEF TreeInv, BuiltIsWhole, Whole
<1>8. QED
  BY <1>1, <1>3, <1>4, <1>6, <1>7 DEF TreeInv, RunsAreNamed

(* The next step of the call on top: of its own, or an edge of its agent.  *)
LEMMA HeadFacts ==
  ASSUME DefinitionOK, StackInv, TreeInv, phase = "creating", Top.todo # << >>
  PROVE  LET e == Head(Top.todo)
         IN  /\ Name(Path) \in Names
             /\ e \in Children(Path) <=> e.list \in {"sub_agents", "agent_tools"}
             /\ e \in Children(Path) => e \in TreeEdges
             /\ e.list = "sub_agents" => e \in Range(SubAgents(Name(Path)))
             /\ e.list = "agent_tools" => e \in Range(AgentTools(Name(Path)))
<1> DEFINE e == Head(Top.todo)
<1>1. Name(Path) \in Names
  <2>1. Path \in Paths
    BY TopFacts
  <2>2. Last(Path) \in TreeEdges
    BY <2>1, EmptySeq, ElementOfSeq DEF Paths, Last
  <2>3. QED
    BY <2>2 DEF Name, TreeEdges
<1>2. e \in OwnSteps \/ e \in Children(Path)
  <2>1. Len(calls) \in 1..Len(calls) /\ e \in Range(Top.todo) /\ Top = calls[Len(calls)]
        /\ Path = Top.path
    BY TopFacts, DoneFacts DEF Path
  <2>2. CallIsFaithful(calls, Len(calls))
    BY <2>1, TopFacts
  <2>3. QED
    BY <2>1, <2>2 DEF CallIsFaithful
<1>3. e \in OwnSteps => e.list \notin {"sub_agents", "agent_tools"}
  BY DEF OwnSteps
<1>4. /\ \A x \in Range(SubAgents(Name(Path))) : x \in TreeEdges /\ x.list = "sub_agents"
      /\ \A x \in Range(AgentTools(Name(Path))) : x \in TreeEdges /\ x.list = "agent_tools"
  BY <1>1, ChildFacts
<1> HIDE DEF e
<1>5. QED
  BY <1>1, <1>2, <1>3, <1>4 DEF Children, ChildEdges, e

(* The count on the stack is the count along the path.                     *)
LEMMA DepthIsCounted ==
  ASSUME DefinitionOK, StackInv, TreeInv, phase = "creating", NEW e \in TreeEdges
  PROVE  /\ definition.format = "dsl" => Above(Append(Path, e), Len(calls) + 1) = Count(e.name)
         /\ definition.format # "dsl" => Count(e.name) = 0
         /\ Count(e.name) \in Nat
<1> DEFINE n == Len(calls)
<1>1. /\ n \in Nat \ {0} /\ calls \in Seq(Calls) /\ Path = calls[n].path /\ Path \in Paths
      /\ Len(Path) = n /\ CallIsFaithful(calls, n)
  <2>1. n \in 1..n
    BY TopFacts
  <2>2. QED
    BY <2>1, TopFacts
<1>2. stack = IF definition.format = "dsl" THEN [i \in DOMAIN calls |-> Name(calls[i].path)] ELSE << >>
  BY DEF StackInv, StackFollowsTheCalls
<1>3. CASE definition.format = "dsl"
  <2>1. DOMAIN stack = 1..n /\ \A i \in 1..n : stack[i] = Last(calls[i].path).name
    BY <1>1, <1>2, <1>3 DEF Name
  <2>2. \A i \in 1..n : Path[i] = Last(calls[i].path)
    BY <1>1 DEF CallIsFaithful
  <2>3. \A i \in 1..n : Append(Path, e)[i] = Path[i]
    BY <1>1, LongerPath
  <2>4. Append(Path, e)[n + 1] = e
    BY <1>1, LongerPath
  <2> DEFINE A == {k \in 1..n : Append(Path, e)[k].name = e.name}
             B == {k \in 1..n : stack[k] = e.name}
  <2>5. A = B
    BY <2>1, <2>2, <2>3
  <2>6. (n + 1) - 1 = n
    BY <1>1
  <2>7. Above(Append(Path, e), n + 1) = Cardinality(A)
    BY <2>4, <2>6 DEF Above
  <2>8. Count(e.name) = Cardinality(B)
    BY <2>1 DEF Count
  <2>9. Cardinality(B) \in Nat
    <3>1. n \in Int /\ 1 \in Int
      BY <1>1
    <3>2. IsFiniteSet(1..n)
      <4> HIDE DEF n
      <4> QED BY <3>1, FS_Interval
    <3>3. B \subseteq 1..n
      OBVIOUS
    <3> HIDE DEF B
    <3>4. QED
      BY <3>2, <3>3, FS_Subset, FS_CardinalityType
  <2>10. QED
    BY <1>3, <2>5, <2>7, <2>8, <2>9
<1>4. CASE definition.format # "dsl"
  <2>1. {i \in DOMAIN stack : stack[i] = e.name} = {}
    BY <1>2, <1>4
  <2>2. Count(e.name) = 0
    BY <2>1, FS_EmptySet DEF Count
  <2>3. QED
    BY <1>4, <2>2
<1>5. QED
  BY <1>3, <1>4

(* Where an edge of the agent may be followed.                             *)
LEMMA EdgeFollows ==
  ASSUME DefinitionOK, StackInv, TreeInv, phase = "creating", Top.todo # << >>,
         Head(Top.todo) \in Children(Path)
  PROVE  LET e == Head(Top.todo)
         IN  Follows(Append(Path, e), Len(calls) + 1) <=> e.list = "sub_agents" \/ ~TooDeep(e.name)
<1> DEFINE e == Head(Top.todo)
           n == Len(calls)
<1>1. /\ n \in Nat \ {0} /\ Path \in Paths /\ Len(Path) = n /\ e \in TreeEdges
      /\ e \in Children(Path) /\ e.list \in {"sub_agents", "agent_tools"}
  BY TopFacts, HeadFacts
<1> HIDE DEF e, n
<1>2. Append(Path, e)[n + 1] = e /\ Append(Path, e)[n] = Path[n] /\ Path[n].name = Name(Path)
  BY <1>1, LongerPath DEF Name, Last
<1>3. (n + 1) - 1 = n
  BY <1>1
<1>4. e \in Range(SubAgents(Path[n].name)) \cup Range(AgentTools(Path[n].name))
  BY <1>1, <1>2 DEF Children, ChildEdges
<1>5. Follows(Append(Path, e), n + 1) <=>
        (e.list = "agent_tools" /\ definition.format = "dsl" => Above(Append(Path, e), n + 1) < MaxSelfRef)
  BY <1>2, <1>3, <1>4 DEF Follows
<1>6. /\ definition.format = "dsl" => Above(Append(Path, e), n + 1) = Count(e.name)
      /\ definition.format # "dsl" => Count(e.name) = 0
      /\ Count(e.name) \in Nat
  BY <1>1, DepthIsCounted DEF n
<1>7. MaxSelfRef \in Nat \ {0}
  BY AgentCreationAssumption
<1>8. TooDeep(e.name) <=> Count(e.name) >= MaxSelfRef
  BY DEF TooDeep
<1>9. QED
  BY <1>1, <1>5, <1>6, <1>7, <1>8 DEF e, n

(* Every step keeps the trees.                                             *)
LEMMA TreesOfStep ==
  ASSUME DefinitionOK, StackInv, TreeInv, [Next]_vars
  PROVE  TreeInv'
<1> USE DEF Creating, Closing, run
<1>1. CASE ResolveInstruction \/ ResolveModel \/ AdkConfig \/ ResolveTools
  <2>1. /\ phase = "creating" /\ phase' = phase /\ Top.todo # << >> /\ calls' = Done
        /\ UNCHANGED <<definition, built, block, created, runs>>
        /\ Head(Top.todo).list \in {"instruction", "model", "tools", "config"}
    BY <1>1 DEF ResolveInstruction, ResolveModel, AdkConfig, Resolve, ResolveTools, Asks
  <2>2. Head(Top.todo) \notin Children(Path)
    BY <2>1, HeadFacts
  <2>3. QED
    BY <2>1, <2>2, DoneStep
<1>2. CASE SkipAgentTool
  <2>1. /\ phase = "creating" /\ phase' = phase /\ Top.todo # << >> /\ calls' = Done
        /\ UNCHANGED <<definition, built, block, created, runs>>
        /\ Head(Top.todo).list = "agent_tools" /\ TooDeep(Head(Top.todo).name)
    BY <1>2 DEF SkipAgentTool, Asks
  <2>2. Head(Top.todo) \in Children(Path)
    BY <2>1, HeadFacts
  <2>3. ~Follows(Append(Path, Head(Top.todo)), Len(calls) + 1)
    BY <2>1, <2>2, EdgeFollows
  <2>4. QED
    BY <2>1, <2>3, DoneStep
<1>3. CASE ResolveSubAgent \/ ResolveAgentTool
  <2>1. /\ phase = "creating" /\ phase' = phase /\ Top.todo # << >> /\ NestedCall
        /\ UNCHANGED <<definition, built, block, created, runs>>
        /\ \/ Head(Top.todo).list = "sub_agents"
           \/ Head(Top.todo).list = "agent_tools" /\ ~TooDeep(Head(Top.todo).name)
    BY <1>3 DEF ResolveSubAgent, ResolveAgentTool, Asks
  <2>2. Head(Top.todo) \in Children(Path)
    BY <2>1, HeadFacts
  <2>3. Follows(Append(Path, Head(Top.todo)), Len(calls) + 1)
    BY <2>1, <2>2, EdgeFollows
  <2>4. QED
    BY <2>1, <2>2, <2>3, NestedStep
<1>4. CASE Return
  BY <1>4, ReturnStep
<1>5. CASE RunAgent
  <2>1. PICK name \in definition.agents : Run(<<name>>, FALSE)
    BY <1>5 DEF RunAgent
  <2>2. <<name>> \in Seq(definition.agents) /\ <<name>> # << >>
    <3> DEFINE listed == definition.agents
    <3>1. \A a, b \in listed : <<a>> \in Seq(listed) /\ <<a, b>> \in Seq(listed)
      <4> HIDE DEF listed
      <4> QED
        OBVIOUS
    <3>2. QED
      BY <3>1
  <2>3. QED
    BY <2>1, <2>2, RunStep
<1>6. CASE RunParallel
  <2>1. PICK first, second \in definition.agents : Run(<<first, second>>, TRUE)
    BY <1>6 DEF RunParallel
  <2>2. <<first, second>> \in Seq(definition.agents) /\ <<first, second>> # << >>
    <3> DEFINE listed == definition.agents
    <3>1. \A a, b \in listed : <<a>> \in Seq(listed) /\ <<a, b>> \in Seq(listed)
      <4> HIDE DEF listed
      <4> QED
        OBVIOUS
    <3>2. QED
      BY <3>1
  <2>3. QED
    BY <2>1, <2>2, RunStep
<1>7. CASE Raise \/ Unwind \/ Close \/ CloseAgent \/ CloseTools \/ CloseRaises \/ CloseEnds
  <2>1. /\ definition' = definition /\ built' = built /\ block' \in {block, << >>}
        /\ created' \in {created, << >>} /\ runs' \in {runs, 0} /\ phase' # "creating"
    BY <1>7 DEF Raise, Unwind, Close, CloseAgent, CloseTools, CloseRaises, CloseEnds
  <2>2. QED
    BY <2>1, TreesRest
<1>8. CASE UNCHANGED vars
  BY <1>8, TreesRest DEF vars
<1>9. CASE NextWorkload
  <2>1. /\ phase' = "open" /\ built' = {} /\ created' = << >> /\ block' = << >> /\ runs' = 0
    BY <1>9 DEF NextWorkload
  <2>2. << >> \in Seq(Names) /\ << >> \in Seq({})
    BY EmptySeq
  <2>3. QED
    BY <2>1, <2>2 DEF TreeInv, CallsAreFaithful, BuiltIsWhole, RunsAreNamed
<1>10. QED
  BY <1>1, <1>2, <1>3, <1>4, <1>5, <1>6, <1>7, <1>8, <1>9 DEF Next, Step

-----------------------------------------------------------------------------

AllVisits == [op : {"agent", "tools"}, path : Paths]

(* A visit closes the tool sets of an agent and of all below it, or one's. *)
Covers(v, p) == (v.op = "agent" /\ IsPrefix(v.path, p)) \/ (v.op = "tools" /\ v.path = p)

Covered(visits, p) == \E v \in Range(visits) : Covers(v, p)

(* While a workload closes, what is open in its trees is going to be       *)
(* closed.                                                                 *)
ClosingInv ==
  phase = "closing" =>
    /\ closing \in Seq(AllVisits) /\ \A v \in Range(closing) : v.path \in built
    /\ \A root \in Range(created) : \A p \in Below(root) \cap tools : Covered(closing, p)

(* What it is for a path to be the beginning of another.                   *)
LEMMA PrefixFacts ==
  ASSUME NEW E, NEW s \in Seq(E), NEW t \in Seq(E)
  PROVE  IsPrefix(s, t) <=> Len(s) <= Len(t) /\ \A i \in 1..Len(s) : s[i] = t[i]
<1> DEFINE n == Len(s)
           u == SubSeq(t, 1, n)
<1>1. n \in Nat /\ Len(t) \in Nat /\ s = SubSeq(s, 1, n)
  BY LenProperties, SubSeqFull
<1>2. CASE n <= Len(t)
  <2>1. \A i \in 1..n : t[i] \in E
    BY <1>1, <1>2, ElementOfSeq
  <2>2. u \in Seq(E) /\ Len(u) = n /\ \A i \in 1..n : u[i] = t[i]
    BY <1>1, <1>2
  <2>3. s = u <=> \A i \in 1..n : s[i] = u[i]
    <3> HIDE DEF u
    <3> QED
      BY <2>2, SeqEqual
  <2>4. QED
    BY <1>1, <1>2, <2>2, <2>3 DEF IsPrefix
<1>3. CASE ~(n <= Len(t))
  BY <1>3 DEF IsPrefix
<1>4. QED
  BY <1>2, <1>3

(* The visits of the agents that are there.                                *)
LEMMA NestedFacts ==
  ASSUME TreeInv, NEW path \in Paths, NEW edges \in Seq(TreeEdges)
  PROVE  /\ Nested(path, edges) \in Seq(AllVisits)
         /\ \A v \in Range(Nested(path, edges)) : v.path \in built
         /\ \A e \in Range(edges) : Append(path, e) \in built =>
              Visit("agent", Append(path, e)) \in Range(Nested(path, edges))
<1> DEFINE paths == [i \in DOMAIN edges |-> Append(path, edges[i])]
           alive == Kept(paths, built)
           visits == [i \in DOMAIN alive |-> Visit("agent", alive[i])]
<1>1. /\ Len(edges) \in Nat /\ DOMAIN edges = 1..Len(edges)
      /\ \A i \in 1..Len(edges) : Append(path, edges[i]) \in Paths
  <2>1. \A i \in 1..Len(edges) : edges[i] \in TreeEdges
    BY ElementOfSeq
  <2>2. QED
    BY <2>1, LenProperties, LongerPath
<1>2. paths \in Seq(Paths) /\ Range(paths) = {Append(path, e) : e \in Range(edges)}
  <2>1. paths \in Seq(Paths)
    BY <1>1
  <2>2. Range(paths) = {Append(path, e) : e \in Range(edges)}
    BY DEF Range
  <2>3. QED
    BY <2>1, <2>2
<1> HIDE DEF paths
<1>3. alive \in Seq(Paths \cap built) /\ Range(alive) = Range(paths) \cap built
  BY <1>2, KeptIsCommon
<1> HIDE DEF alive
<1>4. /\ Len(alive) \in Nat /\ DOMAIN alive = 1..Len(alive)
      /\ \A i \in 1..Len(alive) : alive[i] \in Paths /\ alive[i] \in built
  BY <1>3, LenProperties, ElementOfSeq
<1>5. /\ \A i \in 1..Len(alive) : Visit("agent", alive[i]) \in AllVisits
      /\ \A i \in 1..Len(alive) : Visit("agent", alive[i]).path = alive[i]
  BY <1>4 DEF Visit, AllVisits
<1>6. visits \in Seq(AllVisits) /\ Range(visits) = {Visit("agent", q) : q \in Range(alive)}
  <2>1. visits \in Seq(AllVisits)
    BY <1>4, <1>5
  <2>2. Range(visits) = {Visit("agent", q) : q \in Range(alive)}
    BY DEF Range
  <2>3. QED
    BY <2>1, <2>2
<1>7. Nested(path, edges) = visits
  BY DEF Nested, visits, alive, paths
<1> HIDE DEF visits
<1>8. \A v \in Range(visits) : v.path \in built
  BY <1>3, <1>6 DEF Visit
<1>9. QED
  BY <1>2, <1>3, <1>6, <1>7, <1>8

(* What a visit of an agent leads to covers what the visit covers.         *)
LEMMA VisitsCover ==
  ASSUME DefinitionOK, TreeInv, NEW path \in built
  PROVE  /\ Visits(path) \in Seq(AllVisits) /\ \A v \in Range(Visits(path)) : v.path \in built
         /\ \A p \in built : IsPrefix(path, p) => Covered(Visits(path), p)
<1> DEFINE S == SubAgents(Name(path))
           A == AgentTools(Name(path))
           own == Visit("tools", path)
           n == Len(path)
<1>1. path \in Paths /\ Allowed(path) /\ Whole(path) /\ path \in Seq(TreeEdges)
      /\ n \in Nat \ {0} /\ Last(path) = path[n] /\ path[n] \in TreeEdges
  <2>1. path \in Paths /\ Allowed(path) /\ Whole(path)
    BY DEF TreeInv, BuiltIsWhole
  <2>2. path \in Seq(TreeEdges) /\ n \in Nat \ {0}
    BY <2>1, EmptySeq DEF Paths
  <2>3. QED
    BY <2>1, <2>2, ElementOfSeq DEF Last
<1>2. Name(path) \in Names
  BY <1>1 DEF Name, TreeEdges
<1>3. S \in Seq(TreeEdges) /\ A \in Seq(TreeEdges)
  BY <1>2, ChildFacts
<1>4. Children(path) = Range(S) \cup Range(A)
  BY DEF Children, ChildEdges
<1>5. own \in AllVisits /\ own.path = path /\ own.op = "tools"
  BY <1>1 DEF Visit, AllVisits
<1> HIDE DEF S, A, own, n
<1> DEFINE mine == <<own>>
<1>6. mine \in Seq(AllVisits) /\ Range(mine) = {own}
  <2>1. Range(<<own>>) = {own}
    BY DEF Range
  <2>2. QED
    BY <1>5, <2>1
<1> DEFINE before == Nested(path, S)
           after == Nested(path, A)
<1>7. /\ before \in Seq(AllVisits) /\ after \in Seq(AllVisits)
      /\ \A v \in Range(before) \cup Range(after) : v.path \in built
      /\ \A e \in Range(S) \cup Range(A) : Append(path, e) \in built =>
           Visit("agent", Append(path, e)) \in Range(before) \cup Range(after)
  BY <1>1, <1>3, NestedFacts
<1>8. Visits(path) = (before \o mine) \o after
  BY DEF Visits, S, A, own
<1> HIDE DEF before, after, mine
<1>9. /\ Visits(path) \in Seq(AllVisits)
      /\ Range(Visits(path)) = (Range(before) \cup {own}) \cup Range(after)
  <2>1. \A p, q \in Seq(AllVisits) : p \o q \in Seq(AllVisits) /\ Range(p \o q) = Range(p) \cup Range(q)
    BY ConcatProperties, RangeConcatenation
  <2>2. before \o mine \in Seq(AllVisits) /\ Range(before \o mine) = Range(before) \cup {own}
    BY <1>6, <1>7, <2>1
  <2>3. QED
    BY <1>7, <1>8, <2>1, <2>2
<1>10. ASSUME NEW p \in built, IsPrefix(path, p) PROVE Covered(Visits(path), p)
  <2>1. p \in Seq(TreeEdges) /\ Allowed(p) /\ Len(p) \in Nat
    BY LenProperties DEF TreeInv, BuiltIsWhole, Paths
  <2>2. n <= Len(p) /\ \A i \in 1..n : path[i] = p[i]
    BY <1>1, <1>10, <2>1, PrefixFacts DEF n
  <2>3. CASE n = Len(p)
    <3>1. p = path
      BY <1>1, <2>1, <2>2, <2>3, SeqEqual DEF n
    <3>2. Covers(own, p)
      BY <1>5, <3>1 DEF Covers
    <3>3. QED
      BY <1>9, <3>2 DEF Covered
  <2>4. CASE n # Len(p)
    <3> DEFINE e == p[n + 1]
               q == Append(path, e)
    <3>1. n + 1 \in 2..Len(p) /\ n + 1 \in 1..Len(p) /\ (n + 1) - 1 = n /\ n \in 1..n
      BY <1>1, <2>1, <2>2, <2>4
    <3>2. Follows(p, n + 1) /\ e \in TreeEdges
      BY <2>1, <3>1, ElementOfSeq DEF Allowed
    <3>3. p[n] = Last(path)
      BY <1>1, <2>2, <3>1
    <3>4. e \in Children(path)
      BY <3>1, <3>2, <3>3 DEF Follows, Children, ChildEdges, Name
    <3> HIDE DEF e
    <3>5. q \in Seq(TreeEdges) /\ Len(q) = n + 1 /\ q[n + 1] = e /\ \A i \in 1..n : q[i] = path[i]
      BY <1>1, <3>2, AppendProperties DEF n
    <3> HIDE DEF q
    <3>6. \A i \in 1..(n + 1) : q[i] = p[i]
      <4>1. \A i \in 1..(n + 1) : i \in 1..n \/ i = n + 1
        BY <1>1
      <4>2. QED
        BY <2>2, <3>5, <4>1 DEF e
    <3>7. Follows(q, n + 1)
      <4>1. n + 1 \in Nat \ {0} /\ n + 1 \in 2..(n + 1)
        BY <1>1
      <4>2. QED
        BY <3>2, <3>6, <4>1, FollowsAlike
    <3>8. q \in built
      BY <1>1, <3>4, <3>7 DEF Whole, q, n
    <3>9. IsPrefix(q, p)
      <4>1. Len(q) <= Len(p)
        BY <2>1, <3>1, <3>5
      <4>2. QED
        BY <2>1, <3>5, <3>6, <4>1, PrefixFacts
    <3>10. Visit("agent", q) \in Range(Visits(path))
      BY <1>4, <1>7, <1>9, <3>4, <3>8 DEF q
    <3>11. Covers(Visit("agent", q), p)
      BY <3>9 DEF Covers, Visit
    <3>12. QED
      BY <3>10, <3>11 DEF Covered
  <2>5. QED
    BY <2>3, <2>4
<1>11. \A v \in Range(Visits(path)) : v.path \in built
  BY <1>5, <1>7, <1>9
<1>12. QED
  BY <1>9, <1>10, <1>11

(* Every step keeps the promise of the visits to come: a visit of an agent *)
(* is replaced by visits that cover what it covered, and a visit of tools  *)
(* closes what it alone covered.                                           *)
LEMMA ClosingOfStep ==
  ASSUME DefinitionOK, TreeInv, ClosingInv, [Next]_vars
  PROVE  ClosingInv'
<1> USE DEF Closing
<1>1. CASE Close
  <2>1. closing' = [i \in DOMAIN created |-> Visit("agent", created[i])]
        /\ UNCHANGED <<tools, created, built>>
    BY <1>1 DEF Close
  <2>2. created \in Seq(built) /\ built \subseteq Paths
    BY DEF TreeInv, RunsAreNamed, BuiltIsWhole
  <2>3. /\ DOMAIN created = 1..Len(created) /\ Len(created) \in Nat
        /\ \A i \in 1..Len(created) : created[i] \in built /\ created[i] \in Paths
    BY <2>2, LenProperties, ElementOfSeq
  <2>4. \A i \in 1..Len(created) : Visit("agent", created[i]) \in AllVisits
    BY <2>3 DEF Visit, AllVisits
  <2>5. closing' \in Seq(AllVisits)
    BY <2>1, <2>3, <2>4
  <2>6. Range(closing') = {Visit("agent", root) : root \in Range(created)}
    BY <2>1 DEF Range
  <2>7. Range(created) \subseteq built
    BY <2>2, RangeOfSeq
  <2>8. \A v \in Range(closing') : v.path \in built
    BY <2>6, <2>7 DEF Visit
  <2>9. ASSUME NEW root \in Range(created), NEW p \in Below(root) PROVE Covered(closing', p)
    <3>1. Covers(Visit("agent", root), p)
      BY DEF Covers, Visit, Below
    <3>2. QED
      BY <2>6, <3>1 DEF Covered
  <2>10. QED
    BY <2>1, <2>5, <2>8, <2>9 DEF ClosingInv, Below, Covered
<1>2. CASE CloseAgent \/ CloseTools
  <2> DEFINE v == Head(closing)
             rest == Tail(closing)
  <2>1. /\ phase = "closing" /\ closing # << >> /\ UNCHANGED <<created, built>>
        /\ closing \in Seq(AllVisits) /\ \A w \in Range(closing) : w.path \in built
        /\ \A root \in Range(created) : \A p \in Below(root) \cap tools : Covered(closing, p)
    BY <1>2 DEF CloseAgent, CloseTools, ClosingInv
  <2>2. v \in AllVisits /\ rest \in Seq(AllVisits) /\ Range(closing) = {v} \cup Range(rest)
    BY <2>1, RangeOfTail
  <2>3. v.path \in built
    BY <2>1, <2>2
  <2>4. CASE CloseTools
    <3>1. v.op = "tools" /\ tools' = tools \ {v.path} /\ closing' = rest
      BY <2>4 DEF CloseTools
    <3>2. ASSUME NEW root \in Range(created), NEW p \in Below(root) \cap tools' PROVE Covered(rest, p)
      <4>1. p \in tools /\ p # v.path
        BY <3>1
      <4>2. PICK w \in Range(closing) : Covers(w, p)
        BY <2>1, <4>1 DEF Covered
      <4>3. w # v
        BY <3>1, <4>1, <4>2 DEF Covers
      <4>4. QED
        BY <2>2, <4>2, <4>3 DEF Covered
    <3> HIDE DEF v, rest
    <3>3. QED
      BY <2>1, <2>2, <3>1, <3>2 DEF ClosingInv, Below, Covered
  <2>5. CASE CloseAgent
    <3>1. v.op = "agent" /\ tools' = tools /\ closing' = Visits(v.path) \o rest
      BY <2>5 DEF CloseAgent
    <3> HIDE DEF v, rest
    <3>2. /\ Visits(v.path) \in Seq(AllVisits) /\ \A w \in Range(Visits(v.path)) : w.path \in built
          /\ \A p \in built : IsPrefix(v.path, p) => Covered(Visits(v.path), p)
      BY <2>3, VisitsCover
    <3>3. closing' \in Seq(AllVisits) /\ Range(closing') = Range(Visits(v.path)) \cup Range(rest)
      BY <2>2, <3>1, <3>2, ConcatProperties, RangeConcatenation
    <3>4. ASSUME NEW root \in Range(created), NEW p \in Below(root) \cap tools PROVE Covered(closing', p)
      <4>1. PICK w \in Range(closing) : Covers(w, p)
        BY <2>1 DEF Covered
      <4>2. CASE w \in Range(rest)
        BY <3>3, <4>1, <4>2 DEF Covered
      <4>3. CASE w = v
        <5>1. IsPrefix(v.path, p) /\ p \in built
          BY <3>1, <4>1, <4>3 DEF Covers, Below
        <5>2. PICK x \in Range(Visits(v.path)) : Covers(x, p)
          BY <3>2, <5>1 DEF Covered
        <5>3. QED
          BY <3>3, <5>2 DEF Covered
      <4>4. QED
        BY <2>2, <4>2, <4>3
    <3>5. \A w \in Range(closing') : w.path \in built
      BY <2>1, <2>2, <3>2, <3>3
    <3>6. QED
      BY <2>1, <3>1, <3>3, <3>4, <3>5 DEF ClosingInv, Below, Covered
  <2>6. QED
    BY <1>2, <2>4, <2>5
<1>3. CASE UNCHANGED vars
  BY <1>3 DEF vars, ClosingInv, Below, Covered
<1>4. CASE \/ RunAgent \/ RunParallel \/ NextWorkload \/ ResolveInstruction \/ ResolveModel
           \/ ResolveTools \/ AdkConfig \/ ResolveSubAgent \/ ResolveAgentTool \/ SkipAgentTool
           \/ Return \/ Raise \/ Unwind \/ CloseRaises \/ CloseEnds
  <2>1. phase' # "closing"
    BY <1>4 DEF RunAgent, RunParallel, Run, NextWorkload, ResolveInstruction, ResolveModel, AdkConfig,
                Resolve, ResolveTools, ResolveSubAgent, ResolveAgentTool, SkipAgentTool, Asks,
                Return, Raise, Unwind, CloseRaises, CloseEnds
  <2>2. QED
    BY <2>1 DEF ClosingInv
<1>5. QED
  BY <1>1, <1>2, <1>3, <1>4 DEF Next, Step

(* The calls in progress answer for every child of their agents, the       *)
(* agents that are built have all theirs, and while a workload closes      *)
(* every tool set that is open in its trees lies under a visit to come.    *)
(* This is the inductive invariant of the create calls of both factories   *)
(* (with their try and finally) and of the recursive close.                *)
THEOREM TreeInvariant == Spec => [](DefinitionOK /\ StackInv /\ TreeInv /\ ClosingInv)
<1>1. Init => TreeInv /\ ClosingInv
  BY EmptySeq DEF Init, TreeInv, CallsAreFaithful, BuiltIsWhole, RunsAreNamed, ClosingInv
<1>2. DefinitionOK /\ StackInv /\ TreeInv /\ ClosingInv /\ [Next]_vars => (TreeInv /\ ClosingInv)'
  BY TreesOfStep, ClosingOfStep
<1>3. QED
  BY <1>1, <1>2, StackInvariant, PTL DEF Spec

(* Every agent that was built for a run has a child for each edge that its *)
(* definition lists and the nesting allows. A name that is already on the  *)
(* stack, or was left there by an earlier call that raised, would cost a   *)
(* tree a branch; no order of runs, errors and retries does.               *)
THEOREM WholeTreesTheorem == Spec => []EveryRunGetsTheWholeTree
<1>1. TreeInv => EveryRunGetsTheWholeTree
  BY DEF TreeInv, BuiltIsWhole, Allowed, Whole, Children, ChildEdges, EveryRunGetsTheWholeTree, Below
<1>2. QED
  BY <1>1, TreeInvariant, PTL

(* When the visits of a close are all done, no tool set is open in a tree  *)
(* of the workload: the close goes down every branch that the create went  *)
(* down, through sub-agents and through the agents wrapped as tools.       *)
THEOREM ClosedTreesTheorem == Spec => []ClosedTreesHoldNothing
<1>1. ClosingInv => ClosedTreesHoldNothing
  <2>1. Range(<< >>) = {}
    BY DEF Range
  <2>2. QED
    BY <2>1 DEF ClosingInv, ClosedTreesHoldNothing, Covered
<1>2. QED
  BY <1>1, TreeInvariant, PTL

----------------------------------------------------------------------------
(* Where the definitions come from: Workloads.                             *)
(* The subsets of a finite set, by their size.                             *)
Small(S, n) == {s \in SUBSET S : Cardinality(s) <= n}

LEMMA SmallSets ==
  ASSUME NEW S, IsFiniteSet(S), NEW n \in Nat
  PROVE  /\ Small(S, 0) = {{}}
         /\ \A s \in Small(S, n + 1) : \A x \in s : s \ {x} \in Small(S, n)
         /\ Small(S, n) \subseteq Small(S, n + 1)
         /\ \A s \in Small(S, n) : \A x \in s : s \ {x} \in Small(S, n)
         /\ Small(S, Cardinality(S)) = SUBSET S
<1>1. \A s \in SUBSET S : IsFiniteSet(s) /\ Cardinality(s) \in Nat /\ Cardinality(s) <= Cardinality(S)
  BY FS_Subset, FS_CardinalityType
<1>2. \A s \in SUBSET S : Cardinality(s) = 0 <=> s = {}
  BY <1>1, FS_EmptySet
<1>3. \A s \in SUBSET S : \A x \in s : s \ {x} \in SUBSET S /\ Cardinality(s \ {x}) = Cardinality(s) - 1
  BY <1>1, FS_RemoveElement
<1>4. Small(S, 0) = {{}}
  BY <1>1, <1>2 DEF Small
<1>5. Cardinality(S) \in Nat
  BY <1>1
<1>6. QED
  BY <1>1, <1>3, <1>4, <1>5 DEF Small

-----------------------------------------------------------------------------
(* Disks obeys its recursion.                                              *)
AnyOf(s) == CHOOSE x \in s : TRUE

DisksOf(s, g) ==
  IF s = {} THEN {[f \in {} |-> Absent]}
  ELSE UNION {{WithFile(d, AnyOf(s), c) : c \in Contents[AnyOf(s)]} : d \in g[s \ {AnyOf(s)}]}

DisksBody(S, g) == [s \in S |-> DisksOf(s, g)]

LEMMA MemberOfDisks ==
  ASSUME NEW x, NEW C, NEW G, NEW e \in UNION {{WithFile(d, x, c) : c \in C} : d \in G}
  PROVE  \E c \in C, b \in G : e = WithFile(b, x, c)
OBVIOUS

IsOneMore(s, g, e) ==
  \E c \in Contents[AnyOf(s)] : \E b \in g[s \ {AnyOf(s)}] : e = WithFile(b, AnyOf(s), c)

LEMMA DiskOfMore ==
  ASSUME NEW s, NEW g, NEW e, s # {}, e \in DisksOf(s, g)
  PROVE  IsOneMore(s, g, e)
<1>1. DisksOf(s, g) =
        UNION {{WithFile(d, AnyOf(s), c) : c \in Contents[AnyOf(s)]} : d \in g[s \ {AnyOf(s)}]}
  BY DEF DisksOf
<1>2. e \in UNION {{WithFile(d, AnyOf(s), c) : c \in Contents[AnyOf(s)]} : d \in g[s \ {AnyOf(s)}]}
  BY <1>1
<1>3. \E c \in Contents[AnyOf(s)] : \E b \in g[s \ {AnyOf(s)}] : e = WithFile(b, AnyOf(s), c)
  BY <1>2, MemberOfDisks
<1>4. QED
  BY <1>3 DEF IsOneMore

LEMMA DisksExist == \E g : g = DisksBody(SUBSET Files, g)
<1> DEFINE T == {n \in Nat : \E g : g = DisksBody(Small(Files, n), g)}
<1>0. IsFiniteSet(Files)
  BY WorkloadsAssumption
<1>1. 0 \in T
  <2> DEFINE g == [s \in Small(Files, 0) |-> {[f \in {} |-> Absent]}]
  <2>1. g = DisksBody(Small(Files, 0), g)
    BY <1>0, SmallSets DEF DisksBody, DisksOf
  <2>2. QED
    BY <2>1
<1>2. ASSUME NEW n \in Nat, n \in T PROVE n + 1 \in T
  <2>1. PICK g : g = DisksBody(Small(Files, n), g)
    BY <1>2
  <2> DEFINE h == DisksBody(Small(Files, n + 1), g)
  <2>2. \A s \in Small(Files, n) : g[s] = DisksOf(s, g) /\ h[s] = DisksOf(s, g)
    <3>1. \A s \in Small(Files, n) : g[s] = DisksOf(s, g)
      BY <2>1, Zenon DEF DisksBody
    <3>2. \A s \in Small(Files, n + 1) : h[s] = DisksOf(s, g)
      BY DEF DisksBody
    <3>3. QED
      BY <1>0, <3>1, <3>2, SmallSets
  <2>3. \A s \in Small(Files, n + 1) : DisksOf(s, h) = DisksOf(s, g)
    <3> SUFFICES ASSUME NEW s \in Small(Files, n + 1)
                 PROVE  DisksOf(s, h) = DisksOf(s, g)
      OBVIOUS
    <3>1. CASE s = {}
      BY <3>1 DEF DisksOf
    <3>2. CASE s # {}
      <4>1. AnyOf(s) \in s /\ s \ {AnyOf(s)} \in Small(Files, n)
        BY <1>0, <3>2, SmallSets DEF AnyOf
      <4>2. h[s \ {AnyOf(s)}] = g[s \ {AnyOf(s)}]
        BY <2>2, <4>1
      <4> HIDE DEF h
      <4>3. QED
        BY <3>2, <4>2 DEF DisksOf
    <3>3. QED
      BY <3>1, <3>2
  <2>4. h = DisksBody(Small(Files, n + 1), h)
    <3> HIDE DEF h
    <3>1. DisksBody(Small(Files, n + 1), h) = DisksBody(Small(Files, n + 1), g)
      BY <2>3 DEF DisksBody
    <3>2. QED
      BY <3>1 DEF h
  <2>5. QED
    BY <2>4
<1>3. \A n \in Nat : n \in T
  <2> HIDE DEF T
  <2> QED
    BY <1>1, <1>2, SetInduction
<1>4. Cardinality(Files) \in T
  BY <1>0, <1>3, FS_CardinalityType
<1>5. QED
  BY <1>0, <1>4, SmallSets, FS_CardinalityType

(* A disk has one of its contents in every file.                           *)
DiskOK == DOMAIN disk = Files /\ \A f \in Files : disk[f] \in Contents[f]

(* Every disk the program may begin with has one of its contents in       *)
(* every file.                                                            *)
LEMMA DisksHoldContents ==
  ASSUME NEW d \in Disks
  PROVE  DOMAIN d = Files /\ \A f \in Files : d[f] \in Contents[f]
<1>0. IsFiniteSet(Files) /\ Cardinality(Files) \in Nat
  BY WorkloadsAssumption, FS_CardinalityType
<1>1. PICK g : g = DisksBody(SUBSET Files, g) /\ Disks = g[Files]
  <2>1. Disks = (CHOOSE g : g = DisksBody(SUBSET Files, g))[Files]
    BY DEF Disks, FoldSet, MapThenFoldSet, DisksBody, DisksOf, AnyOf
  <2>2. QED
    BY <2>1, DisksExist
<1> DEFINE T == {n \in Nat : \A s \in Small(Files, n) : \A e \in g[s] :
                     DOMAIN e = s /\ \A f \in s : e[f] \in Contents[f]}
<1>2. 0 \in T
  <2>1. g[{}] = {[f \in {} |-> Absent]} /\ Small(Files, 0) = {{}}
    <3>1. {} \in SUBSET Files /\ g[{}] = DisksOf({}, g)
      BY <1>1 DEF DisksBody
    <3>2. QED
      BY <1>0, <3>1, SmallSets DEF DisksOf
  <2>2. QED
    BY <2>1
<1>3. ASSUME NEW n \in Nat, n \in T PROVE n + 1 \in T
  <2> SUFFICES ASSUME NEW s \in Small(Files, n + 1), NEW e \in g[s]
               PROVE  DOMAIN e = s /\ \A f \in s : e[f] \in Contents[f]
    OBVIOUS
  <2>0. s \in SUBSET Files /\ g[s] = DisksOf(s, g)
    <3>1. s \in SUBSET Files
      BY DEF Small
    <3>2. QED
      BY <1>1, <3>1 DEF DisksBody
  <2>1. CASE s = {}
    BY <2>0, <2>1 DEF DisksOf
  <2>2. CASE s # {}
    <3>0. PICK x : x = AnyOf(s)
      OBVIOUS
    <3>1. x \in s /\ s \ {x} \in Small(Files, n)
      BY <1>0, <2>2, <3>0, SmallSets DEF AnyOf
    <3>2. PICK c \in Contents[x], b \in g[s \ {x}] : e = WithFile(b, x, c)
      <4>1. e \in DisksOf(s, g)
        BY <2>0
      <4>2. IsOneMore(s, g, e)
        BY <2>2, <4>1, DiskOfMore
      <4>3. QED
        BY <3>0, <4>2 DEF IsOneMore
    <3>3. DOMAIN b = s \ {x} /\ \A f \in s \ {x} : b[f] \in Contents[f]
      BY <1>3, <3>1
    <3>4. DOMAIN e = DOMAIN b \cup {x} /\ \A f \in DOMAIN e : e[f] = IF f = x THEN c ELSE b[f]
      BY <3>2 DEF WithFile
    <3>5. DOMAIN e = s
      BY <3>1, <3>3, <3>4
    <3>6. QED
      BY <3>3, <3>4, <3>5
  <2>3. QED
    BY <2>1, <2>2
<1>4. \A n \in Nat : n \in T
  <2> HIDE DEF T
  <2> QED
    BY <1>2, <1>3, SetInduction
<1>5. Files \in Small(Files, Cardinality(Files))
  BY <1>0, SmallSets
<1>6. QED
  BY <1>0, <1>1, <1>4, <1>5

-----------------------------------------------------------------------------
(* How references are resolved.                                            *)
(* The references of a file on the disk.                                  *)
LEMMA RefFacts ==
  ASSUME DiskOK
  PROVE  \A f \in Files : \A ref \in References(f) : ref.to \in Files /\ ref.inline \in Nat
<1> SUFFICES ASSUME NEW f \in Files, NEW ref \in References(f)
             PROVE  ref.to \in Files /\ ref.inline \in Nat
  OBVIOUS
<1>1. f.format = "yaml" /\ disk[f].kind = "loads" /\ ref \in Range(disk[f].refs)
  BY DEF References
<1>2. disk[f].refs \in Seq([to : Files, inline : Nat])
  <2>1. Content(f, disk[f])
    BY WorkloadsAssumption DEF DiskOK
  <2>2. QED
    BY <1>1, <2>1 DEF Content
<1>3. PICK T : T = [to : Files, inline : Nat]
  OBVIOUS
<1>4. PICK s \in Seq(T) : s = disk[f].refs
  BY <1>2, <1>3
<1>5. PICK i \in DOMAIN s : ref = s[i]
  BY <1>1, <1>4 DEF Range
<1>6. ref \in T
  BY <1>4, <1>5
<1>7. QED
  BY <1>3, <1>6

(* What _resolve_agent_refs asks of a file below others at a depth.        *)
Resolved(R, at) ==
  /\ at.depth <= MaxRefDepth
  /\ \A ref \in References(at.file) :
       /\ at.depth + ref.inline <= MaxRefDepth
       /\ ref.to \notin at.above
       /\ MayBeReferred(ref.to)
       /\ R[PlaceBelow(at, ref)]

ResolveBody(P, R) == [at \in P |-> Resolved(R, at)]

(* The places that are at most so many levels above the last.              *)
DeepPlaces(n) == {at \in Places : at.depth + n > MaxRefDepth}

RootPlace(f) == [file |-> f, above |-> {f}, depth |-> 0]

LEMMA PlaceBelowFacts ==
  ASSUME DiskOK, NEW at \in Places, NEW ref \in References(at.file), at.depth + ref.inline <= MaxRefDepth
  PROVE  PlaceBelow(at, ref) \in Places /\ PlaceBelow(at, ref).depth > at.depth
<1>1. at.file \in Files /\ at.above \in SUBSET Files /\ at.depth \in Nat /\ MaxRefDepth \in Nat
  BY WorkloadsAssumption DEF Places
<1>2. ref.to \in Files /\ ref.inline \in Nat
  BY <1>1, RefFacts
<1>3. at.depth + ref.inline + 1 \in 0..(MaxRefDepth + 1) /\ at.depth + ref.inline + 1 > at.depth
  BY <1>1, <1>2
<1>4. QED
  BY <1>1, <1>2, <1>3 DEF PlaceBelow, Places

(* What is asked of a place depends on deeper places only.                *)
LEMMA ResolvedAlike ==
  ASSUME DiskOK, NEW Q, NEW R, NEW at \in Places, NEW n \in Nat, at.depth + (n + 1) > MaxRefDepth,
         \A p \in DeepPlaces(n) : Q[p] = R[p]
  PROVE  Resolved(Q, at) = Resolved(R, at)
<1>1. at.depth \in Nat /\ MaxRefDepth \in Nat
  BY WorkloadsAssumption DEF Places
<1>2. ASSUME NEW ref \in References(at.file), at.depth + ref.inline <= MaxRefDepth
      PROVE  Q[PlaceBelow(at, ref)] = R[PlaceBelow(at, ref)]
  <2>1. PlaceBelow(at, ref) \in Places /\ PlaceBelow(at, ref).depth > at.depth
    BY <1>2, PlaceBelowFacts
  <2>2. PlaceBelow(at, ref).depth \in Nat
    BY <2>1, <1>1 DEF Places
  <2>3. PlaceBelow(at, ref) \in DeepPlaces(n)
    BY <1>1, <2>1, <2>2 DEF DeepPlaces
  <2>4. QED
    BY <2>3
<1>3. QED
  BY <1>2 DEF Resolved

LEMMA ResolvingExists ==
  ASSUME DiskOK
  PROVE  \E R : R = ResolveBody(Places, R)
<1> DEFINE T == {n \in Nat : \E R : R = ResolveBody(DeepPlaces(n), R)}
<1>0. MaxRefDepth \in Nat /\ \A at \in Places : at.depth \in Nat /\ at.depth <= MaxRefDepth + 1
  BY WorkloadsAssumption DEF Places
<1>1. 0 \in T
  <2> DEFINE R == [at \in DeepPlaces(0) |-> FALSE]
  <2>1. \A at \in DeepPlaces(0) : Resolved(R, at) = FALSE
    <3>1. \A at \in DeepPlaces(0) : ~(at.depth <= MaxRefDepth)
      BY <1>0 DEF DeepPlaces
    <3> HIDE DEF R
    <3>2. QED
      BY <3>1 DEF Resolved
  <2>2. R = ResolveBody(DeepPlaces(0), R)
    BY <2>1 DEF ResolveBody
  <2>3. QED
    BY <2>2
<1>2. ASSUME NEW n \in Nat, n \in T PROVE n + 1 \in T
  <2>1. PICK R : R = ResolveBody(DeepPlaces(n), R)
    BY <1>2
  <2> DEFINE Q == ResolveBody(DeepPlaces(n + 1), R)
  <2>2. DeepPlaces(n) \subseteq DeepPlaces(n + 1)
    BY <1>0 DEF DeepPlaces
  <2>3. \A at \in DeepPlaces(n) : Q[at] = R[at]
    <3>1. \A at \in DeepPlaces(n) : R[at] = Resolved(R, at)
      BY <2>1, Zenon DEF ResolveBody
    <3>2. \A at \in DeepPlaces(n + 1) : Q[at] = Resolved(R, at)
      BY DEF ResolveBody
    <3>3. QED
      BY <2>2, <3>1, <3>2
  <2>4. \A at \in DeepPlaces(n + 1) : Resolved(Q, at) = Resolved(R, at)
    <3> SUFFICES ASSUME NEW at \in DeepPlaces(n + 1)
                 PROVE  Resolved(Q, at) = Resolved(R, at)
      OBVIOUS
    <3> HIDE DEF Q
    <3>1. at \in Places /\ at.depth + (n + 1) > MaxRefDepth
      BY DEF DeepPlaces
    <3>2. QED
      BY <2>3, <3>1, ResolvedAlike
  <2>5. Q = ResolveBody(DeepPlaces(n + 1), Q)
    <3> HIDE DEF Q
    <3>1. ResolveBody(DeepPlaces(n + 1), Q) = ResolveBody(DeepPlaces(n + 1), R)
      BY <2>4 DEF ResolveBody
    <3>2. QED
      BY <3>1 DEF Q
  <2>6. QED
    BY <2>5
<1>3. \A n \in Nat : n \in T
  <2> HIDE DEF T
  <2> QED
    BY <1>1, <1>2, SetInduction
<1>4. MaxRefDepth + 1 \in T /\ DeepPlaces(MaxRefDepth + 1) = Places
  <2>1. MaxRefDepth + 1 \in T
    BY <1>0, <1>3
  <2>2. \A at \in Places : at.depth + (MaxRefDepth + 1) > MaxRefDepth
    BY <1>0
  <2>3. QED
    BY <2>1, <2>2 DEF DeepPlaces
<1>5. QED
  BY <1>4

(* ReferencesResolve obeys its recursion.                                  *)
LEMMA ResolvingFacts ==
  ASSUME DiskOK
  PROVE  \E R : /\ \A at \in Places : R[at] = Resolved(R, at)
                /\ \A f \in Files : ReferencesResolve(f) = R[RootPlace(f)]
<1> DEFINE R == CHOOSE R : R = ResolveBody(Places, R)
<1>1. R = ResolveBody(Places, R)
  BY ResolvingExists
<1>2. \A f \in Files : ReferencesResolve(f) = R[RootPlace(f)]
  BY DEF ReferencesResolve, ResolveBody, Resolved, RootPlace
<1> HIDE DEF R
<1>3. \A at \in Places : R[at] = Resolved(R, at)
  BY <1>1, Zenon DEF ResolveBody
<1>4. QED
  BY <1>2, <1>3

-----------------------------------------------------------------------------
(* The chains.                                                             *)

LevelsBelow == 0..(MaxRefDepth + 1)

Grown(f, W, n) ==
  IF n = 0 THEN {<<[file |-> f, level |-> 0]>>}
  ELSE W[n - 1] \cup UNION {Longer(c) : c \in W[n - 1]}

GrownUpTo(f, S, W) == [n \in S |-> Grown(f, W, n)]

(* Chains obeys its recursion.                                            *)
LEMMA ChainsExist ==
  ASSUME NEW f
  PROVE  \E W : W = GrownUpTo(f, LevelsBelow, W)
<1> DEFINE T == {m \in Nat : \E W : W = GrownUpTo(f, 0..m, W)}
<1>1. 0 \in T
  <2> DEFINE W == [n \in 0..0 |-> {<<[file |-> f, level |-> 0]>>}]
  <2>1. \A n \in 0..0 : Grown(f, W, n) = {<<[file |-> f, level |-> 0]>>}
    BY DEF Grown
  <2>2. W = GrownUpTo(f, 0..0, W)
    BY <2>1 DEF GrownUpTo
  <2>3. QED
    BY <2>2
<1>2. ASSUME NEW m \in Nat, m \in T PROVE m + 1 \in T
  <2>1. PICK W : W = GrownUpTo(f, 0..m, W)
    BY <1>2
  <2> DEFINE V == GrownUpTo(f, 0..(m + 1), W)
  <2>2. \A n \in 0..m : V[n] = W[n]
    <3>1. \A n \in 0..m : W[n] = Grown(f, W, n)
      BY <2>1, Zenon DEF GrownUpTo
    <3>2. \A n \in 0..(m + 1) : V[n] = Grown(f, W, n)
      BY DEF GrownUpTo
    <3>3. QED
      BY <3>1, <3>2
  <2>3. \A n \in 0..(m + 1) : Grown(f, V, n) = Grown(f, W, n)
    <3> SUFFICES ASSUME NEW n \in 0..(m + 1)
                 PROVE  Grown(f, V, n) = Grown(f, W, n)
      OBVIOUS
    <3>1. CASE n = 0
      BY <3>1 DEF Grown
    <3>2. CASE n # 0
      <4>1. n - 1 \in 0..m
        BY <3>2
      <4>2. V[n - 1] = W[n - 1]
        BY <2>2, <4>1
      <4> HIDE DEF V
      <4>3. QED
        BY <3>2, <4>2 DEF Grown
    <3>3. QED
      BY <3>1, <3>2
  <2>4. V = GrownUpTo(f, 0..(m + 1), V)
    <3> HIDE DEF V
    <3>1. GrownUpTo(f, 0..(m + 1), V) = GrownUpTo(f, 0..(m + 1), W)
      BY <2>3 DEF GrownUpTo
    <3>2. QED
      BY <3>1 DEF V
  <2>5. QED
    BY <2>4
<1>3. \A m \in Nat : m \in T
  <2> HIDE DEF T
  <2> QED
    BY <1>1, <1>2, SetInduction
<1>4. QED
  BY <1>3, WorkloadsAssumption DEF LevelsBelow

LEMMA ChainFacts ==
  ASSUME NEW f
  PROVE  \E W : /\ W[0] = {<<[file |-> f, level |-> 0]>>}
                /\ \A n \in 0..MaxRefDepth : W[n + 1] = W[n] \cup UNION {Longer(c) : c \in W[n]}
                /\ Chains(f) = W[MaxRefDepth + 1]
<1> DEFINE W == CHOOSE W : W = GrownUpTo(f, LevelsBelow, W)
<1>1. W = GrownUpTo(f, LevelsBelow, W)
  BY ChainsExist
<1>2. Chains(f) = W[MaxRefDepth + 1]
  BY DEF Chains, GrownUpTo, Grown, LevelsBelow
<1> HIDE DEF W
<1>3. \A n \in LevelsBelow : W[n] = Grown(f, W, n)
  BY <1>1, Zenon DEF GrownUpTo
<1>4. MaxRefDepth \in Nat
  BY WorkloadsAssumption
<1>5. 0 \in LevelsBelow /\ \A n \in 0..MaxRefDepth : n + 1 \in LevelsBelow /\ n + 1 # 0 /\ (n + 1) - 1 = n
  BY <1>4 DEF LevelsBelow
<1>6. QED
  BY <1>2, <1>3, <1>5 DEF Grown

(* What every chain is.                                                    *)
IsChain(c) ==
  /\ c \in Seq([file : Files, level : Nat])
  /\ Len(c) > 0
  /\ Last(c).level + 1 >= Len(c)

FilesOf(c) == {c[i].file : i \in 1..Len(c)}

PlaceOf(c) == [file |-> Last(c).file, above |-> FilesOf(c), depth |-> Last(c).level]

FreshChain(c) == \A i \in 2..Len(c) : MayBeReferred(c[i].file) /\ \A k \in 1..(i - 1) : c[k].file # c[i].file

NextChain(c, ref) == Append(c, [file |-> ref.to, level |-> Last(c).level + ref.inline + 1])

LEMMA AppendFacts ==
  ASSUME NEW T, NEW s \in Seq(T), NEW e \in T
  PROVE  /\ Append(s, e) \in Seq(T) /\ Len(Append(s, e)) = Len(s) + 1
         /\ Append(s, e)[Len(s) + 1] = e /\ \A i \in 1..Len(s) : Append(s, e)[i] = s[i]
         /\ Len(s) \in Nat /\ \A i \in 1..Len(s) : s[i] \in T
OBVIOUS

LEMMA ChainTypes ==
  ASSUME NEW c, IsChain(c)
  PROVE  /\ Len(c) \in Nat \ {0} /\ Last(c) = c[Len(c)]
         /\ Last(c) \in [file : Files, level : Nat]
         /\ Last(c).file \in Files /\ Last(c).level \in Nat
         /\ FilesOf(c) \subseteq Files
<1>1. PICK T : T = [file : Files, level : Nat]
  OBVIOUS
<1>2. c \in Seq(T) /\ Len(c) > 0
  BY <1>1 DEF IsChain
<1>3. Len(c) \in Nat \ {0} /\ Last(c) = c[Len(c)] /\ \A i \in 1..Len(c) : c[i] \in T
  BY <1>2 DEF Last
<1>4. \A i \in 1..Len(c) : c[i].file \in Files
  BY <1>1, <1>3
<1>5. FilesOf(c) \subseteq Files
  BY <1>4 DEF FilesOf
<1>6. Last(c) \in T
  BY <1>3
<1>7. QED
  BY <1>1, <1>3, <1>5, <1>6

LEMMA RootChain ==
  ASSUME NEW f \in Files
  PROVE  LET c == <<[file |-> f, level |-> 0]>>
         IN  IsChain(c) /\ Len(c) = 1 /\ PlaceOf(c) = RootPlace(f) /\ FreshChain(c)
BY DEF IsChain, PlaceOf, RootPlace, FilesOf, FreshChain, Last

(* A chain with one more reference is at the place below.                 *)
LEMMA StepFacts ==
  ASSUME DiskOK, NEW c, IsChain(c), NEW ref \in References(Last(c).file)
  PROVE  /\ IsChain(NextChain(c, ref))
         /\ Len(NextChain(c, ref)) = Len(c) + 1
         /\ Last(NextChain(c, ref)).level = Last(c).level + ref.inline + 1
         /\ PlaceOf(NextChain(c, ref)) = PlaceBelow(PlaceOf(c), ref)
         /\ FreshChain(NextChain(c, ref)) <=>
              FreshChain(c) /\ MayBeReferred(ref.to) /\ ref.to \notin FilesOf(c)
<1> DEFINE e == [file |-> ref.to, level |-> Last(c).level + ref.inline + 1]
           d == NextChain(c, ref)
           n == Len(c)
<1>0. PICK T : T = [file : Files, level : Nat]
  OBVIOUS
<1>1. c \in Seq(T) /\ n \in Nat /\ n > 0 /\ n <= Last(c).level + 1
  BY <1>0, ChainTypes DEF IsChain
<1>2. Last(c).level \in Nat /\ ref.to \in Files /\ ref.inline \in Nat
  BY ChainTypes, RefFacts
<1>3. e \in T
  BY <1>0, <1>2
<1>4. /\ d \in Seq(T) /\ Len(d) = n + 1
      /\ d[n + 1] = e /\ \A i \in 1..n : d[i] = c[i]
  BY <1>1, <1>3, AppendFacts DEF NextChain
<1>5. Last(d) = e
  BY <1>1, <1>4 DEF Last
<1>6. IsChain(d)
  <2>1. Last(d).level = Last(c).level + ref.inline + 1
    BY <1>5
  <2>2. Last(d).level + 1 >= Len(d) /\ Len(d) > 0
    BY <1>1, <1>2, <1>4, <2>1
  <2>3. QED
    BY <1>0, <1>4, <2>2 DEF IsChain
<1>7. FilesOf(d) = FilesOf(c) \cup {ref.to}
  <2>1. 1..(n + 1) = 1..n \cup {n + 1}
    BY <1>1
  <2> HIDE DEF d
  <2>2. d[n + 1].file = ref.to
    BY <1>4
  <2>3. FilesOf(d) = {d[i].file : i \in 1..(n + 1)} /\ FilesOf(c) = {c[i].file : i \in 1..n}
    BY <1>4 DEF FilesOf
  <2> HIDE DEF n, e
  <2>4. QED
    BY <2>1, <2>2, <2>3, <1>4
<1>8. PlaceOf(d) = PlaceBelow(PlaceOf(c), ref)
  BY <1>5, <1>7 DEF PlaceOf, PlaceBelow
<1>9. FreshChain(d) <=> FreshChain(c) /\ MayBeReferred(ref.to) /\ ref.to \notin FilesOf(c)
  <2> HIDE DEF d
  <2>1. ASSUME FreshChain(d)
        PROVE  FreshChain(c) /\ MayBeReferred(ref.to) /\ ref.to \notin FilesOf(c)
    <3>1. \A i \in 2..n : i \in 2..Len(d) /\ d[i] = c[i] /\ \A k \in 1..(i - 1) : d[k] = c[k]
      BY <1>1, <1>4
    <3>2. FreshChain(c)
      BY <2>1, <3>1 DEF FreshChain
    <3>3. n + 1 \in 2..Len(d) /\ (n + 1) - 1 = n
      BY <1>1, <1>4
    <3>4. MayBeReferred(d[n + 1].file) /\ \A k \in 1..n : d[k].file # d[n + 1].file
      BY <2>1, <3>3 DEF FreshChain
    <3>5. QED
      BY <1>4, <3>2, <3>4 DEF FilesOf
  <2>2. ASSUME FreshChain(c), MayBeReferred(ref.to), ref.to \notin FilesOf(c)
        PROVE  FreshChain(d)
    <3> SUFFICES ASSUME NEW i \in 2..Len(d)
                 PROVE  MayBeReferred(d[i].file) /\ \A k \in 1..(i - 1) : d[k].file # d[i].file
      BY DEF FreshChain
    <3>1. CASE i \in 2..n
      <4>1. d[i] = c[i] /\ \A k \in 1..(i - 1) : d[k] = c[k]
        <5>1. i \in 1..n /\ \A k \in 1..(i - 1) : k \in 1..n
          BY <1>1, <3>1
        <5>2. QED
          BY <1>4, <5>1
      <4>2. MayBeReferred(c[i].file) /\ \A k \in 1..(i - 1) : c[k].file # c[i].file
        BY <2>2, <3>1 DEF FreshChain
      <4>3. QED
        BY <4>1, <4>2
    <3>2. CASE i = n + 1
      <4>1. i - 1 = n /\ d[i].file = ref.to
        BY <1>1, <1>4, <3>2
      <4>2. \A k \in 1..n : c[k].file # ref.to
        BY <2>2 DEF FilesOf
      <4>3. QED
        BY <1>4, <2>2, <4>1, <4>2
    <3>3. i \in 2..n \/ i = n + 1
      <4>1. i \in 2..(n + 1)
        BY <1>4
      <4>2. QED
        BY <1>1, <4>1
    <3>4. QED
      BY <3>1, <3>2, <3>3
  <2>3. QED
    BY <2>1, <2>2
<1>10. QED
  <2>1. Last(d).level = Last(c).level + ref.inline + 1
    BY <1>5
  <2> HIDE DEF d
  <2>2. QED
    BY <1>4, <1>6, <1>8, <1>9, <2>1 DEF d

GoodChain(c) == Last(c).level <= MaxRefDepth /\ FreshChain(c)

LEMMA LongerIsAStep ==
  ASSUME NEW c
  PROVE  Longer(c) = {NextChain(c, ref) : ref \in References(Last(c).file)}
BY DEF Longer, NextChain

(* What resolves has good chains only.                                     *)
LEMMA ResolvedChains ==
  ASSUME DiskOK, NEW R, \A at \in Places : R[at] = Resolved(R, at),
         NEW f \in Files, R[RootPlace(f)]
  PROVE  \A c \in Chains(f) : GoodChain(c)
<1> DEFINE Fine(c) == IsChain(c) /\ PlaceOf(c) \in Places /\ R[PlaceOf(c)] /\ FreshChain(c)
<1>0. MaxRefDepth \in Nat
  BY WorkloadsAssumption
<1>1. PICK W : /\ W[0] = {<<[file |-> f, level |-> 0]>>}
               /\ \A n \in 0..MaxRefDepth : W[n + 1] = W[n] \cup UNION {Longer(c) : c \in W[n]}
               /\ Chains(f) = W[MaxRefDepth + 1]
  BY ChainFacts
<1>2. Fine(<<[file |-> f, level |-> 0]>>)
  <2>1. RootPlace(f) \in Places
    BY <1>0 DEF RootPlace, Places
  <2>2. QED
    BY <2>1, RootChain
<1>3. ASSUME NEW c, Fine(c) PROVE \A d \in Longer(c) : Fine(d)
  <2> SUFFICES ASSUME NEW ref \in References(Last(c).file)
               PROVE  Fine(NextChain(c, ref))
    BY LongerIsAStep
  <2>1. PlaceOf(c).file = Last(c).file /\ PlaceOf(c).above = FilesOf(c) /\ PlaceOf(c).depth = Last(c).level
    BY DEF PlaceOf
  <2>2. /\ PlaceOf(c).depth + ref.inline <= MaxRefDepth
        /\ ref.to \notin FilesOf(c)
        /\ MayBeReferred(ref.to)
        /\ R[PlaceBelow(PlaceOf(c), ref)]
    <3>1. Resolved(R, PlaceOf(c))
      BY <1>3
    <3>2. QED
      BY <2>1, <3>1 DEF Resolved
  <2>3. PlaceBelow(PlaceOf(c), ref) \in Places
    BY <1>3, <2>1, <2>2, PlaceBelowFacts
  <2>4. QED
    BY <1>3, <2>2, <2>3, StepFacts
<1> DEFINE T == {n \in Nat : n <= MaxRefDepth + 1 => \A c \in W[n] : Fine(c)}
<1>4. 0 \in T
  <2> HIDE DEF Fine
  <2> QED
    BY <1>1, <1>2
<1>5. ASSUME NEW n \in Nat, n \in T PROVE n + 1 \in T
  <2> HIDE DEF Fine
  <2> SUFFICES ASSUME n + 1 <= MaxRefDepth + 1, NEW d \in W[n + 1]
               PROVE  Fine(d)
    OBVIOUS
  <2>1. n \in 0..MaxRefDepth /\ \A c \in W[n] : Fine(c)
    BY <1>0, <1>5
  <2>2. d \in W[n] \cup UNION {Longer(c) : c \in W[n]}
    BY <1>1, <2>1
  <2>3. QED
    BY <1>3, <2>1, <2>2
<1>6. \A n \in Nat : n \in T
  <2> HIDE DEF T
  <2> QED
    BY <1>4, <1>5, SetInduction
<1>7. \A c \in Chains(f) : Fine(c)
  BY <1>0, <1>1, <1>6
<1>8. ASSUME NEW c, Fine(c) PROVE GoodChain(c)
  <2>1. PlaceOf(c).depth <= MaxRefDepth
    BY <1>8 DEF Resolved
  <2>2. QED
    BY <1>8, <2>1 DEF GoodChain, PlaceOf
<1>9. QED
  BY <1>7, <1>8

(* What has good chains only resolves.                                     *)
LEMMA GoodChainsResolve ==
  ASSUME DiskOK, NEW R, \A at \in Places : R[at] = Resolved(R, at),
         NEW f \in Files, \A c \in Chains(f) : GoodChain(c)
  PROVE  R[RootPlace(f)]
<1>0. MaxRefDepth \in Nat
  BY WorkloadsAssumption
<1>1. PICK W : /\ W[0] = {<<[file |-> f, level |-> 0]>>}
               /\ \A n \in 0..MaxRefDepth : W[n + 1] = W[n] \cup UNION {Longer(c) : c \in W[n]}
               /\ Chains(f) = W[MaxRefDepth + 1]
  BY ChainFacts
<1>2. \A n \in 0..(MaxRefDepth + 1) : \A c \in W[n] : IsChain(c)
  <2> DEFINE T == {n \in Nat : n <= MaxRefDepth + 1 => \A c \in W[n] : IsChain(c)}
  <2>1. 0 \in T
    BY <1>1, RootChain
  <2>2. ASSUME NEW n \in Nat, n \in T PROVE n + 1 \in T
    <3> SUFFICES ASSUME n + 1 <= MaxRefDepth + 1, NEW d \in W[n + 1]
                 PROVE  IsChain(d)
      OBVIOUS
    <3>1. n \in 0..MaxRefDepth /\ \A c \in W[n] : IsChain(c)
      BY <1>0, <2>2
    <3>2. d \in W[n] \cup UNION {Longer(c) : c \in W[n]}
      BY <1>1, <3>1
    <3>3. \A c \in W[n] : \A e \in Longer(c) : IsChain(e)
      BY <3>1, LongerIsAStep, StepFacts
    <3>4. QED
      BY <3>1, <3>2, <3>3
  <2>3. \A n \in Nat : n \in T
    <3> HIDE DEF T
    <3> QED
      BY <2>1, <2>2, SetInduction
  <2>4. QED
    BY <1>0, <2>3
<1>3. \A n \in 0..(MaxRefDepth + 1) : W[n] \subseteq Chains(f)
  <2> DEFINE T == {n \in Nat : n <= MaxRefDepth + 1 => W[(MaxRefDepth + 1) - n] \subseteq Chains(f)}
  <2>1. 0 \in T
    BY <1>0, <1>1
  <2>2. ASSUME NEW n \in Nat, n \in T PROVE n + 1 \in T
    <3> SUFFICES ASSUME n + 1 <= MaxRefDepth + 1
                 PROVE  W[(MaxRefDepth + 1) - (n + 1)] \subseteq Chains(f)
      OBVIOUS
    <3>1. PICK m : m = (MaxRefDepth + 1) - (n + 1)
      OBVIOUS
    <3>2. m \in 0..MaxRefDepth /\ m + 1 = (MaxRefDepth + 1) - n
      BY <1>0, <3>1
    <3>3. W[m] \subseteq W[m + 1]
      BY <1>1, <3>2
    <3>4. W[m + 1] \subseteq Chains(f)
      BY <1>0, <2>2, <3>2
    <3>5. QED
      BY <3>1, <3>3, <3>4
  <2>3. \A n \in Nat : n \in T
    <3> HIDE DEF T
    <3> QED
      BY <2>1, <2>2, SetInduction
  <2>4. ASSUME NEW n \in 0..(MaxRefDepth + 1) PROVE W[n] \subseteq Chains(f)
    <3>1. PICK m \in Nat : m = (MaxRefDepth + 1) - n
      BY <1>0
    <3>2. m <= MaxRefDepth + 1 /\ (MaxRefDepth + 1) - m = n
      BY <1>0, <3>1
    <3>3. m \in T
      BY <2>3
    <3>4. QED
      BY <3>2, <3>3
  <2>5. QED
    BY <2>4
<1> DEFINE Long(n) == {c \in W[n] : Len(c) = n + 1}
           D == {n \in Nat : n <= MaxRefDepth + 1 => \A c \in Long((MaxRefDepth + 1) - n) : R[PlaceOf(c)]}
<1>4. 0 \in D
  <2> SUFFICES ASSUME NEW c \in Long((MaxRefDepth + 1) - 0)
               PROVE  FALSE
    OBVIOUS
  <2>1. c \in W[MaxRefDepth + 1] /\ Len(c) = MaxRefDepth + 2
    BY <1>0
  <2>2. IsChain(c) /\ GoodChain(c)
    BY <1>0, <1>1, <1>2, <2>1
  <2>3. Last(c).level \in Nat
    BY <2>2, ChainTypes
  <2>4. QED
    BY <1>0, <2>1, <2>2, <2>3 DEF IsChain, GoodChain
<1>5. ASSUME NEW n \in Nat, n \in D PROVE n + 1 \in D
  <2> SUFFICES ASSUME n + 1 <= MaxRefDepth + 1, NEW c \in Long((MaxRefDepth + 1) - (n + 1))
               PROVE  R[PlaceOf(c)]
    OBVIOUS
  <2>1. PICK m : m = (MaxRefDepth + 1) - (n + 1)
    OBVIOUS
  <2>2. m \in 0..MaxRefDepth /\ m \in 0..(MaxRefDepth + 1) /\ m + 1 \in 0..(MaxRefDepth + 1)
        /\ m + 1 = (MaxRefDepth + 1) - n
    BY <1>0, <2>1
  <2>3. c \in W[m] /\ Len(c) = m + 1
    BY <2>1
  <2>4. IsChain(c) /\ GoodChain(c)
    BY <1>2, <1>3, <2>2, <2>3
  <2>5. PlaceOf(c) \in Places /\ PlaceOf(c).file = Last(c).file /\ PlaceOf(c).above = FilesOf(c)
        /\ PlaceOf(c).depth = Last(c).level /\ Last(c).level \in Nat
    <3>1. Last(c) \in [file : Files, level : Nat] /\ FilesOf(c) \subseteq Files
      BY <2>4, ChainTypes
    <3>2. Last(c).level \in 0..(MaxRefDepth + 1)
      BY <1>0, <2>4, <3>1 DEF GoodChain
    <3>3. QED
      BY <3>1, <3>2 DEF PlaceOf, Places
  <2>6. ASSUME NEW ref \in References(Last(c).file)
        PROVE  /\ Last(c).level + ref.inline <= MaxRefDepth
               /\ ref.to \notin FilesOf(c) /\ MayBeReferred(ref.to)
               /\ R[PlaceBelow(PlaceOf(c), ref)]
    <3>1. NextChain(c, ref) \in W[m + 1]
      <4>1. NextChain(c, ref) \in Longer(c)
        BY LongerIsAStep
      <4>2. QED
        BY <1>1, <2>2, <2>3, <4>1
    <3>2. GoodChain(NextChain(c, ref))
      BY <1>3, <2>2, <3>1
    <3>3. Len(NextChain(c, ref)) = (m + 1) + 1
      BY <2>3, <2>4, StepFacts
    <3>4. R[PlaceOf(NextChain(c, ref))]
      BY <1>0, <1>5, <2>2, <3>1, <3>3
    <3>5. ref.inline \in Nat
      BY <2>4, RefFacts, ChainTypes
    <3>6. Last(c).level + ref.inline + 1 <= MaxRefDepth
      BY <2>4, <3>2, StepFacts DEF GoodChain
    <3>7. QED
      BY <1>0, <2>4, <2>5, <3>2, <3>4, <3>5, <3>6, StepFacts DEF GoodChain
  <2>7. Resolved(R, PlaceOf(c))
    BY <2>4, <2>5, <2>6 DEF Resolved, GoodChain
  <2>8. QED
    BY <2>5, <2>7
<1>6. \A n \in Nat : n \in D
  <2> HIDE DEF D
  <2> QED
    BY <1>4, <1>5, SetInduction
<1>7. \A c \in Long(0) : R[PlaceOf(c)]
  <2>1. MaxRefDepth + 1 \in D
    BY <1>0, <1>6
  <2>2. (MaxRefDepth + 1) - (MaxRefDepth + 1) = 0 /\ MaxRefDepth + 1 <= MaxRefDepth + 1
    BY <1>0
  <2>3. QED
    BY <2>1, <2>2
<1>8. PICK c : c = <<[file |-> f, level |-> 0]>>
  OBVIOUS
<1>9. c \in W[0] /\ Len(c) = 0 + 1
  BY <1>1, <1>8
<1>10. R[PlaceOf(c)]
  BY <1>7, <1>9
<1>11. QED
  BY <1>8, <1>10, RootChain

(* A YAML file resolves when and only when its chains are good.           *)
LEMMA ReferencesAreChains == DiskOK => ReferencesAreFinite
<1> SUFFICES ASSUME DiskOK, NEW f \in Files, f.format = "yaml", disk[f].kind = "loads"
             PROVE  Verdict(f) = "loads" <=> \A c \in Chains(f) : GoodChain(c)
  BY DEF ReferencesAreFinite, GoodChain, FreshChain
<1>1. PICK R : /\ \A at \in Places : R[at] = Resolved(R, at)
               /\ \A g \in Files : ReferencesResolve(g) = R[RootPlace(g)]
  BY ResolvingFacts
<1>2. Verdict(f) = "loads" <=> ReferencesResolve(f)
  BY DEF Verdict, YamlVerdict
<1>3. ReferencesResolve(f) <=> R[RootPlace(f)]
  BY <1>1
<1>4. QED
  BY <1>1, <1>2, <1>3, ResolvedChains, GoodChainsResolve

-----------------------------------------------------------------------------
(* What discovery finds.                                                   *)
(* The last of the files of a location is one of them.                     *)
LEMMA AheadFacts ==
  ASSUME NEW f \in Files, NEW g \in Files, NEW h \in Files,
         f.location = g.location, g.location = h.location
  PROVE  /\ f # g => Ahead(f, g) \/ Ahead(g, f)
         /\ ~(Ahead(f, g) /\ Ahead(g, f)) /\ ~Ahead(f, f)
         /\ Ahead(f, g) /\ Ahead(g, h) => Ahead(f, h)
<1>1. \A e \in Files : e \in File
  BY WorkloadsAssumption
<1>2. \A e \in Files : e.format \in {"dsl", "yaml", "python"} /\ e.place \in Nat
  BY <1>1 DEF File
<1>3. \A e \in Files : e.directory \in Nat
  BY <1>1 DEF File
<1>4. f.directory = g.directory /\ f.format = g.format /\ f.place = g.place => f = g
  BY WorkloadsAssumption
<1>5. QED
  BY <1>2, <1>3, <1>4 DEF Ahead, Rank

(* A finite set that a relation orders has a last element.                 *)
LEMMA EndExists ==
  ASSUME NEW S, IsFiniteSet(S), S # {}, NEW R,
         \A x, y \in S : x # y => <<x, y>> \in R \/ <<y, x>> \in R,
         \A x, y, z \in S : <<x, y>> \in R /\ <<y, z>> \in R => <<x, z>> \in R
  PROVE  \E x \in S : \A y \in S \ {x} : <<y, x>> \in R
<1> DEFINE IsEnd(s, x) == \A y \in s \ {x} : <<y, x>> \in R
           T == {n \in Nat : \A s \in Small(S, n) : s # {} => \E x \in s : IsEnd(s, x)}
<1>0. Cardinality(S) \in Nat
  BY FS_CardinalityType
<1>1. 0 \in T
  BY SmallSets
<1>2. ASSUME NEW n \in Nat, n \in T PROVE n + 1 \in T
  <2> SUFFICES ASSUME NEW s \in Small(S, n + 1), s # {}
               PROVE  \E x \in s : IsEnd(s, x)
    OBVIOUS
  <2>1. PICK x \in s : TRUE
    OBVIOUS
  <2>2. s \ {x} \in Small(S, n) /\ s \subseteq S
    BY <2>1, SmallSets DEF Small
  <2>3. CASE s \ {x} = {}
    BY <2>3
  <2>4. CASE s \ {x} # {}
    <3>1. PICK y \in s \ {x} : IsEnd(s \ {x}, y)
      BY <1>2, <2>2, <2>4
    <3>2. x \in S /\ y \in S /\ x # y
      BY <2>1, <2>2, <3>1
    <3>3. CASE <<x, y>> \in R
      <4>1. IsEnd(s, y)
        BY <3>1, <3>3
      <4>2. QED
        BY <4>1
    <3>4. CASE <<y, x>> \in R
      <4>1. ASSUME NEW z \in s \ {x} PROVE <<z, x>> \in R
        <5>1. z = y \/ <<z, y>> \in R
          BY <3>1
        <5>2. z \in S
          BY <2>2
        <5>3. QED
          BY <3>2, <3>4, <5>1, <5>2
      <4>2. QED
        BY <4>1
    <3>5. QED
      BY <3>2, <3>3, <3>4
  <2>5. QED
    BY <2>3, <2>4
<1>3. \A n \in Nat : n \in T
  <2> HIDE DEF T
  <2> QED
    BY <1>1, <1>2, SetInduction
<1>4. Cardinality(S) \in T
  BY <1>0, <1>3
<1>5. S \in Small(S, Cardinality(S))
  BY SmallSets
<1>6. QED
  BY <1>4, <1>5

(* Sets of files of one location.                                          *)
Gathered(files) == files \in SUBSET Files /\ \A f, g \in files : f.location = g.location

LEMMA EndsOfLocation ==
  ASSUME NEW s, Gathered(s), s # {}
  PROVE  /\ \E f \in s : \A g \in s \ {f} : Ahead(g, f)
         /\ \E f \in s : \A g \in s \ {f} : Ahead(f, g)
<1>0. IsFiniteSet(s) /\ s \in SUBSET Files /\ \A f, g \in s : f.location = g.location
  BY WorkloadsAssumption, FS_Subset DEF Gathered
<1> DEFINE A == {p \in s \X s : Ahead(p[1], p[2])}
           B == {p \in s \X s : Ahead(p[2], p[1])}
<1>1. \A f, g \in s : (<<f, g>> \in A <=> Ahead(f, g)) /\ (<<f, g>> \in B <=> Ahead(g, f))
  OBVIOUS
<1>2. \A f, g \in s : f # g => Ahead(f, g) \/ Ahead(g, f)
  BY <1>0, AheadFacts
<1>3. \A f, g, h \in s : Ahead(f, g) /\ Ahead(g, h) => Ahead(f, h)
  BY <1>0, AheadFacts
<1> HIDE DEF A, B
<1>4. \E f \in s : \A g \in s \ {f} : <<g, f>> \in A
  <2>1. \A f, g \in s : f # g => <<f, g>> \in A \/ <<g, f>> \in A
    BY <1>1, <1>2
  <2>2. \A f, g, h \in s : <<f, g>> \in A /\ <<g, h>> \in A => <<f, h>> \in A
    BY <1>1, <1>3
  <2>3. QED
    BY <1>0, <2>1, <2>2, EndExists
<1>5. \E f \in s : \A g \in s \ {f} : <<g, f>> \in B
  <2>1. \A f, g \in s : f # g => <<f, g>> \in B \/ <<g, f>> \in B
    BY <1>1, <1>2
  <2>2. \A f, g, h \in s : <<f, g>> \in B /\ <<g, h>> \in B => <<f, h>> \in B
    BY <1>1, <1>3
  <2>3. QED
    BY <1>0, <2>1, <2>2, EndExists
<1>6. QED
  BY <1>1, <1>4, <1>5

LEMMA LastExists ==
  ASSUME NEW s, Gathered(s), s # {}
  PROVE  LastOf(s) \in s
BY EndsOfLocation DEF LastOf

-----------------------------------------------------------------------------
(* TryAll obeys its recursion.                                             *)
NothingTried(bytecode) == [raised |-> FALSE, bytecode |-> bytecode, loaded |-> << >>]

TriedOf(b, s, g) ==
  IF s = {} THEN NothingTried(b) ELSE TryLoad(g[s \ {LastOf(s)}], LastOf(s))

TryBody(b, S, g) == [s \in S |-> TriedOf(b, s, g)]

LEMMA TriesExist ==
  ASSUME NEW b, NEW files, Gathered(files)
  PROVE  \E g : g = TryBody(b, SUBSET files, g)
<1> DEFINE T == {n \in Nat : \E g : g = TryBody(b, Small(files, n), g)}
<1>0. IsFiniteSet(files) /\ files \in SUBSET Files /\ \A f, g \in files : f.location = g.location
  BY WorkloadsAssumption, FS_Subset DEF Gathered
<1>1. 0 \in T
  <2> DEFINE g == [s \in Small(files, 0) |-> NothingTried(b)]
  <2>1. g = TryBody(b, Small(files, 0), g)
    BY <1>0, SmallSets DEF TryBody, TriedOf
  <2>2. QED
    BY <2>1
<1>2. ASSUME NEW n \in Nat, n \in T PROVE n + 1 \in T
  <2>1. PICK g : g = TryBody(b, Small(files, n), g)
    BY <1>2
  <2> DEFINE h == TryBody(b, Small(files, n + 1), g)
  <2>2. \A s \in Small(files, n) : g[s] = TriedOf(b, s, g) /\ h[s] = TriedOf(b, s, g)
    <3>1. \A s \in Small(files, n) : g[s] = TriedOf(b, s, g)
      BY <2>1, Zenon DEF TryBody
    <3>2. \A s \in Small(files, n + 1) : h[s] = TriedOf(b, s, g)
      BY DEF TryBody
    <3>3. QED
      BY <1>0, <3>1, <3>2, SmallSets
  <2>3. \A s \in Small(files, n + 1) : TriedOf(b, s, h) = TriedOf(b, s, g)
    <3> SUFFICES ASSUME NEW s \in Small(files, n + 1)
                 PROVE  TriedOf(b, s, h) = TriedOf(b, s, g)
      OBVIOUS
    <3>1. CASE s = {}
      BY <3>1 DEF TriedOf
    <3>2. CASE s # {}
      <4>1. LastOf(s) \in s
        BY <1>0, <3>2, LastExists DEF Small, Gathered
      <4>2. s \ {LastOf(s)} \in Small(files, n)
        BY <1>0, <4>1, SmallSets
      <4>3. h[s \ {LastOf(s)}] = g[s \ {LastOf(s)}]
        BY <2>2, <4>2
      <4> HIDE DEF h
      <4>4. QED
        BY <3>2, <4>3 DEF TriedOf
    <3>3. QED
      BY <3>1, <3>2
  <2>4. h = TryBody(b, Small(files, n + 1), h)
    <3> HIDE DEF h
    <3>1. TryBody(b, Small(files, n + 1), h) = TryBody(b, Small(files, n + 1), g)
      BY <2>3 DEF TryBody
    <3>2. QED
      BY <3>1 DEF h
  <2>5. QED
    BY <2>4
<1>3. \A n \in Nat : n \in T
  <2> HIDE DEF T
  <2> QED
    BY <1>1, <1>2, SetInduction
<1>4. Cardinality(files) \in T
  BY <1>0, <1>3, FS_CardinalityType
<1>5. QED
  BY <1>0, <1>4, SmallSets, FS_CardinalityType

-----------------------------------------------------------------------------
(* What a location gives, as long as its files are called what they are    *)
(* and none raises.                                                        *)
IsSeq(s) == \E T : s \in Seq(T)

LEMMA AppendAny ==
  ASSUME NEW s, IsSeq(s), NEW e
  PROVE  /\ IsSeq(Append(s, e)) /\ DOMAIN Append(s, e) = DOMAIN s \cup {Len(s) + 1}
         /\ Append(s, e)[Len(s) + 1] = e /\ \A i \in DOMAIN s : Append(s, e)[i] = s[i]
         /\ Len(s) \in Nat /\ DOMAIN s = 1..Len(s)
<1>1. PICK T : s \in Seq(T)
  BY DEF IsSeq
<1>2. PICK U : U = T \cup {e}
  OBVIOUS
<1>3. s \in Seq(U) /\ e \in U
  BY <1>1, <1>2
<1>4. Append(s, e) \in Seq(U) /\ Len(s) \in Nat /\ DOMAIN s = 1..Len(s)
      /\ Len(Append(s, e)) = Len(s) + 1 /\ DOMAIN Append(s, e) = 1..(Len(s) + 1)
      /\ Append(s, e)[Len(s) + 1] = e /\ \A i \in 1..Len(s) : Append(s, e)[i] = s[i]
  BY <1>3
<1>5. 1..(Len(s) + 1) = 1..Len(s) \cup {Len(s) + 1}
  BY <1>4
<1>6. QED
  BY <1>4, <1>5 DEF IsSeq

LEMMA FirstPlace ==
  ASSUME NEW N \in Nat, NEW C \in SUBSET (1..N), C # {}
  PROVE  \E i \in C : \A k \in 1..(i - 1) : k \notin C
<1> DEFINE D == {m \in 1..N : N + 1 - m \in C}
<1>1. \A i \in C : N + 1 - i \in D
  <2> SUFFICES ASSUME NEW i \in C PROVE N + 1 - i \in 1..N /\ N + 1 - (N + 1 - i) = i
    OBVIOUS
  <2> QED
    OBVIOUS
<1>2. PICK j \in D : \A k \in D : k <= j
  <2>1. D # {} /\ D \in SUBSET (1..N)
    BY <1>1
  <2> HIDE DEF D
  <2>2. QED
    BY <2>1, LastPlace
<1>3. N + 1 - j \in C /\ j \in 1..N
  OBVIOUS
<1>4. ASSUME NEW k \in 1..((N + 1 - j) - 1), k \in C PROVE FALSE
  <2>1. N + 1 - k \in D
    BY <1>1, <1>4
  <2>2. N + 1 - k <= j
    BY <1>2, <2>1
  <2>3. QED
    BY <1>3, <2>2
<1>5. QED
  BY <1>3, <1>4

Entry(e, files) == \E f \in files : Verdict(f) = "loads" /\ e.file = f /\ e.name = f.stem

(* The result of trying files: all that load, under their stems.           *)
Tried(acc, files) ==
  /\ acc.raised = FALSE /\ IsSeq(acc.loaded)
  /\ \A i \in DOMAIN acc.loaded : Entry(acc.loaded[i], files)
  /\ \A f \in files : Verdict(f) = "loads" =>
       \E i \in DOMAIN acc.loaded : acc.loaded[i].file = f /\ acc.loaded[i].name = f.stem

LEMMA TidyVerdicts ==
  ASSUME DiskOK, Tidy, NEW f \in Files
  PROVE  /\ Verdict(f) # "raises"
         /\ Verdict(f) = "loads" => NameOf(f) = f.stem
         /\ Verdict(f) = "absent" <=> disk[f] = Absent
<1>1. Content(f, disk[f])
  BY WorkloadsAssumption DEF DiskOK
<1>2. disk[f].kind \in {"loads", "rejected", "invalid", "raises"} \/ disk[f] = Absent
  BY <1>1 DEF Content
<1>3. disk[f].kind # "raises" /\ (disk[f].kind = "loads" => disk[f].name = f.stem)
  BY DEF Tidy
<1>4. Absent.kind = "absent"
  BY DEF Absent
<1>5. Verdict(f) = disk[f].kind \/ (Verdict(f) = "invalid" /\ disk[f].kind = "loads")
  BY DEF Verdict, YamlVerdict
<1>6. disk[f].kind # "absent" \/ disk[f] = Absent
  BY <1>2
<1>7. Verdict(f) = "absent" <=> disk[f].kind = "absent"
  BY <1>5
<1>8. Verdict(f) = "loads" => NameOf(f) = f.stem
  BY <1>3, <1>5 DEF NameOf
<1>9. QED
  BY <1>3, <1>4, <1>5, <1>6, <1>7, <1>8

LEMMA TryOneMore ==
  ASSUME DiskOK, Tidy, NEW s \in SUBSET Files, NEW f \in s, NEW acc, Tried(acc, s \ {f})
  PROVE  Tried(TryLoad(acc, f), s)
<1> DEFINE e == Loaded(f, CodeOf(acc.bytecode, f))
           new == TryLoad(acc, f)
<1>1. new = [raised |-> Verdict(f) = "raises", bytecode |-> Compiled(acc.bytecode, f),
             loaded |-> IF Verdict(f) = "loads" THEN Append(acc.loaded, e) ELSE acc.loaded]
  BY DEF TryLoad, Tried
<1>2. new.raised = FALSE
  <2>1. new.raised = (Verdict(f) = "raises")
    BY <1>1
  <2>2. (Verdict(f) = "raises") = FALSE
    BY TidyVerdicts
  <2> HIDE DEF new
  <2>3. QED
    BY <2>1, <2>2, Zenon
<1>3. CASE Verdict(f) = "loads"
  <2>1. new.loaded = Append(acc.loaded, e)
    BY <1>1, <1>3
  <2>2. e.file = f /\ e.name = f.stem
    BY <1>3, TidyVerdicts DEF Loaded
  <2>3. PICK l : l = acc.loaded
    OBVIOUS
  <2>4. PICK m : m = new.loaded
    OBVIOUS
  <2> HIDE DEF e, new
  <2>5. /\ IsSeq(m) /\ DOMAIN m = DOMAIN l \cup {Len(l) + 1} /\ m[Len(l) + 1] = e
        /\ \A i \in DOMAIN l : m[i] = l[i]
    BY <2>1, <2>3, <2>4, AppendAny DEF Tried
  <2>6. Entry(e, s) /\ \A i \in DOMAIN l : Entry(l[i], s)
    BY <1>3, <2>2, <2>3 DEF Entry, Tried
  <2>7. \A i \in DOMAIN m : Entry(m[i], s)
    BY <2>5, <2>6
  <2>8. ASSUME NEW g \in s, Verdict(g) = "loads"
        PROVE  \E i \in DOMAIN m : m[i].file = g /\ m[i].name = g.stem
    <3>1. CASE g = f
      BY <2>2, <2>5, <3>1
    <3>2. CASE g # f
      <4>1. PICK i \in DOMAIN l : l[i].file = g /\ l[i].name = g.stem
        BY <2>3, <2>8, <3>2 DEF Tried
      <4>2. QED
        BY <2>5, <4>1
    <3>3. QED
      BY <3>1, <3>2
  <2>9. QED
    BY <1>2, <2>4, <2>5, <2>7, <2>8 DEF Tried, new
<1>4. CASE Verdict(f) # "loads"
  <2>1. new.loaded = acc.loaded
    BY <1>1, <1>4
  <2> HIDE DEF new
  <2>2. \A i \in DOMAIN acc.loaded : Entry(acc.loaded[i], s)
    BY DEF Entry, Tried
  <2>3. \A g \in s : Verdict(g) = "loads" => g \in s \ {f}
    BY <1>4
  <2>4. Tried(new, s)
    BY <1>2, <2>1, <2>2, <2>3 DEF Tried
  <2>5. QED
    BY <2>4 DEF new
<1>5. QED
  BY <1>3, <1>4

LEMMA TryAllFacts ==
  ASSUME DiskOK, Tidy, NEW b, NEW files, Gathered(files)
  PROVE  Tried(TryAll(files, b), files)
<1>0. IsFiniteSet(files) /\ Cardinality(files) \in Nat /\ files \in SUBSET Files
      /\ \A f, g \in files : f.location = g.location
  BY WorkloadsAssumption, FS_Subset, FS_CardinalityType DEF Gathered
<1>1. PICK g : g = TryBody(b, SUBSET files, g) /\ TryAll(files, b) = g[files]
  <2>1. TryAll(files, b) = (CHOOSE g : g = TryBody(b, SUBSET files, g))[files]
    BY DEF TryAll, MapThenFoldSet, TryBody, TriedOf, NothingTried
  <2>2. QED
    BY <2>1, TriesExist
<1>2. \A s \in SUBSET files : g[s] = TriedOf(b, s, g)
  BY <1>1, Zenon DEF TryBody
<1> DEFINE T == {n \in Nat : \A s \in Small(files, n) : Tried(g[s], s)}
<1>3. 0 \in T
  <2>1. g[{}] = NothingTried(b) /\ Small(files, 0) = {{}}
    BY <1>0, <1>2, SmallSets DEF TriedOf
  <2>2. << >> \in Seq({})
    OBVIOUS
  <2>3. Tried(NothingTried(b), {})
    BY <2>2 DEF Tried, NothingTried, IsSeq
  <2>4. QED
    BY <2>1, <2>3
<1>4. ASSUME NEW n \in Nat, n \in T PROVE n + 1 \in T
  <2> SUFFICES ASSUME NEW s \in Small(files, n + 1)
               PROVE  Tried(g[s], s)
    OBVIOUS
  <2>0. s \in SUBSET files
    BY DEF Small
  <2>1. CASE s = {}
    BY <1>0, <1>3, <2>1, SmallSets
  <2>2. CASE s # {}
    <3>1. PICK x \in s : x = LastOf(s)
      BY <1>0, <2>0, <2>2, LastExists DEF Gathered
    <3>2. s \ {x} \in Small(files, n)
      BY <1>0, SmallSets
    <3>3. Tried(g[s \ {x}], s \ {x})
      BY <1>4, <3>2
    <3>4. g[s] = TryLoad(g[s \ {x}], x)
      BY <1>2, <2>0, <2>2, <3>1 DEF TriedOf
    <3>5. QED
      BY <1>0, <2>0, <3>3, <3>4, TryOneMore
  <2>3. QED
    BY <2>1, <2>2
<1>5. \A n \in Nat : n \in T
  <2> HIDE DEF T
  <2> QED
    BY <1>3, <1>4, SetInduction
<1>6. files \in Small(files, Cardinality(files))
  BY <1>0, SmallSets
<1>7. QED
  BY <1>0, <1>1, <1>5, <1>6

-----------------------------------------------------------------------------
(* The first file of a stem in its location.                               *)
Visible(f) == f.location > 0 /\ Verdict(f) = "loads" /\ ~Hidden(f)

LEMMA FirstOfStem ==
  ASSUME NEW f \in Files, disk[f] # Absent
  PROVE  \E d \in Discovered(f.location) : d.stem = f.stem /\ (d = f \/ Ahead(d, f))
<1> DEFINE S == {g \in Files : g.location = f.location /\ g.stem = f.stem /\ disk[g] # Absent}
<1>1. Gathered(S) /\ f \in S
  BY DEF Gathered
<1>2. PICK d \in S : \A g \in S \ {d} : Ahead(d, g)
  BY <1>1, EndsOfLocation
<1>3. \A g \in S : ~Ahead(g, d)
  BY <1>2, AheadFacts
<1>4. d \in Discovered(f.location)
  BY <1>2, <1>3 DEF Discovered
<1>5. QED
  BY <1>1, <1>2, <1>4

(* What discovery takes of a stem in a location is the first visible      *)
(* file of that stem there, if it loads;                                  *)
LEMMA FirstIsVisible ==
  ASSUME DiskOK, Tidy, NEW n \in Nat \ {0}, NEW d \in Discovered(n), Verdict(d) = "loads"
  PROVE  /\ Visible(d)
         /\ \A f \in Files : f.location = n /\ f.stem = d.stem /\ Visible(f) /\ f # d => Ahead(d, f)
<1>1. /\ d \in Files /\ d.location = n
      /\ \A g \in Files : g.location = n /\ disk[g] # Absent /\ g.stem = d.stem => ~Ahead(g, d)
  BY DEF Discovered
<1>2. \A g \in Files : Verdict(g) # "absent" => disk[g] # Absent
  BY TidyVerdicts
<1>3. Visible(d)
  BY <1>1, <1>2 DEF Visible, Hidden
<1>4. ASSUME NEW f \in Files, f.location = n, f.stem = d.stem, Visible(f), f # d
      PROVE  Ahead(d, f)
  <2>1. ~Ahead(f, d)
    BY <1>1, <1>2, <1>4 DEF Visible
  <2>2. QED
    BY <1>1, <1>4, <2>1, AheadFacts
<1>5. QED
  BY <1>3, <1>4

(* and if any file of the stem is visible there, it loads.                *)
LEMMA VisibleIsFound ==
  ASSUME DiskOK, Tidy, NEW f \in Files, Visible(f)
  PROVE  \E d \in Discovered(f.location) : d.stem = f.stem /\ Verdict(d) = "loads"
<1>1. Verdict(f) = "loads" /\ disk[f] # Absent
  BY TidyVerdicts DEF Visible
<1>2. PICK d \in Discovered(f.location) : d.stem = f.stem /\ (d = f \/ Ahead(d, f))
  BY <1>1, FirstOfStem
<1>3. d \in Files /\ d.location = f.location /\ disk[d] # Absent
  BY DEF Discovered
<1>4. Verdict(d) # "absent"
  BY <1>3, TidyVerdicts
<1>5. QED
  BY <1>1, <1>2, <1>3, <1>4 DEF Visible, Hidden

-----------------------------------------------------------------------------
(* What has been found after some locations.                               *)
VisibleUpTo(n, name) == {f \in Files : f.stem = name /\ f.location <= n /\ Visible(f)}

IsFirst(s, f) == f \in s /\ \A g \in s \ {f} : Before(f, g)

FoundOK(found, n) ==
  \A name : IF name \in DOMAIN found THEN IsFirst(VisibleUpTo(n, name), found[name].file)
            ELSE VisibleUpTo(n, name) = {}

FirstKept(found, loaded, new) ==
  /\ DOMAIN new = DOMAIN found \cup NamesIn(loaded)
  /\ \A name \in DOMAIN found : new[name] = found[name]
  /\ \A name \in NamesIn(loaded) \ DOMAIN found :
       \E i \in DOMAIN loaded : new[name] = loaded[i] /\ loaded[i].name = name

(* The first definition of a name stays.                                  *)
LEMMA KeepFacts ==
  ASSUME NEW found, NEW loaded, IsSeq(loaded)
  PROVE  FirstKept(found, loaded, Keep(found, loaded))
<1>1. /\ DOMAIN Keep(found, loaded) = DOMAIN found \cup NamesIn(loaded)
      /\ \A name \in DOMAIN found : Keep(found, loaded)[name] = found[name]
  BY DEF Keep
<1>2. ASSUME NEW name \in NamesIn(loaded) \ DOMAIN found
      PROVE  \E i \in DOMAIN loaded : Keep(found, loaded)[name] = loaded[i] /\ loaded[i].name = name
  <2> DEFINE First(i) == loaded[i].name = name /\ \A k \in 1..(i - 1) : loaded[k].name # name
  <2>1. Keep(found, loaded)[name] = loaded[CHOOSE i \in DOMAIN loaded : First(i)]
    BY DEF Keep
  <2>2. Len(loaded) \in Nat /\ DOMAIN loaded = 1..Len(loaded)
    BY AppendAny
  <2>3. PICK C : C = {i \in DOMAIN loaded : loaded[i].name = name}
    OBVIOUS
  <2>4. C # {} /\ C \in SUBSET (1..Len(loaded))
    BY <2>2, <2>3 DEF NamesIn
  <2>5. PICK m \in C : \A k \in 1..(m - 1) : k \notin C
    BY <2>2, <2>4, FirstPlace
  <2>6. First(m) /\ m \in DOMAIN loaded
    <3>1. m \in 1..Len(loaded) /\ \A k \in 1..(m - 1) : k \in 1..Len(loaded)
      BY <2>2, <2>4, <2>5
    <3>2. QED
      BY <2>2, <2>3, <2>5, <3>1
  <2>7. PICK j : j = CHOOSE i \in DOMAIN loaded : First(i)
    OBVIOUS
  <2>8. j \in DOMAIN loaded /\ First(j)
    BY <2>6, <2>7
  <2>9. QED
    BY <2>1, <2>7, <2>8
<1>3. QED
  BY <1>1, <1>2 DEF FirstKept

(* One more location: no file raises, and every name has its first        *)
(* visible file so far.                                                   *)
LEMMA LocationStep ==
  ASSUME DiskOK, Tidy, NEW n \in 1..Locations, NEW acc, acc.raised = FALSE, FoundOK(acc.found, n - 1)
  PROVE  /\ DiscoverInLocation(acc, n).raised = FALSE
         /\ FoundOK(DiscoverInLocation(acc, n).found, n)
<1> DEFINE files == {f \in Discovered(n) : f.stem \notin DOMAIN acc.found}
<1>1. PICK result : result = TryAll(files, acc.bytecode)
  OBVIOUS
<1>2. PICK found : found = acc.found
  OBVIOUS
<1>3. Gathered(files)
  BY DEF Gathered, Discovered
<1>4. Tried(result, files)
  BY <1>1, <1>3, TryAllFacts
<1> HIDE DEF files
<1>5. DiscoverInLocation(acc, n) =
        [raised |-> result.raised, bytecode |-> result.bytecode,
         found |-> IF result.raised THEN acc.found ELSE Keep(acc.found, result.loaded)]
  BY <1>1 DEF DiscoverInLocation, files
<1>6. /\ DiscoverInLocation(acc, n).raised = FALSE
      /\ DiscoverInLocation(acc, n).found = Keep(found, result.loaded)
  BY <1>2, <1>4, <1>5 DEF Tried
<1>7. PICK loaded : loaded = result.loaded
  OBVIOUS
<1>8. /\ IsSeq(loaded)
      /\ \A i \in DOMAIN loaded : Entry(loaded[i], files)
      /\ \A f \in files : Verdict(f) = "loads" => f.stem \in NamesIn(loaded)
  BY <1>4, <1>7 DEF Tried, NamesIn
<1>9. PICK new : new = Keep(found, loaded)
  OBVIOUS
<1>10. /\ DOMAIN new = DOMAIN found \cup NamesIn(loaded)
       /\ \A name \in DOMAIN found : new[name] = found[name]
       /\ \A name \in NamesIn(loaded) \ DOMAIN found :
            \E i \in DOMAIN loaded : new[name] = loaded[i] /\ loaded[i].name = name
  <2>1. IsSeq(loaded)
    BY <1>8
  <2>2. FirstKept(found, loaded, new)
    BY <2>1, <1>9, KeepFacts
  <2>3. QED
    BY <2>2 DEF FirstKept
<1>11. \A f \in Files : f.location \in Nat /\ (f.location <= n <=> f.location <= n - 1 \/ f.location = n)
  BY WorkloadsAssumption DEF File
<1>12. ASSUME NEW name \in DOMAIN found
       PROVE  IsFirst(VisibleUpTo(n, name), new[name].file)
  <2>1. IsFirst(VisibleUpTo(n - 1, name), new[name].file)
    BY <1>2, <1>10, <1>12 DEF FoundOK
  <2>2. new[name].file \in Files /\ new[name].file.location < n
    BY <1>11, <2>1 DEF IsFirst, VisibleUpTo
  <2>3. \A f \in VisibleUpTo(n, name) : f \in VisibleUpTo(n - 1, name) \/ f.location = n
    BY <1>11 DEF VisibleUpTo
  <2>4. new[name].file \in VisibleUpTo(n, name)
    BY <1>11, <2>1 DEF IsFirst, VisibleUpTo
  <2>5. QED
    BY <2>1, <2>2, <2>3, <2>4 DEF IsFirst, Before
<1>13. ASSUME NEW name, name \notin DOMAIN found
       PROVE  VisibleUpTo(n - 1, name) = {} /\ \A f \in VisibleUpTo(n, name) : f.location = n
  <2>1. VisibleUpTo(n - 1, name) = {}
    BY <1>2, <1>13 DEF FoundOK
  <2>2. QED
    BY <1>11, <2>1 DEF VisibleUpTo
<1>14. ASSUME NEW name \in NamesIn(loaded) \ DOMAIN found
       PROVE  IsFirst(VisibleUpTo(n, name), new[name].file)
  <2>1. PICK d \in files : d = new[name].file /\ d.stem = name /\ Verdict(d) = "loads"
    BY <1>8, <1>10 DEF Entry
  <2>2. d \in Discovered(n) /\ d \in Files /\ d.location = n /\ n \in Nat \ {0}
    BY WorkloadsAssumption DEF files, Discovered
  <2>3. /\ Visible(d)
        /\ \A f \in Files : f.location = n /\ f.stem = name /\ Visible(f) /\ f # d => Ahead(d, f)
    BY <2>1, <2>2, FirstIsVisible
  <2>4. d \in VisibleUpTo(n, name)
    BY <1>11, <2>1, <2>2, <2>3 DEF VisibleUpTo
  <2>5. \A f \in VisibleUpTo(n, name) \ {d} : Before(d, f)
    BY <1>13, <2>2, <2>3 DEF VisibleUpTo, Before
  <2>6. QED
    BY <2>1, <2>4, <2>5 DEF IsFirst
<1>15. ASSUME NEW name, name \notin DOMAIN new PROVE VisibleUpTo(n, name) = {}
  <2> SUFFICES ASSUME NEW f \in VisibleUpTo(n, name) PROVE FALSE
    OBVIOUS
  <2>1. name \notin DOMAIN found /\ name \notin NamesIn(loaded)
    BY <1>10, <1>15
  <2>2. f \in Files /\ f.stem = name /\ f.location = n /\ Visible(f)
    BY <1>13, <2>1 DEF VisibleUpTo
  <2>3. PICK d \in Discovered(n) : d.stem = name /\ Verdict(d) = "loads"
    BY <2>2, VisibleIsFound
  <2>4. d \in files
    BY <1>2, <2>1, <2>3 DEF files
  <2>5. QED
    BY <1>8, <2>1, <2>3, <2>4
<1>16. FoundOK(new, n)
  BY <1>10, <1>12, <1>14, <1>15 DEF FoundOK
<1>17. QED
  BY <1>6, <1>7, <1>9, <1>16

-----------------------------------------------------------------------------
(* A whole discovery.                                                      *)
Start == [raised |-> FALSE, bytecode |-> cache, found |-> NoDefinitions]

AfterOf(n, W) == IF n = 0 THEN Start ELSE DiscoverInLocation(W[n - 1], n)

AfterUpTo(m, W) == [n \in 0..m |-> AfterOf(n, W)]

LEMMA AfterExists == \A m \in Nat : \E W : W = AfterUpTo(m, W)
<1> DEFINE T == {m \in Nat : \E W : W = AfterUpTo(m, W)}
<1>1. 0 \in T
  <2> DEFINE W == [n \in 0..0 |-> Start]
  <2>1. \A n \in 0..0 : AfterOf(n, W) = Start
    BY DEF AfterOf
  <2>2. W = AfterUpTo(0, W)
    BY <2>1 DEF AfterUpTo
  <2>3. QED
    BY <2>2
<1>2. ASSUME NEW m \in Nat, m \in T PROVE m + 1 \in T
  <2>1. PICK W : W = AfterUpTo(m, W)
    BY <1>2
  <2> DEFINE V == AfterUpTo(m + 1, W)
  <2>2. \A n \in 0..m : V[n] = W[n]
    <3>1. \A n \in 0..m : W[n] = AfterOf(n, W)
      BY <2>1, Zenon DEF AfterUpTo
    <3>2. \A n \in 0..(m + 1) : V[n] = AfterOf(n, W)
      BY DEF AfterUpTo
    <3>3. QED
      BY <3>1, <3>2
  <2>3. \A n \in 0..(m + 1) : AfterOf(n, V) = AfterOf(n, W)
    <3> SUFFICES ASSUME NEW n \in 0..(m + 1)
                 PROVE  AfterOf(n, V) = AfterOf(n, W)
      OBVIOUS
    <3>1. CASE n = 0
      BY <3>1 DEF AfterOf
    <3>2. CASE n # 0
      <4>1. n - 1 \in 0..m
        BY <3>2
      <4>2. V[n - 1] = W[n - 1]
        BY <2>2, <4>1
      <4> HIDE DEF V
      <4>3. QED
        BY <3>2, <4>2 DEF AfterOf
    <3>3. QED
      BY <3>1, <3>2
  <2>4. V = AfterUpTo(m + 1, V)
    <3> HIDE DEF V
    <3>1. AfterUpTo(m + 1, V) = AfterUpTo(m + 1, W)
      BY <2>3 DEF AfterUpTo
    <3>2. QED
      BY <3>1 DEF V
  <2>5. QED
    BY <2>4
<1>3. \A m \in Nat : m \in T
  <2> HIDE DEF T
  <2> QED
    BY <1>1, <1>2, SetInduction
<1>4. QED
  BY <1>3

LEMMA DiscoveryFacts ==
  ASSUME DiskOK, Tidy
  PROVE  FoundOK(DiscoverDefinitions.found, Locations)
<1>0. Locations \in Nat /\ \A f \in Files : f.location \in Nat
  BY WorkloadsAssumption DEF File
<1>1. PICK W : W = AfterUpTo(Locations, W) /\ DiscoverDefinitions = W[Locations]
  <2>1. DiscoverDefinitions = (CHOOSE W : W = AfterUpTo(Locations, W))[Locations]
    BY DEF DiscoverDefinitions, AfterUpTo, AfterOf, Start
  <2>2. QED
    BY <1>0, <2>1, AfterExists
<1>2. \A n \in 0..Locations : W[n] = AfterOf(n, W)
  BY <1>1, Zenon DEF AfterUpTo
<1> DEFINE Good(n) == W[n].raised = FALSE /\ FoundOK(W[n].found, n)
           T == {n \in Nat : n <= Locations => Good(n)}
<1>3. 0 \in T
  <2>1. W[0] = Start
    BY <1>0, <1>2 DEF AfterOf
  <2>2. Start.raised = FALSE /\ Start.found = NoDefinitions /\ DOMAIN NoDefinitions = {}
    BY DEF Start, NoDefinitions
  <2>3. \A name : VisibleUpTo(0, name) = {}
    BY <1>0 DEF VisibleUpTo, Visible
  <2>4. FoundOK(Start.found, 0)
    BY <2>2, <2>3 DEF FoundOK
  <2>5. QED
    BY <2>1, <2>2, <2>4
<1>4. ASSUME NEW n \in Nat, n \in T PROVE n + 1 \in T
  <2> HIDE DEF Good
  <2> SUFFICES ASSUME n + 1 <= Locations
               PROVE  Good(n + 1)
    OBVIOUS
  <2>1. n + 1 \in 1..Locations /\ n + 1 \in 0..Locations /\ n + 1 # 0 /\ (n + 1) - 1 = n
    BY <1>0
  <2>2. W[n].raised = FALSE /\ FoundOK(W[n].found, n)
    BY <1>0, <1>4 DEF Good
  <2>3. W[n + 1] = DiscoverInLocation(W[n], n + 1)
    BY <1>2, <2>1 DEF AfterOf
  <2>4. QED
    BY <2>1, <2>2, <2>3, LocationStep DEF Good
<1>5. \A n \in Nat : n \in T
  <2> HIDE DEF T
  <2> QED
    BY <1>3, <1>4, SetInduction
<1>6. QED
  BY <1>0, <1>1, <1>5

-----------------------------------------------------------------------------
(* The invariant of the manager.                                           *)
AllVisible(name) == {f \in Files : f.stem = name /\ Visible(f)}

DiscoveryInv ==
  /\ DiskOK /\ edits \in Nat
  /\ edits = 0 /\ Tidy =>
       /\ \A name \in DOMAIN definitions : IsFirst(AllVisible(name), definitions[name].file)
       /\ known = disk => \A name : name \notin DOMAIN definitions => AllVisible(name) = {}

LEMMA DiscoveryStarts == ManagerInit => DiscoveryInv
<1> SUFFICES ASSUME ManagerInit PROVE DiscoveryInv
  OBVIOUS
<1>1. DiskOK /\ edits \in Nat
  BY DisksHoldContents DEF ManagerInit, DiskOK
<1>2. DOMAIN definitions = {} /\ known = << >>
  BY DEF ManagerInit, NoDefinitions
<1>3. known = disk => Files = {}
  BY <1>1, <1>2 DEF DiskOK
<1>4. QED
  BY <1>1, <1>2, <1>3 DEF DiscoveryInv, AllVisible

LEMMA SameDisk ==
  ASSUME disk' = disk
  PROVE  /\ DiskOK' <=> DiskOK
         /\ Tidy' <=> Tidy
         /\ \A name : AllVisible(name)' = AllVisible(name)
BY DEF DiskOK, Tidy, AllVisible, Visible, Hidden, Verdict, YamlVerdict,
   ReferencesResolve, References, MayBeReferred

LEMMA DiscoveryStep == DiscoveryInv /\ [ManagerNext]_managerVars => DiscoveryInv'
<1> SUFFICES ASSUME DiscoveryInv, [ManagerNext]_managerVars PROVE DiscoveryInv'
  OBVIOUS
<1>0. DiskOK /\ edits \in Nat
  BY DEF DiscoveryInv
<1>1. CASE Edit
  <2>1. PICK f \in Files : \E c \in Contents[f] : disk' = [disk EXCEPT ![f] = c]
    BY <1>1 DEF Edit
  <2>2. DiskOK'
    BY <1>0, <2>1 DEF DiskOK
  <2>3. edits' \in Nat /\ edits' # 0
    BY <1>0, <1>1 DEF Edit
  <2>4. QED
    BY <2>2, <2>3 DEF DiscoveryInv
<1>2. ASSUME disk' = disk, edits' = edits, definitions' = definitions, known' = known
      PROVE  DiscoveryInv'
  BY <1>2, SameDisk DEF DiscoveryInv, IsFirst
<1>3. CASE LoadByName
  <2>1. CASE IsCached
    BY <1>2, <1>3, <2>1 DEF LoadByName, Turn
  <2>2. CASE ~IsCached
    <3>1. /\ disk' = disk /\ edits' = edits /\ known' = disk
          /\ definitions' = Updated(DiscoverDefinitions.found)
      BY <1>3, <2>2 DEF LoadByName, Turn
    <3>2. PICK found : found = DiscoverDefinitions.found
      OBVIOUS
    <3>3. /\ DOMAIN definitions' = DOMAIN found \cup DOMAIN definitions
          /\ \A name \in DOMAIN definitions' :
               definitions'[name] = IF name \in DOMAIN found THEN found[name] ELSE definitions[name]
      BY <3>1, <3>2 DEF Updated
    <3>4. DiskOK' /\ edits' \in Nat /\ (Tidy' <=> Tidy) /\ \A name : AllVisible(name)' = AllVisible(name)
      BY <1>0, <3>1, SameDisk
    <3>5. ASSUME edits = 0, Tidy
          PROVE  /\ \A name \in DOMAIN definitions' : IsFirst(AllVisible(name), definitions'[name].file)
                 /\ \A name : name \notin DOMAIN definitions' => AllVisible(name) = {}
      <4>1. \A name : VisibleUpTo(Locations, name) = AllVisible(name)
        BY WorkloadsAssumption DEF File, VisibleUpTo, AllVisible
      <4>2. \A name : IF name \in DOMAIN found THEN IsFirst(AllVisible(name), found[name].file)
                      ELSE AllVisible(name) = {}
        BY <1>0, <3>2, <3>5, <4>1, DiscoveryFacts DEF FoundOK
      <4>3. \A name \in DOMAIN definitions : IsFirst(AllVisible(name), definitions[name].file)
        BY <3>5 DEF DiscoveryInv
      <4>4. QED
        BY <3>3, <4>2, <4>3
    <3>6. QED
      BY <3>1, <3>4, <3>5 DEF DiscoveryInv, IsFirst
  <2>3. QED
    BY <2>1, <2>2
<1>4. CASE LoadFromPath
  BY <1>2, <1>4 DEF LoadFromPath, Turn
<1>5. CASE LoadFromUrl
  BY <1>2, <1>5 DEF LoadFromUrl, Turn
<1>6. CASE UNCHANGED managerVars
  BY <1>2, <1>6 DEF managerVars
<1>7. QED
  BY <1>1, <1>3, <1>4, <1>5, <1>6 DEF ManagerNext

(* As long as nothing was edited and the files are tidy, every            *)
(* definition is the first visible file of its name; and names without a  *)
(* definition have no visible file once the files have been searched.     *)
THEOREM DiscoveryInvariant == ManagerSpec => []DiscoveryInv
BY DiscoveryStarts, DiscoveryStep, PTL DEF ManagerSpec

(* Discovery finds, for every set of files, locations and names, the file  *)
(* of the first location that loads, and there the one in the first       *)
(* directory and of the first format in it.                               *)
THEOREM DiscoveryTheorem == ManagerSpec => []DiscoveryFindsTheFirst
<1>1. DiscoveryInv => DiscoveryFindsTheFirst
  <2> SUFFICES ASSUME DiscoveryInv, known = disk, edits = 0, Tidy, NEW n \in {f.stem : f \in Files}
               PROVE  LET visible == {f \in Candidates(n) : ~Hidden(f)}
                      IN  IF n \in DOMAIN definitions
                            THEN /\ definitions[n].file \in visible
                                 /\ \A f \in visible \ {definitions[n].file} : Before(definitions[n].file, f)
                            ELSE visible = {}
    BY DEF DiscoveryFindsTheFirst
  <2>1. {f \in Candidates(n) : ~Hidden(f)} = AllVisible(n)
    BY DEF Candidates, AllVisible, Visible
  <2>2. IF n \in DOMAIN definitions THEN IsFirst(AllVisible(n), definitions[n].file) ELSE AllVisible(n) = {}
    BY DEF DiscoveryInv
  <2>3. QED
    BY <2>1, <2>2 DEF IsFirst
<1>2. QED
  BY <1>1, DiscoveryInvariant, PTL

(* In every state a YAML file is an agent exactly when every chain of      *)
(* references from it ends within MaxRefDepth levels, whatever the files   *)
(* and the references between them.                                        *)
THEOREM ReferencesTheorem == ManagerSpec => []ReferencesAreFinite
<1>1. DiscoveryInv => ReferencesAreFinite
  BY ReferencesAreChains DEF DiscoveryInv
<1>2. QED
  BY <1>1, DiscoveryInvariant, PTL

-----------------------------------------------------------------------------
(* What the turns get. The cache of bytecode stays a list, and a file that *)
(* was compiled is behind its own text in it.                              *)
LEMMA CompiledIsOwn ==
  ASSUME NEW b, IsSeq(b), NEW f
  PROVE  /\ IsSeq(Compiled(b, f))
         /\ disk[f].kind = "loads" => CodeOf(b, f) = disk[f].text
<1> DEFINE text == disk[f].text
           hit == CHOOSE i \in DOMAIN b : b[i].text = text
           kept == IF Len(b) < MaxCached THEN b ELSE Tail(b)
           entry == [text |-> text, file |-> f]
<1>0. PICK E : b \in Seq(E)
  BY DEF IsSeq
<1> DEFINE D == E \cup {entry}
<1>1. MaxCached \in Nat \ {0}
  BY WorkloadsAssumption
<1>2. Cached(b, f) = IF Hit(b, f)
                       THEN Append(RemoveAt(b, hit), b[hit])
                       ELSE Append(kept, entry)
  BY DEF Cached
<1>3. \E s \in Seq(D), e \in D : Cached(b, f) = Append(s, e) /\ e.text = text
  <2>1. CASE Hit(b, f)
    <3>1. hit \in DOMAIN b /\ b[hit].text = text
      BY <2>1 DEF Hit
    <3>2. b[hit] \in E /\ hit \in 1..Len(b) /\ Len(b) \in Nat
      BY <1>0, <3>1
    <3>3. RemoveAt(b, hit) = SubSeq(b, 1, hit - 1) \o SubSeq(b, hit + 1, Len(b))
      BY DEF RemoveAt
    <3> HIDE DEF hit
    <3>4. SubSeq(b, 1, hit - 1) \in Seq(E) /\ SubSeq(b, hit + 1, Len(b)) \in Seq(E)
      BY <1>0, <3>2
    <3>5. RemoveAt(b, hit) \in Seq(E)
      BY <3>3, <3>4
    <3>6. Seq(E) \subseteq Seq(D)
      OBVIOUS
    <3> HIDE DEF D
    <3>7. QED
      BY <1>2, <2>1, <3>1, <3>2, <3>5, <3>6 DEF D
  <2>2. CASE ~Hit(b, f)
    <3>1. kept \in Seq(D)
      <4>1. b \in Seq(D)
        BY <1>0
      <4>2. CASE Len(b) < MaxCached
        BY <4>1, <4>2
      <4>3. CASE ~(Len(b) < MaxCached)
        <5>1. b # << >>
          BY <1>1, <4>3
        <5> HIDE DEF D
        <5>2. Tail(b) \in Seq(D)
          BY <4>1, <5>1
        <5>3. QED
          BY <4>3, <5>2
      <4>4. QED
        BY <4>2, <4>3
    <3>2. entry \in D /\ entry.text = text
      OBVIOUS
    <3> HIDE DEF kept, entry, D
    <3>3. QED
      BY <1>2, <2>2, <3>1, <3>2
  <2>3. QED
    BY <2>1, <2>2
<1> HIDE DEF D
<1>4. PICK s \in Seq(D), e \in D : Cached(b, f) = Append(s, e) /\ e.text = text
  BY <1>3
<1>5. Append(s, e) \in Seq(D) /\ Last(Append(s, e)) = e
  <2>1. Append(s, e) \in Seq(D) /\ Append(s, e)[Len(Append(s, e))] = e
    OBVIOUS
  <2>2. QED
    BY <2>1 DEF Last
<1>6. IsSeq(Compiled(b, f))
  BY <1>0, <1>4, <1>5 DEF Compiled, IsSeq
<1>7. ASSUME disk[f].kind = "loads" PROVE CodeOf(b, f) = disk[f].text
  BY <1>4, <1>5, <1>7 DEF CodeOf, Compiled
<1>8. QED
  BY <1>6, <1>7

(* So is the cache that discovery leaves.                                  *)
LEMMA TriedBytecode ==
  ASSUME NEW b, IsSeq(b), NEW files, Gathered(files)
  PROVE  IsSeq(TryAll(files, b).bytecode)
<1>0. IsFiniteSet(files) /\ Cardinality(files) \in Nat /\ files \in SUBSET Files
      /\ \A f, g \in files : f.location = g.location
  BY WorkloadsAssumption, FS_Subset, FS_CardinalityType DEF Gathered
<1>1. PICK g : g = TryBody(b, SUBSET files, g) /\ TryAll(files, b) = g[files]
  <2>1. TryAll(files, b) = (CHOOSE g : g = TryBody(b, SUBSET files, g))[files]
    BY DEF TryAll, MapThenFoldSet, TryBody, TriedOf, NothingTried
  <2>2. QED
    BY <2>1, TriesExist
<1>2. \A s \in SUBSET files : g[s] = TriedOf(b, s, g)
  BY <1>1, Zenon DEF TryBody
<1> DEFINE T == {n \in Nat : \A s \in Small(files, n) : IsSeq(g[s].bytecode)}
<1>3. 0 \in T
  <2>1. g[{}] = NothingTried(b) /\ Small(files, 0) = {{}}
    BY <1>0, <1>2, SmallSets DEF TriedOf
  <2>2. NothingTried(b).bytecode = b
    BY DEF NothingTried
  <2>3. QED
    BY <2>1, <2>2
<1>4. ASSUME NEW n \in Nat, n \in T PROVE n + 1 \in T
  <2> SUFFICES ASSUME NEW s \in Small(files, n + 1)
               PROVE  IsSeq(g[s].bytecode)
    OBVIOUS
  <2>0. s \in SUBSET files
    BY DEF Small
  <2>1. CASE s = {}
    BY <1>0, <1>3, <2>1, SmallSets
  <2>2. CASE s # {}
    <3>1. PICK x \in s : x = LastOf(s)
      BY <1>0, <2>0, <2>2, LastExists DEF Gathered
    <3>2. PICK acc : acc = g[s \ {x}] /\ IsSeq(acc.bytecode)
      BY <1>0, <1>4, SmallSets
    <3>3. g[s] = TryLoad(acc, x)
      BY <1>2, <2>0, <2>2, <3>1, <3>2 DEF TriedOf
    <3>4. TryLoad(acc, x) = acc \/ TryLoad(acc, x).bytecode = Compiled(acc.bytecode, x)
      BY DEF TryLoad
    <3>5. QED
      BY <3>2, <3>3, <3>4, CompiledIsOwn
  <2>3. QED
    BY <2>1, <2>2
<1>5. \A n \in Nat : n \in T
  <2> HIDE DEF T
  <2> QED
    BY <1>3, <1>4, SetInduction
<1>6. files \in Small(files, Cardinality(files))
  BY <1>0, SmallSets
<1>7. QED
  BY <1>0, <1>1, <1>5, <1>6

LEMMA DiscoveredBytecode ==
  ASSUME IsSeq(cache)
  PROVE  IsSeq(DiscoverDefinitions.bytecode)
<1>0. Locations \in Nat
  BY WorkloadsAssumption
<1>1. PICK W : W = AfterUpTo(Locations, W) /\ DiscoverDefinitions = W[Locations]
  <2>1. DiscoverDefinitions = (CHOOSE W : W = AfterUpTo(Locations, W))[Locations]
    BY DEF DiscoverDefinitions, AfterUpTo, AfterOf, Start
  <2>2. QED
    BY <1>0, <2>1, AfterExists
<1>2. \A n \in 0..Locations : W[n] = AfterOf(n, W)
  BY <1>1, Zenon DEF AfterUpTo
<1> DEFINE T == {n \in Nat : n <= Locations => IsSeq(W[n].bytecode)}
<1>3. 0 \in T
  <2>1. W[0] = Start
    BY <1>0, <1>2 DEF AfterOf
  <2>2. Start.bytecode = cache
    BY DEF Start
  <2>3. QED
    BY <2>1, <2>2
<1>4. ASSUME NEW n \in Nat, n \in T PROVE n + 1 \in T
  <2> SUFFICES ASSUME n + 1 <= Locations
               PROVE  IsSeq(W[n + 1].bytecode)
    OBVIOUS
  <2>1. n + 1 \in 0..Locations /\ n + 1 # 0 /\ (n + 1) - 1 = n
    BY <1>0
  <2>2. PICK acc : acc = W[n] /\ IsSeq(acc.bytecode)
    BY <1>0, <1>4
  <2>3. W[n + 1] = DiscoverInLocation(acc, n + 1)
    BY <1>2, <2>1, <2>2 DEF AfterOf
  <2> DEFINE files == {f \in Discovered(n + 1) : f.stem \notin DOMAIN acc.found}
  <2>4. IsSeq(TryAll(files, acc.bytecode).bytecode)
    <3>1. Gathered(files)
      BY DEF Gathered, Discovered
    <3> HIDE DEF files
    <3>2. QED
      BY <2>2, <3>1, TriedBytecode
  <2>5. \/ DiscoverInLocation(acc, n + 1) = acc
        \/ DiscoverInLocation(acc, n + 1).bytecode = TryAll(files, acc.bytecode).bytecode
    BY DEF DiscoverInLocation
  <2> HIDE DEF files
  <2>6. QED
    BY <2>2, <2>3, <2>4, <2>5
<1>5. \A n \in Nat : n \in T
  <2> HIDE DEF T
  <2> QED
    BY <1>3, <1>4, SetInduction
<1>6. QED
  BY <1>0, <1>1, <1>5

(* What the first turn by name got is what the manager keeps for the name. *)
ManagerInv ==
  /\ begun # NoAnswer =>
       /\ identifier.by = "name" /\ IsCached
       /\ begun = [result |-> "workload", definition |-> definitions[AskedName]]
  /\ IsSeq(cache)
  /\ turns \in Nat

(* A turn by name serves what the manager keeps, and a name the manager    *)
(* knows keeps its definition.                                             *)
LEMMA ByNameStep ==
  ASSUME LoadByName, IsSeq(cache)
  PROVE  /\ identifier.by = "name" /\ identifier' = identifier /\ AskedName' = AskedName
         /\ IsCached => /\ definitions' = definitions
                        /\ answer' = [result |-> "workload", definition |-> definitions[AskedName]]
         /\ answer'.result = "workload" =>
              /\ AskedName \in DOMAIN definitions'
              /\ answer' = [result |-> "workload", definition |-> definitions'[AskedName]]
         /\ IsSeq(cache')
<1> DEFINE own == AskedName
<1>1. identifier' = identifier /\ identifier.by = "name"
  BY DEF LoadByName, Turn
<1>2. AskedName' = own
  BY <1>1 DEF AskedName
<1>3. CASE IsCached
  <2>1. /\ definitions' = definitions /\ cache' = cache /\ own \in DOMAIN definitions
        /\ Serves(definitions[own])
    BY <1>3 DEF LoadByName, IsCached
  <2> HIDE DEF own
  <2>2. answer' = [result |-> "workload", definition |-> definitions[own]]
    BY <2>1 DEF Serves
  <2>3. QED
    BY <1>1, <1>2, <2>1, <2>2 DEF own
<1>4. CASE ~IsCached
  <2>1. \/ answer' = [result |-> "raised"] \/ answer' = [result |-> "missing"]
        \/ own \in DOMAIN definitions' /\ Serves(definitions'[own])
    BY <1>4, Zenon DEF LoadByName, Answers
  <2>2. cache' = DiscoverDefinitions.bytecode
    BY <1>4 DEF LoadByName
  <2>3. IsSeq(cache')
    BY <2>2, DiscoveredBytecode
  <2> HIDE DEF own
  <2>4. answer'.result = "workload" =>
          /\ own \in DOMAIN definitions'
          /\ answer' = [result |-> "workload", definition |-> definitions'[own]]
    BY <2>1 DEF Serves
  <2>5. QED
    BY <1>1, <1>2, <1>4, <2>3, <2>4 DEF own
<1>5. QED
  BY <1>3, <1>4

LEMMA ManagerStep ==
  ASSUME ManagerInv, [ManagerNext]_managerVars
  PROVE  ManagerInv'
<1>1. ASSUME UNCHANGED <<identifier, definitions, begun>>, IsSeq(cache'), turns' \in Nat
      PROVE  ManagerInv'
  <2>1. AskedName' = AskedName /\ (IsCached' <=> IsCached)
    BY <1>1 DEF AskedName, IsCached
  <2> USE DEF ManagerInv
  <2>2. QED
    BY <1>1, <2>1 DEF NoAnswer
<1>2. Turn => identifier' = identifier /\ turns' \in Nat
  BY DEF Turn, ManagerInv
<1>3. CASE LoadByName
  <2>0. IsSeq(cache) /\ turns' \in Nat
    BY <1>2, <1>3 DEF LoadByName, ManagerInv
  <2>1. /\ identifier.by = "name" /\ identifier' = identifier /\ AskedName' = AskedName
        /\ IsCached => definitions' = definitions
        /\ answer'.result = "workload" =>
             /\ AskedName \in DOMAIN definitions'
             /\ answer' = [result |-> "workload", definition |-> definitions'[AskedName]]
        /\ IsSeq(cache')
    BY <1>3, <2>0, ByNameStep
  <2>2. begun' = IF begun = NoAnswer /\ answer'.result = "workload" THEN answer' ELSE begun
    BY <1>3 DEF LoadByName
  <2>3. PICK name : name = AskedName
    OBVIOUS
  <2>4. begun' # NoAnswer =>
          name \in DOMAIN definitions' /\ begun' = [result |-> "workload", definition |-> definitions'[name]]
    <3>1. CASE begun = NoAnswer /\ answer'.result = "workload"
      BY <2>1, <2>2, <2>3, <3>1
    <3>2. CASE begun = NoAnswer /\ answer'.result # "workload"
      BY <2>2, <3>2
    <3>3. CASE begun # NoAnswer
      <4>1. /\ begun' = begun /\ IsCached
            /\ begun = [result |-> "workload", definition |-> definitions[name]]
        BY <2>2, <2>3, <3>3 DEF ManagerInv
      <4>2. definitions' = definitions /\ name \in DOMAIN definitions
        BY <2>1, <2>3, <4>1 DEF IsCached
      <4>3. QED
        BY <4>1, <4>2
    <3>4. QED
      BY <3>1, <3>2, <3>3
  <2>5. AskedName' = name /\ (NoAnswer)' = NoAnswer
    BY <2>1, <2>3 DEF NoAnswer
  <2>6. QED
    BY <2>0, <2>1, <2>4, <2>5 DEF ManagerInv, IsCached
<1>4. CASE LoadFromPath
  <2>1. /\ Turn /\ UNCHANGED <<definitions, begun>>
        /\ cache' = cache \/ cache' = Compiled(cache, identifier.file)
    BY <1>4 DEF LoadFromPath
  <2>2. IsSeq(cache')
    BY <2>1, CompiledIsOwn DEF ManagerInv
  <2>3. QED
    BY <1>1, <1>2, <2>1, <2>2
<1>5. CASE LoadFromUrl
  <2>1. Turn /\ UNCHANGED <<definitions, begun, cache>>
    BY <1>5 DEF LoadFromUrl
  <2>2. QED
    BY <1>1, <1>2, <2>1 DEF ManagerInv
<1>6. CASE Edit \/ UNCHANGED managerVars
  <2>1. UNCHANGED <<identifier, definitions, cache, begun, turns>>
    BY <1>6 DEF Edit, managerVars
  <2>2. QED
    BY <1>1, <2>1 DEF ManagerInv
<1>7. QED
  BY <1>3, <1>4, <1>5, <1>6 DEF ManagerNext

LEMMA ManagerAlways == ManagerSpec => []ManagerInv
<1>1. ManagerInit => ManagerInv
  <2>1. << >> \in Seq({})
    OBVIOUS
  <2>2. QED
    BY <2>1 DEF ManagerInit, ManagerInv, IsSeq
<1>2. ManagerInv /\ [ManagerNext]_managerVars => ManagerInv'
  BY ManagerStep
<1>3. QED
  BY <1>1, <1>2, PTL DEF ManagerSpec

(* A conversation with a named agent gets the definition it began with in  *)
(* every later turn whose name does not lead to a file: no edit of the     *)
(* files, however many turns later, replaces it.                           *)
THEOREM ConversationsKeepTheirs ==
  ManagerSpec => ConversationKeepsItsDefinition
<1>1. ManagerInv /\ [ManagerNext]_managerVars =>
        [turns' > turns /\ identifier.by = "name" /\ begun # NoAnswer /\ ~IsFilePath =>
           answer' = begun]_managerVars
  <2> SUFFICES ASSUME ManagerInv, ManagerNext, turns' > turns,
                      identifier.by = "name", begun # NoAnswer, ~IsFilePath
               PROVE  answer' = begun
    BY DEF managerVars
  <2>1. LoadByName
    <3>1. ~LoadFromPath /\ ~LoadFromUrl
      BY DEF LoadFromPath, LoadFromUrl
    <3>2. ~Edit
      BY DEF Edit, ManagerInv
    <3>3. QED
      BY <3>1, <3>2 DEF ManagerNext
  <2>2. IsCached /\ begun = [result |-> "workload", definition |-> definitions[AskedName]]
    BY DEF ManagerInv
  <2>3. QED
    BY <2>1, <2>2, ByNameStep DEF ManagerInv
<1>2. QED
  BY <1>1, ManagerAlways, PTL DEF ManagerSpec, ConversationKeepsItsDefinition

(* An agent given by its path, or by a name that leads to a file, runs the *)
(* text in the file as it is at the turn, although its bytecode may come   *)
(* from the cache, whatever its size.                                      *)
THEOREM PathsRunTheirText == ManagerSpec => PathRunsTheTextOnDisk
<1>1. ManagerInv /\ [ManagerNext]_managerVars =>
        [IsFilePath /\ turns' > turns /\ answer'.result = "workload" =>
           answer'.definition.text = disk[identifier.file].text]_managerVars
  <2> SUFFICES ASSUME ManagerInv, ManagerNext, IsFilePath,
                      turns' > turns, answer'.result = "workload"
               PROVE  answer'.definition.text = disk[identifier.file].text
    BY DEF managerVars
  <2> DEFINE f == identifier.file
  <2>1. LoadFromPath
    <3>1. ~LoadByName /\ ~LoadFromUrl
      BY DEF LoadByName, LoadFromUrl, IsFilePath
    <3>2. ~Edit
      BY DEF Edit, ManagerInv
    <3>3. QED
      BY <3>1, <3>2 DEF ManagerNext
  <2>2. /\ Verdict(f) = "loads"
        /\ answer'.definition = Loaded(f, CodeOf(cache, f))
    <3>1. \/ answer' = [result |-> "missing"]
          \/ Verdict(f) = "loads" /\ Serves(Loaded(f, CodeOf(cache, f)))
          \/ answer' = [result |-> "raised"]
      BY <2>1, Zenon DEF LoadFromPath, Answers
    <3>2. answer' # [result |-> "missing"] /\ answer' # [result |-> "raised"]
      OBVIOUS
    <3>3. Verdict(f) = "loads" /\ Serves(Loaded(f, CodeOf(cache, f)))
      BY <3>1, <3>2, Zenon
    <3> HIDE DEF f
    <3>4. QED
      BY <3>3 DEF Serves
  <2>3. disk[f].kind = "loads"
    BY <2>2 DEF Verdict, YamlVerdict
  <2>4. CodeOf(cache, f) = disk[f].text
    BY <2>3, CompiledIsOwn DEF ManagerInv
  <2>5. QED
    BY <2>2, <2>4 DEF Loaded
<1>2. QED
  BY <1>1, ManagerAlways, PTL DEF ManagerSpec, PathRunsTheTextOnDisk

-----------------------------------------------------------------------------
(* The search of circles. Agents that are visited and no longer on the     *)
(* path are finished: what they refer to is finished too, and none of them *)
(* is on a circle.                                                         *)
DoneAgents(seen, path) == seen \ ToSet(path)

(* Each agent of the path refers to the next, and none comes twice.        *)
IsPath(graph, path) ==
  /\ \A i \in 1..(Len(path) - 1) : path[i + 1] \in Refers(graph, path[i])
  /\ \A i, k \in 1..Len(path) : path[i] = path[k] => i = k

(* What a call no longer has left is finished, or the next agent's call is *)
(* in progress.                                                            *)
LeftToFollow(graph, seen, path, left) ==
  \A i \in 1..Len(path) : \A g \in Refers(graph, path[i]) \cap DOMAIN graph :
    g \in left[i] \/ g \in DoneAgents(seen, path) \/ (i < Len(path) /\ g = path[i + 1])

NoCircleIn(graph, done) ==
  /\ \A g \in done : Refers(graph, g) \cap DOMAIN graph \subseteq done
  /\ \A circle \in (SUBSET done) \ {{}} : ~IsCircle(graph, circle)

Referred(graph) == UNION {Refers(graph, g) : g \in DOMAIN graph}

SearchState(graph, seen, path, left) ==
  /\ seen \subseteq DOMAIN graph
  /\ path \in Seq(seen) /\ left \in Seq(SUBSET Referred(graph)) /\ Len(left) = Len(path)
  /\ IsPath(graph, path)
  /\ LeftToFollow(graph, seen, path, left)
  /\ NoCircleIn(graph, DoneAgents(seen, path))

(* The first and the last element of a path, and what is left without it.  *)
LEMMA EndOfPath ==
  ASSUME NEW T, NEW s \in Seq(T), s # << >>
  PROVE  /\ Len(s) \in Nat \ {0} /\ Last(s) = s[Len(s)] /\ Last(s) \in T
         /\ Front(s) \in Seq(T) /\ Len(Front(s)) = Len(s) - 1
         /\ \A i \in 1..(Len(s) - 1) : Front(s)[i] = s[i]
         /\ \A e \in T : Len(Append(Front(s), e)) = Len(s)
         /\ \A e \in T : Append(Front(s), e)[Len(s)] = e
         /\ \A e \in T : \A i \in 1..(Len(s) - 1) : Append(Front(s), e)[i] = s[i]
         /\ \A e \in T : Append(Front(s), e) \in Seq(T)
<1>1. Len(s) \in Nat \ {0} /\ Last(s) = s[Len(s)] /\ Last(s) \in T
  BY DEF Last
<1>2. /\ Front(s) \in Seq(T) /\ Len(Front(s)) = Len(s) - 1
      /\ \A i \in 1..(Len(s) - 1) : Front(s)[i] = s[i]
  <2>1. /\ \A i \in 1..(Len(s) - 1) : s[i] \in T
        /\ 1 \in Int /\ Len(s) - 1 \in Nat
    BY <1>1
  <2>2. Front(s) = [i \in 1..(Len(s) - 1) |-> s[i]]
    BY <1>1, <2>1 DEF Front
  <2>3. QED
    BY <2>1, <2>2
<1> DEFINE f == Front(s)
<1> HIDE DEF f
<1>3. \A e \in T : /\ Append(f, e) \in Seq(T) /\ Len(Append(f, e)) = Len(f) + 1
                   /\ Append(f, e)[Len(f) + 1] = e
                   /\ \A i \in 1..Len(f) : Append(f, e)[i] = f[i]
  BY <1>2 DEF f
<1>4. QED
  BY <1>1, <1>2, <1>3 DEF f

LEMMA OnPath ==
  ASSUME NEW T, NEW s \in Seq(T)
  PROVE  /\ ToSet(s) \subseteq T
         /\ \A i \in 1..Len(s) : s[i] \in ToSet(s)
         /\ \A e \in ToSet(s) : \E i \in 1..Len(s) : s[i] = e
BY DEF ToSet

(* The search begins with nothing finished.                                *)
LEMMA SearchStateStarts ==
  ASSUME NEW graph
  PROVE  SearchState(graph, {}, << >>, << >>)
<1>1. DoneAgents({}, << >>) = {} /\ Len(<< >>) = 0
  BY DEF DoneAgents
<1>2. IsPath(graph, << >>) /\ LeftToFollow(graph, {}, << >>, << >>)
  BY <1>1 DEF IsPath, LeftToFollow
<1>3. NoCircleIn(graph, DoneAgents({}, << >>))
  BY <1>1 DEF NoCircleIn
<1>4. QED
  BY <1>2, <1>3, <1>1 DEF SearchState

(* A neighbor that is finished, or no agent, is passed over.               *)
LEMMA NeighborPassed ==
  ASSUME NEW graph, NEW seen, NEW path, NEW left, SearchState(graph, seen, path, left),
         left # << >>, NEW node \in Last(left),
         node \notin DOMAIN graph \/ node \in DoneAgents(seen, path)
  PROVE  SearchState(graph, seen, path, Append(Front(left), Last(left) \ {node}))
<1> DEFINE rest == Append(Front(left), Last(left) \ {node})
<1>1. /\ left \in Seq(SUBSET Referred(graph)) /\ path \in Seq(seen) /\ Len(left) = Len(path)
  BY DEF SearchState
<1>2. Last(left) \ {node} \in SUBSET Referred(graph)
  BY <1>1, EndOfPath, ZenonT(60)
<1>3. /\ rest \in Seq(SUBSET Referred(graph)) /\ Len(rest) = Len(left) /\ Len(left) \in Nat \ {0}
      /\ rest[Len(left)] = left[Len(left)] \ {node}
      /\ \A i \in 1..(Len(left) - 1) : rest[i] = left[i]
  BY <1>1, <1>2, EndOfPath
<1> HIDE DEF rest
<1>4. LeftToFollow(graph, seen, path, rest)
  <2> SUFFICES ASSUME NEW i \in 1..Len(path), NEW g \in Refers(graph, path[i]) \cap DOMAIN graph
               PROVE  g \in rest[i] \/ g \in DoneAgents(seen, path) \/ (i < Len(path) /\ g = path[i + 1])
    BY DEF LeftToFollow
  <2>1. g \in left[i] \/ g \in DoneAgents(seen, path) \/ (i < Len(path) /\ g = path[i + 1])
    BY DEF SearchState, LeftToFollow
  <2>2. rest[i] = left[i] \/ rest[i] = left[i] \ {node}
    BY <1>1, <1>3
  <2>3. QED
    BY <2>1, <2>2
<1>5. QED
  BY <1>1, <1>3, <1>4 DEF SearchState, rest

(* A new agent is put on the path, after an agent that refers to it.       *)
LEMMA AgentEntered ==
  ASSUME NEW graph, NEW seen, NEW path, NEW left, SearchState(graph, seen, path, left),
         NEW node \in DOMAIN graph, node \notin seen, NEW before,
         \/ path = << >> /\ before = left
         \/ /\ left # << >> /\ node \in Last(left)
            /\ Last(left) \subseteq Refers(graph, Last(path))
            /\ before = Append(Front(left), Last(left) \ {node})
  PROVE  SearchState(graph, seen \cup {node}, Append(path, node), Append(before, Refers(graph, node)))
<1> DEFINE longer == Append(path, node)
           n == Len(path)
           now == seen \cup {node}
           rest == Append(before, Refers(graph, node))
<1>1. /\ left \in Seq(SUBSET Referred(graph)) /\ path \in Seq(seen) /\ Len(left) = n /\ n \in Nat
      /\ seen \subseteq DOMAIN graph
  BY DEF SearchState
<1>2. /\ longer \in Seq(now) /\ Len(longer) = n + 1 /\ longer[n + 1] = node
      /\ \A i \in 1..n : longer[i] = path[i] /\ path[i] \in seen
  <2>1. path \in Seq(now) /\ node \in now
    BY <1>1, SeqMonotonic
  <2> HIDE DEF now
  <2>2. QED
    BY <1>1, <2>1
<1>3. Refers(graph, node) \in SUBSET Referred(graph)
  BY DEF Referred
<1>4. /\ before \in Seq(SUBSET Referred(graph)) /\ Len(before) = n
      /\ \A i \in 1..n : before[i] = left[i] \/ (i = n /\ before[i] = left[i] \ {node})
  <2>1. CASE path = << >> /\ before = left
    BY <1>1, <2>1
  <2>2. CASE left # << >> /\ before = Append(Front(left), Last(left) \ {node})
    <3>1. Last(left) \ {node} \in SUBSET Referred(graph)
      BY <1>1, <2>2, EndOfPath
    <3>2. /\ before \in Seq(SUBSET Referred(graph)) /\ Len(before) = n /\ n > 0
          /\ before[n] = left[n] \ {node} /\ \A i \in 1..(n - 1) : before[i] = left[i]
      <4>1. PICK T : T = SUBSET Referred(graph)
        OBVIOUS
      <4>2. PICK e \in T : e = Last(left) \ {node}
        BY <3>1, <4>1
      <4>3. left \in Seq(T) /\ left[n] = Last(left)
        BY <1>1, <2>2, <4>1, EndOfPath
      <4>4. /\ before \in Seq(T) /\ Len(before) = Len(left) /\ Len(left) > 0
            /\ before[Len(left)] = e /\ \A i \in 1..(Len(left) - 1) : before[i] = left[i]
        BY <2>2, <4>2, <4>3, EndOfPath, SMTT(40)
      <4>5. QED
        BY <1>1, <4>1, <4>2, <4>3, <4>4
    <3>3. \A i \in 1..n : i = n \/ i \in 1..(n - 1)
      BY <1>1
    <3>4. QED
      BY <3>2, <3>3
  <2>3. left # << >> \/ path = << >>
    BY <1>1
  <2>4. QED
    BY <2>1, <2>2
<1>5. /\ rest \in Seq(SUBSET Referred(graph)) /\ Len(rest) = n + 1
      /\ rest[n + 1] = Refers(graph, node) /\ \A i \in 1..n : rest[i] = before[i]
  BY <1>1, <1>3, <1>4
<1>6. DoneAgents(now, longer) = DoneAgents(seen, path)
  <2>1. ToSet(longer) = ToSet(path) \cup {node}
    BY <1>1, <1>2 DEF ToSet
  <2>2. QED
    BY <2>1 DEF DoneAgents
<1>7. n # 0 => node \in Refers(graph, path[n])
  <2> SUFFICES ASSUME n # 0 PROVE node \in Refers(graph, path[n])
    OBVIOUS
  <2>1. path # << >> /\ left # << >>
    BY <1>1
  <2>2. Last(path) = path[n] /\ Last(left) \subseteq Refers(graph, Last(path)) /\ node \in Last(left)
    BY <1>1, <2>1, EndOfPath
  <2>3. QED
    BY <2>2
<1> HIDE DEF longer, rest, now, n
<1>8. IsPath(graph, longer)
  <2>1. \A i \in 1..n : longer[i + 1] \in Refers(graph, longer[i])
    <3> SUFFICES ASSUME NEW i \in 1..n PROVE longer[i + 1] \in Refers(graph, longer[i])
      OBVIOUS
    <3>1. CASE i = n
      BY <1>1, <1>2, <1>7, <3>1
    <3>2. CASE i # n
      <4>1. i \in 1..(Len(path) - 1) /\ i + 1 \in 1..n
        BY <1>1, <3>2 DEF n
      <4>2. path[i + 1] \in Refers(graph, path[i])
        BY <4>1 DEF SearchState, IsPath
      <4>3. QED
        BY <1>2, <4>1, <4>2
    <3>3. QED
      BY <3>1, <3>2
  <2>2. \A i, k \in 1..(n + 1) : longer[i] = longer[k] => i = k
    <3>1. \A i, k \in 1..n : path[i] = path[k] => i = k
      BY DEF SearchState, IsPath, n
    <3>2. \A i \in 1..n : longer[i] # node
      BY <1>2
    <3>3. QED
      BY <1>1, <1>2, <3>1, <3>2
  <2>3. QED
    BY <1>1, <1>2, <2>1, <2>2 DEF IsPath
<1>9. LeftToFollow(graph, now, longer, rest)
  <2> SUFFICES ASSUME NEW i \in 1..(n + 1), NEW g \in Refers(graph, longer[i]) \cap DOMAIN graph
               PROVE  g \in rest[i] \/ g \in DoneAgents(seen, path) \/ (i < n + 1 /\ g = longer[i + 1])
    BY <1>2, <1>6 DEF LeftToFollow
  <2>1. CASE i = n + 1
    BY <1>2, <1>5, <2>1
  <2>2. CASE i # n + 1
    <3>1. i \in 1..n /\ longer[i] = path[i] /\ rest[i] = before[i]
      BY <1>1, <1>2, <1>5, <2>2
    <3>2. g \in left[i] \/ g \in DoneAgents(seen, path) \/ (i < n /\ g = path[i + 1])
      BY <3>1 DEF SearchState, LeftToFollow, n
    <3>3. CASE g \in left[i]
      <4>1. g \in before[i] \/ (i = n /\ g = node)
        BY <1>4, <3>1, <3>3
      <4>2. QED
        BY <1>1, <1>2, <3>1, <4>1
    <3>4. CASE i < n /\ g = path[i + 1]
      <4>1. i + 1 \in 1..n /\ i < n + 1
        BY <1>1, <3>1, <3>4
      <4>2. QED
        BY <1>2, <3>4, <4>1
    <3>5. QED
      BY <3>2, <3>3, <3>4
  <2>3. QED
    BY <2>1, <2>2
<1>10. NoCircleIn(graph, DoneAgents(now, longer))
  BY <1>6 DEF SearchState
<1>11. now \subseteq DOMAIN graph
  BY <1>1 DEF now
<1>12. QED
  BY <1>1, <1>2, <1>5, <1>8, <1>9, <1>10, <1>11 DEF SearchState, longer, rest, now

(* One more finished agent, of which every reference is finished, closes   *)
(* no circle.                                                              *)
LEMMA OneMoreDone ==
  ASSUME NEW graph, NEW done, NoCircleIn(graph, done), done \subseteq DOMAIN graph,
         NEW node \in DOMAIN graph, node \notin done,
         Refers(graph, node) \cap DOMAIN graph \subseteq done
  PROVE  NoCircleIn(graph, done \cup {node})
<1>1. \A g \in done \cup {node} : Refers(graph, g) \cap DOMAIN graph \subseteq done \cup {node}
  BY DEF NoCircleIn
<1>2. \A circle \in (SUBSET (done \cup {node})) \ {{}} : ~IsCircle(graph, circle)
  <2> SUFFICES ASSUME NEW circle \in SUBSET (done \cup {node}), circle # {}, IsCircle(graph, circle)
               PROVE  FALSE
    OBVIOUS
  <2>1. \A g \in circle : Refers(graph, g) \cap (circle \ {node}) # {}
    <3> SUFFICES ASSUME NEW g \in circle PROVE Refers(graph, g) \cap (circle \ {node}) # {}
      OBVIOUS
    <3>1. PICK h \in circle : h \in Refers(graph, g)
      BY DEF IsCircle
    <3>2. Refers(graph, g) \cap DOMAIN graph \subseteq done
      BY DEF NoCircleIn
    <3>3. h \in done
      BY <3>1, <3>2
    <3>4. QED
      BY <3>1, <3>3
  <2>2. circle \ {node} \in (SUBSET done) \ {{}}
    BY <2>1
  <2>3. IsCircle(graph, circle \ {node})
    BY <2>1 DEF IsCircle
  <2>4. QED
    BY <2>2, <2>3 DEF NoCircleIn
<1>3. QED
  BY <1>1, <1>2 DEF NoCircleIn

(* A call that has nothing left returns: its agent is finished.            *)
LEMMA AgentLeft ==
  ASSUME NEW graph, NEW seen, NEW path, NEW left, SearchState(graph, seen, path, left),
         left # << >>, Last(left) = {}
  PROVE  SearchState(graph, seen, Front(path), Front(left))
<1> DEFINE n == Len(path)
           node == path[n]
           shorter == Front(path)
           rest == Front(left)
<1>1. /\ left \in Seq(SUBSET Referred(graph)) /\ path \in Seq(seen) /\ Len(left) = n /\ n \in Nat \ {0}
      /\ seen \subseteq DOMAIN graph /\ path # << >> /\ left[n] = {}
  <2>1. /\ left \in Seq(SUBSET Referred(graph)) /\ path \in Seq(seen) /\ Len(left) = n
        /\ seen \subseteq DOMAIN graph
    BY DEF SearchState
  <2>2. Len(left) \in Nat \ {0} /\ Last(left) = left[Len(left)]
    BY <2>1, EndOfPath
  <2>3. QED
    BY <2>1, <2>2
<1>2. /\ shorter \in Seq(seen) /\ Len(shorter) = n - 1 /\ \A i \in 1..(n - 1) : shorter[i] = path[i]
      /\ rest \in Seq(SUBSET Referred(graph)) /\ Len(rest) = n - 1 /\ \A i \in 1..(n - 1) : rest[i] = left[i]
  BY <1>1, EndOfPath, SMTT(40)
<1>3. \A i, k \in 1..n : path[i] = path[k] => i = k
  BY DEF SearchState, IsPath
<1>4. /\ DoneAgents(seen, shorter) = DoneAgents(seen, path) \cup {node}
      /\ node \notin DoneAgents(seen, path) /\ node \in seen
  <2>1. /\ \A e \in ToSet(path) : e \in ToSet(shorter) \/ e = node
        /\ node \in seen /\ node \in ToSet(path)
    <3>1. \A e \in ToSet(path) : \E i \in 1..n : path[i] = e
      BY <1>1, OnPath
    <3>2. \A i \in 1..(n - 1) : path[i] \in ToSet(shorter)
      BY <1>2, OnPath
    <3> HIDE DEF shorter
    <3>3. QED
      BY <1>1, <3>1, <3>2, OnPath
  <2>2. \A e \in ToSet(shorter) : e \in ToSet(path) /\ e # node
    <3> SUFFICES ASSUME NEW e \in ToSet(shorter) PROVE e \in ToSet(path) /\ e # node
      OBVIOUS
    <3>1. PICK i \in 1..(n - 1) : shorter[i] = e
      BY <1>2, OnPath
    <3>2. e = path[i] /\ i \in 1..n /\ i # n /\ n \in 1..n
      BY <1>1, <1>2, <3>1
    <3>3. QED
      BY <1>1, <1>3, <3>2, OnPath
  <2> HIDE DEF shorter, node
  <2>3. QED
    BY <2>1, <2>2 DEF DoneAgents
<1> HIDE DEF shorter, rest
<1>5. Refers(graph, node) \cap DOMAIN graph \subseteq DoneAgents(seen, path)
  BY <1>1 DEF SearchState, LeftToFollow
<1>6. NoCircleIn(graph, DoneAgents(seen, shorter))
  <2>1. NoCircleIn(graph, DoneAgents(seen, path)) /\ DoneAgents(seen, path) \subseteq DOMAIN graph
    BY <1>1 DEF SearchState, DoneAgents
  <2> HIDE DEF node
  <2>2. QED
    BY <1>1, <1>4, <1>5, <2>1, OneMoreDone
<1>7. IsPath(graph, shorter)
  <2>1. \A i \in 1..(n - 2) : shorter[i + 1] \in Refers(graph, shorter[i])
    <3> SUFFICES ASSUME NEW i \in 1..(n - 2) PROVE shorter[i + 1] \in Refers(graph, shorter[i])
      OBVIOUS
    <3>1. i \in 1..(Len(path) - 1) /\ i \in 1..(n - 1) /\ i + 1 \in 1..(n - 1)
      BY <1>1
    <3>2. path[i + 1] \in Refers(graph, path[i])
      BY <3>1 DEF SearchState, IsPath
    <3>3. QED
      BY <1>2, <3>1, <3>2
  <2>2. QED
    BY <1>1, <1>2, <1>3, <2>1 DEF IsPath
<1>8. LeftToFollow(graph, seen, shorter, rest)
  <2> SUFFICES ASSUME NEW i \in 1..(n - 1), NEW g \in Refers(graph, shorter[i]) \cap DOMAIN graph
               PROVE  g \in rest[i] \/ g \in DoneAgents(seen, shorter) \/ (i < n - 1 /\ g = shorter[i + 1])
    BY <1>2 DEF LeftToFollow
  <2>1. i \in 1..Len(path) /\ shorter[i] = path[i] /\ rest[i] = left[i]
    BY <1>1, <1>2
  <2>2. g \in left[i] \/ g \in DoneAgents(seen, path) \/ (i < Len(path) /\ g = path[i + 1])
    BY <2>1 DEF SearchState, LeftToFollow
  <2>3. CASE i < Len(path) /\ g = path[i + 1]
    <3>1. CASE i = n - 1
      BY <1>1, <1>4, <2>3, <3>1
    <3>2. CASE i # n - 1
      <4>1. i < n - 1 /\ i + 1 \in 1..(n - 1)
        BY <1>1, <3>2
      <4>2. QED
        BY <1>2, <2>3, <4>1
    <3>3. QED
      BY <3>1, <3>2
  <2>4. QED
    BY <1>4, <2>1, <2>2, <2>3
<1>9. QED
  BY <1>1, <1>2, <1>6, <1>7, <1>8 DEF SearchState, shorter, rest

(* The agents of the path from where the node is on it.                    *)
LEMMA CycleCloses ==
  ASSUME NEW graph, NEW seen, NEW path, NEW left, SearchState(graph, seen, path, left),
         NEW node \in ToSet(path), path # << >> => node \in Refers(graph, Last(path)),
         NEW start \in 1..Len(path), path[start] = node, NEW reported,
         reported = Append(SubSeq(path, start, Len(path)), node)
  PROVE  IsClosed(graph, reported) /\ HasCircle(graph)
<1> DEFINE n == Len(path)
           m == n - start + 1
           part == SubSeq(path, start, n)
<1>1. path \in Seq(seen) /\ n \in Nat /\ start \in 1..n /\ seen \subseteq DOMAIN graph /\ m \in 1..n
      /\ \A i \in 1..n : path[i] \in seen
  BY DEF SearchState
<1>2. node \in Refers(graph, path[n])
  <2>1. path # << >>
    BY <1>1
  <2>2. Last(path) = path[Len(path)]
    BY <1>1, <2>1, EndOfPath
  <2>3. QED
    BY <2>1, <2>2
<1>3. /\ part \in Seq(seen) /\ Len(part) = m /\ \A i \in 1..m : part[i] = path[start + i - 1]
  <2>1. part = [i \in 1..m |-> path[start + i - 1]]
    BY <1>1
  <2>2. \A i \in 1..m : start + i - 1 \in 1..n
    BY <1>1
  <2>3. \A i \in 1..m : path[start + i - 1] \in seen
    BY <1>1, <2>2
  <2>4. m \in Nat
    BY <1>1
  <2> HIDE DEF part, m
  <2>5. QED
    BY <2>1, <2>3, <2>4
<1> HIDE DEF part
<1>4. node \in seen
  BY <1>1
<1>5. /\ Len(reported) = m + 1 /\ reported[m + 1] = node
      /\ \A i \in 1..m : reported[i] = path[start + i - 1]
  <2>1. \A i \in 1..m : reported[i] = part[i]
    BY <1>1, <1>3, <1>4 DEF part
  <2>2. Len(reported) = m + 1 /\ reported[m + 1] = node
    BY <1>1, <1>3, <1>4 DEF part
  <2>3. QED
    BY <1>3, <2>1, <2>2
<1>6. reported[1] = node /\ m \in Nat \ {0}
  <2>1. 1 \in 1..m /\ start + 1 - 1 = start
    BY <1>1
  <2>2. QED
    BY <1>1, <1>5, <2>1
<1>7. \A i \in 1..m : reported[i + 1] \in Refers(graph, reported[i])
  <2> SUFFICES ASSUME NEW i \in 1..m PROVE reported[i + 1] \in Refers(graph, reported[i])
    OBVIOUS
  <2>1. CASE i = m
    <3>1. start + i - 1 = n
      BY <1>1, <2>1
    <3>2. reported[i] = path[n] /\ reported[i + 1] = node
      BY <1>5, <2>1, <3>1
    <3>3. QED
      BY <1>2, <3>2
  <2>2. CASE i # m
    <3> DEFINE j == start + i - 1
    <3>1. j \in 1..(Len(path) - 1) /\ i + 1 \in 1..m /\ start + (i + 1) - 1 = j + 1
      BY <1>1, <2>2, SMTT(40)
    <3>2. path[j + 1] \in Refers(graph, path[j])
      BY <3>1 DEF SearchState, IsPath
    <3>3. reported[i] = path[j]
      BY <1>5
    <3>4. reported[i + 1] = path[start + (i + 1) - 1]
      BY <1>5, <3>1
    <3>5. QED
      BY <3>1, <3>2, <3>3, <3>4
  <2>3. QED
    BY <2>1, <2>2
<1>8. \A i \in 1..m : \A k \in 1..(i - 1) : reported[k] # reported[i]
  <2> SUFFICES ASSUME NEW i \in 1..m, NEW k \in 1..(i - 1) PROVE reported[k] # reported[i]
    OBVIOUS
  <2>1. /\ start + i - 1 \in 1..n /\ start + k - 1 \in 1..n /\ start + i - 1 # start + k - 1
        /\ k \in 1..m
    BY <1>1
  <2>2. path[start + i - 1] # path[start + k - 1]
    BY <2>1 DEF SearchState, IsPath
  <2>3. reported[i] = path[start + i - 1] /\ reported[k] = path[start + k - 1]
    BY <1>5, <2>1
  <2>4. QED
    BY <2>2, <2>3
<1>9. HasCircle(graph)
  <2> DEFINE circle == {reported[i] : i \in 1..m}
  <2>1. circle \in (SUBSET DOMAIN graph) \ {{}}
    <3>1. \A i \in 1..m : start + i - 1 \in 1..n
      BY <1>1
    <3>2. \A i \in 1..m : reported[i] \in DOMAIN graph
      BY <1>1, <1>5, <3>1
    <3>3. 1 \in 1..m
      BY <1>1
    <3>4. QED
      BY <3>2, <3>3
  <2>2. \A i \in 1..m : reported[i + 1] \in circle
    <3> SUFFICES ASSUME NEW i \in 1..m PROVE reported[i + 1] \in circle
      OBVIOUS
    <3>1. i = m \/ i + 1 \in 1..m
      BY <1>1
    <3>2. reported[m + 1] = reported[1] /\ 1 \in 1..m
      BY <1>5, <1>6
    <3>3. QED
      BY <3>1, <3>2
  <2>3. \A g \in circle : Refers(graph, g) \cap circle # {}
    BY <1>7, <2>2
  <2> HIDE DEF circle
  <2>4. QED
    BY <2>1, <2>3 DEF HasCircle, IsCircle
<1>10. Len(reported) > 1 /\ reported[1] = reported[Len(reported)] /\ Len(reported) - 1 = m
  BY <1>5, <1>6
<1>11. QED
  BY <1>7, <1>8, <1>9, <1>10 DEF IsClosed

(* What the calls have left are references of their agents.                *)
LeftAreReferences(graph, path, left) ==
  \A i \in 1..Len(path) : left[i] \subseteq Refers(graph, path[i])

(* The inductive invariant of the search.                                  *)
SearchGoesOn ==
  /\ SearchState(declared, visited, rec_stack, neighbors)
  /\ LeftAreReferences(declared, rec_stack, neighbors)
  /\ DOMAIN declared \subseteq visited \cup unsearched /\ unsearched \subseteq DOMAIN declared

SearchInv ==
  /\ cycle = NoCycle => SearchGoesOn
  /\ cycle # NoCycle => IsClosed(declared, cycle) /\ HasCircle(declared)

LEMMA SearchStarts == SearchInit => SearchInv
<1> SUFFICES ASSUME SearchInit PROVE SearchInv
  OBVIOUS
<1>1. SearchState(declared, visited, rec_stack, neighbors)
  BY SearchStateStarts DEF SearchInit
<1>2. cycle = NoCycle /\ Len(rec_stack) = 0 /\ unsearched = DOMAIN declared
  BY DEF SearchInit
<1>3. QED
  BY <1>1, <1>2 DEF SearchInv, SearchGoesOn, LeftAreReferences

LEMMA SearchStartsAgain ==
  ASSUME NEW agents, SearchOf(agents)
  PROVE  SearchInv'
<1>1. SearchState(declared', visited', rec_stack', neighbors')
  BY SearchStateStarts DEF SearchOf
<1>2. cycle' = NoCycle /\ Len(rec_stack') = 0 /\ unsearched' = DOMAIN declared'
  BY DEF SearchOf
<1>3. QED
  BY <1>1, <1>2 DEF SearchInv, SearchGoesOn, LeftAreReferences

(* A neighbor is taken from the last call: what is left are references.    *)
LEMMA OneLeftLess ==
  ASSUME NEW graph, NEW seen, NEW path, NEW left, SearchState(graph, seen, path, left),
         LeftAreReferences(graph, path, left), left # << >>, NEW node \in Last(left)
  PROVE  /\ LeftAreReferences(graph, path, Append(Front(left), Last(left) \ {node}))
         /\ Last(left) \subseteq Refers(graph, Last(path)) /\ path # << >>
<1>1. /\ left \in Seq(SUBSET Referred(graph)) /\ path \in Seq(seen) /\ Len(left) = Len(path)
  BY DEF SearchState
<1>2. Len(left) \in Nat \ {0} /\ path # << >>
  BY <1>1
<1>3. Last(left) = left[Len(left)] /\ Last(path) = path[Len(left)]
  BY <1>1, <1>2, EndOfPath
<1>4. PICK T : T = SUBSET Referred(graph)
  OBVIOUS
<1>5. PICK e \in T : e = Last(left) \ {node}
  BY <1>1, <1>4, EndOfPath
<1> DEFINE rest == Append(Front(left), e)
<1>6. rest[Len(left)] = e /\ \A i \in 1..(Len(left) - 1) : rest[i] = left[i]
  BY <1>1, <1>4, EndOfPath
<1> HIDE DEF rest
<1>7. \A i \in 1..Len(path) : rest[i] \subseteq Refers(graph, path[i])
  <2> SUFFICES ASSUME NEW i \in 1..Len(path) PROVE rest[i] \subseteq Refers(graph, path[i])
    OBVIOUS
  <2>1. rest[i] \subseteq left[i]
    <3>1. i = Len(left) \/ i \in 1..(Len(left) - 1)
      BY <1>1, <1>2
    <3>2. QED
      BY <1>3, <1>5, <1>6, <3>1
  <2>2. QED
    BY <2>1 DEF LeftAreReferences
<1>8. LeftAreReferences(graph, path, Append(Front(left), Last(left) \ {node}))
  BY <1>5, <1>7 DEF LeftAreReferences, rest
<1>9. Last(left) \subseteq Refers(graph, Last(path))
  <2>1. Len(left) \in 1..Len(path)
    BY <1>1, <1>2
  <2>2. QED
    BY <1>3, <2>1 DEF LeftAreReferences
<1>10. QED
  BY <1>2, <1>8, <1>9

(* A call of _dfs_find_cycle, made by the loop over the agents or by       *)
(* another call.                                                           *)
LEMMA VisitKeepsInv ==
  ASSUME SearchInv, cycle = NoCycle, declared' = declared, unsearched' \subseteq unsearched,
         NEW node \in DOMAIN declared, unsearched \subseteq unsearched' \cup {node},
         NEW others, DfsFindCycle(node, others),
         \/ neighbors = << >> /\ others = << >>
         \/ /\ neighbors # << >> /\ node \in Last(neighbors)
            /\ others = Append(Front(neighbors), Last(neighbors) \ {node})
  PROVE  SearchInv'
<1>1. /\ SearchState(declared, visited, rec_stack, neighbors)
      /\ LeftAreReferences(declared, rec_stack, neighbors)
      /\ DOMAIN declared \subseteq visited \cup unsearched /\ unsearched \subseteq DOMAIN declared
  BY DEF SearchInv, SearchGoesOn
<1>2. /\ rec_stack \in Seq(visited) /\ Len(neighbors) = Len(rec_stack)
      /\ neighbors \in Seq(SUBSET Referred(declared)) /\ visited \subseteq DOMAIN declared
  BY <1>1 DEF SearchState
<1>3. neighbors # << >> /\ node \in Last(neighbors) =>
         Last(neighbors) \subseteq Refers(declared, Last(rec_stack)) /\ rec_stack # << >>
  BY <1>1, OneLeftLess
<1>4. neighbors = << >> => rec_stack = << >>
  BY <1>2
<1>5. LeftAreReferences(declared, rec_stack, others)
  <2>1. CASE neighbors = << >> /\ others = << >>
    BY <1>1, <2>1
  <2>2. CASE /\ neighbors # << >> /\ node \in Last(neighbors)
             /\ others = Append(Front(neighbors), Last(neighbors) \ {node})
    BY <1>1, <2>2, OneLeftLess
  <2>3. QED
    BY <2>1, <2>2
<1>6. CASE node \in ToSet(rec_stack) /\ cycle' = CycleAt(node)
  <2>1. rec_stack # << >> /\ neighbors # << >>
    <3>1. \E i \in 1..Len(rec_stack) : rec_stack[i] = node
      BY <1>2, <1>6, OnPath
    <3>2. QED
      BY <1>4, <3>1
  <2>2. node \in Refers(declared, Last(rec_stack))
    BY <1>3, <2>1
  <2>3. DOMAIN rec_stack = 1..Len(rec_stack) /\ \E i \in 1..Len(rec_stack) : rec_stack[i] = node
    BY <1>2, <1>6, OnPath
  <2>4. PICK start \in 1..Len(rec_stack) :
          rec_stack[start] = node /\ CycleAt(node) = Append(SubSeq(rec_stack, start, Len(rec_stack)), node)
    BY <2>3 DEF CycleAt
  <2>5. IsClosed(declared, cycle') /\ HasCircle(declared)
    <3>1. PICK reported : reported = cycle'
      OBVIOUS
    <3>2. reported = Append(SubSeq(rec_stack, start, Len(rec_stack)), node) /\ rec_stack[start] = node
      BY <1>6, <2>4, <3>1
    <3>3. IsClosed(declared, reported) /\ HasCircle(declared)
      BY <1>1, <1>6, <2>2, <3>2, CycleCloses
    <3>4. QED
      BY <3>1, <3>3
  <2>6. cycle' # NoCycle
    BY <2>5 DEF NoCycle, IsClosed
  <2>7. QED
    BY <2>5, <2>6 DEF SearchInv
<1>7. CASE node \in visited \ ToSet(rec_stack) /\ neighbors' = others /\ UNCHANGED <<visited, rec_stack, cycle>>
  <2>1. SearchState(declared, visited, rec_stack, others)
    <3>1. CASE neighbors = << >> /\ others = << >>
      BY <1>1, <3>1
    <3>2. CASE /\ neighbors # << >> /\ node \in Last(neighbors)
               /\ others = Append(Front(neighbors), Last(neighbors) \ {node})
      BY <1>1, <1>7, <3>2, NeighborPassed DEF DoneAgents
    <3>3. QED
      BY <3>1, <3>2
  <2>2. SearchGoesOn'
    BY <1>1, <1>5, <1>7, <2>1 DEF SearchGoesOn
  <2>3. QED
    BY <1>7, <2>2 DEF SearchInv
<1>8. CASE /\ node \notin visited \cup ToSet(rec_stack)
           /\ visited' = visited \cup {node} /\ rec_stack' = Append(rec_stack, node)
           /\ neighbors' = Append(others, Refers(declared, node)) /\ UNCHANGED cycle
  <2>1. SearchState(declared, visited', rec_stack', neighbors')
    <3>1. CASE neighbors = << >> /\ others = << >>
      BY <1>1, <1>4, <1>8, <3>1, AgentEntered
    <3>2. CASE /\ neighbors # << >> /\ node \in Last(neighbors)
               /\ others = Append(Front(neighbors), Last(neighbors) \ {node})
      BY <1>1, <1>3, <1>8, <3>2, AgentEntered
    <3>3. QED
      BY <3>1, <3>2
  <2>2. LeftAreReferences(declared, rec_stack', neighbors')
    <3>1. others \in Seq(SUBSET Referred(declared)) /\ Len(others) = Len(rec_stack)
      <4>1. CASE neighbors = << >> /\ others = << >>
        BY <1>2, <4>1
      <4>2. CASE neighbors # << >> /\ others = Append(Front(neighbors), Last(neighbors) \ {node})
        <5>1. PICK T : T = SUBSET Referred(declared)
          OBVIOUS
        <5>2. PICK e \in T : e = Last(neighbors) \ {node}
          BY <1>2, <4>2, <5>1, EndOfPath
        <5>3. others \in Seq(T) /\ Len(others) = Len(neighbors)
          BY <1>2, <4>2, <5>1, <5>2, EndOfPath
        <5>4. QED
          BY <1>2, <5>1, <5>3
      <4>3. QED
        BY <4>1, <4>2
    <3>2. Refers(declared, node) \in SUBSET Referred(declared)
      BY DEF Referred
    <3>3. /\ Len(rec_stack') = Len(rec_stack) + 1 /\ rec_stack'[Len(rec_stack) + 1] = node
          /\ \A i \in 1..Len(rec_stack) : rec_stack'[i] = rec_stack[i]
          /\ Len(rec_stack) \in Nat
      BY <1>2, <1>8
    <3>4. /\ neighbors'[Len(rec_stack) + 1] = Refers(declared, node)
          /\ \A i \in 1..Len(rec_stack) : neighbors'[i] = others[i]
      BY <1>8, <3>1, <3>2
    <3>5. QED
      BY <1>5, <3>3, <3>4 DEF LeftAreReferences
  <2>3. SearchGoesOn'
    BY <1>1, <1>8, <2>1, <2>2 DEF SearchGoesOn
  <2>4. QED
    BY <1>8, <2>3 DEF SearchInv
<1>9. QED
  BY <1>6, <1>7, <1>8 DEF DfsFindCycle

LEMMA SearchKeepsInv == SearchInv /\ [SearchNext]_searchVars => SearchInv'
<1> SUFFICES ASSUME SearchInv, [SearchNext]_searchVars PROVE SearchInv'
  OBVIOUS
<1>1. CASE SearchAgent
  <2>1. PICK g \in unsearched : unsearched' = unsearched \ {g} /\ DfsFindCycle(g, << >>)
    BY <1>1 DEF SearchAgent
  <2>2. cycle = NoCycle /\ neighbors = << >> /\ declared' = declared
    BY <1>1 DEF SearchAgent
  <2>3. CASE g \in DOMAIN declared
    BY <2>1, <2>2, <2>3, VisitKeepsInv
  <2>4. QED
    BY <2>2, <2>3 DEF SearchInv, SearchGoesOn
<1>2. CASE FollowNeighbor
  <2> DEFINE others(node) == Append(Front(neighbors), Last(neighbors) \ {node})
  <2>1. /\ cycle = NoCycle /\ neighbors # << >> /\ declared' = declared /\ unsearched' = unsearched
        /\ SearchGoesOn
    BY <1>2 DEF FollowNeighbor, SearchInv
  <2>2. PICK node \in Last(neighbors) :
          \/ node \in DOMAIN declared /\ DfsFindCycle(node, others(node))
          \/ /\ node \notin DOMAIN declared
             /\ neighbors' = others(node) /\ UNCHANGED <<visited, rec_stack, cycle>>
    BY <1>2 DEF FollowNeighbor
  <2>3. CASE node \in DOMAIN declared /\ DfsFindCycle(node, others(node))
    BY <2>1, <2>3, VisitKeepsInv
  <2>4. CASE /\ node \notin DOMAIN declared
             /\ neighbors' = others(node) /\ UNCHANGED <<visited, rec_stack, cycle>>
    <3>1. SearchState(declared, visited, rec_stack, others(node))
      BY <2>1, <2>4, NeighborPassed DEF SearchGoesOn
    <3>2. LeftAreReferences(declared, rec_stack, others(node))
      BY <2>1, OneLeftLess DEF SearchGoesOn
    <3> HIDE DEF others
    <3>3. SearchGoesOn'
      BY <2>1, <2>4, <3>1, <3>2 DEF SearchGoesOn
    <3>4. QED
      BY <2>1, <2>4, <3>3 DEF SearchInv
  <2>5. QED
    BY <2>2, <2>3, <2>4
<1>3. CASE Backtrack
  <2>1. /\ cycle = NoCycle /\ neighbors # << >> /\ Last(neighbors) = {} /\ SearchGoesOn
        /\ rec_stack' = Front(rec_stack) /\ neighbors' = Front(neighbors)
        /\ UNCHANGED <<declared, unsearched, visited, cycle>>
    BY <1>3 DEF Backtrack, Backtracked, SearchInv
  <2>2. SearchState(declared, visited, Front(rec_stack), Front(neighbors))
    BY <2>1, AgentLeft DEF SearchGoesOn
  <2>3. LeftAreReferences(declared, Front(rec_stack), Front(neighbors))
    <3>1. /\ rec_stack \in Seq(visited) /\ neighbors \in Seq(SUBSET Referred(declared))
          /\ Len(neighbors) = Len(rec_stack)
      BY <2>1 DEF SearchGoesOn, SearchState
    <3>2. Len(neighbors) \in Nat \ {0} /\ rec_stack # << >>
      BY <2>1, <3>1
    <3>3. /\ Len(Front(rec_stack)) = Len(rec_stack) - 1
          /\ \A i \in 1..(Len(rec_stack) - 1) : Front(rec_stack)[i] = rec_stack[i]
      BY <3>1, <3>2, EndOfPath
    <3>4. \A i \in 1..(Len(rec_stack) - 1) : Front(neighbors)[i] = neighbors[i]
      <4>1. PICK T : T = SUBSET Referred(declared)
        OBVIOUS
      <4>2. neighbors \in Seq(T) /\ neighbors # << >>
        BY <2>1, <3>1, <4>1
      <4>3. \A i \in 1..(Len(neighbors) - 1) : Front(neighbors)[i] = neighbors[i]
        BY <4>2, EndOfPath
      <4>4. QED
        BY <3>1, <4>3
    <3>5. \A i \in 1..(Len(rec_stack) - 1) : i \in 1..Len(rec_stack)
      BY <3>1, <3>2
    <3>6. QED
      BY <2>1, <3>3, <3>4, <3>5 DEF SearchGoesOn, LeftAreReferences
  <2>4. SearchGoesOn'
    BY <2>1, <2>2, <2>3 DEF SearchGoesOn
  <2>5. QED
    BY <2>1, <2>4 DEF SearchInv
<1>4. CASE UNCHANGED searchVars
  BY <1>4 DEF SearchInv, SearchGoesOn, searchVars
<1>5. CASE \E agents : SearchOf(agents)
  BY <1>5, SearchStartsAgain
<1>6. QED
  BY <1>1, <1>2, <1>3, <1>4, <1>5 DEF SearchNext, SearchStep

(* The search goes on as SearchInv says, whichever agents it is called    *)
(* with.                                                                   *)
THEOREM SearchInvariant == SearchSpec => []SearchInv
BY SearchStarts, SearchKeepsInv, PTL DEF SearchSpec

(* For all agents, whatever they delegate to and use and in whatever order *)
(* they are searched, _detect_circular_agent_refs reports a closed circle  *)
(* exactly when agents refer to each other in one: when no call is left,   *)
(* every agent is finished, and finished agents are on no circle.          *)
THEOREM CyclesTheorem == SearchSpec => []CyclesAreFound
<1>1. SearchInv => CyclesAreFound
  <2> SUFFICES ASSUME SearchInv, Searched
               PROVE  IF HasCircle(declared) THEN IsClosed(declared, cycle) ELSE cycle = NoCycle
    BY DEF CyclesAreFound
  <2>1. CASE cycle # NoCycle
    BY <2>1 DEF SearchInv
  <2>2. CASE cycle = NoCycle
    <3>1. SearchGoesOn /\ neighbors = << >> /\ unsearched = {}
      BY <2>2 DEF SearchInv, Searched
    <3>2. rec_stack = << >> /\ DOMAIN declared = visited
      BY <3>1 DEF SearchGoesOn, SearchState
    <3>3. DoneAgents(visited, rec_stack) = DOMAIN declared
      BY <3>2 DEF DoneAgents, ToSet
    <3>4. NoCircleIn(declared, DOMAIN declared)
      BY <3>1, <3>3 DEF SearchGoesOn, SearchState
    <3>5. QED
      BY <2>2, <3>4 DEF NoCircleIn, HasCircle
  <2>3. QED
    BY <2>1, <2>2
<1>2. QED
  BY <1>1, SearchInvariant, PTL

=============================================================================
