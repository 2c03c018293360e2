--------------------------- MODULE FlowRun_proofs ---------------------------
(***************************************************************************)
(* What FlowRun promises for every program, any number of agents, variables*)
(* and turns: sequential runs of a turn never share a child session, a     *)
(* closed workload has closed every agent it registered, and a variable    *)
(* holds the answer of a run that was started for it.                      *)
(*                                                                         *)
(* The first holds because the number in a session's name is the counter of*)
(* the one context of the turn: every sequential run has a number of its   *)
(* own, none above the counter. The second because a sequential agent is   *)
(* registered by the step that creates it. The third because the statement *)
(* a run was started for is still the one the flow is at when the answer   *)
(* is stored, and a caller is always at the statement that called.         *)
(* The calls of prompts and what an agent's answer escalates follow, those *)
(* of PromptCalls: an answer is checked and sent back in one place.        *)
(***************************************************************************)
EXTENDS FlowRun, PromptCalls, NaturalFacts

IsRun(r) ==
  r = [agent |-> r.agent, target |-> r.target, answer |-> r.answer,
       session |-> r.session, parallel |-> r.parallel]

IsHistory(s) == \E S : s \in Seq(S) /\ \A r \in S : IsRun(r)

(* t continues history s: old runs keep their session, kind and target. *)
Continues(s, t) ==
  /\ IsHistory(t)
  /\ Len(s) <= Len(t)
  /\ \A n \in 1..Len(s) : /\ t[n].session = s[n].session /\ t[n].parallel = s[n].parallel
                          /\ t[n].target = s[n].target

LEMMA HistoryFacts ==
  ASSUME NEW s, IsHistory(s)
  PROVE  /\ Len(s) \in Nat
         /\ DOMAIN s = 1..Len(s)
         /\ \A n \in 1..Len(s) : IsRun(s[n])
<1>1. PICK S : s \in Seq(S) /\ \A r \in S : IsRun(r)
  BY DEF IsHistory
<1>2. QED
  BY <1>1

LEMMA HistoryIntro ==
  ASSUME NEW s, NEW k \in Nat, s = [n \in 1..k |-> s[n]],
         \A n \in 1..k : IsRun(s[n])
  PROVE  IsHistory(s) /\ Len(s) = k
<1> DEFINE S == {s[n] : n \in 1..k}
<1>1. s \in [1..k -> S]
  OBVIOUS
<1>2. s \in Seq(S) /\ Len(s) = k
  BY <1>1, SMTT(40)
<1>3. \A r \in S : IsRun(r)
  OBVIOUS
<1>4. QED
  BY <1>2, <1>3 DEF IsHistory

LEMMA AppendContinues ==
  ASSUME NEW s, IsHistory(s), NEW r, IsRun(r)
  PROVE  /\ Continues(s, Append(s, r))
         /\ Len(Append(s, r)) = Len(s) + 1
         /\ Append(s, r)[Len(s) + 1] = r
<1>1. PICK S : s \in Seq(S) /\ \A q \in S : IsRun(q)
  BY DEF IsHistory
<1> DEFINE T == S \cup {r}
<1>2. s \in Seq(T)
  BY <1>1
<1>3. /\ Append(s, r) \in Seq(T) /\ Len(Append(s, r)) = Len(s) + 1
      /\ \A n \in 1..Len(s) : Append(s, r)[n] = s[n]
      /\ Append(s, r)[Len(s) + 1] = r
  BY <1>2
<1>4. \A q \in T : IsRun(q)
  BY <1>1
<1>5. IsHistory(Append(s, r))
  BY <1>3, <1>4 DEF IsHistory
<1>6. Len(s) \in Nat
  BY <1>1
<1>7. QED
  BY <1>3, <1>5, <1>6 DEF Continues

LEMMA AnswerContinues ==
  ASSUME NEW s, IsHistory(s), NEW k, NEW a
  PROVE  /\ Continues(s, [s EXCEPT ![k].answer = a])
         /\ Len([s EXCEPT ![k].answer = a]) = Len(s)
<1> DEFINE t == [s EXCEPT ![k].answer = a]
<1>1. /\ Len(s) \in Nat /\ DOMAIN s = 1..Len(s)
      /\ \A n \in 1..Len(s) : IsRun(s[n])
  BY HistoryFacts
<1>2. DOMAIN t = 1..Len(s) /\ t = [n \in 1..Len(s) |-> t[n]]
  BY <1>1
<1>3. \A n \in 1..Len(s) :
        /\ IsRun(t[n]) /\ t[n].session = s[n].session /\ t[n].parallel = s[n].parallel
        /\ t[n].target = s[n].target
  <2> TAKE n \in 1..Len(s)
  <2>1. CASE n = k
    <3>1. t[n] = [s[n] EXCEPT !.answer = a]
      BY <1>1, <2>1
    <3>2. s[n] = [agent |-> s[n].agent, target |-> s[n].target, answer |-> s[n].answer,
                  session |-> s[n].session, parallel |-> s[n].parallel]
      BY <1>1 DEF IsRun
    <3>3. t[n] = [agent |-> s[n].agent, target |-> s[n].target, answer |-> a,
                  session |-> s[n].session, parallel |-> s[n].parallel]
      BY <3>1, <3>2
    <3> HIDE DEF t
    <3>4. QED
      BY <3>3 DEF IsRun
  <2>2. CASE n # k
    <3>1. t[n] = s[n]
      BY <1>1, <2>2
    <3> HIDE DEF t
    <3>2. QED
      BY <1>1, <3>1
  <2>3. QED
    BY <2>1, <2>2
<1> HIDE DEF t
<1>4. IsHistory(t) /\ Len(t) = Len(s)
  BY <1>1, <1>2, <1>3, HistoryIntro
<1>5. QED
  BY <1>1, <1>3, <1>4 DEF Continues, t

LEMMA SameContinues ==
  ASSUME NEW s, IsHistory(s)
  PROVE  Continues(s, s)
BY HistoryFacts DEF Continues

LEMMA ConcatContinues ==
  ASSUME NEW s, IsHistory(s), NEW u, IsHistory(u)
  PROVE  /\ Continues(s, s \o u)
         /\ Len(s \o u) = Len(s) + Len(u)
         /\ \A n \in 1..Len(u) : (s \o u)[Len(s) + n] = u[n]
<1>1. PICK S : s \in Seq(S) /\ \A q \in S : IsRun(q)
  BY DEF IsHistory
<1>2. PICK U : u \in Seq(U) /\ \A q \in U : IsRun(q)
  BY DEF IsHistory
<1> DEFINE T == S \cup U
<1>3. s \in Seq(T) /\ u \in Seq(T)
  BY <1>1, <1>2
<1>4. \A q \in T : IsRun(q)
  BY <1>1, <1>2
<1> HIDE DEF T
<1>5. /\ s \o u \in Seq(T) /\ Len(s \o u) = Len(s) + Len(u)
      /\ Len(s) \in Nat /\ Len(u) \in Nat
      /\ \A n \in 1..Len(s) : (s \o u)[n] = s[n]
      /\ \A n \in 1..Len(u) : (s \o u)[Len(s) + n] = u[n]
  BY <1>3
<1>6. IsHistory(s \o u)
  BY <1>4, <1>5 DEF IsHistory
<1>7. QED
  BY <1>5, <1>6 DEF Continues

(* A block starts runs of the parallel kind only. *)
LEMMA ParallelHistory ==
  ASSUME NEW address, Statement.op = "parallel", Statement \in StatementsOver(DOMAIN program),
         NEW k \in 0..Len(Statement.branches)
  PROVE  LET u == SubSeq(ParallelRuns(address), 1, k)
         IN  /\ IsHistory(u) /\ Len(u) = k
             /\ \A n \in 1..k : u[n].parallel
<1> DEFINE b == Statement.branches
           p == ParallelRuns(address)
           u == SubSeq(p, 1, k)
<1>1. b \in Seq([target : Targets, agent : Agents])
  BY DEF StatementsOver
<1> HIDE DEF b
<1>2. Len(b) \in Nat /\ k \in 0..Len(b)
  BY <1>1 DEF b
<1>3. p = [i \in 1..Len(b) |-> ParallelRun(b[i], address)]
  BY DEF ParallelRuns, b
<1>4. \A r : IsRun(ParallelRun(r, address)) /\ ParallelRun(r, address).parallel
  BY DEF IsRun, ParallelRun
<1> DEFINE P == {ParallelRun(b[i], address) : i \in 1..Len(b)}
<1>5. p \in Seq(P) /\ Len(p) = Len(b)
  BY <1>2, <1>3
<1> HIDE DEF p
<1>6. u \in Seq(P) /\ Len(u) = k /\ \A n \in 1..k : u[n] = p[n]
  BY <1>2, <1>5, SMTT(40)
<1>7. \A r \in P : IsRun(r) /\ r.parallel
  BY <1>4
<1>8. \A n \in 1..k : u[n] \in P
  BY <1>6
<1> HIDE DEF P
<1> HIDE DEF u
<1>9. IsHistory(u) /\ Len(u) = k /\ \A n \in 1..k : u[n].parallel
  BY <1>6, <1>7, <1>8 DEF IsHistory
<1>10. QED
  BY <1>9 DEF u, p

-----------------------------------------------------------------------------
(* The stack holds frames of flows of the program.                         *)

Frames ==
  [flow : DOMAIN program, part : {"body", "handler"}, at : Nat \ {0},
   specs : Addresses \cup {NoList}]

StackOK == program \in Programs /\ stack \in Seq(Frames)

LEMMA ProgramTyped ==
  ASSUME StackOK
  PROVE  /\ "main" \in DOMAIN program
         /\ \A f \in DOMAIN program : program[f] \in FlowsOver(DOMAIN program)
<1>1. program \in [DOMAIN program -> FlowsOver(DOMAIN program)] /\ "main" \in DOMAIN program
  BY FlowRunAssumption DEF StackOK
<1> DEFINE F == FlowsOver(DOMAIN program)
<1> HIDE DEF F
<1>2. program \in [DOMAIN program -> F]
  BY <1>1 DEF F
<1>3. \A f \in DOMAIN program : program[f] \in F
  BY <1>2
<1>4. QED
  BY <1>1, <1>3 DEF F

LEMMA TopTyped ==
  ASSUME StackOK, stack # << >>
  PROVE  Len(stack) \in Nat /\ Len(stack) >= 1 /\ Top \in Frames
<1> DEFINE F == Frames
<1>1. stack \in Seq(F)
  BY DEF StackOK
<1> HIDE DEF F
<1>2. Len(stack) \in Nat /\ Len(stack) >= 1 /\ stack[Len(stack)] \in F
  BY <1>1
<1>3. QED
  BY <1>2 DEF Top, F

LEMMA StatementTyped ==
  ASSUME StackOK, NEW op, AtStatement(op)
  PROVE  Statement \in StatementsOver(DOMAIN program)
<1>1. stack # << >> /\ Top.at <= Len(StatementsOf(Top))
  BY DEF AtStatement
<1>2. Top \in Frames
  BY <1>1, TopTyped
<1> DEFINE S == StatementsOver(DOMAIN program)
<1>3. program[Top.flow] \in [body : Seq(S), guarded : Nat, handler : Seq(S)]
  BY <1>2, ProgramTyped DEF Frames, FlowsOver
<1> HIDE DEF S
<1>4. Top.part \in {"body", "handler"} /\ Top.at \in Nat \ {0}
  BY <1>2 DEF Frames
<1>5. StatementsOf(Top) \in Seq(S)
  BY <1>3, <1>4 DEF StatementsOf
<1>6. StatementsOf(Top)[Top.at] \in S
  BY <1>1, <1>4, <1>5
<1>7. QED
  BY <1>6 DEF Statement, S

LEMMA AdvancedTyped ==
  ASSUME NEW F, NEW s \in Seq(F), \A f \in F : [f EXCEPT !.at = @ + 1] \in F
  PROVE  Advanced(s) \in Seq(F)
<1>1. Len(s) \in Nat /\ DOMAIN s = 1..Len(s) /\ \A n \in 1..Len(s) : s[n] \in F
  OBVIOUS
<1> DEFINE t == [s EXCEPT ![Len(s)].at = @ + 1]
<1>2. t = [n \in 1..Len(s) |-> IF n = Len(s) THEN [s[n] EXCEPT !.at = @ + 1] ELSE s[n]]
  BY <1>1
<1>3. \A n \in 1..Len(s) : t[n] \in F
  <2> TAKE n \in 1..Len(s)
  <2>1. CASE n = Len(s)
    BY <1>1, <1>2, <2>1
  <2>2. CASE n # Len(s)
    BY <1>1, <1>2, <2>2
  <2>3. QED
    BY <2>1, <2>2
<1>4. t \in [1..Len(s) -> F]
  BY <1>2, <1>3
<1> HIDE DEF t
<1>5. t \in Seq(F)
  BY <1>1, <1>4
<1>6. QED
  BY <1>5 DEF Advanced, t

LEMMA FramesAdvance ==
  \A f \in Frames : [f EXCEPT !.at = @ + 1] \in Frames
BY DEF Frames

LEMMA FramesHandle ==
  \A f \in Frames : [f EXCEPT !.part = "handler", !.at = 1] \in Frames
<1> TAKE f \in Frames
<1> DEFINE g == [f EXCEPT !.part = "handler"]
<1>1. g \in Frames
  BY DEF Frames
<1> HIDE DEF g
<1>2. [g EXCEPT !.at = 1] \in Frames
  BY <1>1 DEF Frames
<1>3. QED
  BY <1>2 DEF g

LEMMA PrefixTyped ==
  ASSUME NEW F, NEW s \in Seq(F), NEW i \in 1..Len(s)
  PROVE  SubSeq(s, 1, i - 1) \in Seq(F)
<1>1. Len(s) \in Nat /\ i \in Int /\ 1 <= i /\ i - 1 <= Len(s)
  OBVIOUS
<1>2. \A n \in 1..(i - 1) : s[n] \in F
  BY <1>1
<1>3. QED
  BY <1>1, <1>2

LEMMA UnwoundTyped ==
  ASSUME StackOK
  PROVE  Unwound \in Seq(Frames)
<1>1. CASE Catching = {}
  BY <1>1 DEF Unwound
<1>2. CASE Catching # {}
  <2> DEFINE F == Frames
             i == CHOOSE i \in Catching : \A j \in Catching : j <= i
             h == [stack[i] EXCEPT !.part = "handler", !.at = 1]
  <2>1. stack \in Seq(F) /\ Len(stack) \in Nat /\ Catching \subseteq 1..Len(stack)
    BY DEF StackOK, Catching
  <2>2. \E m \in Catching : \A j \in Catching : j <= m
    BY <1>2, <2>1, LastPlace
  <2>3. i \in Catching
    BY <2>2
  <2> HIDE DEF i
  <2>4. i \in 1..Len(stack) /\ stack[i] \in F
    <3> HIDE DEF F
    <3> QED
      BY <2>1, <2>3
  <2>5. h \in F
    BY <2>4, FramesHandle
  <2> HIDE DEF h, F
  <2>6. SubSeq(stack, 1, i - 1) \in Seq(F)
    BY <2>1, <2>4, PrefixTyped
  <2>7. Append(SubSeq(stack, 1, i - 1), h) \in Seq(F)
    BY <2>5, <2>6
  <2>8. Unwound = Append(SubSeq(stack, 1, i - 1), h)
    BY <1>2 DEF Unwound, h, i
  <2>9. QED
    BY <2>7, <2>8 DEF F
<1>3. QED
  BY <1>1, <1>2

LEMMA RaiseStack ==
  ASSUME StackOK, Raise
  PROVE  stack' \in Seq(Frames) /\ pc' \in {"closing", "running"}
BY UnwoundTyped DEF Raise

LEMMA AdvanceStack ==
  ASSUME StackOK
  PROVE  Advanced(stack) \in Seq(Frames)
<1> DEFINE F == Frames
<1>1. stack \in Seq(F) /\ \A f \in F : [f EXCEPT !.at = @ + 1] \in F
  BY FramesAdvance DEF StackOK
<1> HIDE DEF F
<1>2. Advanced(stack) \in Seq(F)
  BY <1>1, AdvancedTyped
<1>3. QED
  BY <1>2 DEF F

LEMMA LeaveStack ==
  ASSUME StackOK, NEW v, NEW r, NEW l, Leave(v, r, l)
  PROVE  stack' \in Seq(Frames) /\ pc' \in {"closing", "running"}
<1>1. CASE Len(stack) = 1
  BY <1>1 DEF Leave
<1>2. CASE Len(stack) # 1
  <2> DEFINE F == Frames
             s == Front(stack)
  <2>1. stack \in Seq(F) /\ \A f \in F : [f EXCEPT !.at = @ + 1] \in F
    BY FramesAdvance DEF StackOK
  <2> HIDE DEF F
  <2>2. s \in Seq(F)
    <3>1. CASE stack = << >>
      BY <3>1 DEF Front
    <3>2. CASE stack # << >>
      BY <2>1, <3>2 DEF Front
    <3>3. QED
      BY <3>1, <3>2
  <2>3. stack' = Advanced(s) /\ pc' = "running"
    BY <1>2 DEF Leave
  <2> HIDE DEF s
  <2>4. stack' \in Seq(F)
    BY <2>1, <2>2, <2>3, AdvancedTyped
  <2>5. QED
    BY <2>3, <2>4 DEF F
<1>3. QED
  BY <1>1, <1>2

(* A frame can be pushed, popped, advanced, unwound or given another list. *)
LEMMA SetTopTyped ==
  ASSUME StackOK, NEW f \in Frames
  PROVE  [stack EXCEPT ![Len(stack)] = f] \in Seq(Frames)
<1> DEFINE F == Frames
           t == [stack EXCEPT ![Len(stack)] = f]
<1>1. stack \in Seq(F) /\ f \in F
  BY DEF StackOK
<1> HIDE DEF F
<1>2. Len(stack) \in Nat /\ DOMAIN stack = 1..Len(stack)
      /\ \A n \in 1..Len(stack) : stack[n] \in F
  BY <1>1
<1>3. t \in [1..Len(stack) -> F]
  BY <1>1, <1>2
<1> HIDE DEF t
<1>4. t \in Seq(F)
  BY <1>2, <1>3
<1>5. QED
  BY <1>4 DEF t, F

LEMMA ListStack ==
  ASSUME StackOK, stack # << >>, NEW address \in Addresses
  PROVE  [stack EXCEPT ![Len(stack)].specs = address] \in Seq(Frames)
<1> DEFINE f == [Top EXCEPT !.specs = address]
<1>1. Top \in Frames
  BY TopTyped
<1>2. f \in Frames
  BY <1>1 DEF Frames
<1>3. [stack EXCEPT ![Len(stack)].specs = address] = [stack EXCEPT ![Len(stack)] = f]
  BY DEF Top
<1> HIDE DEF f
<1>4. QED
  BY <1>2, <1>3, SetTopTyped

LEMMA HandlerStack ==
  ASSUME StackOK, stack # << >>
  PROVE  [stack EXCEPT ![Len(stack)].part = "body",
                       ![Len(stack)].at = program[Top.flow].guarded + 1] \in Seq(Frames)
<1> DEFINE k == program[Top.flow].guarded + 1
           g == [Top EXCEPT !.part = "body"]
           f == [g EXCEPT !.at = k]
<1>1. Top \in Frames
  BY TopTyped
<1>2. k \in Nat \ {0}
  <2>1. Top.flow \in DOMAIN program
    BY <1>1 DEF Frames
  <2>2. program[Top.flow].guarded \in Nat
    BY <2>1, ProgramTyped DEF FlowsOver
  <2>3. QED
    BY <2>2
<1> HIDE DEF k
<1>3. g \in Frames
  BY <1>1 DEF Frames
<1> HIDE DEF g
<1>4. f \in Frames
  BY <1>2, <1>3 DEF Frames
<1> HIDE DEF f
<1>5. [stack EXCEPT ![Len(stack)] = f] \in Seq(Frames)
  BY <1>4, SetTopTyped
<1>6. [stack EXCEPT ![Len(stack)].part = "body", ![Len(stack)].at = k]
        = [stack EXCEPT ![Len(stack)] = f]
  <2>1. stack \in Seq(Frames) /\ Len(stack) \in DOMAIN stack
    <3> DEFINE F == Frames
    <3>1. stack \in Seq(F) /\ Len(stack) \in Nat /\ Len(stack) >= 1
      BY TopTyped DEF StackOK
    <3> HIDE DEF F
    <3>2. Len(stack) \in DOMAIN stack
      BY <3>1
    <3>3. QED
      BY <3>1, <3>2 DEF F
  <2>2. QED
    BY <2>1 DEF f, g, Top
<1>7. QED
  BY <1>5, <1>6 DEF k

LEMMA StackStep ==
  ASSUME StackOK, Next
  PROVE  StackOK' /\ (pc' = "idle" => Close)
<1>1. program' = program
  BY DEF Next, StartTurn, CallAgent, CreateAgent, CreateAgentRaises, AgentRaises,
         AgentIsRetried, AgentAnswers, CallFlow, ReturnFromFlow, ReturnRaises, HandlerEnds,
         FlowEnds, StartParallel, StartParallelRaises, ParallelRaises, ParallelEnds,
         ParallelAnswers, CollectResult, SkipResult, RetryResult, RetryAnswers,
         FinishParallel, Close
<1>2. SUFFICES stack' \in Seq(Frames) /\ (pc' = "idle" => Close)
  BY <1>1 DEF StackOK, Frames
<1>3. stack \in Seq(Frames)
  BY DEF StackOK
<1>4. CASE StartTurn
  <2>1. Frame("main") \in Frames
    BY ProgramTyped DEF Frames, Frame
  <2>2. stack' = <<Frame("main")>> /\ pc' = "running"
    BY <1>4 DEF StartTurn
  <2>3. QED
    BY <2>1, <2>2
<1>5. CASE CallAgent \/ CreateAgent \/ AgentIsRetried
  BY <1>3, <1>5 DEF CallAgent, CreateAgent, AgentIsRetried
<1>6. CASE CreateAgentRaises \/ AgentRaises \/ ReturnRaises \/ StartParallelRaises
             \/ ParallelRaises
  <2>1. Raise
    BY <1>6 DEF CreateAgentRaises, AgentRaises, ReturnRaises, StartParallelRaises,
                ParallelRaises
  <2>2. QED
    BY <2>1, RaiseStack
<1>7. CASE AgentAnswers
  <2>1. \/ stack' = Advanced(stack) /\ pc' = "running"
        \/ \E v, r, l : Leave(v, r, l)
        \/ Raise
    BY <1>7 DEF AgentAnswers
  <2>2. QED
    BY <2>1, AdvanceStack, LeaveStack, RaiseStack
<1>8. CASE CallFlow
  <2> DEFINE F == Frames
             f == Frame(Statement.flow)
  <2>1. AtStatement("flow") /\ pc = "running"
    BY <1>8 DEF CallFlow, Executes
  <2>2. Statement \in StatementsOver(DOMAIN program) /\ Statement.op = "flow"
    BY <2>1, StatementTyped DEF AtStatement
  <2>3. Statement.flow \in DOMAIN program
    BY <2>2 DEF StatementsOver
  <2>4. f \in F
    BY <2>3 DEF Frames, Frame
  <2>5. stack' = Append(stack, f) /\ pc' = pc
    BY <1>8 DEF CallFlow
  <2>6. stack \in Seq(F)
    BY <1>3
  <2> HIDE DEF f, F
  <2>7. stack' \in Seq(F)
    BY <2>4, <2>5, <2>6
  <2>8. QED
    BY <2>1, <2>5, <2>7 DEF F
<1>9. CASE ReturnFromFlow \/ FlowEnds
  <2>1. \E v, r, l : Leave(v, r, l)
    BY <1>9 DEF ReturnFromFlow, FlowEnds
  <2>2. QED
    BY <2>1, LeaveStack
<1>10. CASE HandlerEnds
  <2>1. pc' = "running" /\ stack # << >>
    BY <1>10 DEF HandlerEnds, PartEnds
  <2>2. QED
    BY <1>10, <2>1, HandlerStack DEF HandlerEnds
<1>11. CASE StartParallel
  <2>1. PICK address \in Addresses : stack' = [stack EXCEPT ![Len(stack)].specs = address]
    BY <1>11 DEF StartParallel, FreeAddresses
  <2>2. stack # << >> /\ pc' = "parallel"
    BY <1>11 DEF StartParallel, Executes, AtStatement
  <2>3. QED
    BY <2>1, <2>2, ListStack
<1>12. CASE ParallelEnds \/ \E i \in 1..Len(block.runs) : ParallelAnswers(i)
  BY <1>3, <1>12 DEF ParallelEnds, ParallelAnswers
<1>13. CASE CollectResult \/ SkipResult \/ RetryResult \/ RetryAnswers
  BY <1>3, <1>13 DEF CollectResult, SkipResult, RetryResult, RetryAnswers, Collecting
<1>14. CASE FinishParallel
  BY <1>14, AdvanceStack DEF FinishParallel
<1>15. CASE Close
  BY <1>3, <1>15 DEF Close
<1>16. QED
  BY <1>4, <1>5, <1>6, <1>7, <1>8, <1>9, <1>10, <1>11, <1>12, <1>13, <1>14, <1>15, SMTT(40) DEF Next

-----------------------------------------------------------------------------
(* The numbers of sequential runs.                                         *)

Numbered ==
  \A n \in 1..Len(runs) : ~runs[n].parallel => runs[n].session[2] \in 1..invocation

Distinct ==
  \A m, n \in 1..Len(runs) :
    m # n /\ ~runs[m].parallel /\ ~runs[n].parallel
      => runs[m].session[2] # runs[n].session[2]

SessionInv ==
  StackOK /\ IsHistory(runs) /\ invocation \in Nat /\ Numbered /\ Distinct

(* A step that starts no sequential run. *)
AddsOnlyParallel ==
  /\ Continues(runs, runs')
  /\ \A n \in (Len(runs) + 1)..Len(runs') : runs'[n].parallel
  /\ invocation' \in Nat /\ invocation <= invocation'

LEMMA ParallelKeepsNumbers ==
  ASSUME SessionInv, AddsOnlyParallel
  PROVE  Numbered' /\ Distinct'
<1>1. Len(runs) \in Nat /\ Len(runs') \in Nat /\ Len(runs) <= Len(runs')
  BY HistoryFacts DEF SessionInv, AddsOnlyParallel, Continues
<1>2. \A n \in 1..Len(runs') : ~runs'[n].parallel =>
        /\ n \in 1..Len(runs)
        /\ ~runs[n].parallel
        /\ runs'[n].session = runs[n].session
  <2> TAKE n \in 1..Len(runs')
  <2> HAVE ~runs'[n].parallel
  <2>1. n \in 1..Len(runs)
    BY <1>1 DEF AddsOnlyParallel
  <2>2. QED
    BY <2>1 DEF AddsOnlyParallel, Continues
<1>3. invocation \in Nat /\ invocation' \in Nat /\ invocation <= invocation'
  BY DEF SessionInv, AddsOnlyParallel
<1>4. Numbered'
  BY <1>2, <1>3 DEF SessionInv, Numbered
<1>5. Distinct'
  BY <1>2 DEF SessionInv, Distinct
<1>6. QED
  BY <1>4, <1>5

LEMMA CreateKeepsNumbers ==
  ASSUME SessionInv, CreateAgent
  PROVE  IsHistory(runs') /\ invocation' \in Nat /\ Numbered' /\ Distinct'
<1> DEFINE r == SequentialRun
           L == Len(runs)
<1>1. /\ IsRun(r) /\ ~r.parallel /\ r.session[2] = invocation + 1
  BY DEF SequentialRun, IsRun
<1>2. runs' = Append(runs, r) /\ invocation' = invocation + 1
  BY DEF CreateAgent
<1> HIDE DEF r
<1>3. /\ L \in Nat /\ invocation \in Nat
  BY HistoryFacts DEF SessionInv
<1>4. Continues(runs, runs') /\ Len(runs') = L + 1 /\ runs'[L + 1] = r
  BY <1>1, <1>2, AppendContinues DEF SessionInv
<1>5. \A n \in 1..L : runs'[n].parallel = runs[n].parallel /\ runs'[n].session = runs[n].session
  BY <1>4 DEF Continues
<1>6. \A n \in 1..L : ~runs'[n].parallel => runs'[n].session[2] \in 1..invocation
  BY <1>5 DEF SessionInv, Numbered
<1>7. runs'[L + 1].session[2] = invocation + 1
  BY <1>1, <1>4
<1>8. Numbered'
  BY <1>2, <1>3, <1>4, <1>6, <1>7 DEF Numbered
<1>9. Distinct'
  <2> SUFFICES ASSUME NEW m \in 1..(L + 1), NEW n \in 1..(L + 1), m # n,
                      ~runs'[m].parallel, ~runs'[n].parallel
               PROVE  runs'[m].session[2] # runs'[n].session[2]
    BY <1>4 DEF Distinct
  <2>1. CASE m \in 1..L /\ n \in 1..L
    BY <1>5, <2>1 DEF SessionInv, Distinct
  <2>2. CASE m = L + 1
    <3>1. n \in 1..L
      BY <1>3, <2>2
    <3>2. runs'[n].session[2] \in 1..invocation
      BY <1>6, <3>1
    <3>3. QED
      BY <1>3, <1>7, <2>2, <3>2
  <2>3. CASE n = L + 1
    <3>1. m \in 1..L
      BY <1>3, <2>3
    <3>2. runs'[m].session[2] \in 1..invocation
      BY <1>6, <3>1
    <3>3. QED
      BY <1>3, <1>7, <2>3, <3>2
  <2>4. QED
    BY <1>3, <2>1, <2>2, <2>3
<1>10. IsHistory(runs')
  BY <1>4 DEF Continues
<1>11. QED
  BY <1>2, <1>3, <1>8, <1>9, <1>10

LEMMA NothingAdded ==
  ASSUME SessionInv, invocation' \in Nat, invocation <= invocation',
         Continues(runs, runs'), Len(runs') = Len(runs)
  PROVE  AddsOnlyParallel
BY HistoryFacts DEF SessionInv, AddsOnlyParallel

LEMMA BranchesTyped ==
  ASSUME StackOK, AtStatement("parallel")
  PROVE  /\ Statement \in StatementsOver(DOMAIN program) /\ Statement.op = "parallel"
         /\ Len(Statement.branches) \in Nat
<1>1. Statement \in StatementsOver(DOMAIN program) /\ Statement.op = "parallel"
  BY StatementTyped DEF AtStatement
<1>2. Statement.branches \in Seq([target : Targets, agent : Agents])
  BY <1>1 DEF StatementsOver
<1>3. QED
  BY <1>1, <1>2

(* The first k agents of a block are created. *)
LEMMA CreatedInBlock ==
  ASSUME SessionInv, AtStatement("parallel"), NEW address,
         NEW k \in 0..Len(Statement.branches),
         runs' = runs \o SubSeq(ParallelRuns(address), 1, k),
         invocation' \in {invocation, invocation + 1}
  PROVE  AddsOnlyParallel /\ Len(runs') = Len(runs) + k
<1> DEFINE u == SubSeq(ParallelRuns(address), 1, k)
<1>0. IsHistory(runs) /\ invocation \in Nat /\ StackOK
  BY DEF SessionInv
<1>1. Statement \in StatementsOver(DOMAIN program) /\ Statement.op = "parallel"
  BY <1>0, BranchesTyped
<1>2. IsHistory(u) /\ Len(u) = k /\ \A n \in 1..k : u[n].parallel
  BY <1>1, ParallelHistory
<1>3. runs' = runs \o u
  OBVIOUS
<1> HIDE DEF u
<1>4. /\ Continues(runs, runs') /\ Len(runs') = Len(runs) + Len(u)
      /\ \A n \in 1..Len(u) : runs'[Len(runs) + n] = u[n]
  <2>1. /\ Continues(runs, runs \o u) /\ Len(runs \o u) = Len(runs) + Len(u)
        /\ \A n \in 1..Len(u) : (runs \o u)[Len(runs) + n] = u[n]
    <3>1. IsHistory(runs) /\ IsHistory(u)
      BY <1>0, <1>2
    <3>2. QED
      BY <3>1, ConcatContinues, Zenon
  <2>2. QED
    BY <1>3, <2>1, Zenon
<1>5. Len(runs) \in Nat /\ Len(u) \in Nat
  BY <1>0, <1>2, HistoryFacts
<1>6. \A n \in (Len(runs) + 1)..Len(runs') : runs'[n].parallel
  <2> TAKE n \in (Len(runs) + 1)..Len(runs')
  <2>1. n - Len(runs) \in 1..Len(u) /\ Len(runs) + (n - Len(runs)) = n
    BY <1>4, <1>5
  <2>2. QED
    BY <1>2, <1>4, <2>1
<1>7. invocation' \in Nat /\ invocation <= invocation'
  BY <1>0
<1>8. QED
  BY <1>2, <1>4, <1>6, <1>7 DEF AddsOnlyParallel

LEMMA WholeBlock ==
  ASSUME StackOK, AtStatement("parallel"), NEW address
  PROVE  SubSeq(ParallelRuns(address), 1, Len(Statement.branches)) = ParallelRuns(address)
<1> DEFINE k == Len(Statement.branches)
           f(i) == ParallelRun(Statement.branches[i], address)
           p == [i \in 1..k |-> f(i)]
<1>1. k \in Nat
  BY BranchesTyped
<1>2. ParallelRuns(address) = p
  BY DEF ParallelRuns
<1> HIDE DEF k, f
<1>3. p \in Seq({f(i) : i \in 1..k}) /\ Len(p) = k
  BY <1>1
<1> HIDE DEF p
<1>4. SubSeq(p, 1, k) = p
  BY <1>1, <1>3
<1>5. QED
  BY <1>2, <1>4 DEF k

LEMMA BlockAdds ==
  ASSUME SessionInv, StartParallel
  PROVE  AddsOnlyParallel /\ Len(runs') = Len(runs) + Len(Statement.branches)
<1>1. PICK address \in FreeAddresses : runs' = runs \o ParallelRuns(address)
  BY DEF StartParallel
<1>2. AtStatement("parallel") /\ invocation' = invocation + 1 /\ StackOK
  BY DEF StartParallel, Executes, SessionInv
<1> DEFINE k == Len(Statement.branches)
<1>3. k \in Nat
  BY <1>2, BranchesTyped
<1>4. runs' = runs \o SubSeq(ParallelRuns(address), 1, k)
  BY <1>1, <1>2, WholeBlock
<1>5. k \in 0..k
  BY <1>3
<1>6. QED
  BY <1>2, <1>4, <1>5, CreatedInBlock

LEMMA FailedBlockAdds ==
  ASSUME SessionInv, StartParallelRaises
  PROVE  AddsOnlyParallel /\ open' \subseteq open \cup (Len(runs) + 1)..Len(runs')
<1>1. PICK address \in FreeAddresses, k \in 0..(Len(Statement.branches) - 1) :
        /\ runs' = runs \o SubSeq(ParallelRuns(address), 1, k)
        /\ open' = open \cup (Len(runs) + 1)..(Len(runs) + k)
  BY DEF StartParallelRaises
<1>2. AtStatement("parallel") /\ invocation' = invocation /\ StackOK
  BY DEF StartParallelRaises, Executes, SessionInv
<1>3. Len(Statement.branches) \in Nat
  BY <1>2, BranchesTyped
<1>4. k \in 0..Len(Statement.branches)
  BY <1>3
<1>5. AddsOnlyParallel /\ Len(runs') = Len(runs) + k
  BY <1>1, <1>2, <1>4, CreatedInBlock
<1>6. QED
  BY <1>1, <1>5

(* Every step but these two adds parallel runs only. *)
LEMMA OtherSteps ==
  ASSUME SessionInv, Next, ~StartTurn, ~CreateAgent
  PROVE  AddsOnlyParallel
<1>1. IsHistory(runs) /\ invocation \in Nat /\ StackOK
  BY DEF SessionInv
<1>2. ASSUME runs' = runs, invocation' = invocation PROVE AddsOnlyParallel
  BY <1>1, <1>2, SameContinues, NothingAdded
<1>3. CASE CallAgent \/ CreateAgentRaises \/ CallFlow \/ ReturnFromFlow \/ ReturnRaises
             \/ HandlerEnds \/ FlowEnds \/ ParallelEnds \/ CollectResult \/ SkipResult
             \/ RetryResult \/ FinishParallel \/ Close
  BY <1>2, <1>3 DEF CallAgent, CreateAgentRaises, CallFlow, ReturnFromFlow, ReturnRaises,
       HandlerEnds, FlowEnds, ParallelEnds, CollectResult, SkipResult, RetryResult,
       FinishParallel, Close, agentVars
<1>4. ASSUME invocation' = invocation, NEW k, NEW a, runs' = [runs EXCEPT ![k].answer = a]
      PROVE  AddsOnlyParallel
  <2> DEFINE t == [runs EXCEPT ![k].answer = a]
  <2>1. Continues(runs, t) /\ Len(t) = Len(runs)
    BY <1>1, AnswerContinues
  <2>2. runs' = t
    BY <1>4
  <2> HIDE DEF t
  <2>3. Continues(runs, runs') /\ Len(runs') = Len(runs)
    BY <2>1, <2>2
  <2>4. invocation' \in Nat /\ invocation <= invocation'
    BY <1>1, <1>4
  <2>5. QED
    BY <2>3, <2>4, NothingAdded
<1>5. CASE AgentRaises
  BY <1>4, <1>5 DEF AgentRaises
<1>6. CASE AgentIsRetried
  BY <1>4, <1>6 DEF AgentIsRetried
<1>7. CASE AgentAnswers
  <2>1. invocation' = invocation /\ \E a : runs' = [runs EXCEPT ![call.run].answer = a]
    BY <1>7 DEF AgentAnswers, Answered
  <2>2. QED
    BY <1>4, <2>1
<1>8. CASE RetryAnswers
  <2>1. invocation' = invocation /\ \E a : runs' = [runs EXCEPT ![call.run].answer = a]
    BY <1>8 DEF RetryAnswers, Answered
  <2>2. QED
    BY <1>4, <2>1
<1>9. CASE \E i \in 1..Len(block.runs) : ParallelAnswers(i)
  <2>1. invocation' = invocation /\ \E k, a : runs' = [runs EXCEPT ![k].answer = a]
    BY <1>9 DEF ParallelAnswers
  <2>2. QED
    BY <1>4, <2>1
<1>10. CASE ParallelRaises
  <2> DEFINE P == {block.runs[i] : i \in block.pending}
  <2>1. /\ invocation' = invocation
        /\ runs' = [n \in DOMAIN runs |->
                      IF n \in P THEN [runs[n] EXCEPT !.answer = "raised"] ELSE runs[n]]
    BY <1>10 DEF ParallelRaises
  <2> HIDE DEF P
  <2>2. /\ Len(runs) \in Nat /\ DOMAIN runs = 1..Len(runs)
        /\ \A n \in 1..Len(runs) : IsRun(runs[n])
    BY <1>1, HistoryFacts
  <2>3. runs' = [n \in 1..Len(runs) |-> runs'[n]]
    BY <2>1, <2>2
  <2>4. \A r : IsRun(r) =>
          LET q == [r EXCEPT !.answer = "raised"]
          IN  IsRun(q) /\ q.session = r.session /\ q.parallel = r.parallel /\ q.target = r.target
    <3> SUFFICES ASSUME NEW r, IsRun(r)
                 PROVE  LET q == [r EXCEPT !.answer = "raised"]
                        IN  /\ IsRun(q) /\ q.session = r.session
                            /\ q.parallel = r.parallel /\ q.target = r.target
      OBVIOUS
    <3> DEFINE q == [r EXCEPT !.answer = "raised"]
    <3>1. r = [agent |-> r.agent, target |-> r.target, answer |-> r.answer,
               session |-> r.session, parallel |-> r.parallel]
      BY DEF IsRun
    <3>2. q = [agent |-> r.agent, target |-> r.target, answer |-> "raised",
               session |-> r.session, parallel |-> r.parallel]
      BY <3>1
    <3> HIDE DEF q
    <3>3. IsRun(q) /\ q.session = r.session /\ q.parallel = r.parallel /\ q.target = r.target
      BY <3>2 DEF IsRun
    <3>4. QED
      BY <3>3 DEF q
  <2>5. \A n \in 1..Len(runs) :
          /\ IsRun(runs'[n])
          /\ runs'[n].session = runs[n].session /\ runs'[n].parallel = runs[n].parallel
          /\ runs'[n].target = runs[n].target
    <3> TAKE n \in 1..Len(runs)
    <3>1. CASE n \in P
      BY <2>1, <2>2, <2>4, <3>1
    <3>2. CASE n \notin P
      BY <2>1, <2>2, <3>2
    <3>3. QED
      BY <3>1, <3>2
  <2>6. IsHistory(runs') /\ Len(runs') = Len(runs)
    BY <2>2, <2>3, <2>5, HistoryIntro
  <2>7. Continues(runs, runs')
    BY <2>2, <2>5, <2>6 DEF Continues
  <2>8. QED
    BY <1>1, <2>1, <2>6, <2>7, NothingAdded
<1>11. CASE StartParallelRaises
  BY <1>11, FailedBlockAdds
<1>12. CASE StartParallel
  BY <1>12, BlockAdds
<1>13. QED
  BY <1>3, <1>5, <1>6, <1>7, <1>8, <1>9, <1>10, <1>11, <1>12 DEF Next

LEMMA EmptyHistory ==
  IsHistory(<< >>)
<1>1. << >> = [n \in 1..0 |-> << >>[n]] /\ 0 \in Nat
  OBVIOUS
<1>2. \A n \in 1..0 : IsRun(<< >>[n])
  OBVIOUS
<1>3. QED
  BY <1>1, <1>2, HistoryIntro

LEMMA SessionStep ==
  ASSUME SessionInv, [Next]_allVars
  PROVE  SessionInv'
<1>0. CASE UNCHANGED allVars
  BY <1>0 DEF SessionInv, allVars, agentVars, StackOK, Frames, IsHistory, Numbered, Distinct
<1>1. CASE Next
  <2>1. StackOK'
    BY <1>1, StackStep DEF SessionInv
  <2>2. CASE StartTurn
    <3>1. runs' = << >> /\ invocation' = 0
      BY <2>2 DEF StartTurn
    <3>2. QED
      BY <2>1, <3>1, EmptyHistory, SMTT(40) DEF SessionInv, IsHistory, Numbered, Distinct
  <2>3. CASE CreateAgent
    BY <2>1, <2>3, CreateKeepsNumbers DEF SessionInv, IsHistory
  <2>4. CASE ~StartTurn /\ ~CreateAgent
    <3>1. AddsOnlyParallel
      BY <1>1, <2>4, OtherSteps
    <3>2. Numbered' /\ Distinct'
      BY <3>1, ParallelKeepsNumbers
    <3>3. IsHistory(runs') /\ invocation' \in Nat
      BY <3>1 DEF AddsOnlyParallel, Continues
    <3>4. QED
      BY <2>1, <3>2, <3>3 DEF SessionInv, IsHistory
  <2>5. QED
    BY <2>2, <2>3, <2>4
<1>2. QED
  BY <1>0, <1>1

LEMMA SessionInit ==
  ASSUME Init
  PROVE  SessionInv
<1>1. IsHistory(<< >>)
  BY EmptyHistory
<1>2. runs = << >> /\ stack = << >> /\ invocation = 0 /\ program \in Programs
  BY DEF Init
<1>3. stack \in Seq(Frames)
  BY <1>2
<1>4. QED
  BY <1>1, <1>2, <1>3 DEF SessionInv, StackOK, IsHistory, Numbered, Distinct

(* An agent run from a flow, in whatever flow of the turn and whether a    *)
(* first attempt or a retry, has a child session of its own.               *)
THEOREM SessionsKeepApart == Spec => []RunsOfATurnKeepApart
<1>1. SessionInv => RunsOfATurnKeepApart
  BY DEF SessionInv, Distinct, RunsOfATurnKeepApart
<1>2. QED
  BY <1>1, SessionInit, SessionStep, PTL DEF Spec

-----------------------------------------------------------------------------
(* What is left open.                                                      *)

IsOutcome(o) ==
  o = [result |-> o.result, failed |-> o.failed, closeFailed |-> o.closeFailed]

Known ==
  /\ registered \in Seq(Nat)
  /\ IsOutcome(outcome)
  /\ open \subseteq 1..Len(runs)
  /\ \A n \in open : ~runs[n].parallel => n \in Range(registered)

CloseInv == SessionInv /\ Known /\ ClosedAfterTurn

LEMMA CloseStep ==
  ASSUME CloseInv, Close
  PROVE  Known' /\ ClosedAfterTurn'
<1>1. PICK k \in 0..Len(registered) :
        /\ open' = open \ {registered[i] : i \in 1..k}
        /\ outcome' = [outcome EXCEPT !.closeFailed = k < Len(registered)]
  BY DEF Close
<1>2. runs' = runs /\ registered' = registered
  BY DEF Close
<1>3. outcome = [result |-> outcome.result, failed |-> outcome.failed,
                 closeFailed |-> outcome.closeFailed]
  BY DEF CloseInv, Known, IsOutcome
<1>4. outcome' = [result |-> outcome.result, failed |-> outcome.failed,
                  closeFailed |-> k < Len(registered)]
  BY <1>1, <1>3
<1>5. IsOutcome(outcome') /\ outcome'.closeFailed = (k < Len(registered))
  BY <1>4 DEF IsOutcome
<1>6. Known'
  BY <1>1, <1>2, <1>5 DEF CloseInv, Known
<1>7. ASSUME ~outcome'.closeFailed, NEW n \in open' PROVE runs'[n].parallel
  <2>1. Len(registered) \in Nat /\ DOMAIN registered = 1..Len(registered)
    BY DEF CloseInv, Known
  <2>2. k = Len(registered)
    <3>1. ~ (k < Len(registered))
      BY <1>5, <1>7, Zenon
    <3>2. k \in 0..Len(registered)
      BY <1>1, Zenon
    <3> DEFINE L == Len(registered)
    <3>3. L \in Nat /\ k \in 0..L /\ ~ (k < L)
      BY <2>1, <3>1, <3>2
    <3> HIDE DEF L
    <3>4. k = L
      BY <3>3
    <3>5. QED
      BY <3>4 DEF L
  <2>3. n \notin Range(registered)
    BY <1>1, <2>1, <2>2 DEF Range
  <2>4. QED
    BY <1>1, <1>2, <2>3 DEF CloseInv, Known
<1>8. QED
  BY <1>6, <1>7 DEF ClosedAfterTurn

(* The other steps that end no turn: what they open they register, or it   *)
(* runs in parallel.                                                       *)
LEMMA OpenStep ==
  ASSUME CloseInv, AddsOnlyParallel,
         registered' = registered, IsOutcome(outcome'),
         open' \subseteq open \cup (Len(runs) + 1)..Len(runs')
  PROVE  Known'
<1>1. /\ Len(runs) \in Nat /\ Len(runs') \in Nat /\ Len(runs) <= Len(runs')
  BY HistoryFacts DEF CloseInv, SessionInv, AddsOnlyParallel, Continues
<1>2. open' \subseteq 1..Len(runs')
  BY <1>1 DEF CloseInv, Known
<1>3. ASSUME NEW n \in open', ~runs'[n].parallel PROVE n \in Range(registered')
  <2>1. n \in open /\ n \in 1..Len(runs)
    BY <1>1, <1>3 DEF AddsOnlyParallel, CloseInv, Known
  <2>2. ~runs[n].parallel
    BY <1>3, <2>1 DEF AddsOnlyParallel, Continues
  <2>3. QED
    BY <2>1, <2>2 DEF CloseInv, Known
<1>4. QED
  BY <1>2, <1>3 DEF CloseInv, Known

LEMMA RaiseOutcome ==
  ASSUME IsOutcome(outcome), Raise
  PROVE  IsOutcome(outcome')
<1>1. CASE outcome' = outcome
  BY <1>1
<1>2. CASE outcome' = [outcome EXCEPT !.failed = TRUE]
  <2>1. outcome = [result |-> outcome.result, failed |-> outcome.failed,
                   closeFailed |-> outcome.closeFailed]
    BY DEF IsOutcome
  <2>2. outcome' = [result |-> outcome.result, failed |-> TRUE,
                    closeFailed |-> outcome.closeFailed]
    BY <1>2, <2>1
  <2>3. QED
    BY <2>2 DEF IsOutcome
<1>3. QED
  BY <1>1, <1>2 DEF Raise

LEMMA LeaveOutcome ==
  ASSUME IsOutcome(outcome), NEW v, NEW r, NEW l, Leave(v, r, l)
  PROVE  IsOutcome(outcome')
<1>1. CASE outcome' = outcome
  BY <1>1
<1>2. CASE outcome' = [outcome EXCEPT !.result = r]
  <2>1. outcome = [result |-> outcome.result, failed |-> outcome.failed,
                   closeFailed |-> outcome.closeFailed]
    BY DEF IsOutcome
  <2>2. outcome' = [result |-> r, failed |-> outcome.failed,
                    closeFailed |-> outcome.closeFailed]
    BY <1>2, <2>1
  <2>3. QED
    BY <2>2 DEF IsOutcome
<1>3. QED
  BY <1>1, <1>2 DEF Leave

LEMMA OtherOutcomes ==
  ASSUME CloseInv, Next, ~StartTurn, ~CreateAgent, ~Close
  PROVE  /\ registered' = registered
         /\ IsOutcome(outcome')
         /\ open' \subseteq open \cup (Len(runs) + 1)..Len(runs')
<1>1. IsOutcome(outcome)
  BY SMTT(40) DEF CloseInv, Known
<1>2. CASE CallAgent \/ CallFlow \/ HandlerEnds \/ ParallelEnds \/ CollectResult
             \/ SkipResult \/ RetryResult \/ FinishParallel \/ AgentIsRetried \/ RetryAnswers
             \/ \E i \in 1..Len(block.runs) : ParallelAnswers(i)
  BY <1>1, <1>2 DEF CallAgent, CallFlow, HandlerEnds, ParallelEnds, CollectResult, SkipResult,
       RetryResult, FinishParallel, AgentIsRetried, RetryAnswers, ParallelAnswers, agentVars
<1>3. CASE CreateAgentRaises \/ AgentRaises \/ ReturnRaises \/ ParallelRaises
  BY <1>1, <1>3, RaiseOutcome DEF CreateAgentRaises, AgentRaises, ReturnRaises,
       ParallelRaises, agentVars
<1>4. CASE ReturnFromFlow \/ FlowEnds
  <2>1. registered' = registered /\ open' = open
    BY <1>4 DEF ReturnFromFlow, FlowEnds, agentVars
  <2>2. \E v, r, l : Leave(v, r, l)
    BY <1>4 DEF ReturnFromFlow, FlowEnds
  <2>3. QED
    BY <1>1, <2>1, <2>2, LeaveOutcome
<1>5. CASE AgentAnswers
  <2>1. registered' = registered /\ open' = open
    BY <1>5 DEF AgentAnswers
  <2>2. UNCHANGED outcome \/ Raise \/ \E v, r, l : Leave(v, r, l)
    BY <1>5 DEF AgentAnswers
  <2>3. QED
    BY <1>1, <2>1, <2>2, LeaveOutcome, RaiseOutcome
<1>6. CASE StartParallel
  <2> DEFINE k == Len(Statement.branches)
             new == [i \in 1..k |-> Len(runs) + i]
  <2>1. AtStatement("parallel") /\ SessionInv /\ StackOK
    BY <1>6 DEF StartParallel, Executes, CloseInv, SessionInv
  <2>2. k \in Nat
    BY <2>1, BranchesTyped
  <2>3. open' = open \cup Range(new) /\ registered' = registered /\ outcome' = outcome
    BY <1>6 DEF StartParallel
  <2>4. Len(runs) \in Nat
    BY <2>1, HistoryFacts DEF SessionInv
  <2>5. Len(runs') = Len(runs) + k
    BY <1>6, <2>1, BlockAdds
  <2> HIDE DEF k
  <2>6. Range(new) \subseteq (Len(runs) + 1)..(Len(runs) + k)
    BY <2>2, <2>4 DEF Range
  <2>7. QED
    BY <1>1, <2>3, <2>5, <2>6
<1>7. CASE StartParallelRaises
  <2>1. registered' = registered /\ IsOutcome(outcome')
    BY <1>1, <1>7, RaiseOutcome DEF StartParallelRaises
  <2>2. QED
    BY <1>7, <2>1, FailedBlockAdds DEF CloseInv
<1>8. QED
  BY <1>2, <1>3, <1>4, <1>5, <1>6, <1>7 DEF Next

LEMMA CreateKeepsKnown ==
  ASSUME CloseInv, CreateAgent
  PROVE  Known'
<1> DEFINE L == Len(runs)
           r == SequentialRun
<1>1. L \in Nat /\ IsHistory(runs)
  BY HistoryFacts DEF CloseInv, SessionInv
<1>2. IsRun(r)
  BY DEF SequentialRun, IsRun
<1>3. runs' = Append(runs, r) /\ open' = open \cup {L + 1} /\ outcome' = outcome
      /\ registered' = Append(registered, L + 1)
  BY DEF CreateAgent
<1> HIDE DEF r
<1>4. Continues(runs, runs') /\ Len(runs') = L + 1
  BY <1>1, <1>2, <1>3, AppendContinues
<1>5. registered \in Seq(Nat)
  BY DEF CloseInv, Known
<1>6. /\ registered' \in Seq(Nat)
      /\ Range(registered) \cup {L + 1} \subseteq Range(registered')
  <2> DEFINE g == Append(registered, L + 1)
  <2>1. /\ g \in Seq(Nat) /\ Len(g) = Len(registered) + 1 /\ Len(registered) \in Nat
        /\ \A i \in 1..Len(registered) : g[i] = registered[i]
        /\ g[Len(registered) + 1] = L + 1
        /\ DOMAIN registered = 1..Len(registered) /\ DOMAIN g = 1..(Len(registered) + 1)
    BY <1>1, <1>5
  <2>2. registered' = g
    BY <1>3
  <2> HIDE DEF g
  <2>3. Range(registered) \subseteq Range(g) /\ L + 1 \in Range(g)
    BY <2>1 DEF Range
  <2>4. QED
    BY <2>1, <2>2, <2>3
<1>7. ASSUME NEW n \in open', ~runs'[n].parallel PROVE n \in Range(registered')
  <2>1. CASE n = L + 1
    BY <1>6, <2>1
  <2>2. CASE n \in open
    <3>1. n \in 1..L
      BY <2>2 DEF CloseInv, Known
    <3>2. ~runs[n].parallel
      BY <1>4, <1>7, <3>1 DEF Continues
    <3>3. QED
      BY <1>6, <2>2, <3>2 DEF CloseInv, Known
  <2>3. QED
    BY <1>3, <2>1, <2>2
<1>8. open' \subseteq 1..Len(runs')
  <2>1. open \subseteq 1..L
    BY DEF CloseInv, Known
  <2> HIDE DEF L
  <2>2. 1..L \subseteq 1..(L + 1) /\ L + 1 \in 1..(L + 1)
    BY <1>1
  <2>3. QED
    BY <1>3, <1>4, <2>1, <2>2
<1>9. QED
  BY <1>3, <1>6, <1>7, <1>8 DEF CloseInv, Known

LEMMA CloseInvStep ==
  ASSUME CloseInv, [Next]_allVars
  PROVE  CloseInv'
<1>0. SessionInv'
  BY SessionStep DEF CloseInv
<1>1. CASE UNCHANGED allVars
  <2>1. Known'
    BY <1>1 DEF CloseInv, Known, allVars, agentVars
  <2>2. ClosedAfterTurn'
    BY <1>1 DEF CloseInv, ClosedAfterTurn, allVars, agentVars
  <2>3. QED
    BY <1>0, <2>1, <2>2 DEF CloseInv
<1>2. CASE Close
  BY <1>0, <1>2, CloseStep DEF CloseInv
<1>3. CASE Next /\ ~Close
  <2>1. StackOK
    BY DEF CloseInv, SessionInv
  <2>2. pc' # "idle"
    BY <1>3, <2>1, StackStep
  <2>3. CASE StartTurn
    <3>1. /\ registered' = << >> /\ open' = {}
          /\ outcome' = [result |-> Unset, failed |-> FALSE, closeFailed |-> FALSE]
      BY <2>3 DEF StartTurn
    <3>2. Known'
      BY <3>1 DEF Known, IsOutcome
    <3>3. QED
      BY <1>0, <2>2, <3>2 DEF CloseInv, ClosedAfterTurn
  <2>4. CASE CreateAgent
    BY <1>0, <2>2, <2>4, CreateKeepsKnown DEF CloseInv, ClosedAfterTurn
  <2>5. CASE ~StartTurn /\ ~CreateAgent
    <3>1. /\ registered' = registered /\ IsOutcome(outcome')
          /\ open' \subseteq open \cup (Len(runs) + 1)..Len(runs')
      BY <1>3, <2>5, OtherOutcomes
    <3>2. AddsOnlyParallel
      BY <1>3, <2>5, OtherSteps DEF CloseInv
    <3>3. Known'
      BY <3>1, <3>2, OpenStep
    <3>4. QED
      BY <1>0, <2>2, <3>3 DEF CloseInv, ClosedAfterTurn
  <2>6. QED
    BY <2>3, <2>4, <2>5
<1>4. QED
  BY <1>1, <1>2, <1>3

LEMMA CloseInvInit ==
  ASSUME Init
  PROVE  CloseInv
<1>1. /\ registered = << >> /\ open = {}
      /\ outcome = [result |-> Unset, failed |-> FALSE, closeFailed |-> FALSE]
  BY DEF Init
<1>2. Known
  BY <1>1 DEF Known, IsOutcome
<1>3. ClosedAfterTurn
  BY <1>1 DEF ClosedAfterTurn
<1>4. QED
  BY <1>2, <1>3, SessionInit DEF CloseInv

(* Whatever a turn did, failed and repeated runs included, closing its     *)
(* workload closes every agent that did not run in a parallel block.       *)
THEOREM SequentialAgentsClosed == Spec => []ClosedAfterTurn
<1>1. CloseInv => ClosedAfterTurn
  BY SMTT(40) DEF CloseInv
<1>2. QED
  BY <1>1, CloseInvInit, CloseInvStep, PTL DEF Spec

-----------------------------------------------------------------------------
(* Whose results the variables hold.                                       *)

(* A block has its three fields, and so has a call.                        *)
IsBlock(b) == b = [runs |-> b.runs, pending |-> b.pending, next |-> b.next]

IsCall(c) == c = [agent |-> c.agent, attempt |-> c.attempt, run |-> c.run]

(* n is a run of this turn in a parallel block.                            *)
IsParallelRun(n) == n \in 1..Len(runs) /\ runs[n].parallel

(* What x may hold. *)
Fits(x, v) ==
  /\ x \notin FlowTargets /\ v > 0 =>
       v \in 1..Len(runs) /\ (~runs[v].parallel => runs[v].target = x)
  /\ v \in {Earlier, EarlierBad} => x \in ParallelTargets

(* Every variable holds what it may.                                       *)
ValuesFit(v) == v \in [Vars -> Int] /\ \A x \in Vars : Fits(x, v[x])

(* The last result is never one of an earlier turn: a flow would store it. *)
LastFits == last \in Int /\ last \notin {Earlier, EarlierBad}

(* Sessions of parallel blocks hold results of parallel runs, or earlier ones. *)
OutputsFit ==
  /\ outputs \in [Addresses -> [Agents -> Int]]
  /\ \A a \in Addresses, g \in Agents : outputs[a][g] > 0 => IsParallelRun(outputs[a][g])

(* The sequential run under way was started for the target of its statement. *)
CallFits ==
  /\ IsCall(call)
  /\ pc \in {"calling", "agent"} => stack # << >>
  /\ pc = "agent" =>
       /\ call.run \in 1..Len(runs) /\ ~runs[call.run].parallel
       /\ runs[call.run].target = Target

(* A parallel block is under way; a retry of one of its agents may be, too. *)
InBlock ==
  \/ pc \in {"parallel", "collecting"}
  \/ pc \in {"calling", "agent"} /\ Statement.op = "parallel"

(* Its statement is the one the flow is at, and its runs are the branches. *)
BlockFits ==
  /\ IsBlock(block)
  /\ InBlock =>
       /\ AtStatement("parallel") /\ Top.specs \in Addresses
       /\ block.next \in Nat \ {0}
       /\ Len(block.runs) = Len(Statement.branches)
       /\ \A i \in 1..Len(block.runs) : IsParallelRun(block.runs[i])

(* The frame waits for a flow it called.                                   *)
CallsFlow(f) == f.at <= Len(StatementsOf(f)) /\ StatementsOf(f)[f.at].op = "flow"

CallersCallFlows == \A i \in 1..(Len(stack) - 1) : CallsFlow(stack[i])

(* The inductive invariant.                                                *)
ResultInv ==
  /\ SessionInv /\ ValuesFit(vars) /\ LastFits /\ OutputsFit
  /\ CallFits /\ BlockFits /\ CallersCallFlows

(* The program of a workload never changes.                                *)
LEMMA ProgramStays ==
  ASSUME Next
  PROVE  program' = program
BY DEF Next, StartTurn, CallAgent, CreateAgent, CreateAgentRaises, AgentRaises,
       AgentIsRetried, AgentAnswers, CallFlow, ReturnFromFlow, ReturnRaises, HandlerEnds,
       FlowEnds, StartParallel, StartParallelRaises, ParallelRaises, ParallelEnds,
       ParallelAnswers, CollectResult, SkipResult, RetryResult, RetryAnswers,
       FinishParallel, Close

(* Within a turn the history of runs only grows.                           *)
LEMMA RunsContinue ==
  ASSUME SessionInv, Next, ~StartTurn
  PROVE  Continues(runs, runs')
<1>1. CASE CreateAgent
  <2>1. IsRun(SequentialRun)
    BY DEF SequentialRun, IsRun
  <2>2. runs' = Append(runs, SequentialRun)
    BY <1>1 DEF CreateAgent
  <2>3. QED
    BY <2>1, <2>2, AppendContinues DEF SessionInv
<1>2. CASE ~CreateAgent
  BY <1>2, OtherSteps DEF AddsOnlyParallel
<1>3. QED
  BY <1>1, <1>2

(* The statement a frame is at belongs to the program.                     *)
LEMMA FrameStatement ==
  ASSUME StackOK, NEW f \in Frames, f.at <= Len(StatementsOf(f))
  PROVE  StatementsOf(f)[f.at] \in Statements
<1>1. f.flow \in DOMAIN program /\ f.part \in {"body", "handler"} /\ f.at \in Nat \ {0}
  BY DEF Frames
<1> DEFINE S == StatementsOver(DOMAIN program)
           q == StatementsOf(f)
<1>2. program[f.flow] \in [body : Seq(S), guarded : Nat, handler : Seq(S)]
  BY <1>1, ProgramTyped DEF FlowsOver
<1> HIDE DEF S
<1>3. q \in Seq(S) /\ q = program[f.flow][f.part]
  BY <1>1, <1>2 DEF StatementsOf
<1>4. f.at \in DOMAIN q
  <2>1. f.at <= Len(q)
    OBVIOUS
  <2> HIDE DEF q
  <2>2. QED
    BY <1>1, <1>3, <2>1
<1>5. q[f.at] \in Range(q)
  BY <1>4 DEF Range
<1>6. Range(q) \subseteq Range(program[f.flow].body) \cup Range(program[f.flow].handler)
  BY <1>1, <1>3
<1> HIDE DEF q
<1>7. q[f.at] \in Statements
  BY <1>1, <1>5, <1>6 DEF Statements
<1>8. QED
  BY <1>7 DEF q

(* What a call of a flow stores into takes the result of a flow.           *)
LEMMA FlowTarget ==
  ASSUME StackOK, NEW f \in Frames, CallsFlow(f)
  PROVE  StatementsOf(f)[f.at].target \in FlowTargets
BY FrameStatement DEF CallsFlow, FlowTargets

(* What a branch stores into takes the result of a parallel block.         *)
LEMMA BranchTarget ==
  ASSUME StackOK, AtStatement("parallel"), NEW i \in 1..Len(Statement.branches)
  PROVE  /\ Statement.branches[i].target \in ParallelTargets
         /\ Statement.branches[i].agent \in Agents
<1>1. Statement \in StatementsOver(DOMAIN program) /\ Statement.op = "parallel"
  BY BranchesTyped
<1> DEFINE b == Statement.branches
           B == [target : Targets, agent : Agents]
<1>2. b \in Seq(B)
  BY <1>1 DEF StatementsOver
<1>3. b[i] \in B
  <2>1. i \in 1..Len(b)
    OBVIOUS
  <2> HIDE DEF b, B
  <2>2. QED
    BY <1>2, <2>1
<1>4. b[i] \in Range(b)
  <2>1. i \in 1..Len(b)
    OBVIOUS
  <2> HIDE DEF b, B
  <2>2. QED
    BY <1>2, <2>1 DEF Range
<1>5. Statement \in Statements
  <2>1. stack # << >> /\ Top.at <= Len(StatementsOf(Top))
    BY DEF AtStatement
  <2>2. Top \in Frames
    BY <2>1, TopTyped
  <2>3. QED
    BY <2>1, <2>2, FrameStatement DEF Statement
<1>6. QED
  BY <1>1, <1>3, <1>4, <1>5 DEF ParallelTargets

(* What fits a variable still does when the history has grown.             *)
LEMMA FitsKept ==
  ASSUME Continues(runs, runs'), IsHistory(runs), program' = program,
         NEW x, NEW v \in Int, Fits(x, v)
  PROVE  Fits(x, v)'
<1>1. FlowTargets' = FlowTargets /\ ParallelTargets' = ParallelTargets
  BY DEF FlowTargets, ParallelTargets, Statements
<1>2. Len(runs) \in Nat /\ Len(runs') \in Nat /\ Len(runs) <= Len(runs')
  BY HistoryFacts DEF Continues
<1>3. \A n \in 1..Len(runs) : /\ n \in 1..Len(runs')
                              /\ runs'[n].parallel = runs[n].parallel
                              /\ runs'[n].target = runs[n].target
  BY <1>2 DEF Continues
<1>4. QED
  BY <1>1, <1>3 DEF Fits

(* So a step may keep the variables, or set them to others that fit.       *)
LEMMA ValuesKept ==
  ASSUME Continues(runs, runs'), IsHistory(runs), program' = program,
         NEW v, ValuesFit(v), vars' = v
  PROVE  ValuesFit(vars)'
<1>1. \A x \in Vars : v[x] \in Int /\ Fits(x, v[x])
  BY DEF ValuesFit
<1>2. \A x : \A w \in Int : Fits(x, w) => Fits(x, w)'
  BY FitsKept
<1>3. \A x \in Vars : Fits(x, vars[x])'
  <2> TAKE x \in Vars
  <2> DEFINE w == v[x]
  <2>1. w \in Int /\ Fits(x, w)
    BY <1>1
  <2>2. vars'[x] = w
    OBVIOUS
  <2> HIDE DEF w
  <2>3. Fits(x, w)'
    BY <1>2, <2>1
  <2>4. QED
    BY <2>2, <2>3 DEF Fits
<1>4. QED
  BY <1>3 DEF ValuesFit

(* Storing a value that fits its target.                                   *)
LEMMA AssignedFits ==
  ASSUME NEW v, ValuesFit(v), NEW target, NEW value \in Int, Fits(target, value)
  PROVE  ValuesFit(Assigned(v, target, value))
<1>1. CASE target = NoVar
  BY <1>1 DEF Assigned
<1>2. CASE target # NoVar
  BY <1>2 DEF Assigned, ValuesFit
<1>3. QED
  BY <1>1, <1>2

(* The end of a flow stores its last result into a target of a flow.       *)
LEMMA LeaveFits ==
  ASSUME StackOK, CallersCallFlows, NEW v, ValuesFit(v), NEW r,
         NEW l \in Int, l \notin {Earlier, EarlierBad}, stack # << >>, Leave(v, r, l)
  PROVE  \E w : ValuesFit(w) /\ vars' = w
<1>1. CASE Len(stack) = 1
  BY <1>1 DEF Leave
<1>2. CASE Len(stack) # 1
  <2> DEFINE callers == Front(stack)
             caller == callers[Len(callers)]
             x == StatementsOf(caller)[caller.at].target
  <2>1. vars' = Assigned(v, x, l)
    BY <1>2 DEF Leave
  <2>2. caller \in Frames /\ CallsFlow(caller)
    <3> DEFINE F == Frames
    <3>1. Len(stack) \in Nat /\ Len(stack) >= 1
      BY TopTyped
    <3>2. stack \in Seq(F)
      BY DEF StackOK
    <3> HIDE DEF F
    <3>3. Len(stack) > 1
      <4> DEFINE n == Len(stack)
      <4>1. n \in Nat /\ n >= 1 /\ n # 1
        BY <1>2, <3>1
      <4> HIDE DEF n
      <4>2. n > 1
        BY <4>1
      <4>3. QED
        BY <4>2 DEF n
    <3>4. stack \in Seq(F) /\ Len(stack) \in Nat /\ Len(stack) > 1
      BY <3>1, <3>2, <3>3
    <3>5. Len(callers) = Len(stack) - 1 /\ callers[Len(stack) - 1] = stack[Len(stack) - 1]
      BY <3>4 DEF Front
    <3>6. stack[Len(stack) - 1] \in F /\ Len(stack) - 1 \in 1..(Len(stack) - 1)
      BY <3>4
    <3>7. caller \in F
      BY <3>5, <3>6
    <3>8. CallsFlow(caller)
      BY <3>5, <3>6 DEF CallersCallFlows
    <3>9. QED
      BY <3>7, <3>8 DEF F
  <2> HIDE DEF caller
  <2>3. x \in FlowTargets
    BY <2>2, FlowTarget
  <2> HIDE DEF x
  <2>4. Fits(x, l)
    BY <2>3 DEF Fits
  <2> DEFINE w == Assigned(v, x, l)
  <2>5. ValuesFit(w)
    BY <2>4, AssignedFits
  <2>6. QED
    BY <2>1, <2>5
<1>3. QED
  BY <1>1, <1>2

(* The value of an answer fits the target of its statement.                *)
LEMMA AnswerFits ==
  ASSUME CallFits, pc = "agent", NEW answer
  PROVE  /\ ValueOf(answer) \in Int /\ ValueOf(answer) \notin {Earlier, EarlierBad}
         /\ Fits(Target, ValueOf(answer))
<1>1. call.run \in 1..Len(runs) /\ runs[call.run].target = Target
  BY DEF CallFits
<1>2. ValueOf(answer) \in {call.run, Fallback, Nothing}
  BY DEF ValueOf
<1>3. CASE ValueOf(answer) = call.run
  BY <1>1, <1>3 DEF Fits, Earlier, EarlierBad
<1>4. CASE ValueOf(answer) \in {Fallback, Nothing}
  BY <1>4 DEF Fits, Earlier, EarlierBad, Fallback, Nothing
<1>5. QED
  BY <1>2, <1>3, <1>4

(* A value a parallel block collects fits any target of a parallel block.  *)
LEMMA OutputFits ==
  ASSUME ResultInv, Collecting
  PROVE  NextOutput \in Int /\ Fits(NextBranch.target, NextOutput)
<1>1. AtStatement("parallel") /\ Top.specs \in Addresses /\ StackOK
  BY DEF ResultInv, SessionInv, BlockFits, InBlock, Collecting
<1>2. block.next \in 1..Len(Statement.branches)
  <2>1. Len(Statement.branches) \in Nat
    BY <1>1, BranchesTyped
  <2>2. block.next \in Nat \ {0} /\ block.next <= Len(Statement.branches)
    BY DEF ResultInv, BlockFits, InBlock, Collecting
  <2>3. QED
    BY <2>1, <2>2
<1>3. NextBranch.target \in ParallelTargets /\ NextBranch.agent \in Agents
  BY <1>1, <1>2, BranchTarget DEF NextBranch
<1>4. /\ NextOutput \in Int
      /\ NextOutput > 0 => IsParallelRun(NextOutput)
  BY <1>1, <1>3 DEF ResultInv, OutputsFit, NextOutput
<1>5. QED
  BY <1>3, <1>4 DEF Fits, IsParallelRun

(* The variables, for every step.                                          *)
LEMMA VarsStep ==
  ASSUME ResultInv, Next
  PROVE  ValuesFit(vars)'
<1>1. IsHistory(runs) /\ StackOK /\ program' = program
  BY ProgramStays DEF ResultInv, SessionInv
<1>2. CASE StartTurn
  <2>1. \A x \in Vars : vars'[x] = -1
    BY <1>2 DEF StartTurn, Unset
  <2>2. vars' = [x \in Vars |-> -1]
    BY <1>2 DEF StartTurn, Unset
  <2>3. vars' \in [Vars -> Int]
    BY <2>2
  <2>4. \A x \in Vars : Fits(x, vars[x])'
    BY <2>1 DEF Fits, Earlier, EarlierBad
  <2>5. QED
    BY <2>3, <2>4 DEF ValuesFit
<1>3. CASE ~StartTurn
  <2>1. Continues(runs, runs')
    BY <1>3, RunsContinue DEF ResultInv
  <2>2. SUFFICES \E v : ValuesFit(v) /\ vars' = v
    BY <1>1, <2>1, ValuesKept
  <2>3. ValuesFit(vars) /\ LastFits /\ CallersCallFlows /\ CallFits
    BY DEF ResultInv
  <2>4. CASE vars' = vars
    BY <2>3, <2>4
  <2>5. CASE AgentAnswers
    <3>1. PICK answer : /\ Answered(answer) /\ Statement.op = "agent"
             /\ LET stored == Assigned(vars, Statement.target, ValueOf(answer))
                IN \/ vars' = stored
                   \/ Leave(stored, stored[Statement.value], ValueOf(answer)) /\ UNCHANGED block
      BY <2>5 DEF AgentAnswers
    <3> DEFINE stored == Assigned(vars, Statement.target, ValueOf(answer))
    <3>2. /\ ValueOf(answer) \in Int /\ ValueOf(answer) \notin {Earlier, EarlierBad}
          /\ Fits(Statement.target, ValueOf(answer))
      BY <2>3, <3>1, AnswerFits DEF Answered, Target
    <3>3. ValuesFit(stored)
      BY <2>3, <3>2, AssignedFits
    <3>4. CASE vars' = stored
      BY <3>3, <3>4
    <3>5. CASE Leave(stored, stored[Statement.value], ValueOf(answer))
      <4>1. stack # << >>
        BY <2>3, <3>1 DEF CallFits, Answered
      <4>2. QED
        BY <1>1, <2>3, <3>2, <3>3, <3>5, <4>1, LeaveFits
    <3>6. QED
      BY <3>1, <3>4, <3>5
  <2>6. CASE ReturnFromFlow \/ FlowEnds
    <3>1. stack # << >> /\ \E r : Leave(vars, r, last)
      BY <2>6 DEF ReturnFromFlow, FlowEnds, PartEnds, Executes, AtStatement
    <3>2. last \in Int /\ last \notin {Earlier, EarlierBad}
      BY <2>3 DEF LastFits
    <3>3. QED
      BY <1>1, <2>3, <3>1, <3>2, LeaveFits
  <2>7. CASE CollectResult
    <3> DEFINE w == Assigned(vars, NextBranch.target, NextOutput)
    <3>1. vars' = w
      BY <2>7 DEF CollectResult
    <3>2. ValuesFit(w)
      BY <2>3, <2>7, OutputFits, AssignedFits DEF CollectResult
    <3>3. QED
      BY <3>1, <3>2
  <2>8. CASE RetryAnswers
    <3>1. PICK answer : /\ Answered(answer) /\ Statement.op = "parallel"
                        /\ vars' = Assigned(vars, NextBranch.target, ValueOf(answer))
      BY <2>8 DEF RetryAnswers
    <3>2. Target = NextBranch.target
      BY <3>1 DEF Target, NextBranch
    <3>3. ValueOf(answer) \in Int /\ Fits(NextBranch.target, ValueOf(answer))
      BY <2>3, <3>1, <3>2, AnswerFits DEF Answered
    <3> DEFINE w == Assigned(vars, NextBranch.target, ValueOf(answer))
    <3>4. ValuesFit(w)
      BY <2>3, <3>3, AssignedFits
    <3>5. QED
      BY <3>1, <3>4
  <2>9. CASE ~AgentAnswers /\ ~ReturnFromFlow /\ ~FlowEnds /\ ~CollectResult /\ ~RetryAnswers
    <3>1. vars' = vars
      BY <1>3, <2>9 DEF Next, CallAgent, CreateAgent, CreateAgentRaises, AgentRaises,
         AgentIsRetried, CallFlow, ReturnRaises, HandlerEnds, StartParallel,
         StartParallelRaises, ParallelRaises, ParallelEnds, ParallelAnswers, SkipResult,
         RetryResult, FinishParallel, Close, flowVars
    <3>2. QED
      BY <2>4, <3>1, SMTT(40)
  <2>10. QED
    BY <2>5, <2>6, <2>7, <2>8, <2>9
<1>4. QED
  BY <1>2, <1>3

(* The last result, for every step.                                        *)
LEMMA LastStep ==
  ASSUME ResultInv, Next
  PROVE  LastFits'
<1>1. LastFits
  BY DEF ResultInv
<1>2. CASE StartTurn
  BY <1>2 DEF StartTurn, LastFits, Nothing, Earlier, EarlierBad
<1>3. CASE AgentAnswers
  <2>1. PICK answer : Answered(answer) /\ last' = ValueOf(answer)
    BY <1>3 DEF AgentAnswers
  <2>2. QED
    BY <2>1, AnswerFits DEF ResultInv, Answered, LastFits
<1>4. CASE ~StartTurn /\ ~AgentAnswers
  <2>1. last' = last
    BY <1>4 DEF Next, CallAgent, CreateAgent, CreateAgentRaises, AgentRaises,
       AgentIsRetried, CallFlow, ReturnRaises, HandlerEnds, StartParallel,
       StartParallelRaises, ParallelRaises, ParallelEnds, ParallelAnswers, SkipResult,
       RetryResult, FinishParallel, Close, flowVars, ReturnFromFlow, FlowEnds, CollectResult,
       RetryAnswers
  <2>2. QED
    BY <1>1, <2>1, SMTT(40) DEF LastFits
<1>5. QED
  BY <1>2, <1>3, <1>4

(* A run that ran in parallel still did. *)
LEMMA ParallelRunKept ==
  ASSUME Continues(runs, runs'), IsHistory(runs)
  PROVE  \A n : IsParallelRun(n) => IsParallelRun(n)'
<1>1. Len(runs) \in Nat /\ Len(runs') \in Nat /\ Len(runs) <= Len(runs')
  BY HistoryFacts DEF Continues
<1>2. QED
  BY <1>1 DEF Continues, IsParallelRun

(* A step that writes no result into a session of a parallel block.        *)
LEMMA OutputsKept ==
  ASSUME Continues(runs, runs'), IsHistory(runs), OutputsFit, outputs' = outputs
  PROVE  OutputsFit'
<1>1. \A n : IsParallelRun(n) => IsParallelRun(n)'
  BY ParallelRunKept
<1>2. \A a \in Addresses, g \in Agents : outputs[a][g] > 0 => IsParallelRun(outputs[a][g])'
  BY <1>1 DEF OutputsFit
<1>3. QED
  BY <1>2 DEF OutputsFit, IsParallelRun

(* The sessions of parallel blocks, for every step.                        *)
LEMMA OutputsStep ==
  ASSUME ResultInv, Next
  PROVE  OutputsFit'
<1>1. IsHistory(runs) /\ OutputsFit
  BY DEF ResultInv, SessionInv
<1>2. CASE StartTurn
  <2>1. outputs' = [a \in Addresses |-> [g \in Agents |-> AsEarlier(outputs[a][g])]]
    BY <1>2 DEF StartTurn
  <2>2. \A n \in Int : AsEarlier(n) \in Int /\ ~(AsEarlier(n) > 0)
    BY DEF AsEarlier, Earlier, EarlierBad
  <2>3. \A a \in Addresses, g \in Agents : outputs[a][g] \in Int
    BY <1>1 DEF OutputsFit
  <2>4. \A a \in Addresses, g \in Agents : outputs'[a][g] \in Int /\ ~(outputs'[a][g] > 0)
    BY <2>1, <2>2, <2>3
  <2>5. outputs' \in [Addresses -> [Agents -> Int]]
    BY <2>1, <2>2, <2>3
  <2>6. QED
    BY <2>4, <2>5 DEF OutputsFit
<1>3. CASE \E i \in 1..Len(block.runs) : ParallelAnswers(i)
  <2>1. PICK i \in 1..Len(block.runs) : ParallelAnswers(i)
    BY <1>3
  <2> DEFINE n == block.runs[i]
             t == Top.specs
             h == runs[n].agent
  <2>2. IsParallelRun(n) /\ n \in Int
    BY <2>1 DEF ParallelAnswers, ResultInv, BlockFits, InBlock, IsParallelRun
  <2>3. outputs' = outputs \/ outputs' = [outputs EXCEPT ![t][h] = n]
    BY <2>1 DEF ParallelAnswers
  <2>4. Continues(runs, runs')
    BY <1>3, RunsContinue DEF ResultInv, ParallelAnswers, StartTurn
  <2>5. IsParallelRun(n)'
    <3>1. \A m : IsParallelRun(m) => IsParallelRun(m)'
      BY <1>1, <2>4, ParallelRunKept
    <3>2. n' = n
      BY <2>1 DEF ParallelAnswers
    <3>3. QED
      BY <2>2, <3>1, <3>2 DEF IsParallelRun
  <2>6. CASE outputs' = outputs
    BY <1>1, <2>4, <2>6, OutputsKept
  <2>7. CASE outputs' = [outputs EXCEPT ![t][h] = n]
    <3>0. n > 0 /\ n' = n
      BY <2>1, <2>2 DEF IsParallelRun, ParallelAnswers
    <3> HIDE DEF n, t, h
    <3>1. outputs \in [Addresses -> [Agents -> Int]]
      BY <1>1 DEF OutputsFit
    <3>2. \A a \in Addresses, g \in Agents : outputs'[a][g] \in {n, outputs[a][g]}
      BY <2>7, <3>1
    <3>3. outputs' \in [Addresses -> [Agents -> Int]]
      BY <2>2, <2>7, <3>1
    <3>4. \A m : IsParallelRun(m) => IsParallelRun(m)'
      BY <1>1, <2>4, ParallelRunKept
    <3>5. ASSUME NEW a \in Addresses, NEW g \in Agents, outputs'[a][g] > 0
          PROVE  IsParallelRun(outputs[a][g])'
      <4>1. CASE outputs'[a][g] = n
        BY <2>5, <3>0, <4>1 DEF IsParallelRun
      <4>2. CASE outputs'[a][g] = outputs[a][g]
        <5>1. IsParallelRun(outputs[a][g])
          BY <1>1, <3>5, <4>2 DEF OutputsFit
        <5>2. QED
          BY <3>4, <4>2, <5>1 DEF IsParallelRun
      <4>3. QED
        BY <3>2, <4>1, <4>2
    <3>6. QED
      BY <3>3, <3>5 DEF OutputsFit
  <2>8. QED
    BY <2>3, <2>6, <2>7
<1>4. CASE ~StartTurn /\ ~\E i \in 1..Len(block.runs) : ParallelAnswers(i)
  <2>1. Continues(runs, runs')
    BY <1>4, RunsContinue DEF ResultInv
  <2>2. outputs' = outputs
    BY <1>4 DEF Next, CallAgent, CreateAgent, CreateAgentRaises, AgentRaises,
       AgentIsRetried, AgentAnswers, CallFlow, ReturnRaises, HandlerEnds, StartParallel,
       StartParallelRaises, ParallelRaises, ParallelEnds, SkipResult,
       RetryResult, FinishParallel, Close, ReturnFromFlow, FlowEnds, CollectResult,
       RetryAnswers
  <2>3. QED
    BY <1>1, <2>1, <2>2, OutputsKept
<1>5. QED
  BY <1>2, <1>3, <1>4

(* The sequential run under way, for every step.                           *)
LEMMA CallStep ==
  ASSUME ResultInv, Next
  PROVE  CallFits'
<1>1. IsCall(call) /\ CallFits
  BY DEF ResultInv, CallFits
<1>2. CASE CallAgent \/ RetryResult
  <2>1. stack # << >> /\ stack' = stack /\ pc' = "calling"
    BY <1>2 DEF CallAgent, Executes, RetryResult, Collecting, AtStatement, ResultInv,
       BlockFits, InBlock
  <2>2. IsCall(call')
    BY <1>2 DEF CallAgent, RetryResult, IsCall
  <2>3. QED
    BY <2>1, <2>2 DEF CallFits, IsCall
<1>3. CASE CreateAgent
  <2>1. /\ call' = [call EXCEPT !.run = Len(runs) + 1]
        /\ runs' = Append(runs, SequentialRun)
        /\ pc = "calling" /\ pc' = "agent" /\ UNCHANGED <<program, stack, block>>
    BY <1>3 DEF CreateAgent
  <2>2. call' = [agent |-> call.agent, attempt |-> call.attempt, run |-> Len(runs) + 1]
    BY <1>1, <2>1 DEF IsCall
  <2>3. IsRun(SequentialRun) /\ ~SequentialRun.parallel /\ SequentialRun.target = Target
    BY DEF SequentialRun, IsRun
  <2>4. /\ Len(runs') = Len(runs) + 1 /\ runs'[Len(runs) + 1] = SequentialRun
        /\ Len(runs) \in Nat
    BY <2>1, <2>3, AppendContinues, HistoryFacts DEF ResultInv, SessionInv
  <2>5. Target' = Target
    BY <2>1 DEF Target, Statement, StatementsOf, Top
  <2>6. call'.run = Len(runs) + 1 /\ IsCall(call')
    BY <2>2 DEF IsCall
  <2>7. call'.run \in 1..Len(runs')
    BY <2>4, <2>6
  <2>8. ~runs'[call'.run].parallel /\ runs'[call'.run].target = Target'
    BY <2>3, <2>4, <2>5, <2>6
  <2>9. stack' # << >>
    BY <1>1, <2>1 DEF CallFits
  <2>10. QED
    BY <2>6, <2>7, <2>8, <2>9 DEF CallFits, IsCall
<1>4. CASE AgentIsRetried
  <2>1. /\ call' = [call EXCEPT !.attempt = 2, !.run = 0]
        /\ pc = "agent" /\ pc' = "calling" /\ stack' = stack
    BY <1>4 DEF AgentIsRetried
  <2>2. call' = [agent |-> call.agent, attempt |-> 2, run |-> 0]
    BY <1>1, <2>1 DEF IsCall
  <2>3. IsCall(call')
    BY <2>2 DEF IsCall
  <2>4. stack' # << >>
    BY <1>1, <2>1 DEF CallFits
  <2>5. QED
    BY <2>1, <2>3, <2>4 DEF CallFits, IsCall
<1>5. CASE ~CallAgent /\ ~RetryResult /\ ~CreateAgent /\ ~AgentIsRetried
  <2>1. pc' \notin {"calling", "agent"}
    BY <1>5, ZenonT(60) DEF Next, StartTurn, CreateAgentRaises, AgentRaises, AgentAnswers, CallFlow,
       Executes, PartEnds, Collecting,
       ReturnRaises, HandlerEnds, StartParallel, StartParallelRaises, ParallelRaises, ParallelEnds,
       ParallelAnswers, SkipResult, FinishParallel, Close, ReturnFromFlow, FlowEnds, CollectResult,
       RetryAnswers, Raise, Leave
  <2>2. call' = call \/ call' = NoCall
    BY <1>5 DEF Next, StartTurn, CreateAgentRaises, AgentRaises, AgentAnswers, CallFlow,
       ReturnRaises, HandlerEnds, StartParallel, StartParallelRaises, ParallelRaises, ParallelEnds,
       ParallelAnswers, SkipResult, FinishParallel, Close, ReturnFromFlow, FlowEnds, CollectResult,
       RetryAnswers, Raise
  <2>3. IsCall(call')
    BY <1>1, <2>2 DEF NoCall, IsCall
  <2>4. QED
    BY <2>1, <2>3 DEF CallFits, IsCall
<1>6. QED
  BY <1>2, <1>3, <1>4, <1>5

(* A step that goes on with the block, whatever it notes in it.            *)
LEMMA BlockKept ==
  ASSUME ResultInv, Next, ~StartTurn, UNCHANGED <<program, stack>>, InBlock' => InBlock,
         IsBlock(block'), block'.runs = block.runs, block'.next \in {block.next, block.next + 1}
  PROVE  BlockFits'
<1>1. SUFFICES ASSUME InBlock'
               PROVE  /\ AtStatement("parallel")' /\ Top'.specs \in Addresses
                      /\ block'.next \in Nat \ {0}
                      /\ Len(block'.runs) = Len(Statement'.branches)
                      /\ \A i \in 1..Len(block'.runs) : IsParallelRun(block.runs[i])'
  BY DEF BlockFits, IsBlock
<1>2. BlockFits /\ InBlock /\ IsHistory(runs)
  BY <1>1 DEF ResultInv, SessionInv
<1>3. Top' = Top /\ Statement' = Statement /\ AtStatement("parallel")' = AtStatement("parallel")
  BY DEF Top, Statement, StatementsOf, AtStatement
<1>4. \A n : IsParallelRun(n) => IsParallelRun(n)'
  BY <1>2, RunsContinue, ParallelRunKept DEF ResultInv
<1>5. block'.next \in Nat \ {0}
  BY <1>2 DEF BlockFits
<1>6. \A i \in 1..Len(block'.runs) : IsParallelRun(block.runs[i])'
  <2> TAKE i \in 1..Len(block'.runs)
  <2>1. IsParallelRun(block.runs[i])
    BY <1>2 DEF BlockFits
  <2>2. block'.runs[i] = block.runs[i]
    OBVIOUS
  <2>3. QED
    BY <1>4, <2>1, <2>2 DEF IsParallelRun
<1>7. QED
  BY <1>2, <1>3, <1>5, <1>6 DEF BlockFits

(* A block starts with the runs of its branches.                           *)
LEMMA BlockStarts ==
  ASSUME ResultInv, StartParallel
  PROVE  BlockFits'
<1> DEFINE k == Len(Statement.branches)
           new == [i \in 1..k |-> Len(runs) + i]
<1>1. AtStatement("parallel") /\ StackOK /\ SessionInv
  BY DEF StartParallel, Executes, ResultInv, SessionInv
<1>2. k \in Nat /\ Len(runs) \in Nat
  BY <1>1, BranchesTyped, HistoryFacts DEF SessionInv
<1>3. PICK address \in Addresses : stack' = [stack EXCEPT ![Len(stack)].specs = address]
  BY DEF StartParallel, FreeAddresses
<1>4. block' = [runs |-> new, pending |-> DOMAIN new, next |-> 1] /\ program' = program
  BY DEF StartParallel
<1>5. AddsOnlyParallel /\ Len(runs') = Len(runs) + k
  BY <1>1, BlockAdds
<1>6. /\ stack # << >> /\ Top \in Frames /\ Len(stack) \in Nat /\ Len(stack) >= 1
  BY <1>1, TopTyped DEF AtStatement
<1>7. /\ Len(stack') = Len(stack) /\ stack'[Len(stack)] = [Top EXCEPT !.specs = address]
  <2> DEFINE F == Frames
             f == [Top EXCEPT !.specs = address]
  <2>1. stack \in Seq(F)
    BY <1>1 DEF StackOK
  <2>2. stack' = [stack EXCEPT ![Len(stack)] = f]
    BY <1>3 DEF Top
  <2> HIDE DEF F, f
  <2>3. DOMAIN stack = 1..Len(stack) /\ Len(stack) \in DOMAIN stack
    BY <1>6, <2>1
  <2>4. /\ DOMAIN stack' = 1..Len(stack) /\ stack'[Len(stack)] = f
    BY <2>2, <2>3
  <2>5. stack' \in [1..Len(stack) -> {stack'[i] : i \in 1..Len(stack)}]
    BY <2>2, <2>3
  <2>6. Len(stack') = Len(stack)
    BY <1>6, <2>5
  <2>7. QED
    BY <2>4, <2>6 DEF f
<1>8. /\ Top'.specs = address /\ Top'.flow = Top.flow /\ Top'.part = Top.part
      /\ Top'.at = Top.at
  BY <1>6, <1>7 DEF Top, Frames
<1>9. /\ Statement' = Statement /\ AtStatement("parallel")'
  <2>1. StatementsOf(Top)' = StatementsOf(Top)
    BY <1>4, <1>8 DEF StatementsOf
  <2>2. Statement' = Statement
    BY <1>8, <2>1 DEF Statement
  <2>3. stack' # << >>
    BY <1>6, <1>7
  <2>4. QED
    BY <1>1, <1>8, <2>1, <2>2, <2>3 DEF AtStatement
<1> HIDE DEF k
<1>10. Len(new) = k /\ \A i \in 1..k : new[i] = Len(runs) + i
  BY <1>2
<1> HIDE DEF new
<1>11. block'.runs = new /\ block'.next = 1 /\ IsBlock(block')
  BY <1>4 DEF IsBlock
<1>12. \A i \in 1..k : /\ new[i] \in 1..Len(runs')
                       /\ runs'[new[i]].parallel
  <2> TAKE i \in 1..k
  <2>1. /\ Len(runs) + i \in 1..Len(runs')
        /\ Len(runs) + i \in (Len(runs) + 1)..Len(runs')
    BY <1>2, <1>5
  <2>2. QED
    BY <1>5, <1>10, <2>1 DEF AddsOnlyParallel
<1>13. QED
  BY <1>8, <1>9, <1>10, <1>11, <1>12 DEF BlockFits, IsBlock, IsParallelRun, k

(* The parallel block under way, for every step.                           *)
LEMMA BlockStep ==
  ASSUME ResultInv, Next
  PROVE  BlockFits'
<1>1. IsBlock(block) /\ BlockFits
  BY DEF ResultInv, BlockFits
<1>2. CASE StartParallel
  BY <1>2, BlockStarts
<1>3. CASE CreateAgent \/ AgentIsRetried \/ ParallelEnds \/ RetryResult
  <2>1. UNCHANGED <<program, stack, block>> /\ ~StartTurn
    BY <1>3, SMTT(40) DEF CreateAgent, AgentIsRetried, ParallelEnds, RetryResult, Collecting, StartTurn
  <2>2. InBlock' => InBlock
    BY <1>3, <2>1 DEF CreateAgent, AgentIsRetried, ParallelEnds, RetryResult, Collecting,
       InBlock, Statement, StatementsOf, Top
  <2>3. QED
    BY <1>1, <2>1, <2>2, BlockKept
<1>4. CASE CollectResult \/ SkipResult \/ RetryAnswers
             \/ \E i \in 1..Len(block.runs) : ParallelAnswers(i)
  <2>1. /\ UNCHANGED <<program, stack>> /\ ~StartTurn
        /\ InBlock
    BY <1>4 DEF CollectResult, SkipResult, RetryAnswers, ParallelAnswers, Collecting,
       StartTurn, InBlock, Answered
  <2>2. \/ block' = [block EXCEPT !.next = @ + 1]
        \/ \E i : block' = [block EXCEPT !.pending = @ \ {i}]
    BY <1>4 DEF CollectResult, SkipResult, RetryAnswers, ParallelAnswers
  <2>3. CASE block' = [block EXCEPT !.next = @ + 1]
    <3>1. block' = [runs |-> block.runs, pending |-> block.pending, next |-> block.next + 1]
      BY <1>1, <2>3 DEF IsBlock
    <3>2. IsBlock(block') /\ block'.runs = block.runs /\ block'.next = block.next + 1
      BY <3>1 DEF IsBlock
    <3>3. QED
      BY <2>1, <3>2, BlockKept
  <2>4. ASSUME NEW i, block' = [block EXCEPT !.pending = @ \ {i}] PROVE BlockFits'
    <3>1. block' = [runs |-> block.runs, pending |-> block.pending \ {i}, next |-> block.next]
      BY <1>1, <2>4 DEF IsBlock
    <3>2. IsBlock(block') /\ block'.runs = block.runs /\ block'.next = block.next
      BY <3>1, SMTT(40) DEF IsBlock
    <3>3. QED
      BY <2>1, <3>2, BlockKept
  <2>5. QED
    BY <2>2, <2>3, <2>4
<1>5. CASE CallAgent
  BY <1>1, <1>5 DEF CallAgent, Executes, AtStatement, BlockFits, InBlock, Statement,
     StatementsOf, Top, IsBlock
<1>6. CASE \/ StartTurn \/ CreateAgentRaises \/ AgentRaises \/ AgentAnswers \/ CallFlow
           \/ ReturnFromFlow \/ ReturnRaises \/ HandlerEnds \/ FlowEnds
           \/ StartParallelRaises \/ ParallelRaises \/ FinishParallel \/ Close
  <2>1. pc' \notin {"parallel", "collecting", "calling", "agent"}
    BY <1>6 DEF StartTurn, CreateAgentRaises, AgentRaises, AgentAnswers, CallFlow, Executes,
       PartEnds, ReturnRaises, HandlerEnds, StartParallelRaises, ParallelRaises,
       FinishParallel, Close, ReturnFromFlow, FlowEnds, Raise, Leave
  <2>2. block' = block \/ block' = NoBlock
    BY <1>6 DEF StartTurn, CreateAgentRaises, AgentRaises, AgentAnswers, CallFlow,
       ReturnRaises, HandlerEnds, StartParallelRaises, ParallelRaises,
       FinishParallel, Close, ReturnFromFlow, FlowEnds, Raise
  <2>3. IsBlock(block')
    BY <1>1, <2>2, SMTT(40) DEF NoBlock, IsBlock
  <2>4. QED
    BY <2>1, <2>3, SMTT(40) DEF BlockFits, InBlock, IsBlock
<1>7. QED
  BY <1>2, <1>3, <1>4, <1>5, <1>6 DEF Next

(* The callers of t are callers of s. *)
SharesCallers(s, t) ==
  /\ Len(t) \in Nat
  /\ \A i \in 1..(Len(t) - 1) : i \in 1..(Len(s) - 1) /\ t[i] = s[i]

(* Changing the top frame changes no caller.                               *)
LEMMA TopReplaced ==
  ASSUME NEW F, NEW s \in Seq(F), NEW t, DOMAIN t = DOMAIN s, t \in Seq(F),
         \A i \in 1..Len(s) : i # Len(s) => t[i] = s[i]
  PROVE  SharesCallers(s, t)
<1>1. Len(s) \in Nat /\ Len(t) = Len(s)
  OBVIOUS
<1> DEFINE n == Len(s)
<1>2. \A i \in 1..n : i # n => t[i] = s[i]
  BY SMTT(40)
<1>3. n \in Nat /\ Len(t) = n
  BY <1>1
<1> HIDE DEF n
<1>4. \A i \in 1..(Len(t) - 1) : i \in 1..(n - 1) /\ t[i] = s[i]
  <2>1. \A i \in 1..(n - 1) : i \in 1..n /\ i # n
    BY <1>3
  <2>2. QED
    BY <1>2, <1>3, <2>1
<1>5. QED
  BY <1>3, <1>4 DEF SharesCallers, n

(* Nor does the step to the next statement,                                *)
LEMMA AdvancedShares ==
  ASSUME NEW F, NEW s \in Seq(F), \A f \in F : [f EXCEPT !.at = @ + 1] \in F
  PROVE  SharesCallers(s, Advanced(s)) /\ Len(Advanced(s)) = Len(s)
<1> DEFINE t == Advanced(s)
<1>1. t \in Seq(F)
  BY AdvancedTyped
<1>2. DOMAIN t = DOMAIN s /\ \A i \in 1..Len(s) : i # Len(s) => t[i] = s[i]
  BY DEF Advanced
<1> HIDE DEF t
<1>3. SharesCallers(s, t) /\ Len(t) = Len(s)
  BY <1>1, <1>2, TopReplaced
<1>4. QED
  BY <1>3 DEF t

(* an exception,                                                           *)
LEMMA UnwoundShares ==
  ASSUME StackOK
  PROVE  SharesCallers(stack, Unwound)
<1>1. CASE Catching = {}
  BY <1>1 DEF Unwound, SharesCallers
<1>2. CASE Catching # {}
  <2> DEFINE F == Frames
             i == CHOOSE i \in Catching : \A j \in Catching : j <= i
             h == [stack[i] EXCEPT !.part = "handler", !.at = 1]
             p == SubSeq(stack, 1, i - 1)
  <2>1. stack \in Seq(F) /\ Len(stack) \in Nat /\ Catching \subseteq 1..Len(stack)
    BY DEF StackOK, Catching
  <2>2. \E m \in Catching : \A j \in Catching : j <= m
    BY <1>2, <2>1, LastPlace
  <2>3. i \in Catching
    BY <2>2
  <2>4. Unwound = Append(p, h)
    BY <1>2 DEF Unwound
  <2> HIDE DEF i
  <2>5. i \in 1..Len(stack)
    BY <2>1, <2>3
  <2> HIDE DEF h, F
  <2>6. /\ p \in Seq(F) /\ Len(p) = i - 1
        /\ \A n \in 1..(i - 1) : p[n] = stack[n]
    BY <2>1, <2>5, PrefixTyped
  <2> HIDE DEF p
  <2>7. /\ Len(Append(p, h)) = i /\ i \in Nat
        /\ \A n \in 1..(i - 1) : Append(p, h)[n] = p[n]
    BY <2>5, <2>6
  <2>8. \A n \in 1..(i - 1) : n \in 1..(Len(stack) - 1)
    BY <2>1, <2>5
  <2> DEFINE u == Append(p, h)
  <2>9. Len(u) = i /\ \A n \in 1..(i - 1) : u[n] = stack[n]
    BY <2>6, <2>7
  <2> HIDE DEF u
  <2>10. SharesCallers(stack, u)
    BY <2>7, <2>8, <2>9 DEF SharesCallers
  <2>11. QED
    BY <2>4, <2>10 DEF u
<1>3. QED
  BY <1>1, <1>2

(* or the end of a flow.                                                   *)
LEMMA LeaveShares ==
  ASSUME StackOK, NEW v, NEW r, NEW l, Leave(v, r, l)
  PROVE  SharesCallers(stack, stack')
<1>1. CASE Len(stack) = 1
  BY <1>1 DEF Leave, SharesCallers
<1>2. CASE Len(stack) # 1
  <2> DEFINE F == Frames
             s == Front(stack)
  <2>1. stack \in Seq(F) /\ \A f \in F : [f EXCEPT !.at = @ + 1] \in F
    BY FramesAdvance DEF StackOK
  <2> HIDE DEF F
  <2>2. stack' = Advanced(s)
    BY <1>2 DEF Leave
  <2>3. /\ s \in Seq(F) /\ Len(stack) \in Nat
        /\ \A i \in 1..(Len(s) - 1) : i \in 1..(Len(stack) - 1) /\ s[i] = stack[i]
    <3>1. CASE stack = << >>
      BY <3>1 DEF Front
    <3>2. CASE stack # << >>
      <4> DEFINE n == Len(stack)
      <4>1. n \in Nat /\ n >= 1
        BY <2>1, <3>2
      <4>2. n \in 1..Len(stack) /\ s = SubSeq(stack, 1, n - 1)
        BY <4>1 DEF Front
      <4> HIDE DEF n, s
      <4>3. SubSeq(stack, 1, n - 1) \in Seq(F)
        BY <2>1, <4>2, PrefixTyped
      <4>4. /\ Len(SubSeq(stack, 1, n - 1)) = n - 1
            /\ \A i \in 1..(n - 1) : SubSeq(stack, 1, n - 1)[i] = stack[i]
        BY <2>1, <4>1, <4>2
      <4>5. \A i \in 1..(n - 2) : i \in 1..(n - 1)
        BY <4>1
      <4>6. QED
        BY <4>1, <4>2, <4>3, <4>4, <4>5 DEF n
    <3>3. QED
      BY <3>1, <3>2
  <2> HIDE DEF s
  <2>4. SharesCallers(s, Advanced(s)) /\ Len(Advanced(s)) = Len(s)
    BY <2>1, <2>3, AdvancedShares
  <2>5. QED
    BY <2>2, <2>3, <2>4 DEF SharesCallers
<1>3. QED
  BY <1>1, <1>2

(* Callers that stay where they are still wait for a flow.                 *)
LEMMA CallersKept ==
  ASSUME CallersCallFlows, program' = program, SharesCallers(stack, stack')
  PROVE  CallersCallFlows'
<1>1. \A i \in 1..(Len(stack') - 1) : stack'[i] = stack[i] /\ CallsFlow(stack[i])
  BY DEF SharesCallers, CallersCallFlows
<1>2. \A f : CallsFlow(f) => CallsFlow(f)'
  BY DEF CallsFlow, StatementsOf
<1>3. \A i \in 1..(Len(stack') - 1) : CallsFlow(stack[i])'
  <2> TAKE i \in 1..(Len(stack') - 1)
  <2> DEFINE f == stack[i]
  <2>1. stack'[i] = f /\ CallsFlow(f)
    BY <1>1
  <2> HIDE DEF f
  <2>2. CallsFlow(stack'[i])
    BY <2>1
  <2>3. QED
    BY <2>2 DEF CallsFlow, StatementsOf
<1>4. QED
  BY <1>3 DEF CallersCallFlows

(* The handler of a flow and the list of a block are set in the top frame. *)
LEMMA TopSet ==
  ASSUME StackOK, StackOK', NEW f, stack' = [stack EXCEPT ![Len(stack)] = f],
         Frames' = Frames
  PROVE  SharesCallers(stack, stack')
<1> DEFINE F == Frames
<1>1. stack \in Seq(F)
  BY DEF StackOK
<1>2. stack' \in Seq(F)
  <2>1. stack' \in Seq(Frames')
    BY DEF StackOK
  <2>2. QED
    BY <2>1
<1> HIDE DEF F
<1>3. DOMAIN stack' = DOMAIN stack /\ \A i \in 1..Len(stack) : i # Len(stack) => stack'[i] = stack[i]
  BY <1>1
<1>4. QED
  BY <1>1, <1>2, <1>3, TopReplaced

(* The callers, for every step.                                            *)
LEMMA CallersStep ==
  ASSUME ResultInv, Next
  PROVE  CallersCallFlows'
<1>1. /\ StackOK /\ StackOK' /\ CallersCallFlows /\ program' = program
  BY StackStep, ProgramStays DEF ResultInv, SessionInv
<1>2. Frames' = Frames
  BY <1>1 DEF Frames
<1>3. Len(stack) \in Nat
  <2> DEFINE F == Frames
  <2>1. stack \in Seq(F)
    BY <1>1 DEF StackOK
  <2> HIDE DEF F
  <2>2. QED
    BY <2>1
<1>4. ASSUME SharesCallers(stack, stack') PROVE CallersCallFlows'
  BY <1>1, <1>4, CallersKept
<1>5. CASE stack' = stack
  BY <1>3, <1>4, <1>5 DEF SharesCallers
<1>6. CASE Raise
  BY <1>1, <1>4, <1>6, UnwoundShares DEF Raise
<1>7. CASE \E v, r, l : Leave(v, r, l)
  BY <1>1, <1>4, <1>7, LeaveShares
<1>8. CASE stack' = Advanced(stack)
  <2> DEFINE F == Frames
  <2>1. stack \in Seq(F) /\ \A f \in F : [f EXCEPT !.at = @ + 1] \in F
    BY <1>1, FramesAdvance DEF StackOK
  <2> HIDE DEF F
  <2>2. SharesCallers(stack, Advanced(stack))
    BY <2>1, AdvancedShares
  <2>3. QED
    BY <1>4, <1>8, <2>2
<1>9. CASE StartTurn
  <2>1. Len(stack') = 1
    BY <1>9, SMTT(40) DEF StartTurn
  <2>2. QED
    BY <1>4, <2>1 DEF SharesCallers
<1>10. CASE CallFlow
  <2> DEFINE F == Frames
             g == Frame(Statement.flow)
  <2>1. stack' = Append(stack, g) /\ CallsFlow(Top)
    BY <1>10 DEF CallFlow, Executes, AtStatement, CallsFlow, Statement
  <2>2. stack \in Seq(F)
    BY <1>1 DEF StackOK
  <2> HIDE DEF F, g
  <2>3. Len(stack') = Len(stack) + 1 /\ \A i \in 1..Len(stack) : stack'[i] = stack[i]
    BY <2>1, <2>2
  <2>4. \A i \in 1..(Len(stack') - 1) : stack'[i] = stack[i] /\ CallsFlow(stack[i])
    <3> TAKE i \in 1..(Len(stack') - 1)
    <3>1. i \in 1..Len(stack)
      BY <1>3, <2>3
    <3>2. CASE i = Len(stack)
      BY <2>1, <2>3, <3>1, <3>2 DEF Top
    <3>3. CASE i # Len(stack)
      <4>1. i \in 1..(Len(stack) - 1)
        BY <1>3, <3>1, <3>3
      <4>2. QED
        BY <1>1, <2>3, <3>1, <4>1 DEF CallersCallFlows
    <3>4. QED
      BY <3>2, <3>3
  <2>5. \A i \in 1..(Len(stack') - 1) : CallsFlow(stack'[i])
    BY <2>4
  <2>6. QED
    BY <1>1, <2>5 DEF CallersCallFlows, CallsFlow, StatementsOf
<1>11. CASE HandlerEnds \/ StartParallel
  <2>1. \E f : stack' = [stack EXCEPT ![Len(stack)] = f]
    <3>1. CASE StartParallel
      BY <3>1 DEF StartParallel
    <3>2. CASE HandlerEnds
      <4> DEFINE k == program[Top.flow].guarded + 1
                 f == [[stack[Len(stack)] EXCEPT !.part = "body"] EXCEPT !.at = k]
      <4>1. stack' = [stack EXCEPT ![Len(stack)].part = "body", ![Len(stack)].at = k]
        BY <3>2 DEF HandlerEnds
      <4>2. Len(stack) \in DOMAIN stack
        <5>1. stack # << >>
          BY <3>2 DEF HandlerEnds, PartEnds
        <5> DEFINE F == Frames
        <5>2. stack \in Seq(F)
          BY <1>1 DEF StackOK
        <5> HIDE DEF F
        <5>3. QED
          BY <5>1, <5>2
      <4> HIDE DEF k
      <4>3. stack' = [stack EXCEPT ![Len(stack)] = f]
        BY <4>1, <4>2
      <4>4. QED
        BY <4>3
    <3>3. QED
      BY <1>11, <3>1, <3>2
  <2>2. QED
    BY <1>1, <1>2, <1>4, <2>1, TopSet
<1>12. CASE \/ CallAgent \/ CreateAgent \/ AgentIsRetried \/ ParallelEnds \/ CollectResult
            \/ SkipResult \/ RetryResult \/ RetryAnswers \/ Close
            \/ \E i \in 1..Len(block.runs) : ParallelAnswers(i)
  BY <1>5, <1>12 DEF CallAgent, CreateAgent, AgentIsRetried, ParallelEnds, CollectResult,
     SkipResult, RetryResult, RetryAnswers, Close, ParallelAnswers
<1>13. CASE \/ CreateAgentRaises \/ AgentRaises \/ ReturnRaises \/ StartParallelRaises
            \/ ParallelRaises
  BY <1>6, <1>13 DEF CreateAgentRaises, AgentRaises, ReturnRaises, StartParallelRaises,
     ParallelRaises
<1>14. CASE AgentAnswers
  <2>1. \/ stack' = Advanced(stack)
        \/ \E v, r, l : Leave(v, r, l)
        \/ Raise
    BY <1>14 DEF AgentAnswers
  <2>2. QED
    BY <1>6, <1>7, <1>8, <2>1
<1>15. CASE ReturnFromFlow \/ FlowEnds
  BY <1>7, <1>15 DEF ReturnFromFlow, FlowEnds
<1>16. CASE FinishParallel
  BY <1>8, <1>16 DEF FinishParallel
<1>17. QED
  BY <1>9, <1>10, <1>11, <1>12, <1>13, <1>14, <1>15, <1>16 DEF Next

(* Together they are inductive,                                            *)
LEMMA ResultStep ==
  ASSUME ResultInv, [Next]_allVars
  PROVE  ResultInv'
<1>1. SessionInv'
  BY SessionStep DEF ResultInv
<1>2. CASE Next
  BY <1>1, <1>2, VarsStep, LastStep, OutputsStep, CallStep, BlockStep, CallersStep DEF ResultInv
<1>3. CASE UNCHANGED allVars
  <2>1. UNCHANGED <<program, pc, stack, vars, last, call, block, outputs, runs>>
    BY <1>3 DEF allVars, flowVars, agentVars
  <2>2. /\ FlowTargets' = FlowTargets /\ ParallelTargets' = ParallelTargets
        /\ Top' = Top /\ Statement' = Statement /\ Target' = Target
    BY <2>1 DEF FlowTargets, ParallelTargets, Statements, Top, Statement, StatementsOf, Target
  <2>3. ValuesFit(vars)' /\ LastFits'
    BY <2>1, <2>2 DEF ResultInv, ValuesFit, Fits, LastFits
  <2>4. OutputsFit'
    BY <2>1 DEF ResultInv, OutputsFit, IsParallelRun
  <2>5. CallFits'
    BY <2>1, <2>2 DEF ResultInv, CallFits, IsCall
  <2>6. BlockFits'
    BY <2>1, <2>2 DEF ResultInv, BlockFits, IsBlock, InBlock, AtStatement, IsParallelRun, StatementsOf
  <2>7. CallersCallFlows'
    BY <2>1 DEF ResultInv, CallersCallFlows, CallsFlow, StatementsOf
  <2>8. QED
    BY <1>1, <2>3, <2>4, <2>5, <2>6, <2>7 DEF ResultInv
<1>4. QED
  BY <1>2, <1>3

(* and hold when the workload is made.                                     *)
LEMMA ResultInit ==
  ASSUME Init
  PROVE  ResultInv
<1>1. /\ pc = "idle" /\ stack = << >> /\ vars = [x \in Vars |-> -1] /\ last = 0
      /\ call = NoCall /\ block = NoBlock
      /\ outputs = [a \in Addresses |-> [g \in Agents |-> -1]]
  BY DEF Init, Unset, Nothing
<1>2. ValuesFit(vars) /\ LastFits
  BY <1>1 DEF ValuesFit, Fits, LastFits, Earlier, EarlierBad
<1>3. OutputsFit
  BY <1>1 DEF OutputsFit
<1>4. CallFits /\ BlockFits
  BY <1>1 DEF CallFits, BlockFits, InBlock, IsCall, IsBlock, NoCall, NoBlock
<1>5. CallersCallFlows
  BY <1>1 DEF CallersCallFlows
<1>6. QED
  BY <1>2, <1>3, <1>4, <1>5, SessionInit DEF ResultInv

(* Whatever the programs, whichever agents answer badly, are run once more *)
(* or raise, and however flows call each other, a variable holds the answer*)
(* of a sequential run only if the run was started for it, or it takes the *)
(* result of a flow; and one of an earlier turn only if a parallel block   *)
(* stores into it (_visit_run_stmt, _process_parallel_results).            *)
THEOREM ResultsFitTheorem == Spec => []ResultsComeFromTheirStatements
<1>1. ResultInv => ResultsComeFromTheirStatements
  BY DEF ResultInv, ValuesFit, Fits, ResultsComeFromTheirStatements
<1>2. QED
  BY <1>1, ResultInit, ResultStep, PTL DEF Spec

----------------------------------------------------------------------------
(* The calls a flow makes: PromptCalls.                                    *)

(* One more value at the end of a function on 0..k. *)
LEMMA OneMore ==
  ASSUME NEW k \in Nat, NEW g, NEW x, NEW h,
         h = [n \in 0..(k + 1) |-> IF n = k + 1 THEN x ELSE g[n]]
  PROVE  /\ h[k + 1] = x
         /\ \A n \in 0..k : h[n] = g[n] /\ n # k + 1
         /\ \A n \in 1..(k + 1) : n - 1 \in 0..k /\ h[n - 1] = g[n - 1]
<1>1. ASSUME NEW n \in 0..k PROVE h[n] = g[n] /\ n # k + 1
  <2>1. n \in 0..(k + 1) /\ n # k + 1
    OBVIOUS
  <2>2. QED
    BY <2>1
<1>2. ASSUME NEW n \in 1..(k + 1) PROVE n - 1 \in 0..k
  OBVIOUS
<1>3. k + 1 \in 0..(k + 1)
  OBVIOUS
<1>4. QED
  BY <1>1, <1>2, <1>3

(* What the functions that recur on a number satisfy.                      *)
PartsBody(k, v, g) ==
  [n \in 0..k |-> IF n = 0 THEN {v} ELSE g[n - 1] \cup UNION {Held(u) : u \in g[n - 1]}]

LEMMA PartsRecursion ==
  ASSUME NEW v, MaxDepth \in Nat
  PROVE  \E g : g = PartsBody(MaxDepth, v, g) /\ Parts(v) = g[MaxDepth]
<1> DEFINE More(T) == T \cup UNION {Held(u) : u \in T}
           Body(k, g) == [n \in 0..k |-> IF n = 0 THEN {v} ELSE More(g[n - 1])]
           S == {k \in Nat : \E g : g = Body(k, g)}
<1>1. 0 \in S
  <2> HIDE DEF More
  <2> DEFINE g == [n \in 0..0 |-> {v}]
  <2>1. g = Body(0, g)
    OBVIOUS
  <2>2. QED
    <3> HIDE DEF g
    <3> QED
      BY <2>1
<1>2. ASSUME NEW k \in Nat, k \in S PROVE k + 1 \in S
  <2> HIDE DEF More
  <2>1. PICK g : g = Body(k, g)
    BY <1>2
  <2> DEFINE h == [n \in 0..(k + 1) |-> IF n = k + 1 THEN More(g[k]) ELSE g[n]]
  <2>2. /\ h[k + 1] = More(g[k])
        /\ \A n \in 0..k : h[n] = g[n] /\ n # k + 1
        /\ \A n \in 1..(k + 1) : n - 1 \in 0..k /\ h[n - 1] = g[n - 1]
    <3>1. h = [n \in 0..(k + 1) |-> IF n = k + 1 THEN More(g[k]) ELSE g[n]]
      OBVIOUS
    <3> HIDE DEF h
    <3> QED
      BY <3>1, OneMore
  <2>3. ASSUME NEW n \in 0..(k + 1)
        PROVE  h[n] = IF n = 0 THEN {v} ELSE More(h[n - 1])
    <3> HIDE DEF h
    <3>1. CASE n = k + 1
      <4>1. n # 0 /\ n \in 1..(k + 1) /\ n - 1 = k
        BY <3>1
      <4>2. QED
        BY <2>2, <3>1, <4>1
    <3>2. CASE n # k + 1
      <4>1. n \in 0..k /\ (n # 0 => n \in 1..(k + 1))
        BY <3>2
      <4>2. g[n] = IF n = 0 THEN {v} ELSE More(g[n - 1])
        BY <2>1, <4>1
      <4>3. QED
        BY <2>2, <4>1, <4>2
    <3>3. QED
      BY <3>1, <3>2
  <2>4. h = Body(k + 1, h)
    BY <2>3
  <2>5. QED
    <3> HIDE DEF h
    <3> QED
      BY <2>4
<1>3. MaxDepth \in S
  <2> HIDE DEF S
  <2> QED
    BY <1>1, <1>2, SetInduction
<1>4. PICK g : g = PartsBody(MaxDepth, v, g)
  BY <1>3 DEF PartsBody
<1> DEFINE f == CHOOSE h : h = PartsBody(MaxDepth, v, h)
<1>5. f = PartsBody(MaxDepth, v, f)
  BY <1>4
<1>6. Parts(v) = f[MaxDepth]
  BY DEF Parts, PartsBody
<1>7. QED
  BY <1>5, <1>6

(* v is among its parts. *)
LEMMA PartsHoldIt ==
  ASSUME NEW v, MaxDepth \in Nat
  PROVE  v \in Parts(v)
<1>1. PICK g : g = PartsBody(MaxDepth, v, g) /\ Parts(v) = g[MaxDepth]
  BY PartsRecursion
<1> DEFINE S == {n \in 0..MaxDepth : v \in g[n]}
<1>2. 0 \in S
  <2>1. g[0] = {v}
    BY <1>1 DEF PartsBody
  <2>2. QED
    BY <2>1
<1>3. ASSUME NEW n \in 0..MaxDepth, n \in S, n < MaxDepth PROVE n + 1 \in S
  <2>1. n + 1 \in 0..MaxDepth /\ n + 1 # 0 /\ (n + 1) - 1 = n
    BY <1>3
  <2>2. g[n + 1] = g[n] \cup UNION {Held(u) : u \in g[n]}
    BY <1>1, <2>1 DEF PartsBody
  <2>3. QED
    BY <1>3, <2>1, <2>2
<1>4. MaxDepth \in S
  <2> HIDE DEF S
  <2>1. \A n \in 0..MaxDepth : n \in S
    BY <1>2, <1>3, BoundedInduction
  <2>2. QED
    BY <2>1
<1>5. QED
  BY <1>1, <1>4

ParsedAt(P, n, before) ==
  [u \in P |->
     CASE n > 0 /\ u.is = "object" ->
            Object([f \in DOMAIN u.at |-> before[u.at[f]]])
       [] n > 0 /\ u.is = "list" ->
            List([i \in DOMAIN u.items |-> before[u.items[i]]])
       [] n > 0 /\ HoldsJson(u) -> before[Loads(u.lines).value]
       [] OTHER -> u]

ParsedValue(n, before, u) ==
  IF n > 0 /\ u.is = "object" THEN Object([f \in DOMAIN u.at |-> before[u.at[f]]])
  ELSE IF n > 0 /\ u.is = "list" THEN List([i \in DOMAIN u.items |-> before[u.items[i]]])
  ELSE IF n > 0 /\ HoldsJson(u) THEN before[Loads(u.lines).value]
  ELSE u

LEMMA ParsedCases ==
  ASSUME NEW P, NEW n, NEW before, NEW u \in P
  PROVE  ParsedAt(P, n, before)[u] = ParsedValue(n, before, u)
<1> DEFINE A == Object([f \in DOMAIN u.at |-> before[u.at[f]]])
           B == List([i \in DOMAIN u.items |-> before[u.items[i]]])
           C == before[Loads(u.lines).value]
<1>1. ParsedAt(P, n, before)[u] =
        CASE n > 0 /\ u.is = "object" -> A
          [] n > 0 /\ u.is = "list" -> B
          [] n > 0 /\ HoldsJson(u) -> C
          [] OTHER -> u
  BY Zenon DEF ParsedAt
<1>2. u.is = "object" => u.is # "list" /\ ~HoldsJson(u)
  BY DEF HoldsJson
<1>3. u.is = "list" => u.is # "object" /\ ~HoldsJson(u)
  BY DEF HoldsJson
<1>4. ParsedAt(P, n, before)[u] =
        IF n > 0 /\ u.is = "object" THEN A
        ELSE IF n > 0 /\ u.is = "list" THEN B
        ELSE IF n > 0 /\ HoldsJson(u) THEN C
        ELSE u
  <2> HIDE DEF A, B, C
  <2> QED
    BY <1>1, <1>2, <1>3
<1>5. QED
  BY <1>4, Zenon DEF ParsedValue

ParsedBody(k, P, g) == [n \in 0..k |-> ParsedAt(P, n, g[n - 1])]

LEMMA ParsedRecursion ==
  ASSUME NEW v, MaxDepth \in Nat
  PROVE  \E g : /\ g = ParsedBody(MaxDepth, Parts(v), g)
                /\ DeepParse(v) = g[MaxDepth][v]
<1> DEFINE P == Parts(v)
           S == {k \in Nat : \E g : g = ParsedBody(k, P, g)}
<1>1. 0 \in S
  <2> HIDE DEF P
  <2>1. \A x : ParsedAt(P, 0, x) = [u \in P |-> u]
    <3>1. ~(0 > 0)
      OBVIOUS
    <3>2. QED
      BY <3>1, Zenon DEF ParsedAt
  <2> DEFINE g == [n \in 0..0 |-> [u \in P |-> u]]
  <2>2. g = ParsedBody(0, P, g)
    <3>1. ParsedBody(0, P, g) = [n \in 0..0 |-> ParsedAt(P, n, g[n - 1])]
      BY DEF ParsedBody
    <3>2. \A n \in 0..0 : ParsedAt(P, n, g[n - 1]) = [u \in P |-> u]
      <4>1. \A n \in 0..0 : n = 0
        OBVIOUS
      <4>2. QED
        BY <2>1, <4>1, Zenon
    <3>3. QED
      BY <3>1, <3>2
  <2>3. QED
    <3> HIDE DEF g
    <3> QED
      BY <2>2
<1>2. ASSUME NEW k \in Nat, k \in S PROVE k + 1 \in S
  <2> HIDE DEF P
  <2>1. PICK g : g = ParsedBody(k, P, g)
    BY <1>2
  <2> DEFINE x == ParsedAt(P, k + 1, g[k])
             h == [n \in 0..(k + 1) |-> IF n = k + 1 THEN x ELSE g[n]]
  <2>2. /\ h[k + 1] = x
        /\ \A n \in 0..k : h[n] = g[n] /\ n # k + 1
        /\ \A n \in 1..(k + 1) : n - 1 \in 0..k /\ h[n - 1] = g[n - 1]
    <3> HIDE DEF x
    <3>1. h = [n \in 0..(k + 1) |-> IF n = k + 1 THEN x ELSE g[n]]
      OBVIOUS
    <3> HIDE DEF h
    <3> QED
      BY <3>1, OneMore
  <2>3. ASSUME NEW n \in 0..(k + 1)
        PROVE  h[n] = ParsedAt(P, n, h[n - 1])
    <3>1. CASE n = k + 1
      <4>1. n \in 1..(k + 1) /\ n - 1 = k
        BY <3>1
      <4>2. h[n - 1] = g[k] /\ h[n] = x
        <5> HIDE DEF h, x
        <5> QED
          BY <2>2, <3>1, <4>1
      <4>3. QED
        <5> HIDE DEF h
        <5> QED
          BY <3>1, <4>2
    <3>2. CASE n # k + 1
      <4>1. n \in 0..k
        BY <3>2
      <4>2. h[n] = g[n]
        <5> HIDE DEF h, x
        <5> QED
          BY <2>2, <4>1
      <4>3. g[n] = ParsedAt(P, n, g[n - 1])
        BY <2>1, <4>1 DEF ParsedBody
      <4>4. CASE n = 0
        <5>1. ASSUME NEW y, NEW z PROVE ParsedAt(P, 0, y) = ParsedAt(P, 0, z)
          <6>1. ~(0 > 0)
            OBVIOUS
          <6>2. QED
            BY <6>1, Zenon DEF ParsedAt
        <5>2. QED
          <6> HIDE DEF h
          <6> QED
            BY <4>2, <4>3, <4>4, <5>1
      <4>5. CASE n # 0
        <5>1. n \in 1..(k + 1)
          BY <4>1, <4>5
        <5>2. h[n - 1] = g[n - 1]
          <6> HIDE DEF h, x
          <6> QED
            BY <2>2, <5>1
        <5>3. QED
          <6> HIDE DEF h
          <6> QED
            BY <4>2, <4>3, <5>2
      <4>6. QED
        BY <4>4, <4>5
    <3>3. QED
      BY <3>1, <3>2
  <2>4. h = ParsedBody(k + 1, P, h)
    <3>1. h = [n \in 0..(k + 1) |-> h[n]]
      <4> HIDE DEF x
      <4> QED
        OBVIOUS
    <3> HIDE DEF h
    <3>2. QED
      BY <2>3, <3>1 DEF ParsedBody
  <2>5. QED
    <3> HIDE DEF h
    <3> QED
      BY <2>4
<1>3. MaxDepth \in S
  <2> HIDE DEF S
  <2> QED
    BY <1>1, <1>2, SetInduction
<1>4. PICK g : g = ParsedBody(MaxDepth, P, g)
  BY <1>3
<1> DEFINE f == CHOOSE h : h = ParsedBody(MaxDepth, Parts(v), h)
<1>5. f = ParsedBody(MaxDepth, P, f)
  BY <1>4
<1>6. DeepParse(v) = f[MaxDepth][v]
  BY DEF DeepParse, ParsedBody, ParsedAt
<1>7. QED
  BY <1>5, <1>6

(* What TextsAssumption says of the values of an answer.                   *)
IsWhole(v) == \A u \in Parts(v) : IsValue(u) /\ Held(u) \subseteq Parts(v)

(* A value that holds no text that looks like JSON is left as it is.       *)
LEMMA PlainStays ==
  ASSUME NEW v, MaxDepth \in Nat, IsWhole(v), IsPlain(v)
  PROVE  DeepParse(v) = v
<1> DEFINE P == Parts(v)
           id == [u \in P |-> u]
<1>1. PICK g : g = ParsedBody(MaxDepth, P, g) /\ DeepParse(v) = g[MaxDepth][v]
  BY ParsedRecursion
<1>2. ASSUME NEW n, NEW u \in P
      PROVE  ParsedAt(P, n, id)[u] = u
  <2>1. IsValue(u) /\ Held(u) \subseteq P /\ ~HoldsJson(u)
    BY <1>2 DEF IsWhole, IsPlain
  <2> DEFINE A == Object([f \in DOMAIN u.at |-> id[u.at[f]]])
             B == List([i \in DOMAIN u.items |-> id[u.items[i]]])
             C == id[Loads(u.lines).value]
  <2>6. ParsedAt(P, n, id)[u] =
          IF n > 0 /\ u.is = "object" THEN A
          ELSE IF n > 0 /\ u.is = "list" THEN B
          ELSE IF n > 0 /\ HoldsJson(u) THEN C
          ELSE u
    <3>1. ParsedAt(P, n, id)[u] = ParsedValue(n, id, u)
      <4> HIDE DEF P, id
      <4> QED
        BY ParsedCases
    <3>2. QED
      <4> HIDE DEF P, id
      <4> QED
        BY <3>1, Zenon DEF ParsedValue
  <2>2. CASE n > 0 /\ u.is = "object"
    <3>1. \A f \in DOMAIN u.at : u.at[f] \in P
      BY <2>1, <2>2 DEF Held
    <3>2. ParsedAt(P, n, id)[u] = A
      <4> HIDE DEF P, id, A, B, C
      <4> QED
        BY <2>2, <2>6
    <3>3. [f \in DOMAIN u.at |-> id[u.at[f]]] = [f \in DOMAIN u.at |-> u.at[f]]
      <4> HIDE DEF P
      <4> QED
        BY <3>1
    <3>4. QED
      <4> HIDE DEF P, id
      <4> QED
        BY <2>1, <2>2, <3>2, <3>3 DEF IsValue
  <2>3. CASE n > 0 /\ u.is = "list"
    <3>1. \A i \in DOMAIN u.items : u.items[i] \in P
      BY <2>1, <2>3 DEF Held
    <3>2. ParsedAt(P, n, id)[u] = B
      <4> HIDE DEF P, id, A, B, C
      <4> QED
        BY <2>3, <2>6
    <3>3. [i \in DOMAIN u.items |-> id[u.items[i]]] = [i \in DOMAIN u.items |-> u.items[i]]
      <4> HIDE DEF P
      <4> QED
        BY <3>1
    <3>4. u.items = [i \in DOMAIN u.items |-> u.items[i]]
      BY <2>1, <2>3 DEF IsValue, List
    <3>5. u = List(u.items)
      BY <2>1, <2>3 DEF IsValue, List
    <3>6. QED
      <4> HIDE DEF P, id
      <4> QED
        BY <3>2, <3>3, <3>4, <3>5, Zenon
  <2>4. CASE ~(n > 0 /\ u.is = "object") /\ ~(n > 0 /\ u.is = "list")
    <3> HIDE DEF P, id, A, B, C
    <3> QED
      BY <2>1, <2>4, <2>6
  <2>5. QED
    BY <2>2, <2>3, <2>4
<1>3. ASSUME NEW n PROVE ParsedAt(P, n, id) = id
  <2>1. ParsedAt(P, n, id) = [u \in P |-> ParsedAt(P, n, id)[u]]
    <3> HIDE DEF P, id
    <3> QED
      BY DEF ParsedAt
  <2> HIDE DEF P
  <2>2. QED
    BY <1>2, <2>1
<1> DEFINE S == {n \in 0..MaxDepth : g[n] = id}
<1>4. \A x : ParsedAt(P, 0, x) = id
  <2>1. ~(0 > 0)
    OBVIOUS
  <2> HIDE DEF P
  <2>2. QED
    BY <2>1, Zenon DEF ParsedAt
<1>5. \A n \in 0..MaxDepth : g[n] = ParsedAt(P, n, g[n - 1])
  <2> HIDE DEF P
  <2> QED
    BY <1>1 DEF ParsedBody
<1> HIDE DEF P, id
<1>6. 0 \in S
  <2>1. g[0] = ParsedAt(P, 0, g[0 - 1])
    BY <1>5
  <2>2. QED
    BY <2>1, <1>4
<1>7. ASSUME NEW n \in 0..MaxDepth, n \in S, n < MaxDepth PROVE n + 1 \in S
  <2>1. n + 1 \in 0..MaxDepth /\ (n + 1) - 1 = n
    BY <1>7
  <2>2. g[n + 1] = ParsedAt(P, n + 1, g[n])
    BY <1>5, <2>1
  <2>3. QED
    BY <1>3, <1>7, <2>1, <2>2
<1>8. g[MaxDepth] = id
  <2> HIDE DEF S
  <2>1. \A n \in 0..MaxDepth : n \in S
    BY <1>6, <1>7, BoundedInduction
  <2>2. MaxDepth \in S
    BY <2>1
  <2>3. QED
    BY <2>2 DEF S
<1>9. v \in P
  BY PartsHoldIt DEF P
<1>10. QED
  BY <1>1, <1>8, <1>9 DEF id
----------------------------------------------------------------------------
(* CodeBlocks scans the lines of a text. *)
NoBlock0 == [blocks |-> << >>, block |-> << >>, open |-> FALSE]

ReadLine(s, l) ==
  CASE IsFence(l) /\ s.open  -> [blocks |-> Append(s.blocks, s.block),
                                 block |-> << >>, open |-> FALSE]
    [] IsFence(l) /\ ~s.open -> [s EXCEPT !.open = TRUE]
    [] ~IsFence(l) /\ s.open -> [s EXCEPT !.block = Append(@, l)]
    [] OTHER                 -> s

ScanBody(text, g) ==
  [i \in 0..Len(text) |-> IF i = 0 THEN NoBlock0 ELSE ReadLine(g[i - 1], text[i])]

LEMMA ScanRecursion ==
  ASSUME NEW E, NEW text \in Seq(E)
  PROVE  \E g : g = ScanBody(text, g) /\ CodeBlocks(text) = g[Len(text)].blocks
<1> DEFINE A == [blocks : Seq(Seq(E)), block : Seq(E), open : BOOLEAN]
           F == [p \in A \X (1..Len(text)) |-> ReadLine(p[1], text[p[2]])]
<1>1. Len(text) \in Nat /\ NoBlock0 \in A
  BY DEF NoBlock0
<1>2. F \in [A \X (1..Len(text)) -> A]
  <2>1. ASSUME NEW s \in A, NEW l \in E PROVE ReadLine(s, l) \in A
    <3>1. s.open \in BOOLEAN /\ s.blocks \in Seq(Seq(E)) /\ s.block \in Seq(E)
      OBVIOUS
    <3>2. CASE IsFence(l) /\ s.open
      <4>1. ReadLine(s, l) = [blocks |-> Append(s.blocks, s.block), block |-> << >>, open |-> FALSE]
        BY <3>2 DEF ReadLine
      <4>2. QED
        BY <3>1, <4>1
    <3>3. CASE IsFence(l) /\ ~s.open
      <4>1. ReadLine(s, l) = [s EXCEPT !.open = TRUE]
        BY <3>3 DEF ReadLine
      <4>2. QED
        BY <4>1
    <3>4. CASE ~IsFence(l) /\ s.open
      <4>1. ReadLine(s, l) = [s EXCEPT !.block = Append(@, l)]
        BY <3>4 DEF ReadLine
      <4>2. Append(s.block, l) \in Seq(E)
        BY <3>1
      <4>3. QED
        BY <4>1, <4>2
    <3>5. CASE ~IsFence(l) /\ ~s.open
      BY <3>5 DEF ReadLine
    <3>6. QED
      BY <3>1, <3>2, <3>3, <3>4, <3>5
  <2>2. ASSUME NEW p \in A \X (1..Len(text)) PROVE ReadLine(p[1], text[p[2]]) \in A
    <3>1. p[1] \in A /\ text[p[2]] \in E
      OBVIOUS
    <3>2. QED
      <4> HIDE DEF A
      <4> QED
        BY <2>1, <3>1
  <2>3. QED
    <3> HIDE DEF A
    <3> QED
      BY <2>2
<1>3. PICK g \in Iterates(Len(text), A, NoBlock0, F) : TRUE
  <2> HIDE DEF F, A
  <2> QED
    BY <1>1, <1>2, Iteration
<1>4. ASSUME NEW n \in 0..Len(text)
      PROVE  g[n] = IF n = 0 THEN NoBlock0 ELSE ReadLine(g[n - 1], text[n])
  <2> HIDE DEF A
  <2>1. CASE n = 0
    BY <1>3, <2>1 DEF Iterates
  <2>2. CASE n # 0
    <3>1. n \in 1..Len(text) /\ n - 1 \in 0..Len(text)
      BY <1>1, <2>2
    <3>2. g[n] = F[<<g[n - 1], n>>] /\ g[n - 1] \in A
      <4> HIDE DEF F
      <4> QED
        BY <1>3, <3>1 DEF Iterates
    <3>3. <<g[n - 1], n>> \in A \X (1..Len(text))
      BY <3>1, <3>2
    <3>4. QED
      BY <2>2, <3>2, <3>3
  <2>3. QED
    BY <2>1, <2>2
<1>5. g = ScanBody(text, g)
  <2>1. g = [n \in 0..Len(text) |-> g[n]]
    BY <1>3 DEF Iterates
  <2>2. QED
    BY <1>4, <2>1 DEF ScanBody
<1> DEFINE f == CHOOSE h : h = ScanBody(text, h)
<1>6. f = ScanBody(text, f)
  BY <1>5
<1>7. CodeBlocks(text) = f[Len(text)].blocks
  BY DEF CodeBlocks, ScanBody, ReadLine, NoBlock0
<1>8. QED
  BY <1>6, <1>7

Opened == [blocks |-> << >>, block |-> << >>, open |-> TRUE]

(* One fenced line between lines that are no fences, or no fence at all.   *)
LEMMA FencedLine ==
  ASSUME NEW E, NEW text \in Seq(E), NEW j, ~IsFence(j), NEW w, ~IsFence(w),
         NEW o, IsFence(o), NEW k \in {1, 2}, Len(text) \in {k + 2, k + 3},
         text[k] = o, text[k + 1] = j, text[k + 2] = Fence,
         k = 2 => text[1] = w, Len(text) = k + 3 => text[k + 3] = w
  PROVE  CodeBlocks(text) = <<<<j>>>>
<1>1. PICK g : g = ScanBody(text, g) /\ CodeBlocks(text) = g[Len(text)].blocks
  BY ScanRecursion
<1>2. ASSUME NEW n \in 1..Len(text)
      PROVE  g[n] = ReadLine(g[n - 1], text[n])
  <2>1. n \in 0..Len(text) /\ n # 0
    OBVIOUS
  <2>2. QED
    BY <1>1, <2>1 DEF ScanBody
<1>3. g[0] = NoBlock0
  BY <1>1 DEF ScanBody
<1> DEFINE ended == [blocks |-> <<<<j>>>>, block |-> << >>, open |-> FALSE]
<1>4. ReadLine(NoBlock0, w) = NoBlock0 /\ ReadLine(ended, w) = ended
  BY DEF ReadLine, NoBlock0
<1>5. ReadLine(NoBlock0, o) = Opened
  BY DEF ReadLine, NoBlock0, Opened
<1>6. ReadLine(Opened, j) = [blocks |-> << >>, block |-> <<j>>, open |-> TRUE]
  <2>1. ReadLine(Opened, j) = [Opened EXCEPT !.block = Append(@, j)]
    BY DEF ReadLine, Opened
  <2>2. Append(Opened.block, j) = <<j>>
    BY DEF Opened
  <2>3. QED
    BY <2>1, <2>2 DEF Opened
<1>7. ReadLine([blocks |-> << >>, block |-> <<j>>, open |-> TRUE], Fence) = ended
  <2>1. IsFence(Fence)
    BY DEF IsFence, Fence
  <2>2. QED
    BY <2>1 DEF ReadLine
<1>8. g[k - 1] = NoBlock0
  <2>1. CASE k = 1
    BY <1>3, <2>1
  <2>2. CASE k = 2
    <3>1. 1 \in 1..Len(text) /\ 1 - 1 = 0
      BY <2>2
    <3>2. g[1] = ReadLine(g[0], w)
      BY <1>2, <2>2, <3>1
    <3>3. QED
      BY <1>3, <1>4, <2>2, <3>2
  <2>3. QED
    BY <2>1, <2>2
<1>9. g[k + 2] = ended
  <2>1. /\ k \in 1..Len(text) /\ k + 1 \in 1..Len(text) /\ k + 2 \in 1..Len(text)
        /\ (k + 1) - 1 = k /\ (k + 2) - 1 = k + 1
    OBVIOUS
  <2>2. g[k] = Opened
    BY <1>2, <1>5, <1>8, <2>1
  <2>3. g[k + 1] = ReadLine(Opened, j)
    BY <1>2, <2>1, <2>2
  <2>4. g[k + 2] = ReadLine(g[k + 1], Fence)
    BY <1>2, <2>1
  <2>5. QED
    BY <1>6, <1>7, <2>3, <2>4
<1>10. g[Len(text)] = ended
  <2>1. CASE Len(text) = k + 2
    BY <1>9, <2>1
  <2>2. CASE Len(text) = k + 3
    <3>1. k + 3 \in 1..Len(text) /\ (k + 3) - 1 = k + 2
      BY <2>2
    <3>2. g[k + 3] = ReadLine(ended, w)
      BY <1>2, <1>9, <2>2, <3>1
    <3>3. QED
      BY <1>4, <2>2, <3>2
  <2>3. QED
    BY <2>1, <2>2
<1>11. QED
  BY <1>1, <1>10

LEMMA BareLine ==
  ASSUME NEW j, ~IsFence(j)
  PROVE  CodeBlocks(<<j>>) = << >>
<1>1. <<j>> \in Seq({j}) /\ Len(<<j>>) = 1 /\ <<j>>[1] = j
  OBVIOUS
<1>2. PICK g : g = ScanBody(<<j>>, g) /\ CodeBlocks(<<j>>) = g[1].blocks
  BY <1>1, ScanRecursion
<1>3. g[0] = NoBlock0 /\ g[1] = ReadLine(g[0], j)
  <2>1. 0 \in 0..1 /\ 1 \in 0..1 /\ 1 # 0 /\ 1 - 1 = 0
    OBVIOUS
  <2>2. QED
    BY <1>1, <1>2, <2>1 DEF ScanBody
<1>4. ReadLine(NoBlock0, j) = NoBlock0
  BY DEF ReadLine, NoBlock0
<1>5. QED
  BY <1>2, <1>3, <1>4 DEF NoBlock0

(* What is put between two sequences. *)
LEMMA Around ==
  ASSUME NEW E, NEW before \in Seq(E), NEW mid \in Seq(E), NEW after \in Seq(E),
         NEW text, text = before \o mid \o after
  PROVE  /\ text \in Seq(E) /\ Len(text) = Len(before) + Len(mid) + Len(after)
         /\ \A i \in 1..Len(before) : text[i] = before[i]
         /\ \A i \in 1..Len(mid) : text[Len(before) + i] = mid[i]
         /\ \A i \in 1..Len(after) : text[Len(before) + Len(mid) + i] = after[i]
  OBVIOUS

(* Every way of saying v parses to v. *)
LEMMA SaidIsParsed ==
  ASSUME NEW text, NEW v, Says(text, v)
  PROVE  ParseJsonResponse(text) = Ok(v)
<1> DEFINE j == Json(v)
           w == Word("prose")
<1>1. ~IsFence(j) /\ ~IsFence(w)
  BY DEF Json, Word, IsFence
<1>2. Loads(<<j>>) = Ok(v)
  BY DEF Loads, Json
<1>3. CASE text = <<j>>
  <2>1. CodeBlocks(text) = << >>
    <3> HIDE DEF j
    <3> QED
      BY <1>1, <1>3, BareLine
  <2>2. Len(CodeBlocks(text)) = 0
    BY <2>1
  <2>3. QED
    <3> HIDE DEF j
    <3>1. ParseJsonResponse(text) = Loads(text)
      BY <2>2 DEF ParseJsonResponse
    <3>2. QED
      BY <1>2, <1>3, <3>1
<1>4. ASSUME CodeBlocks(text) = <<<<j>>>> PROVE ParseJsonResponse(text) = Ok(v)
  <2> HIDE DEF j
  <2>1. Len(CodeBlocks(text)) = 1 /\ CodeBlocks(text)[1] = <<j>>
    BY <1>4
  <2>2. QED
    BY <1>2, <2>1 DEF ParseJsonResponse
<1>5. CASE \E before, after \in {<< >>, <<w>>}, o \in {Fence, Tagged("json")} :
             text = before \o <<o, j, Fence>> \o after
  <2> HIDE DEF j, w
  <2>1. PICK before \in {<< >>, <<w>>}, after \in {<< >>, <<w>>}, o \in {Fence, Tagged("json")} :
               text = before \o <<o, j, Fence>> \o after
    BY <1>5
  <2> DEFINE E == {o, Fence, j, w}
             k == Len(before) + 1
  <2>9. (before = << >> \/ before = <<w>>) /\ (after = << >> \/ after = <<w>>)
    BY <2>1, Zenon
  <2>2. before \in Seq(E) /\ after \in Seq(E) /\ <<o, j, Fence>> \in Seq(E)
    <3>1. << >> \in Seq(E) /\ <<w>> \in Seq(E) /\ <<o, j, Fence>> \in Seq(E)
      OBVIOUS
    <3>2. QED
      BY <2>9, <3>1
  <2>3. Len(before) \in {0, 1} /\ Len(after) \in {0, 1} /\ Len(<<o, j, Fence>>) = 3
    <3>1. Len(<< >>) = 0 /\ Len(<<w>>) = 1 /\ Len(<<o, j, Fence>>) = 3
      OBVIOUS
    <3>2. QED
      BY <2>9, <3>1
  <2>4. text \in Seq(E) /\ Len(text) = Len(before) + 3 + Len(after)
    BY <2>1, <2>2, <2>3
  <2>8. /\ \A i \in 1..Len(before) : text[i] = before[i]
        /\ \A i \in 1..3 : text[Len(before) + i] = <<o, j, Fence>>[i]
        /\ \A i \in 1..Len(after) : text[Len(before) + 3 + i] = after[i]
    <3> DEFINE mid == <<o, j, Fence>>
    <3>1. mid \in Seq(E) /\ Len(mid) = 3 /\ text = before \o mid \o after
      BY <2>1, <2>2, <2>3
    <3> HIDE DEF E, k, mid
    <3>3. /\ \A i \in 1..Len(before) : text[i] = before[i]
          /\ \A i \in 1..Len(mid) : text[Len(before) + i] = mid[i]
          /\ \A i \in 1..Len(after) : text[Len(before) + Len(mid) + i] = after[i]
      <4>1. before \in Seq(E) /\ after \in Seq(E) /\ mid \in Seq(E)
        BY <2>2, <3>1
      <4>2. text = before \o mid \o after
        BY <3>1
      <4>3. QED
        BY <4>1, <4>2, Around
    <3>4. \A i \in 1..3 : text[Len(before) + i] = <<o, j, Fence>>[i]
      BY <3>1, <3>3 DEF mid
    <3>5. QED
      BY <3>1, <3>3, <3>4, ZenonT(60)
  <2>10. \A i \in 1..3 : text[Len(before) + i] = <<o, j, Fence>>[i]
    BY <2>8
  <2>11. Len(before) = 1 => text[1] = w
    <3>1. Len(before) = 1 => 1 \in 1..Len(before) /\ before[1] = w
      BY <2>9
    <3>2. QED
      BY <2>8, <3>1
  <2>12. Len(after) = 1 => text[Len(before) + 3 + 1] = w
    <3>1. Len(after) = 1 => 1 \in 1..Len(after) /\ after[1] = w
      BY <2>9
    <3>2. QED
      BY <2>8, <3>1
  <2>5. /\ text[k] = o /\ text[k + 1] = j /\ text[k + 2] = Fence
        /\ k = 2 => text[1] = w
        /\ Len(text) = k + 3 => text[k + 3] = w
    <3>1. /\ text[Len(before) + 1] = o /\ text[Len(before) + 2] = j
          /\ text[Len(before) + 3] = Fence
      <4>1. /\ <<o, j, Fence>>[1] = o
            /\ <<o, j, Fence>>[2] = j
            /\ <<o, j, Fence>>[3] = Fence
        OBVIOUS
      <4>2. 1 \in 1..3 /\ 2 \in 1..3 /\ 3 \in 1..3
        OBVIOUS
      <4>3. QED
        BY <2>10, <4>1, <4>2
    <3>2. CASE Len(before) = 0
      BY <2>3, <2>4, <2>12, <3>1, <3>2
    <3>3. CASE Len(before) = 1
      BY <2>3, <2>4, <2>11, <2>12, <3>1, <3>3
    <3>4. QED
      BY <2>3, <3>2, <3>3
  <2>6. k \in {1, 2} /\ Len(text) \in {k + 2, k + 3}
    <3>1. Len(before) = 0 \/ Len(before) = 1
      BY <2>3
    <3>2. Len(after) = 0 \/ Len(after) = 1
      BY <2>3
    <3>3. Len(text) = Len(before) + 3 + Len(after)
      BY <2>4
    <3>4. Len(text) = k + 2 \/ Len(text) = k + 3
      <4>1. CASE Len(after) = 0
        BY <3>1, <3>3, <4>1
      <4>2. CASE Len(after) = 1
        BY <3>1, <3>3, <4>2
      <4>3. QED
        BY <3>2, <4>1, <4>2
    <3>5. k = 1 \/ k = 2
      <4>1. CASE Len(before) = 0
        BY <4>1
      <4>2. CASE Len(before) = 1
        BY <4>2
      <4>3. QED
        BY <3>1, <4>1, <4>2
    <3>6. QED
      <4> HIDE DEF k
      <4> QED
        BY <3>4, <3>5
  <2>14. IsFence(o)
    BY DEF IsFence, Fence, Tagged
  <2>7. CodeBlocks(text) = <<<<j>>>>
    <3> HIDE DEF E, k
    <3> QED
      BY <1>1, <2>4, <2>5, <2>6, <2>14, FencedLine
  <2>13. QED
    BY <1>4, <2>7
<1>6. QED
  BY <1>3, <1>5 DEF Says
----------------------------------------------------------------------------
(* Normalized looks at a text line by line. *)
BareOf(l) == CASE l.line = "word"  -> Word(l.word)
               [] l.line = "fence" -> Word(l.tag)
               [] OTHER            -> l

ShownBody(text, g) ==
  [i \in 0..Len(text) |->
     IF i = 0 THEN << >>
     ELSE IF text[i] = Fence THEN g[i - 1]
     ELSE Append(g[i - 1], BareOf(text[i]))]

LEMMA ShownRecursion ==
  ASSUME NEW E, NEW text \in Seq(E)
  PROVE  \E g : g = ShownBody(text, g) /\ Normalized(text) = g[Len(text)]
<1> DEFINE L == {BareOf(l) : l \in E}
           A == Seq(L)
           F == [p \in A \X (1..Len(text)) |->
                   IF text[p[2]] = Fence THEN p[1] ELSE Append(p[1], BareOf(text[p[2]]))]
<1>1. Len(text) \in Nat /\ << >> \in A
  OBVIOUS
<1>2. F \in [A \X (1..Len(text)) -> A]
  <2>1. ASSUME NEW p \in A \X (1..Len(text))
        PROVE  (IF text[p[2]] = Fence THEN p[1] ELSE Append(p[1], BareOf(text[p[2]]))) \in A
    <3>1. p[1] \in Seq(L) /\ text[p[2]] \in E
      OBVIOUS
    <3>2. BareOf(text[p[2]]) \in L
      BY <3>1
    <3>3. QED
      <4> HIDE DEF L
      <4> QED
        BY <3>1, <3>2
  <2>2. QED
    <3> HIDE DEF A
    <3> QED
      BY <2>1
<1>3. PICK g \in Iterates(Len(text), A, << >>, F) : TRUE
  <2> HIDE DEF F, A
  <2> QED
    BY <1>1, <1>2, Iteration
<1>4. ASSUME NEW n \in 0..Len(text)
      PROVE  g[n] = IF n = 0 THEN << >>
                    ELSE IF text[n] = Fence THEN g[n - 1]
                    ELSE Append(g[n - 1], BareOf(text[n]))
  <2> HIDE DEF A
  <2>1. CASE n = 0
    BY <1>3, <2>1 DEF Iterates
  <2>2. CASE n # 0
    <3>1. n \in 1..Len(text) /\ n - 1 \in 0..Len(text)
      BY <1>1, <2>2
    <3>2. g[n] = F[<<g[n - 1], n>>] /\ g[n - 1] \in A
      <4> HIDE DEF F
      <4> QED
        BY <1>3, <3>1 DEF Iterates
    <3>3. <<g[n - 1], n>> \in A \X (1..Len(text))
      BY <3>1, <3>2
    <3>4. QED
      BY <2>2, <3>2, <3>3
  <2>3. QED
    BY <2>1, <2>2
<1>5. g = ShownBody(text, g)
  <2>1. g = [n \in 0..Len(text) |-> g[n]]
    BY <1>3 DEF Iterates
  <2>2. QED
    BY <1>4, <2>1 DEF ShownBody
<1> DEFINE f == CHOOSE h : h = ShownBody(text, h)
<1>6. f = ShownBody(text, f)
  BY <1>5
<1>7. Normalized(text) = f[Len(text)]
  BY DEF Normalized, ShownBody, BareOf
<1>8. QED
  BY <1>6, <1>7

(* A word, dressed or not, alone or fenced, is shown as the bare word.     *)
LEMMA WordIsShown ==
  ASSUME NEW w, NEW x \in {Word(w), Dressed(w)}
  PROVE  /\ Normalized(<<x>>) = <<Word(w)>>
         /\ Normalized(<<Fence, x, Fence>>) = <<Word(w)>>
         /\ Len(Normalized(<<Tagged("text"), x, Fence>>)) = 2
<1>1. x # Fence /\ BareOf(x) = Word(w)
  <2>1. CASE x = Word(w)
    BY <2>1 DEF Word, Fence, BareOf
  <2>2. CASE x = Dressed(w)
    BY <2>2 DEF Word, Dressed, Fence, BareOf
  <2>3. QED
    BY <2>1, <2>2
<1>2. Normalized(<<x>>) = <<Word(w)>>
  <2>1. <<x>> \in Seq({x}) /\ Len(<<x>>) = 1 /\ <<x>>[1] = x
    OBVIOUS
  <2>2. PICK g : g = ShownBody(<<x>>, g) /\ Normalized(<<x>>) = g[1]
    BY <2>1, ShownRecursion
  <2>3. 0 \in 0..1 /\ 1 \in 0..1 /\ 1 # 0 /\ 1 - 1 = 0
    OBVIOUS
  <2>4. g[0] = << >> /\ g[1] = Append(g[0], Word(w))
    BY <1>1, <2>1, <2>2, <2>3 DEF ShownBody
  <2>5. QED
    BY <2>2, <2>4
<1>3. Normalized(<<Fence, x, Fence>>) = <<Word(w)>>
  <2> DEFINE text == <<Fence, x, Fence>>
  <2>1. text \in Seq({Fence, x}) /\ Len(text) = 3
        /\ text[1] = Fence /\ text[2] = x /\ text[3] = Fence
    OBVIOUS
  <2> HIDE DEF text
  <2>2. PICK g : g = ShownBody(text, g) /\ Normalized(text) = g[3]
    BY <2>1, ShownRecursion
  <2>3. g = [i \in 0..3 |-> IF i = 0 THEN << >>
                            ELSE IF text[i] = Fence THEN g[i - 1]
                            ELSE Append(g[i - 1], BareOf(text[i]))]
    BY <2>1, <2>2 DEF ShownBody
  <2>4. g[0] = << >>
    BY <2>3
  <2>5. g[1] = g[0]
    BY <2>1, <2>3
  <2>6. g[2] = Append(g[1], Word(w))
    BY <1>1, <2>1, <2>3
  <2>7. g[3] = g[2]
    BY <2>1, <2>3
  <2>8. QED
    BY <2>2, <2>4, <2>5, <2>6, <2>7 DEF text
<1>4. Len(Normalized(<<Tagged("text"), x, Fence>>)) = 2
  <2> DEFINE o == Tagged("text")
             t == Word("text")
             text == <<o, x, Fence>>
  <2>9. o # Fence /\ BareOf(o) = t
    BY DEF Tagged, Fence, BareOf
  <2> HIDE DEF o, t
  <2>1. text \in Seq({o, Fence, x}) /\ Len(text) = 3
        /\ text[1] = o /\ text[2] = x /\ text[3] = Fence
    OBVIOUS
  <2> HIDE DEF text
  <2>2. PICK g : g = ShownBody(text, g) /\ Normalized(text) = g[3]
    BY <2>1, ShownRecursion
  <2>3. g = [i \in 0..3 |-> IF i = 0 THEN << >>
                            ELSE IF text[i] = Fence THEN g[i - 1]
                            ELSE Append(g[i - 1], BareOf(text[i]))]
    BY <2>1, <2>2 DEF ShownBody
  <2>4. g[0] = << >>
    BY <2>3
  <2>5. g[1] = Append(g[0], t)
    <3>1. text[1] # Fence /\ BareOf(text[1]) = t
      BY <2>1, <2>9
    <3>2. g[1] = Append(g[0], BareOf(text[1]))
      BY <2>3, <3>1
    <3>3. QED
      BY <3>1, <3>2
  <2>6. g[2] = Append(g[1], Word(w))
    BY <1>1, <2>1, <2>3
  <2>7. g[3] = g[2]
    BY <2>1, <2>3
  <2>8. g[1] = <<t>>
    <3>1. Append(<< >>, t) = <<t>>
      OBVIOUS
    <3>2. QED
      BY <2>4, <2>5, <3>1
  <2>10. g[2] = <<t, Word(w)>>
    BY <2>6, <2>8, TwoLines, Zenon
  <2>11. Len(g[2]) = 2
    BY <2>10, TwoLines, Zenon
  <2>12. Len(Normalized(text)) = 2
    BY <2>2, <2>7, <2>11
  <2>13. QED
    BY <2>12 DEF text, o
<1>5. QED
  BY <1>2, <1>3, <1>4

----------------------------------------------------------------------------
(* What pydantic makes of a value fits the type, and stays as it is when   *)
(* it is given again.                                                      *)
LEMMA BaseIsStable ==
  ASSUME NEW base, NEW v, NEW x \in OfBase(base, v)
  PROVE  OfBase(base, x) = {x} /\ OfBase(base, v) = {x} /\ x # Null
<1>1. CASE base = "int"
  <2>1. x.is = "num" /\ OfBase(base, v) = {x}
    BY <1>1 DEF OfBase
  <2>2. QED
    BY <1>1, <2>1 DEF OfBase, Null
<1>2. CASE base # "int"
  <2>1. x.is = "str" /\ OfBase(base, v) = {x}
    BY <1>2 DEF OfBase
  <2>2. QED
    BY <1>2, <2>1 DEF OfBase, Null
<1>3. QED
  BY <1>1, <1>2

LEMMA TypeIsStable ==
  ASSUME NEW type, NEW v, OfType(type, v) # {}
  PROVE  LET x == CHOOSE y \in OfType(type, v) : TRUE IN OfType(type, x) = {x}
<1> DEFINE x == CHOOSE y \in OfType(type, v) : TRUE
<1> SUFFICES OfType(type, x) = {x}
  OBVIOUS
<1>1. x \in OfType(type, v)
  OBVIOUS
<1>2. CASE type.isOptional /\ v = Null
  <2>1. OfType(type, v) = {Null}
    BY <1>2 DEF OfType
  <2>2. x = v
    BY <1>1, <1>2, <2>1
  <2>3. QED
    <3> HIDE DEF x
    <3> QED
      BY <1>2, <2>1, <2>2
<1>3. CASE ~(type.isOptional /\ v = Null) /\ ~type.isList
  <2>1. OfType(type, v) = OfBase(type.base, v)
    BY <1>3 DEF OfType
  <2> HIDE DEF x
  <2>2. OfBase(type.base, x) = {x} /\ x # Null
    BY <1>1, <2>1, BaseIsStable
  <2>3. QED
    BY <1>3, <2>2 DEF OfType
<1>4. CASE ~(type.isOptional /\ v = Null) /\ type.isList
  <2> DEFINE it(i) == CHOOSE y \in OfBase(type.base, v.items[i]) : TRUE
             made == List([i \in DOMAIN v.items |-> it(i)])
  <2>1. /\ v.is = "list" /\ \A i \in DOMAIN v.items : OfBase(type.base, v.items[i]) # {}
        /\ OfType(type, v) = {made}
    BY <1>1, <1>4 DEF OfType
  <2>2. x = made
    BY <1>1, <2>1
  <2>3. ASSUME NEW i \in DOMAIN v.items
        PROVE  OfBase(type.base, it(i)) = {it(i)}
    <3>1. it(i) \in OfBase(type.base, v.items[i])
      BY <2>1
    <3>2. QED
      <4> HIDE DEF it
      <4> QED
        BY <3>1, BaseIsStable
  <2>4. /\ made.is = "list" /\ DOMAIN made.items = DOMAIN v.items
        /\ \A i \in DOMAIN v.items : made.items[i] = it(i)
    <3> HIDE DEF it
    <3> QED
      BY DEF List
  <2>5. made # Null
    <3> HIDE DEF it
    <3> QED
      BY DEF List, Null
  <2>6. ASSUME NEW i \in DOMAIN v.items
        PROVE  (CHOOSE y \in OfBase(type.base, made.items[i]) : TRUE) = it(i)
    <3> HIDE DEF it, made
    <3>1. OfBase(type.base, made.items[i]) = {it(i)}
      BY <2>3, <2>4
    <3>2. QED
      BY <3>1
  <2> DEFINE again == List([i \in DOMAIN made.items |->
                              CHOOSE y \in OfBase(type.base, made.items[i]) : TRUE])
  <2>7. again = made
    <3>1. [i \in DOMAIN made.items |-> CHOOSE y \in OfBase(type.base, made.items[i]) : TRUE]
            = [i \in DOMAIN v.items |-> it(i)]
      <4> HIDE DEF it, made
      <4> QED
        BY <2>4, <2>6
    <3>2. QED
      <4> HIDE DEF it
      <4> QED
        BY <3>1, Zenon
  <2>8. \A i \in DOMAIN made.items : OfBase(type.base, made.items[i]) # {}
    <3> HIDE DEF it, made
    <3> QED
      BY <2>3, <2>4
  <2>9. OfType(type, made) = {again}
    <3> HIDE DEF made
    <3> QED
      BY <1>4, <2>4, <2>5, <2>8 DEF OfType
  <2>10. QED
    <3> HIDE DEF made, again, x
    <3> QED
      BY <2>2, <2>7, <2>9
<1>5. QED
  BY <1>2, <1>3, <1>4
GivenIn(v, f) == IF f \in DOMAIN v.at THEN v.at[f] ELSE Null

Suits(schema, v) ==
  v.is = "object" /\ \A f \in DOMAIN schema : OfType(schema[f], GivenIn(v, f)) # {}

Made(schema, v) ==
  Object([f \in DOMAIN schema |-> CHOOSE x \in OfType(schema[f], GivenIn(v, f)) : TRUE])

LEMMA ModelValidateIs ==
  ASSUME NEW schema, NEW v
  PROVE  /\ Suits(schema, v) => ModelValidate(schema, v) = Ok(Made(schema, v))
         /\ ~Suits(schema, v) => ModelValidate(schema, v) = Error("schema")
         /\ ModelValidate(schema, v).ok <=> Suits(schema, v)
<1>1. ModelValidate(schema, v) =
        IF Suits(schema, v) THEN Ok(Made(schema, v)) ELSE Error("schema")
  BY Zenon DEF ModelValidate, Suits, Made, GivenIn
<1>2. Ok(Made(schema, v)).ok = TRUE /\ Error("schema").ok = FALSE
  BY DEF Ok, Error
<1>3. QED
  BY <1>1, <1>2

LEMMA ModelFits ==
  ASSUME NEW schema, NEW v, ModelValidate(schema, v).ok
  PROVE  Conforms(schema, ModelValidate(schema, v).value)
<1> DEFINE at == [f \in DOMAIN schema |->
                    CHOOSE x \in OfType(schema[f], GivenIn(v, f)) : TRUE]
<1>1. Suits(schema, v) /\ ModelValidate(schema, v) = Ok(Made(schema, v))
  BY ModelValidateIs
<1>2. ModelValidate(schema, v).value = Object(at)
  BY <1>1 DEF Ok, Made
<1>3. DOMAIN at = DOMAIN schema
  OBVIOUS
<1>4. ASSUME NEW f \in DOMAIN schema
      PROVE  OfType(schema[f], at[f]) = {at[f]}
  <2>1. at[f] = CHOOSE x \in OfType(schema[f], GivenIn(v, f)) : TRUE
    BY <1>4
  <2>2. OfType(schema[f], GivenIn(v, f)) # {}
    BY <1>1 DEF Suits
  <2> HIDE DEF at
  <2>3. QED
    BY <2>1, <2>2, TypeIsStable
<1>5. QED
  <2> HIDE DEF at
  <2>1. Object(at).is = "object" /\ Object(at).at = at
    BY DEF Object
  <2>2. QED
    BY <1>2, <1>3, <1>4, <2>1 DEF Conforms

(* A value that conforms already is handed on as it is. *)
LEMMA ConformingStays ==
  ASSUME NEW schema, NEW v, IsValue(v), Conforms(schema, v)
  PROVE  ModelValidate(schema, v) = Ok(v)
<1> DEFINE at == [f \in DOMAIN schema |->
                    CHOOSE x \in OfType(schema[f], GivenIn(v, f)) : TRUE]
<1>1. /\ v.is = "object" /\ DOMAIN v.at = DOMAIN schema
      /\ \A f \in DOMAIN schema : OfType(schema[f], v.at[f]) = {v.at[f]}
  BY DEF Conforms
<1>2. \A f \in DOMAIN schema : OfType(schema[f], GivenIn(v, f)) = {v.at[f]}
  BY <1>1 DEF GivenIn
<1>3. Suits(schema, v)
  BY <1>1, <1>2 DEF Suits
<1>4. \A f \in DOMAIN schema :
        (CHOOSE x \in OfType(schema[f], GivenIn(v, f)) : TRUE) = v.at[f]
  BY <1>2
<1>5. at = [f \in DOMAIN v.at |-> v.at[f]]
  BY <1>1, <1>4, SMTT(40)
<1>6. v = Object([f \in DOMAIN v.at |-> v.at[f]])
  BY <1>1 DEF IsValue
<1>7. Made(schema, v) = Object(at)
  BY DEF Made
<1>8. Made(schema, v) = v
  <2> HIDE DEF at
  <2> QED
    BY <1>5, <1>6, <1>7, Zenon
<1>9. QED
  BY <1>3, <1>8, ModelValidateIs

LEMMA ParseTells ==
  ASSUME NEW text
  PROVE  ParseJsonResponse(text).ok \in BOOLEAN
<1>1. ASSUME NEW t PROVE Loads(t).ok \in BOOLEAN
  BY DEF Loads, Ok, Error
<1>2. Error("several blocks").ok \in BOOLEAN
  BY DEF Error
<1>3. \/ ParseJsonResponse(text) = Loads(text)
      \/ ParseJsonResponse(text) = Loads(CodeBlocks(text)[1])
      \/ ParseJsonResponse(text) = Error("several blocks")
  <2> DEFINE blocks == CodeBlocks(text)
  <2>1. ParseJsonResponse(text) =
          CASE Len(blocks) = 0 -> Loads(text)
            [] Len(blocks) = 1 -> Loads(blocks[1])
            [] OTHER           -> Error("several blocks")
    BY Zenon DEF ParseJsonResponse
  <2>2. \/ ParseJsonResponse(text) = Loads(text)
        \/ ParseJsonResponse(text) = Loads(blocks[1])
        \/ ParseJsonResponse(text) = Error("several blocks")
    <3> HIDE DEF blocks
    <3> QED
      BY <2>1
  <2>3. QED
    BY <2>2
<1>4. QED
  BY <1>1, <1>2, <1>3

LEMMA ItemsFit ==
  ASSUME NEW schema, NEW items, ValidateItems(schema, items).ok
  PROVE  LET v == ValidateItems(schema, items).value
         IN  v.is = "list" /\ \A i \in DOMAIN v.items : Conforms(schema, v.items[i])
<1> DEFINE each == [i \in DOMAIN items |-> ModelValidate(schema, items[i])]
           all  == \A i \in DOMAIN items : each[i].ok
           made == [i \in DOMAIN items |-> each[i].value]
<1>1. ValidateItems(schema, items) =
        IF all THEN Ok(List(made)) ELSE Error("schema")
  BY Zenon DEF ValidateItems
<1>2. all /\ ValidateItems(schema, items) = Ok(List(made))
  <2>1. Error("schema").ok = FALSE
    BY DEF Error
  <2> HIDE DEF all, made
  <2>2. QED
    BY <1>1, <2>1
<1>3. ASSUME NEW i \in DOMAIN items PROVE Conforms(schema, made[i])
  <2>1. /\ ModelValidate(schema, items[i]).ok
        /\ made[i] = ModelValidate(schema, items[i]).value
    BY <1>2
  <2>2. QED
    BY <2>1, ModelFits
<1>4. DOMAIN made = DOMAIN items
  OBVIOUS
<1>5. QED
  <2> HIDE DEF made
  <2>1. ValidateItems(schema, items).value = List(made)
    BY <1>2 DEF Ok
  <2>2. List(made).is = "list" /\ List(made).items = made
    BY DEF List
  <2>3. QED
    BY <1>3, <1>4, <2>1, <2>2

LEMMA ResponseFits ==
  ASSUME NEW text, NEW schema, NEW isArray, ValidateResponse(text, schema, isArray).ok
  PROVE  LET v == ValidateResponse(text, schema, isArray).value
         IN  IF isArray
               THEN v.is = "list" /\ \A i \in DOMAIN v.items : Conforms(schema, v.items[i])
             ELSE Conforms(schema, v)
<1> DEFINE parsed == ParseJsonResponse(text)
           value  == DeepParse(parsed.value)
<1>1. ValidateResponse(text, schema, isArray) =
        CASE ~parsed.ok -> parsed
          [] parsed.ok /\ ~isArray -> ModelValidate(schema, value)
          [] parsed.ok /\ isArray /\ value.is # "list" -> Error("no array")
          [] parsed.ok /\ isArray /\ value.is = "list" -> ValidateItems(schema, value.items)
  BY Zenon DEF ValidateResponse
<1>2. parsed.ok \in BOOLEAN
  BY ParseTells
<1>3. Error("no array").ok = FALSE
  BY DEF Error
<1> HIDE DEF parsed, value
<1>4. CASE ~parsed.ok
  <2>1. ValidateResponse(text, schema, isArray) = parsed
    BY <1>1, <1>4
  <2>2. QED
    BY <1>4, <2>1
<1>5. CASE parsed.ok /\ ~isArray
  <2>1. ValidateResponse(text, schema, isArray) = ModelValidate(schema, value)
    BY <1>1, <1>5
  <2>2. QED
    BY <1>5, <2>1, ModelFits
<1>6. CASE parsed.ok /\ isArray /\ value.is # "list"
  <2>1. ValidateResponse(text, schema, isArray) = Error("no array")
    BY <1>1, <1>6
  <2>2. QED
    BY <1>3, <2>1
<1>7. CASE parsed.ok /\ isArray /\ value.is = "list"
  <2>1. ValidateResponse(text, schema, isArray) = ValidateItems(schema, value.items)
    BY <1>1, <1>7
  <2>2. QED
    BY <1>7, <2>1, ItemsFit
<1>8. QED
  BY <1>4, <1>5, <1>6, <1>7

(* A plain value that conforms comes through unchanged. *)
LEMMA ItemsStay ==
  ASSUME NEW schema, NEW v, v.is = "list", IsValue(v),
         \A i \in DOMAIN v.items : IsValue(v.items[i]) /\ Conforms(schema, v.items[i])
  PROVE  ValidateItems(schema, v.items) = Ok(v)
<1> DEFINE each == [i \in DOMAIN v.items |-> ModelValidate(schema, v.items[i])]
           all  == \A i \in DOMAIN v.items : each[i].ok
           made == [i \in DOMAIN v.items |-> each[i].value]
<1>1. ValidateItems(schema, v.items) =
        IF all THEN Ok(List(made)) ELSE Error("schema")
  BY Zenon DEF ValidateItems
<1>2. ASSUME NEW i \in DOMAIN v.items PROVE each[i] = Ok(v.items[i])
  BY ConformingStays
<1>3. all /\ made = [i \in DOMAIN v.items |-> v.items[i]]
  <2>1. ASSUME NEW i \in DOMAIN v.items
        PROVE  each[i].ok = TRUE /\ each[i].value = v.items[i]
    <3>1. each[i] = Ok(v.items[i])
      BY <1>2
    <3> HIDE DEF each
    <3>2. QED
      BY <3>1 DEF Ok
  <2> HIDE DEF each
  <2>2. QED
    BY <2>1
<1>4. v.items = [i \in DOMAIN v.items |-> v.items[i]] /\ v = List(v.items)
  BY DEF IsValue, List
<1>5. QED
  <2> HIDE DEF all, made
  <2> QED
    BY <1>1, <1>3, <1>4

LEMMA SaidIsTaken ==
  ASSUME NEW text, NEW v, Says(text, v), MaxDepth \in Nat, IsWhole(v), IsPlain(v),
         NEW schema, NEW isArray,
         IF isArray
           THEN v.is = "list" /\ \A i \in DOMAIN v.items : Conforms(schema, v.items[i])
         ELSE Conforms(schema, v)
  PROVE  ValidateResponse(text, schema, isArray) = Ok(v)
<1> DEFINE parsed == ParseJsonResponse(text)
           value  == DeepParse(parsed.value)
<1>1. ValidateResponse(text, schema, isArray) =
        CASE ~parsed.ok -> parsed
          [] parsed.ok /\ ~isArray -> ModelValidate(schema, value)
          [] parsed.ok /\ isArray /\ value.is # "list" -> Error("no array")
          [] parsed.ok /\ isArray /\ value.is = "list" -> ValidateItems(schema, value.items)
  BY Zenon DEF ValidateResponse
<1>2. parsed.ok = TRUE /\ value = v
  <2>1. parsed = Ok(v)
    BY SaidIsParsed
  <2>2. QED
    BY <2>1, PlainStays DEF Ok
<1>3. v \in Parts(v) /\ IsValue(v)
  BY PartsHoldIt DEF IsWhole
<1> HIDE DEF parsed, value
<1>4. CASE ~isArray
  <2>1. ValidateResponse(text, schema, isArray) = ModelValidate(schema, v)
    BY <1>1, <1>2, <1>4
  <2>2. QED
    BY <1>3, <1>4, <2>1, ConformingStays
<1>5. CASE isArray
  <2>1. ValidateResponse(text, schema, isArray) = ValidateItems(schema, v.items)
    BY <1>1, <1>2, <1>5
  <2>2. ASSUME NEW i \in DOMAIN v.items PROVE IsValue(v.items[i])
    <3>1. v.items[i] \in Held(v)
      <4>1. v.is = "list" /\ v.is # "object" /\ ~HoldsJson(v)
        BY <1>5 DEF HoldsJson
      <4>2. v.items[i] \in {v.items[k] : k \in DOMAIN v.items}
        OBVIOUS
      <4>3. Held(v) = {v.items[k] : k \in DOMAIN v.items}
        BY <4>1 DEF Held
      <4>4. QED
        BY <4>2, <4>3
    <3>2. QED
      BY <1>3, <3>1 DEF IsWhole
  <2>3. QED
    BY <1>3, <1>5, <2>1, <2>2, ItemsStay
<1>6. QED
  BY <1>4, <1>5
----------------------------------------------------------------------------
(* The messages of a call: the prompt, then per failed attempt the answer  *)
(* and what was wrong with it.                                             *)
Exchange ==
  /\ \E S : messages \in Seq(S)
  /\ Len(messages) \in {1, 3, 5}
  /\ \A i \in 1..Len(messages) :
       messages[i].role = IF i % 2 = 1 THEN "user" ELSE "assistant"
  /\ \A i \in 1..Len(messages) : i % 2 = 0 =>
       messages[i + 1] =
         Feedback(ValidateResponse(messages[i].text,
                                               SchemaDefs[Prompts[asked.prompt].schema],
                                               Prompts[asked.prompt].array).error)

CallInv ==
  /\ stage \in {"flow", "asking", "answered", "raised"}
  /\ stage = "flow" => asked = NothingAsked /\ messages = << >>
  /\ stage = "asking" => "model" \in DOMAIN asked
  /\ "model" \in DOMAIN asked => "agent" \notin DOMAIN asked /\ Exchange

AgentInv ==
  stage = "answered" /\ "agent" \in DOMAIN asked =>
    /\ asked.prompt \in DOMAIN Prompts
    /\ result = TryParseJson(asked.agent)
    /\ sawWord = EscalationHolds(Condition(asked.prompt), result)

CallsInv == CallInv /\ AgentInv /\ ResultFitsTheSchema

LEMMA NothingAskedIsNone ==
  "model" \notin DOMAIN NothingAsked /\ "agent" \notin DOMAIN NothingAsked
BY DEF NothingAsked

LEMMA CallsBegin == CallsInit => CallsInv
BY NothingAskedIsNone DEF CallsInit, CallsInv, CallInv, AgentInv, ResultFitsTheSchema, IsPromptCall

(* How many messages there are. *)
LEMMA Odd ==
  ASSUME NEW N, N \in {1, 3, 5}
  PROVE  /\ N \in Nat /\ N % 2 = 1 /\ (N + 1) % 2 = 0 /\ (N + 2) % 2 = 1
         /\ N \div 2 < 3 /\ (N \div 2 < 2 => N + 2 \in {3, 5})
         /\ \A i \in 1..N : i % 2 = 0 => i < N /\ i + 1 \in 1..N
         /\ \A i \in 1..(N + 2) : i \in 1..N \/ i = N + 1 \/ i = N + 2
<1>1. CASE N = 1
  BY <1>1
<1>2. CASE N = 3
  BY <1>2
<1>3. CASE N = 5
  BY <1>3
<1>4. QED
  BY <1>1, <1>2, <1>3

LEMMA FirstRequest ==
  ASSUME NEW text, messages' = <<User(text)>>
  PROVE  Exchange'
<1>1. messages' \in Seq({User(text)}) /\ Len(messages') = 1 /\ messages'[1] = User(text)
  OBVIOUS
<1>2. \A i \in 1..1 : i = 1 /\ i % 2 = 1 /\ i % 2 # 0
  OBVIOUS
<1>3. messages'[1].role = "user"
  BY <1>1 DEF User
<1>4. \A i \in 1..Len(messages') :
        messages'[i].role = IF i % 2 = 1 THEN "user" ELSE "assistant"
  BY <1>1, <1>2, <1>3
<1>5. \A i \in 1..Len(messages') : i % 2 # 0
  BY <1>1, <1>2
<1>6. QED
  BY <1>1, <1>4, <1>5 DEF Exchange

(* A failed attempt adds its answer and its error, while there is another. *)
LEMMA NextRequest ==
  ASSUME Exchange, NEW content, NEW error, asked' = asked,
         error = ValidateResponse(content, SchemaDefs[Prompts[asked.prompt].schema],
                                  Prompts[asked.prompt].array).error,
         messages' = AddRetryFeedback(content, error)
  PROVE  Exchange'
<1> DEFINE Wrong(a) == ValidateResponse(a, SchemaDefs[Prompts[asked.prompt].schema],
                                        Prompts[asked.prompt].array).error
           said == Assistant(content)
           told == Feedback(error)
<1>1. PICK S : messages \in Seq(S)
  BY DEF Exchange
<1>2. CASE ~(Attempt < MAX_SCHEMA_RETRIES - 1)
  BY <1>2, SMTT(40) DEF AddRetryFeedback, Exchange
<1>3. CASE Attempt < MAX_SCHEMA_RETRIES - 1
  <2>1. messages' = messages \o <<said, told>>
    BY <1>3 DEF AddRetryFeedback
  <2> DEFINE T == S \cup {said, told}
             N == Len(messages)
  <2>2. N \in {1, 3, 5} /\ N \in Nat /\ N \div 2 < 2
    <3>1. MAX_SCHEMA_RETRIES - 1 = 2
      BY DEF MAX_SCHEMA_RETRIES
    <3>2. QED
      BY <1>3, <3>1 DEF Exchange, Attempt
  <2>3. /\ messages \in Seq(T) /\ <<said, told>> \in Seq(T) /\ Len(<<said, told>>) = 2
        /\ <<said, told>>[1] = said /\ <<said, told>>[2] = told
    <3> HIDE DEF said, told
    <3> QED
      BY <1>1
  <2>4. /\ messages' \in Seq(T) /\ Len(messages') = N + 2
        /\ \A i \in 1..N : messages'[i] = messages[i]
        /\ messages'[N + 1] = said /\ messages'[N + 2] = told
    <3> HIDE DEF T, said, told
    <3> QED
      BY <2>1, <2>2, <2>3
  <2>10. /\ (N + 1) % 2 = 0 /\ (N + 2) % 2 = 1 /\ N + 2 \in {3, 5}
         /\ \A i \in 1..N : i % 2 = 0 => i + 1 \in 1..N
         /\ \A i \in 1..(N + 2) : i \in 1..N \/ i = N + 1 \/ i = N + 2
    <3> HIDE DEF N
    <3> QED
      BY <2>2, Odd
  <2>5. said.role = "assistant" /\ said.text = content /\ told.role = "user"
    BY SMTT(40) DEF Assistant, Feedback
  <2>6. Len(messages') \in {3, 5}
    BY <2>4, <2>10, ZenonT(60)
  <2>7. ASSUME NEW i \in 1..Len(messages')
        PROVE  messages'[i].role = IF i % 2 = 1 THEN "user" ELSE "assistant"
    <3> HIDE DEF said, told
    <3>1. CASE i \in 1..N
      BY <2>4, <3>1, ZenonT(60) DEF Exchange
    <3>2. CASE i = N + 1
      <4> HIDE DEF N
      <4> QED
        BY <2>4, <2>5, <2>10, <3>2, ZenonT(60)
    <3>3. CASE i = N + 2
      <4> HIDE DEF N
      <4> QED
        BY <2>4, <2>5, <2>10, <3>3, ZenonT(60)
    <3>4. QED
      <4> HIDE DEF N
      <4> QED
        BY <2>4, <2>10, <3>1, <3>2, <3>3, ZenonT(60)
  <2>8. ASSUME NEW i \in 1..Len(messages'), i % 2 = 0
        PROVE  messages'[i + 1] = Feedback(Wrong(messages'[i].text))
    <3> HIDE DEF said
    <3>1. CASE i \in 1..N
      <4>1. i + 1 \in 1..N
        BY <2>8, <2>10, <3>1
      <4>2. messages[i + 1] = Feedback(Wrong(messages[i].text))
        <5> HIDE DEF told
        <5> QED
          BY <2>8, <3>1, SMTT(40) DEF Exchange
      <4>3. QED
        <5> HIDE DEF told
        <5> QED
          BY <2>4, <3>1, <4>1, <4>2
    <3>2. CASE i = N + 1
      <4>1. i + 1 = N + 2
        BY <2>2, <3>2, SMTT(40)
      <4>2. messages'[i + 1] = told /\ messages'[i].text = content
        <5> HIDE DEF told
        <5> QED
          BY <2>4, <2>5, <3>2, <4>1
      <4>3. QED
        BY <4>2
    <3>3. CASE i = N + 2
      <4>1. (N + 2) % 2 = 1
        BY <2>10
      <4>2. i % 2 = 1
        <5> HIDE DEF N
        <5> QED
          BY <3>3, <4>1, Zenon
      <4>3. i % 2 # 0
        <5>1. 1 # 0
          OBVIOUS
        <5>2. QED
          BY <4>2, <5>1, Zenon
      <4>4. QED
        BY <2>8, <4>3, Zenon
    <3>4. QED
      <4> HIDE DEF N, told
      <4> QED
        BY <2>4, <2>10, <3>1, <3>2, <3>3, ZenonT(60)
  <2>9. QED
    <3> HIDE DEF T
    <3> QED
      BY <2>4, <2>6, <2>7, <2>8 DEF Exchange
<1>4. QED
  BY <1>2, <1>3

LEMMA CallLlmKeeps ==
  ASSUME CallsInv, NEW p \in DOMAIN Prompts, NEW x, NEW m, CallLlm(p, x, m)
  PROVE  CallsInv'
<1> DEFINE text == EvaluatePromptText(p)
           request == [prompt |-> p, target |-> x,
                       model |-> IF m # "none" THEN m ELSE ResolveModel(p)]
<1>1. stage = "flow" /\ asked = NothingAsked /\ messages = << >>
  BY DEF CallsInv, CallInv, CallLlm
<1>2. CASE text.ok
  <2>1. /\ stage' = "asking" /\ asked' = request
        /\ messages' = <<User(EnrichPrompt(text.value, p))>>
    BY <1>2 DEF CallLlm
  <2>2. "model" \in DOMAIN asked' /\ "agent" \notin DOMAIN asked'
    BY <2>1
  <2>3. Exchange'
    BY <2>1, FirstRequest
  <2>4. QED
    BY <2>1, <2>2, <2>3 DEF CallsInv, CallInv, AgentInv, ResultFitsTheSchema
<1>3. CASE ~text.ok
  <2>1. stage' = "raised" /\ asked' = NothingAsked
    BY <1>1, <1>3 DEF CallLlm
  <2>2. QED
    BY <2>1, NothingAskedIsNone DEF CallsInv, CallInv, AgentInv, ResultFitsTheSchema, IsPromptCall
<1>4. QED
  BY <1>2, <1>3

(* The verdict on an answer. *)
Checked(content) ==
  IF ~HasSchema(asked.prompt) THEN Ok(Str(content))
  ELSE ValidateResponse(content, SchemaDefs[Prompts[asked.prompt].schema],
                        Prompts[asked.prompt].array)

LEMMA AnswerSteps ==
  ASSUME NEW content, GetAnswer(content)
  PROVE  /\ stage = "asking" /\ asked' = asked
         /\ Checked(content).ok =>
              result' = Checked(content).value /\ stage' = "answered" /\ messages' = messages
         /\ ~Checked(content).ok =>
              /\ messages' = AddRetryFeedback(content, Checked(content).error)
              /\ stage' \in {"raised", "asking"} /\ result' = result
BY DEF GetAnswer, Checked

LEMMA GetAnswerKeeps ==
  ASSUME CallsInv, NEW content, GetAnswer(content)
  PROVE  CallsInv'
<1>1. /\ stage = "asking" /\ asked' = asked
      /\ "model" \in DOMAIN asked /\ "agent" \notin DOMAIN asked /\ Exchange
  BY AnswerSteps DEF CallsInv, CallInv
<1>2. CASE Checked(content).ok
  <2>1. result' = Checked(content).value /\ stage' = "answered" /\ messages' = messages
    BY <1>2, AnswerSteps
  <2>2. Exchange'
    BY <1>1, <2>1, SMTT(40) DEF Exchange
  <2>3. ASSUME HasSchema(asked.prompt) PROVE ConformsTo(asked.prompt, result')
    <3>1. Checked(content) =
            ValidateResponse(content, SchemaDefs[Prompts[asked.prompt].schema],
                             Prompts[asked.prompt].array)
      BY <2>3 DEF Checked
    <3>2. QED
      BY <1>2, <2>1, <3>1, ResponseFits DEF ConformsTo
  <2>4. QED
    BY <1>1, <2>1, <2>2, <2>3
       DEF CallsInv, CallInv, AgentInv, ResultFitsTheSchema, ConformsTo, HasSchema
<1>3. CASE ~Checked(content).ok
  <2>1. /\ messages' = AddRetryFeedback(content, Checked(content).error)
        /\ stage' \in {"raised", "asking"}
    BY <1>3, AnswerSteps
  <2>2. Checked(content) =
          ValidateResponse(content, SchemaDefs[Prompts[asked.prompt].schema],
                           Prompts[asked.prompt].array)
    <3>1. Ok(Str(content)).ok = TRUE
      BY DEF Ok
    <3>2. QED
      BY <1>3, <3>1 DEF Checked
  <2>3. Exchange'
    BY <1>1, <2>1, <2>2, NextRequest
  <2>4. QED
    BY <1>1, <2>1, <2>3 DEF CallsInv, CallInv, AgentInv, ResultFitsTheSchema
<1>4. QED
  BY <1>2, <1>3

LEMMA RequestFailsKeeps ==
  ASSUME CallsInv, RequestFails
  PROVE  CallsInv'
<1>1. /\ stage = "asking" /\ asked' = asked /\ stage' = "answered" /\ result' = Null
      /\ messages' = messages
  BY DEF RequestFails
<1>2. "model" \in DOMAIN asked /\ "agent" \notin DOMAIN asked /\ Exchange
  BY <1>1 DEF CallsInv, CallInv
<1>3. Exchange'
  BY <1>1, <1>2 DEF Exchange
<1>4. QED
  BY <1>1, <1>2, <1>3 DEF CallsInv, CallInv, AgentInv, ResultFitsTheSchema

LEMMA AssignResultKeeps ==
  ASSUME CallsInv, AssignResult
  PROVE  CallsInv'
<1>1. stage' = "flow" /\ asked' = NothingAsked /\ messages' = << >>
  BY DEF AssignResult
<1>2. QED
  BY <1>1, NothingAskedIsNone DEF CallsInv, CallInv, AgentInv, ResultFitsTheSchema, IsPromptCall

LEMMA RunAgentKeeps ==
  ASSUME CallsInv, NEW p \in DOMAIN Prompts, NEW x, NEW content, RunWithPrompt(p, x, content)
  PROVE  CallsInv'
<1>1. /\ stage' = "answered" /\ result' = TryParseJson(content)
      /\ asked' = [prompt |-> p, target |-> x, agent |-> content]
      /\ sawWord' = EscalationHolds(Condition(p), result')
  BY DEF RunWithPrompt
<1>2. /\ "model" \notin DOMAIN asked' /\ asked'.prompt = p /\ asked'.agent = content
  BY <1>1
<1>3. AgentInv'
  <2>1. asked'.prompt \in DOMAIN Prompts /\ result' = TryParseJson(asked'.agent)
    BY <1>1, <1>2
  <2>2. sawWord' = EscalationHolds(Condition(asked'.prompt), result')
    BY <1>1, <1>2
  <2>3. QED
    BY <2>1, <2>2 DEF AgentInv, Condition, EscalationHolds
<1>4. QED
  BY <1>1, <1>2, <1>3 DEF CallsInv, CallInv, ResultFitsTheSchema, IsPromptCall

(* The invariant of the calls. *)
THEOREM CallsInvariant == CallsSpec => []CallsInv
<1>1. CallsInv /\ [CallsNext]_callVars => CallsInv'
  <2> SUFFICES ASSUME CallsInv, [CallsNext]_callVars PROVE CallsInv'
    OBVIOUS
  <2>1. CASE \E p \in DOMAIN Prompts, x \in TargetVars, m \in CallModifiers : CallLlm(p, x, m)
    BY <2>1, CallLlmKeeps
  <2>2. CASE \E a \in Answers : GetAnswer(a)
    BY <2>2, GetAnswerKeeps
  <2>3. CASE RequestFails
    BY <2>3, RequestFailsKeeps
  <2>4. CASE AssignResult
    BY <2>4, AssignResultKeeps
  <2>5. CASE \E p \in DOMAIN Prompts, x \in TargetVars, a \in Answers : RunWithPrompt(p, x, a)
    BY <2>5, RunAgentKeeps
  <2>6. CASE UNCHANGED callVars
    <3>1. /\ stage' = stage /\ asked' = asked /\ messages' = messages /\ result' = result
          /\ sawWord' = sawWord
      BY <2>6 DEF callVars
    <3>2. Exchange => Exchange'
      BY <3>1 DEF Exchange
    <3>3. AgentInv => AgentInv'
      BY <3>1 DEF AgentInv
    <3>4. ResultFitsTheSchema => ResultFitsTheSchema'
      BY <3>1 DEF ResultFitsTheSchema, IsPromptCall
    <3>5. QED
      BY <3>1, <3>2, <3>3, <3>4 DEF CallsInv, CallInv
  <2>7. QED
    BY <2>1, <2>2, <2>3, <2>4, <2>5, <2>6 DEF CallsNext
<1>2. QED
  BY CallsBegin, <1>1, PTL DEF CallsSpec

(* For every schema and whatever the model answers, attempt after attempt, *)
(* a call with a schema gives None or a value with exactly its fields, each*)
(* of its type: what pydantic makes of a value it makes of that again      *)
(* (PromptLlmCaller._execute_with_validation).                             *)
THEOREM ResultsFitTheirSchema == CallsSpec => []ResultFitsTheSchema
<1>1. CallsInv => ResultFitsTheSchema
  BY DEF CallsInv
<1>2. QED
  BY <1>1, CallsInvariant, PTL

(* For every schema and answer: a call makes at most three requests, and   *)
(* each after the first ends in the last answer and what was wrong with it *)
(* (_add_retry_feedback).                                                  *)
THEOREM RetriesTellTheModel == CallsSpec => []RetriesShowTheFailure
<1>1. CallsInv => RetriesShowTheFailure
  <2> SUFFICES ASSUME CallsInv, IsPromptCall PROVE RetriesShowTheFailure
    BY DEF RetriesShowTheFailure
  <2>1. Exchange
    BY DEF CallsInv, CallInv, IsPromptCall
  <2>2. DOMAIN messages = 1..Len(messages)
    BY <2>1 DEF Exchange
  <2>3. Attempt < MAX_SCHEMA_RETRIES
    <3>1. Len(messages) \div 2 < 3
      BY <2>1, Odd DEF Exchange
    <3>2. QED
      BY <3>1 DEF Attempt, MAX_SCHEMA_RETRIES
  <2>4. ASSUME NEW i \in 1..Len(messages), i % 2 = 0 PROVE i < Len(messages)
    BY <2>1, <2>4, Odd DEF Exchange
  <2>5. QED
    BY <2>1, <2>2, <2>3, <2>4 DEF RetriesShowTheFailure, Exchange
<1>2. QED
  BY <1>1, CallsInvariant, PTL

(* For every schema, every prompt and every nesting of values: an answer   *)
(* that says a value of the schema, alone or fenced, among words or not, is*)
(* the result as it stands, on whichever attempt it comes. The value holds *)
(* no text that looks like JSON (validate_response of schema_validator,    *)
(* deep_parse_json_strings).                                               *)
THEOREM ConformingAnswers == CallsSpec => ConformingAnswerIsTaken
<1> DEFINE Taken == \A a \in Answers : GetAnswer(a) /\ HasSchema(asked.prompt) =>
              \A i \in {1, 2, 3} \cap DOMAIN a :
                a[i].line = "json" /\ Says(a, a[i].value) /\ IsPlain(a[i].value)
                  /\ ConformsTo(asked.prompt, a[i].value)
                => stage' = "answered" /\ result' = a[i].value
<1>1. Taken
  <2> SUFFICES ASSUME NEW a \in Answers, GetAnswer(a), HasSchema(asked.prompt),
                      NEW i \in {1, 2, 3} \cap DOMAIN a,
                      a[i].line = "json", Says(a, a[i].value), IsPlain(a[i].value),
                      ConformsTo(asked.prompt, a[i].value)
               PROVE  stage' = "answered" /\ result' = a[i].value
    OBVIOUS
  <2> DEFINE v == a[i].value
             schema == SchemaDefs[Prompts[asked.prompt].schema]
             isArray == Prompts[asked.prompt].array
  <2>1. MaxDepth \in Nat
    BY PromptCallsAssumption
  <2>2. IsWhole(v)
    BY TextsAssumption DEF IsWhole
  <2>3. IF isArray
          THEN v.is = "list" /\ \A k \in DOMAIN v.items : Conforms(schema, v.items[k])
        ELSE Conforms(schema, v)
    BY DEF ConformsTo
  <2>4. ValidateResponse(a, schema, isArray) = Ok(v)
    <3>1. Says(a, v) /\ IsPlain(v)
      OBVIOUS
    <3> HIDE DEF v, schema, isArray
    <3> QED
      BY <2>1, <2>2, <2>3, <3>1, SaidIsTaken
  <2>5. Checked(a) = Ok(v)
    BY <2>4 DEF Checked
  <2>6. Checked(a).ok = TRUE /\ Checked(a).value = v
    <3> HIDE DEF v
    <3> QED
      BY <2>5 DEF Ok
  <2>7. QED
    BY <2>6, AnswerSteps
<1>2. QED
  BY <1>1, PTL DEF ConformingAnswerIsTaken

(* _try_parse_json takes a block that is the whole text apart. *)
LEMMA BlockIsOpened ==
  ASSUME NEW o, IsFence(o), NEW x
  PROVE  TryParseJson(<<o, x, Fence>>) =
           IF Loads(<<x>>).ok THEN Loads(<<x>>).value ELSE Str(<<o, x, Fence>>)
<1> DEFINE text == <<o, x, Fence>>
<1>1. /\ text \in Seq({o, x, Fence}) /\ Len(text) = 3
      /\ text[1] = o /\ text[2] = x /\ text[3] = Fence
  OBVIOUS
<1> HIDE DEF text
<1>2. SubSeq(text, 2, Len(text) - 1) = <<x>>
  <2>1. SubSeq(text, 2, 2) = <<text[2]>>
    <3> DEFINE part == SubSeq(text, 2, 2)
    <3>1. part \in Seq({o, x, Fence}) /\ Len(part) = 1 /\ part[1] = text[2]
      BY <1>1, SubSeqProperties
    <3> HIDE DEF part
    <3>2. part = <<text[2]>>
      BY <3>1
    <3>3. QED
      BY <3>2 DEF part
  <2>2. QED
    BY <1>1, <2>1
<1>3. Len(text) >= 3 /\ IsFence(text[1]) /\ text[Len(text)] = Fence
  BY <1>1
<1>4. TryParseJson(text) = IF Loads(<<x>>).ok THEN Loads(<<x>>).value ELSE Str(text)
  BY <1>2, <1>3 DEF TryParseJson
<1>5. QED
  BY <1>4 DEF text

(* What an agent said of a word, as it is compared. *)
LEMMA WordIsSeen ==
  ASSUME NEW w, NEW x \in {Word(w), Dressed(w)}, NEW o, IsFence(o),
         NEW text \in {<<x>>, <<o, x, Fence>>}
  PROVE  TryParseJson(text) = Str(text)
<1>1. x.line = "word"
  BY DEF Word, Dressed
<1>2. CASE text = <<x>>
  <2>1. Len(text) = 1 /\ text[1] = x
    BY <1>2
  <2>2. ~(Len(text) >= 3 /\ IsFence(text[1]) /\ text[Len(text)] = Fence)
    BY <2>1
  <2>3. Loads(text).ok = FALSE
    BY <1>1, <2>1 DEF Loads, Error
  <2>4. QED
    BY <2>2, <2>3 DEF TryParseJson
<1>3. CASE text = <<o, x, Fence>>
  <2>3. Loads(<<x>>).ok = FALSE
    BY <1>1 DEF Loads, Error
  <2>4. QED
    BY <1>3, <2>3, BlockIsOpened
<1>4. QED
  BY <1>2, <1>3

(* A word in the quotes of a JSON string, alone or in a block. *)
LEMMA QuotedIsSeen ==
  ASSUME NEW w, NEW o, IsFence(o), NEW text,
         text \in {<<Json(Str(<<Word(w)>>))>>, <<o, Json(Str(<<Word(w)>>)), Fence>>}
  PROVE  TryParseJson(text) = Str(<<Word(w)>>)
<1> DEFINE v == Str(<<Word(w)>>)
           l == Json(v)
<1>1. Loads(<<l>>) = Ok(v)
  <2> HIDE DEF v
  <2>1. l.line = "json" /\ l.value = v
    BY DEF Json
  <2> HIDE DEF l
  <2> DEFINE one == <<l>>
  <2>2. Len(one) = 1 /\ one[1] = l
    OBVIOUS
  <2> HIDE DEF one
  <2>3. Loads(one) = Ok(v)
    BY <2>1, <2>2 DEF Loads
  <2>4. QED
    BY <2>3 DEF one
<1>2. Loads(<<l>>).ok = TRUE /\ Loads(<<l>>).value = v
  <2> HIDE DEF v, l
  <2> QED
    BY <1>1 DEF Ok
<1>3. CASE text = <<l>>
  <2> HIDE DEF v, l
  <2>1. ~(Len(text) >= 3 /\ IsFence(text[1]) /\ text[Len(text)] = Fence)
    BY <1>3
  <2>2. TryParseJson(text) = v
    BY <1>2, <1>3, <2>1 DEF TryParseJson
  <2>3. QED
    BY <2>2 DEF v
<1>4. CASE text = <<o, l, Fence>>
  <2> HIDE DEF v, l
  <2>1. TryParseJson(text) = v
    BY <1>2, <1>4, BlockIsOpened
  <2>2. QED
    BY <2>1 DEF v
<1>5. QED
  BY <1>3, <1>4

(* Whatever is assumed of the prompts, an agent that says the word of its  *)
(* condition, in a bare block, in markdown or in quotes, escalates with    *)
(* "~", and one that says it bare in a block with a tag does not           *)
(* (EscalationHandler.check over normalize_for_comparison, after           *)
(* _try_parse_json).                                                       *)
THEOREM EscalationSees == CallsSpec => []EscalationSeesTheWord
<1>1. CallsInv => EscalationSeesTheWord
  <2> DEFINE cond == Condition(asked.prompt)
             w == cond.value.word
             said == {Word(w), Dressed(w)}
             quoted == Json(Str(<<Word(w)>>))
  <2> SUFFICES ASSUME CallsInv, stage = "answered", "agent" \in DOMAIN asked, cond.op = "~"
               PROVE  /\ asked.agent \in {<<l>> : l \in said \cup {quoted}}
                                    \cup {<<Fence, l, Fence>> : l \in said \cup {quoted}}
                                    \cup {<<Tagged("json"), quoted, Fence>>}
                           => sawWord
                      /\ asked.agent \in {<<Tagged("text"), l, Fence>> : l \in said} => ~sawWord
    BY DEF EscalationSeesTheWord
  <2>1. /\ asked.prompt \in DOMAIN Prompts
        /\ result = TryParseJson(asked.agent)
        /\ sawWord = EscalationHolds(cond, result)
    BY DEF CallsInv, AgentInv
  <2>2. cond.value \in {Word(w), Dressed(w)}
    BY <2>1, TextsAssumption DEF Condition
  <2> HIDE DEF cond, w
  <2>3. Normalized(<<cond.value>>) = <<Word(w)>>
    BY <2>2, WordIsShown
  <2>4. IsFence(Fence) /\ IsFence(Tagged("json")) /\ IsFence(Tagged("text"))
    BY DEF IsFence, Fence, Tagged
  <2>5. ASSUME NEW text, result = Str(text)
        PROVE  sawWord = (Normalized(text) = <<Word(w)>>)
    <3>1. PyStr(result) = text
      <4>1. result.is = "str" /\ result.lines = text
        BY <2>5 DEF Str
      <4>2. QED
        BY <4>1 DEF PyStr, TextOf
    <3>2. EscalationHolds(cond, result) = NormalizedEquals(PyStr(result), <<cond.value>>)
      BY DEF EscalationHolds
    <3>3. QED
      BY <2>1, <2>3, <3>1, <3>2 DEF NormalizedEquals
  <2>6. ASSUME NEW x \in said, asked.agent \in {<<x>>, <<Fence, x, Fence>>} PROVE sawWord
    <3>1. result = Str(asked.agent)
      BY <2>1, <2>4, <2>6, WordIsSeen
    <3>2. Normalized(asked.agent) = <<Word(w)>>
      BY <2>6, WordIsShown
    <3>3. QED
      BY <2>5, <3>1, <3>2
  <2>7. ASSUME asked.agent \in {<<quoted>>, <<Fence, quoted, Fence>>,
                                <<Tagged("json"), quoted, Fence>>}
        PROVE  sawWord
    <3>1. result = Str(<<Word(w)>>)
      BY <2>1, <2>4, <2>7, QuotedIsSeen
    <3>2. Normalized(<<Word(w)>>) = <<Word(w)>>
      BY WordIsShown
    <3>3. QED
      BY <2>5, <3>1, <3>2
  <2>8. ASSUME NEW x \in said, asked.agent = <<Tagged("text"), x, Fence>> PROVE ~sawWord
    <3>1. result = Str(asked.agent)
      BY <2>1, <2>4, <2>8, WordIsSeen
    <3>2. Len(Normalized(asked.agent)) = 2
      BY <2>8, WordIsShown
    <3>3. Normalized(asked.agent) # <<Word(w)>>
      BY <3>2
    <3>4. QED
      BY <2>5, <3>1, <3>3
  <2>9. QED
    <3> HIDE DEF quoted, said
    <3> QED
      BY <2>6, <2>7, <2>8
<1>2. QED
  BY <1>1, CallsInvariant, PTL
=============================================================================
