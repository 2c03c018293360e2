-------------------------- MODULE MCSessionEvents --------------------------
(***************************************************************************)
(* Every session history the agent loop can leave behind, up to MaxLen     *)
(* events, and what the rewriting functions of SessionEvents do to it.     *)
(***************************************************************************)
EXTENDS SessionEvents

CONSTANTS
  MaxLen,            \* bound: events in a history
  KeptByTruncation   \* events truncation keeps (6 in the code)

ASSUME TruncationAssumption == KeptByTruncation \in Nat

VARIABLE left

Newest == left[Len(left)]

(* A user message may follow anything: the run before it may have failed   *)
(* or been interrupted between a call and its response.                    *)
UserPrompts ==
  \E t \in Turns : left' = Append(left, UserText(t))

(* The agent calls a tool after the prompt or after a response. *)
AgentCalls ==
  /\ left # << >>
  /\ Newest.kind \in {"user", "system", "result"}
  /\ \E t \in Tools : left' = Append(left, Call(t))

ToolAnswers ==
  /\ left # << >>
  /\ IsToolCall(Newest)
  /\ left' = Append(left, Result(Newest.of))

(* The agent ends its run, with text, without text or without content. *)
Reply ==
  /\ left # << >>
  /\ Newest.kind \in {"user", "system", "result"}
  /\ \E t \in Turns :
       \E e \in {AgentText(t), Blank(t), Contentless(t)} :
          left' = Append(left, e)

(* Mid-run compaction by truncation, after any event but a call. *)
Truncate ==
  /\ left # << >>
  /\ ~IsToolCall(Newest)
  /\ Len(left) > KeptByTruncation + 1
  /\ left' = Truncated(left, KeptByTruncation)

LoopInit == left = << >>
LoopNext ==
  \/ Len(left) < MaxLen /\ (UserPrompts \/ AgentCalls \/ ToolAnswers \/ Reply)
  \/ Truncate
LoopSpec == LoopInit /\ [][LoopNext]_left

----------------------------------------------------------------------------
(* What validation should return, said without the scan: a call stays when *)
(* the next event with content is its response, a response when the event  *)
(* with content before it is a call, everything else stays.                *)
NextContent(i) == {j \in DOMAIN left : j > i /\ HasContent(left[j])}
PrevContent(i) == {j \in DOMAIN left : j < i /\ HasContent(left[j])}
Least(S)    == CHOOSE x \in S : \A y \in S : x <= y
Greatest(S) == CHOOSE x \in S : \A y \in S : x >= y

CallAnswered(i) ==
  NextContent(i) # {} /\ IsToolResult(left[Least(NextContent(i))])
ResultCalledFor(i) ==
  PrevContent(i) # {} /\ IsToolCall(left[Greatest(PrevContent(i))])

WithoutOrphans ==
  Keep(left, {i \in DOMAIN left :
                   /\ IsToolCall(left[i])   => CallAnswered(i)
                   /\ IsToolResult(left[i]) => ResultCalledFor(i)})

(* validate_session drops exactly the calls nobody answered and the        *)
(* responses nobody asked for, whatever the run that left them behind. It  *)
(* keeps the session as it is when its error counter, decremented on every *)
(* good pair, ends at zero: that never happens while something is wrong.   *)
ValidateDropsExactlyOrphans == Validated(left) = WithoutOrphans

(* After validate_session manage_current_session can always trim: it never *)
(* raises on the pairs it keeps, and what it returns is again intact and   *)
(* within the limit.                                                       *)
TrimOfValidatedIsSafe ==
  LET valid == Validated(left) IN
    /\ ~TrimFails(valid)
    /\ PairsIntact(Trimmed(valid))
    /\ ~TooManyTools(Trimmed(valid))

============================================================================
