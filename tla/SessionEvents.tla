--------------------------- MODULE SessionEvents ---------------------------
(***************************************************************************)
(* The events of one conversation session and the pure functions that      *)
(* rewrite a list of them: validation, trimming, squashing (SessionManager)*)
(* and the two mid-run compaction strategies (compacting_runner).          *)
(*                                                                         *)
(* An event keeps what those functions look at: what it carries, and the   *)
(* tool or the conversation turn it belongs to.                            *)
(***************************************************************************)
EXTENDS Integers, Sequences, FiniteSets

CONSTANTS
  Tools,                      \* the names of the tools a model may call
  Turns,                      \* tags that tell the texts of the turns apart
  MAX_TOOL_CALLS_IN_SESSION   \* call/response pairs a session may keep

ASSUME SessionEventsAssumption ==
  /\ MAX_TOOL_CALLS_IN_SESSION \in Nat \ {0}
  /\ Tools # {} /\ Turns # {}

(* "user", "system" and "text" carry text (by the user, by the compactor,  *)
(* by an agent), "blank" is final content without text, "empty" has no     *)
(* content, "call" and "result" carry a function call or response.         *)
TextKinds == {"user", "system", "text"}
ToolKinds == {"call", "result"}

Event == [kind : TextKinds \cup {"blank", "empty"}, of : Turns]
           \cup [kind : ToolKinds, of : Tools]

UserText(t)  == [kind |-> "user",   of |-> t]
AgentText(t) == [kind |-> "text",   of |-> t]
Blank(t)     == [kind |-> "blank",  of |-> t]
Contentless(t) == [kind |-> "empty", of |-> t]
Call(t)      == [kind |-> "call",   of |-> t]
Result(t)    == [kind |-> "result", of |-> t]
Summary(t)   == [kind |-> "system", of |-> t]

HasContent(e)    == e.kind # "empty"
IsToolCall(e)    == e.kind = "call"
IsToolResult(e)  == e.kind = "result"

(* ADK's Event.is_final_response: no function call and no response in it.  *)
IsFinalResponse(e) == e.kind \notin ToolKinds

(* The events of s at the positions in I, in their order. *)
Keep(s, I) ==
  LET kept[n \in 0..Len(s)] ==
        IF n = 0 THEN << >>
        ELSE IF n \in I THEN Append(kept[n - 1], s[n])
        ELSE kept[n - 1]
  IN  kept[Len(s)]

----------------------------------------------------------------------------
(* validate_session: one pass that buffers the last unanswered call in     *)
(* pending (at most one event) and counts what it finds wrong.             *)

ScanStart == [events |-> << >>, pending |-> << >>, errors |-> 0]

(* MUTANT: every response counts as an answered call. *)
ScanResult_AlwaysCountsDown(acc, e) ==
  [events  |-> IF acc.pending = << >> THEN acc.events
               ELSE Append(acc.events \o acc.pending, e),
   pending |-> << >>,
   errors  |-> acc.errors - 1]

(* A response completes the pair, or is skipped as an orphan. *)
ScanResult(acc, e) ==
  IF acc.pending # << >>
    THEN [events  |-> Append(acc.events \o acc.pending, e),
          pending |-> << >>,
          errors  |-> acc.errors - 1]
    ELSE [acc EXCEPT !.errors = @ + 1]

(* A call counts as an error until it is answered; an unanswered one       *)
(* before it counts once more and is dropped.                              *)
ScanCall(acc, e) ==
  [events  |-> acc.events,
   pending |-> <<e>>,
   errors  |-> acc.errors + 1 + Len(acc.pending)]

(* Any other event drops an unanswered call. *)
ScanPlain(acc, e) ==
  [events  |-> Append(acc.events, e),
   pending |-> << >>,
   errors  |-> acc.errors + Len(acc.pending)]

ScanStep(acc, e) ==
  IF ~HasContent(e) THEN [acc EXCEPT !.events = Append(@, e)]
  ELSE IF IsToolResult(e) THEN ScanResult(acc, e)
  ELSE IF IsToolCall(e) THEN ScanCall(acc, e)
  ELSE ScanPlain(acc, e)

Scan(s) ==
  LET acc[n \in 0..Len(s)] ==
        IF n = 0 THEN ScanStart ELSE ScanStep(acc[n - 1], s[n])
  IN  acc[Len(s)]

NeedsRepair(s) == Scan(s).errors # 0
Repaired(s)    == Scan(s).events
Validated(s)   == IF NeedsRepair(s) THEN Repaired(s) ELSE s

----------------------------------------------------------------------------
(* manage_current_session: once more than MAX_TOOL_CALLS_IN_SESSION        *)
(* responses are stored only the last ones stay, each with the event just  *)
(* before it, which has to be its call.                                    *)

ResultsIn(s) == {i \in DOMAIN s : IsToolResult(s[i])}

TooManyTools(s) == Cardinality(ResultsIn(s)) > MAX_TOOL_CALLS_IN_SESSION

(* MUTANT: the slice of the last responses is one too long. *)
RecentResults_OneMore(s) ==
  {i \in ResultsIn(s) :
     Cardinality({j \in ResultsIn(s) : j > i}) <= MAX_TOOL_CALLS_IN_SESSION}

RecentResults(s) ==
  {i \in ResultsIn(s) :
     Cardinality({j \in ResultsIn(s) : j > i}) < MAX_TOOL_CALLS_IN_SESSION}

AnsweredAt(s, i) == i > 1 /\ IsToolCall(s[i - 1]) /\ s[i - 1].of = s[i].of

(* The ValueError raised before anything is replaced. *)
TrimFails(s) == \E i \in RecentResults(s) : ~AnsweredAt(s, i)

Trimmed(s) ==
  LET pairs == RecentResults(s) \cup {i - 1 : i \in RecentResults(s)}
  IN  Keep(s, {i \in DOMAIN s : i \in pairs \/ s[i].kind \notin ToolKinds})

(* _squash_turn_events: only final events with content survive a turn. *)
(* MUTANT: only what the agent said survives. *)
Squashed_AgentOnly(s) ==
  Keep(s, {i \in DOMAIN s :
             IsFinalResponse(s[i]) /\ HasContent(s[i]) /\ s[i].kind # "user"})

Squashed(s) ==
  Keep(s, {i \in DOMAIN s : IsFinalResponse(s[i]) /\ HasContent(s[i])})

(* /compact: events without content are skipped, of the others those by    *)
(* the user that come before any by an agent stay, followed by the summary *)
(* in the agent's name.                                                    *)
CompactedTo(s, t) ==
  LET leading == {i \in DOMAIN s :
                    /\ HasContent(s[i])
                    /\ \A j \in 1..i : HasContent(s[j]) => s[j].kind = "user"}
  IN  Append(Keep(s, leading), AgentText(t))

----------------------------------------------------------------------------
(* The mid-run compaction strategies. Truncation keeps an opening event by *)
(* the system or the user and the last keepRecent events, wherever that    *)
(* cuts; summarisation keeps an opening event by the system and one        *)
(* summary of everything else.                                             *)

Truncated(s, keepRecent) ==
  IF Len(s) <= keepRecent + 1 THEN s
  ELSE LET opening == IF s[1].kind \in {"user", "system"} THEN {1} ELSE {}
       IN  Keep(s, opening \cup (Len(s) - keepRecent + 1)..Len(s))

(* MUTANT: the last event stays behind the summary. *)
Summarized_KeepsLast(s, t) ==
  IF Len(s) <= 1 THEN s ELSE <<Summary(t), s[Len(s)]>>

Summarized(s, t) ==
  IF Len(s) <= 1 THEN s
  ELSE Keep(s, IF s[1].kind = "system" THEN {1} ELSE {}) \o <<Summary(t)>>

----------------------------------------------------------------------------
(* What the functions are judged by. *)

(* Every response directly follows its own call, every call is answered at *)
(* once: the shape a model provider accepts.                               *)
PairsIntact(s) ==
  /\ \A i \in ResultsIn(s) : AnsweredAt(s, i)
  /\ \A i \in DOMAIN s : IsToolCall(s[i]) => i + 1 \in ResultsIn(s)

(* The conversation as the user knows it. *)
Dialog(s) == Keep(s, {i \in DOMAIN s : s[i].kind \in TextKinds})

============================================================================
