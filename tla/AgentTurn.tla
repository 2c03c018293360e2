------------------------------ MODULE AgentTurn ------------------------------
(***************************************************************************)
(* The conversation with an agent as Supervisor.handle runs it: open and   *)
(* validate the session, let the ADK runner append the events of the ReAct *)
(* loop, trim the stored session after each of them, squash the turn at    *)
(* the end; the commands /compact and /reset between turns; failures of a  *)
(* turn, the death of the process at any point and its restart.            *)
(*                                                                         *)
(* The runner keeps a copy of the session from the start of the run. It    *)
(* appends to that copy and to the store, and it is the copy that the      *)
(* model sees and that append_event writes to the file.                    *)
(***************************************************************************)
EXTENDS SessionStore

CONSTANTS
  MaxTurns,    \* bound: prompts the user enters
  MaxCalls,    \* bound: tool calls of the agent in one turn
  MaxClock,    \* bound: minutes that pass
  MaxCrashes   \* bound: deaths of the process

SummaryTag == 0

ASSUME AgentTurnAssumption ==
  /\ MaxTurns \in Nat /\ MaxCalls \in Nat /\ MaxCrashes \in Nat
  /\ MaxClock \in Nat \ {0}
  /\ SessionIds = 1..MaxClock   \* an id is the minute it was made in
  /\ Turns = 0..MaxTurns

VARIABLES
  pc,        \* where the process is
  current,   \* SessionManager.current_session_id
  clock,     \* the wall clock, in the resolution of _session_id
  copy,      \* events of the session copy held by the running coroutine
  answer,    \* final_response_text: "default", "text" or "none"
  outcome,   \* how the last turn of the current session ended
  listing,   \* how the last --list-sessions ended
  turn, calls, crashes

turnVars == <<pc, current, clock, copy, answer, outcome, listing, turn, calls, crashes>>
vars == <<storeVars, turnVars>>

PCs == {"down", "idle", "validating", "starting", "running", "managing",
        "closing", "summarizing"}
Outcomes == {"none", "answered", "silent", "failed"}

TurnTypeOK ==
  /\ pc \in PCs
  /\ current \in SessionIds
  /\ clock \in SessionIds
  /\ copy \in Seq(Event)
  /\ answer \in {"default", "text", "none"}
  /\ outcome \in Outcomes
  /\ listing \in {"none", "shown", "error"}
  /\ turn \in 0..MaxTurns
  /\ calls \in 0..MaxCalls
  /\ crashes \in 0..MaxCrashes

TypeOK == StoreTypeOK /\ TurnTypeOK

Init ==
  /\ StoreInit
  /\ pc = "idle"
  /\ clock = 1
  /\ current = 1
  /\ copy = << >>
  /\ answer = "default"
  /\ outcome = "none"
  /\ listing = "none"
  /\ turn = 0 /\ calls = 0 /\ crashes = 0

(* A step of the coroutine: it runs only when no file is being written. *)
At(loc) == pc = loc /\ writing = {}

----------------------------------------------------------------------------
(* get_or_create_session at the start of handle. *)

Prompted ==
  /\ At("idle")
  /\ turn < MaxTurns
  /\ turn' = turn + 1
  /\ calls' = 0
  /\ answer' = "default"
  /\ UNCHANGED <<current, clock, listing, crashes>>

OpenSession ==
  /\ Prompted
  /\ Exists(current)
  /\ GetSession(current)
  /\ copy' = View(current).events
  /\ pc' = "validating"
  /\ outcome' = "none"

(* No session came back. It may be that there is one and its file could    *)
(* not be read: the new session takes its id and its file.                 *)
NewSession ==
  /\ Prompted
  /\ ReadsNothing(current)
  /\ CreateSession(current)
  /\ copy' = << >>
  /\ pc' = "validating"
  /\ outcome' = "none"

(* The validation error of a torn file leaves handle before anything runs. *)
OpenFails ==
  /\ Prompted
  /\ ReadRaises(current)
  /\ outcome' = "failed"
  /\ UNCHANGED <<storeVars, pc, copy>>

(* MUTANT: the repaired history is not stored. *)
ValidateSession_ReportOnly ==
  /\ At("validating")
  /\ pc' = "starting"
  /\ UNCHANGED <<storeVars, current, clock, copy, answer, outcome, listing, turn,
                 calls, crashes>>

ValidateSession ==
  /\ At("validating")
  /\ IF NeedsRepair(copy)
       THEN ReplaceEvents(current, Repaired(copy))
       ELSE UNCHANGED storeVars
  /\ pc' = "starting"
  /\ UNCHANGED <<current, clock, copy, answer, outcome, listing, turn, calls, crashes>>

----------------------------------------------------------------------------
(* The ADK runner and the agent. *)

Appended(e) ==
  /\ AppendEvent(current, copy, e)
  /\ copy' = Append(copy, e)

(* The runner takes its own copy of the session and appends the prompt. *)
StartRun ==
  /\ At("starting")
  /\ AppendEvent(current, View(current).events, UserText(turn))
  /\ copy' = Append(View(current).events, UserText(turn))
  /\ pc' = "running"
  /\ UNCHANGED <<current, clock, answer, outcome, listing, turn, calls, crashes>>

LastEvent == copy[Len(copy)]

(* Events are appended before they reach handle. *)
AgentYields(e) ==
  /\ Appended(e)
  /\ pc' = "managing"
  /\ UNCHANGED <<current, clock, answer, outcome, listing, turn, crashes>>

AgentCallsTool ==
  /\ At("running")
  /\ ~IsToolCall(LastEvent)
  /\ calls < MaxCalls
  /\ \E t \in Tools : AgentYields(Call(t))
  /\ calls' = calls + 1

ToolReturns ==
  /\ At("running")
  /\ IsToolCall(LastEvent)
  /\ AgentYields(Result(LastEvent.of))
  /\ UNCHANGED calls

AgentReplies ==
  /\ At("running")
  /\ ~IsToolCall(LastEvent)
  /\ \E e \in {AgentText(turn), Blank(turn), Contentless(turn)} : AgentYields(e)
  /\ UNCHANGED calls

----------------------------------------------------------------------------
(* Supervisor.handle, for each event the workload yields. *)

(* _capture_adk_event_response: the first final event with content decides,*)
(* and text that is missing from it counts as no response at all.          *)
Captured(e) ==
  IF answer # "default" \/ ~IsFinalResponse(e) \/ ~HasContent(e) THEN answer
  ELSE IF e.kind = "blank" THEN "none" ELSE "text"

(* manage_current_session, then the capture. A ValueError ends the turn. *)
ManageSession ==
  /\ At("managing")
  /\ LET stored == View(current).events
         raises == TooManyTools(stored) /\ TrimFails(stored)
     IN  /\ IF TooManyTools(stored) /\ ~raises
              THEN ReplaceEvents(current, Trimmed(stored))
              ELSE UNCHANGED storeVars
         /\ pc' = IF raises THEN "idle"
                  ELSE IF IsFinalResponse(LastEvent) THEN "closing" ELSE "running"
         /\ answer'  = IF raises THEN answer ELSE Captured(LastEvent)
         /\ outcome' = IF raises THEN "failed" ELSE outcome
  /\ UNCHANGED <<current, clock, copy, listing, turn, calls, crashes>>

(* After the last event: post_process squashes the stored session, unless  *)
(* there is no response text (the default message counts as one).          *)
FinishTurn ==
  /\ At("closing")
  /\ IF answer = "none"
       THEN UNCHANGED storeVars
       ELSE ReplaceEvents(current, Squashed(View(current).events))
  /\ pc' = "idle"
  /\ outcome' = IF answer = "none" THEN "silent" ELSE "answered"
  /\ UNCHANGED <<current, clock, copy, answer, listing, turn, calls, crashes>>

(* The workload cannot be created, the model fails, a tool raises: the     *)
(* error is shown and the interactive loop goes on.                        *)
TurnFails ==
  /\ At("starting") \/ At("running")
  /\ pc' = "idle"
  /\ outcome' = "failed"
  /\ UNCHANGED <<storeVars, current, clock, copy, answer, listing, turn, calls, crashes>>

----------------------------------------------------------------------------
(* Commands between turns. *)

(* /compact reads the session, asks the model for a summary and replaces   *)
(* the events of the session, in that order. It does nothing to a session  *)
(* that cannot be read.                                                    *)
StartCompact ==
  /\ At("idle")
  /\ Exists(current)
  /\ \E i \in DOMAIN View(current).events : HasContent(View(current).events[i])
  /\ GetSession(current)
  /\ copy' = View(current).events
  /\ pc' = "summarizing"
  /\ UNCHANGED <<current, clock, answer, outcome, listing, turn, calls, crashes>>

SummaryArrives ==
  /\ At("summarizing")
  /\ ReplaceEvents(current, CompactedTo(copy, SummaryTag))
  /\ pc' = "idle"
  /\ UNCHANGED <<current, clock, copy, answer, outcome, listing, turn, calls, crashes>>

NoSummary ==
  /\ At("summarizing")
  /\ pc' = "idle"
  /\ UNCHANGED <<storeVars, current, clock, copy, answer, outcome, listing, turn,
                 calls, crashes>>

(* /reset: the id of the current minute becomes the current session. *)
ResetSession ==
  /\ At("idle")
  /\ current' = clock
  /\ outcome' = "none"
  /\ UNCHANGED <<storeVars, pc, clock, copy, answer, listing, turn, calls, crashes>>

----------------------------------------------------------------------------
(* The world around the coroutine. *)

Tick ==
  /\ clock < MaxClock
  /\ clock' = clock + 1
  /\ UNCHANGED <<storeVars, pc, current, copy, answer, outcome, listing, turn, calls,
                 crashes>>

FileWritten == FinishWrite /\ UNCHANGED turnVars

(* The process dies, wherever it is (Ctrl+C in the middle of a turn is     *)
(* one way).                                                               *)
Crash ==
  /\ pc # "down"
  /\ crashes < MaxCrashes
  /\ crashes' = crashes + 1
  /\ LoseMemory
  /\ pc' = "down"
  /\ copy' = << >>
  /\ outcome' = "none"
  /\ UNCHANGED <<current, clock, answer, listing, turn, calls>>

(* /exit, the end of the input, or the end of the only turn of a program   *)
(* that was given its prompt: only the files are left.                     *)
Leave ==
  /\ At("idle")
  /\ LoseMemory
  /\ pc' = "down"
  /\ copy' = << >>
  /\ outcome' = "none"
  /\ UNCHANGED <<current, clock, answer, listing, turn, calls, crashes>>

(* A new process takes --session-id, or the id of the minute it starts in. *)
Restart ==
  /\ pc = "down"
  /\ pc' = "idle"
  /\ current' \in 1..clock
  /\ UNCHANGED <<storeVars, clock, copy, answer, outcome, listing, turn, calls, crashes>>

(* A process started with --list-sessions prints the list and exits. *)
ListSessions ==
  /\ pc = "down"
  /\ listing' \in {"shown"} \cup (IF ListMayFail THEN {"error"} ELSE {})
  /\ UNCHANGED <<storeVars, pc, current, clock, copy, answer, outcome, turn, calls,
                 crashes>>

Next ==
  \/ OpenSession \/ NewSession \/ OpenFails \/ ValidateSession
  \/ StartRun \/ AgentCallsTool \/ ToolReturns \/ AgentReplies
  \/ ManageSession \/ FinishTurn \/ TurnFails
  \/ StartCompact \/ SummaryArrives \/ NoSummary \/ ResetSession
  \/ Tick \/ FileWritten \/ Crash \/ Leave \/ Restart \/ ListSessions

Spec == Init /\ [][Next]_vars

----------------------------------------------------------------------------
(* Safety. *)

(* The history the agent's next model call is made from never holds a      *)
(* response without its call or a call without its response, whatever      *)
(* failed turns and crashes left in the session (the last event may be a   *)
(* call whose tool is still running).                                      *)
ModelSeesIntactPairs ==
  pc = "running" =>
    PairsIntact(IF IsToolCall(LastEvent) THEN SubSeq(copy, 1, Len(copy) - 1)
                                         ELSE copy)

(* Reading t from left to right finds the elements of s in their order. *)
IsSubSequence(s, t) ==
  LET found[n \in 0..Len(t)] ==
        IF n = 0 THEN 0
        ELSE IF found[n - 1] < Len(s) /\ s[found[n - 1] + 1] = t[n]
               THEN found[n - 1] + 1
               ELSE found[n - 1]
  IN  found[Len(t)] = Len(s)

(* Between two writes the file of a session in memory is complete and has  *)
(* every event the memory has, in the same order, although append_event    *)
(* writes the runner's copy and not the memory.                            *)
FileHoldsMemory ==
  writing = {} =>
    \A s \in SessionIds : InMemory(s) =>
      OnDisk(s) /\ IsSubSequence(mem[s].events, disk[s].events)

(* After an answered turn the session is settled: the file and the memory  *)
(* are the same, and the tool traffic of the turn is gone from both.       *)
AnsweredTurnIsDurable ==
  At("idle") /\ outcome = "answered" =>
    /\ InMemory(current)
    /\ disk[current] = mem[current]
    /\ \A i \in DOMAIN mem[current].events :
         mem[current].events[i].kind \notin ToolKinds

(* A torn file is only ever the work of a crash, and the process that      *)
(* finds it does not have the session in memory either.                    *)
TornOnlyByCrash ==
  \A s \in SessionIds :
    disk[s].status = "torn" /\ s \notin writing => crashes > 0 /\ ~InMemory(s)

(* The abstract conversation: dialogue of the copy the program goes on     *)
(* with, dialogue of the file, and the sessions the process has in memory. *)
DialogOf(c) == [status |-> c.status, log |-> Dialog(c.events)]

Log == INSTANCE ConversationLog WITH
         live  <- [s \in SessionIds |-> DialogOf(View(s))],
         saved <- [s \in SessionIds |-> DialogOf(disk[s])],
         open  <- {s \in SessionIds : InMemory(s)},
         Says  <- [kind : TextKinds, of : Turns],
         IsSummary <- LAMBDA e : e.of = SummaryTag

(* Tool calls, trimming, validation, squashing, failed turns, crashes and  *)
(* files that cannot be read are invisible in the conversation but for what*)
(* ConversationLog allows: only a session the process does not have in     *)
(* memory is begun anew over what the file holds.                          *)
ImplementsConversationLog == Log!Spec

============================================================================
