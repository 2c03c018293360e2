-------------------------- MODULE AgentTurn_proofs --------------------------
(***************************************************************************)
(* AgentTurn for any number of prompts, tool calls, crashes, minutes and   *)
(* tools: its types, who may find a torn file, the durability of an        *)
(* answered turn, the file that keeps up with the memory, the pairs the    *)
(* model sees, and the conversation it implements.                         *)
(***************************************************************************)
EXTENDS AgentTurn, SessionEvents_proofs

(* At most one file is being written, and no session in memory has a torn  *)
(* file but that one.                                                      *)
OneWriter == \A s, u \in writing : s = u
TornIsForgotten ==
  \A s \in SessionIds : disk[s].status = "torn" /\ s \notin writing => ~InMemory(s)
StoreInv == StoreTypeOK /\ OneWriter /\ TornIsForgotten

(* A step of the store tears no file for good. *)
NoNewTorn ==
  \A s \in SessionIds :
    disk'[s].status = "torn" /\ s \notin writing' =>
      disk[s].status = "torn" /\ s \notin writing

----------------------------------------------------------------------------
(* The copies of a session. *)

LEMMA CopyFacts ==
  /\ Absent \in Copies /\ Absent.status = "absent" /\ Absent.events \in Seq(Event)
  /\ Torn.status = "torn" /\ Torn.events \in Seq(Event)
  /\ \A es \in Seq(Event) :
       Stored(es) \in Copies /\ Stored(es).status = "whole" /\ Stored(es).events = es
  /\ \A c \in Copies \cup {Torn} :
       /\ c.status \in {"absent", "torn", "whole"}
       /\ c.events \in Seq(Event)
       /\ c.status # "torn" => c \in Copies
       /\ c.status = "whole" => c = Stored(c.events)
<1>1. << >> \in Seq(Event)
  OBVIOUS
<1>2. Absent \in Copies /\ Absent.status = "absent" /\ Absent.events \in Seq(Event)
  BY <1>1 DEF Copies, Absent
<1>3. Torn.status = "torn" /\ Torn.events \in Seq(Event)
  BY <1>1 DEF Torn
<1>4. ASSUME NEW es \in Seq(Event)
      PROVE  Stored(es) \in Copies /\ Stored(es).status = "whole" /\ Stored(es).events = es
  BY DEF Copies, Stored
<1>5. ASSUME NEW c \in Copies \cup {Torn}
      PROVE  /\ c.status \in {"absent", "torn", "whole"}
             /\ c.events \in Seq(Event)
             /\ c.status # "torn" => c \in Copies
             /\ c.status = "whole" => c = Stored(c.events)
  <2>1. CASE c = Absent \/ c = Torn
    BY <1>2, <1>3, <2>1 DEF Absent
  <2>2. CASE c \in [status : {"whole"}, events : Seq(Event)]
    BY <2>2 DEF Stored, Copies
  <2>3. QED
    BY <2>1, <2>2 DEF Copies
<1>6. QED
  BY <1>2, <1>3, <1>4, <1>5

LEMMA ViewType ==
  ASSUME StoreTypeOK, NEW s \in SessionIds
  PROVE  View(s).events \in Seq(Event)
BY CopyFacts DEF StoreTypeOK, View

LEMMA StartWriteStep ==
  ASSUME StoreInv, NEW s \in SessionIds, NEW es \in Seq(Event), StartWrite(s, es),
         mem' \in [SessionIds -> Copies],
         \A u \in SessionIds \ {s} : mem'[u] = mem[u]
  PROVE  StoreInv' /\ NoNewTorn
<1>1. disk' \in [SessionIds -> Copies \cup {Torn}]
  BY DEF StoreInv, StoreTypeOK, StartWrite
<1>2. StoreTypeOK'
  BY <1>1 DEF StoreTypeOK, StartWrite
<1>3. OneWriter'
  BY DEF OneWriter, StartWrite
<1>4. \A u \in SessionIds \ {s} : disk'[u] = disk[u]
  BY DEF StoreInv, StoreTypeOK, StartWrite
<1>5. NoNewTorn
  BY <1>4 DEF NoNewTorn, StartWrite
<1>6. TornIsForgotten'
  BY <1>4 DEF StoreInv, TornIsForgotten, InMemory, StartWrite
<1>7. QED
  BY <1>2, <1>3, <1>5, <1>6 DEF StoreInv

LEMMA CreateStep ==
  ASSUME StoreInv, NEW s \in SessionIds, CreateSession(s)
  PROVE  StoreInv' /\ NoNewTorn
<1>1. << >> \in Seq(Event) /\ Stored(<< >>) \in Copies
  <2>1. << >> \in Seq(Event)
    OBVIOUS
  <2>2. QED
    BY <2>1, CopyFacts
<1>2. mem' \in [SessionIds -> Copies] /\ \A u \in SessionIds \ {s} : mem'[u] = mem[u]
  BY <1>1 DEF CreateSession, StoreInv, StoreTypeOK
<1>3. QED
  BY <1>1, <1>2, StartWriteStep DEF CreateSession

LEMMA ReplaceStep ==
  ASSUME StoreInv, NEW s \in SessionIds, NEW es \in Seq(Event), ReplaceEvents(s, es)
  PROVE  StoreInv' /\ NoNewTorn
<1>1. Stored(es) \in Copies
  BY CopyFacts
<1>2. mem' \in [SessionIds -> Copies] /\ \A u \in SessionIds \ {s} : mem'[u] = mem[u]
  BY <1>1 DEF ReplaceEvents, StoreInv, StoreTypeOK
<1>3. QED
  BY <1>2, StartWriteStep DEF ReplaceEvents

LEMMA AppendStep ==
  ASSUME StoreInv, NEW s \in SessionIds, NEW es \in Seq(Event), NEW e \in Event,
         AppendEvent(s, es, e)
  PROVE  StoreInv' /\ NoNewTorn
<1>1. Append(es, e) \in Seq(Event)
  OBVIOUS
<1>2. mem[s] \in Copies /\ mem[s].events \in Seq(Event)
  BY CopyFacts DEF StoreInv, StoreTypeOK
<1>3. Stored(Append(mem[s].events, e)) \in Copies
  <2>1. Append(mem[s].events, e) \in Seq(Event)
    BY <1>2
  <2>2. QED
    BY <2>1, CopyFacts
<1>4. mem' \in [SessionIds -> Copies] /\ \A u \in SessionIds \ {s} : mem'[u] = mem[u]
  BY <1>2, <1>3 DEF AppendEvent, StoreInv, StoreTypeOK
<1>5. QED
  BY <1>1, <1>4, StartWriteStep DEF AppendEvent

LEMMA GetStep ==
  ASSUME StoreInv, NEW s \in SessionIds, GetSession(s)
  PROVE  StoreInv' /\ NoNewTorn
<1>1. View(s) \in Copies
  BY CopyFacts DEF GetSession, Exists, OnDisk, View, InMemory, StoreInv, StoreTypeOK
<1>2. StoreTypeOK' /\ OneWriter'
  BY <1>1 DEF GetSession, StoreInv, StoreTypeOK, OneWriter
<1>3. TornIsForgotten'
  <2>1. disk[s].status = "torn" => FALSE
    BY DEF GetSession, Exists, OnDisk, StoreInv, TornIsForgotten
  <2>2. \A u \in SessionIds \ {s} : mem'[u] = mem[u]
    BY DEF GetSession, StoreInv, StoreTypeOK
  <2>3. QED
    BY <2>1, <2>2 DEF GetSession, StoreInv, TornIsForgotten, InMemory
<1>4. QED
  BY <1>2, <1>3 DEF GetSession, StoreInv, NoNewTorn

LEMMA FinishStep ==
  ASSUME StoreInv, FinishWrite
  PROVE  StoreInv' /\ NoNewTorn
<1>1. PICK s \in writing : disk' = [disk EXCEPT ![s] = Stored(buffer)]
  BY DEF FinishWrite
<1>2. s \in SessionIds /\ writing = {s} /\ buffer \in Seq(Event)
  BY <1>1 DEF StoreInv, StoreTypeOK, OneWriter
<1>3. Stored(buffer) \in Copies /\ Stored(buffer).status = "whole"
  BY <1>2, CopyFacts
<1>4. StoreTypeOK' /\ OneWriter'
  BY <1>1, <1>2, <1>3 DEF FinishWrite, StoreInv, StoreTypeOK, OneWriter
<1>5. NoNewTorn
  BY <1>1, <1>2, <1>3 DEF FinishWrite, NoNewTorn, StoreInv, StoreTypeOK
<1>6. TornIsForgotten'
  BY <1>5 DEF FinishWrite, NoNewTorn, StoreInv, TornIsForgotten, InMemory
<1>7. QED
  BY <1>4, <1>5, <1>6 DEF StoreInv

LEMMA LoseStep ==
  ASSUME StoreInv, LoseMemory
  PROVE  StoreInv'
BY CopyFacts DEF LoseMemory, StoreInv, StoreTypeOK, OneWriter, TornIsForgotten, InMemory

LEMMA StoreStutter ==
  ASSUME StoreInv, UNCHANGED storeVars
  PROVE  StoreInv' /\ NoNewTorn
BY DEF storeVars, StoreInv, StoreTypeOK, OneWriter, TornIsForgotten, InMemory, NoNewTorn

----------------------------------------------------------------------------
(* The turn. A run has events: the prompt is in the copy before it starts. *)

RunHasEvents == pc \in {"running", "managing"} => copy # << >>

TornNeedsCrash ==
  crashes = 0 => \A s \in SessionIds : disk[s].status = "torn" => s \in writing

BaseInv == StoreInv /\ TurnTypeOK /\ RunHasEvents /\ TornNeedsCrash

(* The steps after which a turn variable may have any other value. *)
LEMMA KeepsBase ==
  ASSUME BaseInv, StoreInv' /\ NoNewTorn, TurnTypeOK', UNCHANGED crashes,
         pc' \in {"running", "managing"} => copy' # << >>
  PROVE  BaseInv'
BY DEF BaseInv, RunHasEvents, TornNeedsCrash, NoNewTorn

LEMMA EventTypes ==
  ASSUME TurnTypeOK
  PROVE  /\ UserText(turn) \in Event
         /\ \A t \in Tools : Call(t) \in Event /\ Result(t) \in Event
         /\ {AgentText(turn), Blank(turn), Contentless(turn)} \subseteq Event
         /\ SummaryTag \in Turns
BY AgentTurnAssumption
DEF TurnTypeOK, UserText, AgentText, Blank, Contentless, Call, Result, Event,
    TextKinds, ToolKinds, SummaryTag

LEMMA LastEventType ==
  ASSUME BaseInv, pc \in {"running", "managing"}
  PROVE  LastEvent \in Event /\ (IsToolCall(LastEvent) => LastEvent.of \in Tools)
<1>1. copy \in Seq(Event) /\ copy # << >>
  BY DEF BaseInv, TurnTypeOK, RunHasEvents
<1>2. LastEvent \in Event
  BY <1>1 DEF LastEvent
<1>3. QED
  BY <1>2 DEF Event, IsToolCall, TextKinds, ToolKinds

LEMMA OpeningSteps ==
  ASSUME BaseInv, OpenSession \/ NewSession \/ OpenFails
  PROVE  BaseInv'
<1> USE DEF PCs, Outcomes
<1>0. StoreInv /\ TurnTypeOK /\ current \in SessionIds
  BY DEF BaseInv, TurnTypeOK
<1>1. Prompted /\ turn' \in 0..MaxTurns /\ calls' \in 0..MaxCalls
  BY <1>0, AgentTurnAssumption DEF OpenSession, NewSession, OpenFails, Prompted, TurnTypeOK
<1>2. CASE OpenSession
  <2>1. StoreInv' /\ NoNewTorn
    BY <1>0, <1>2, GetStep DEF OpenSession
  <2>2. copy' \in Seq(Event)
    BY <1>0, <1>2, ViewType DEF OpenSession, StoreInv
  <2>3. TurnTypeOK'
    BY <1>0, <1>1, <1>2, <2>2 DEF OpenSession, Prompted, TurnTypeOK
  <2>4. QED
    BY <1>1, <1>2, <2>1, <2>3, KeepsBase DEF OpenSession, Prompted
<1>3. CASE NewSession
  <2>1. StoreInv' /\ NoNewTorn
    BY <1>0, <1>3, CreateStep DEF NewSession
  <2>2. TurnTypeOK'
    BY <1>0, <1>1, <1>3 DEF NewSession, Prompted, TurnTypeOK
  <2>3. QED
    BY <1>1, <1>3, <2>1, <2>2, KeepsBase DEF NewSession, Prompted
<1>4. CASE OpenFails
  <2>1. StoreInv' /\ NoNewTorn
    BY <1>0, <1>4, StoreStutter DEF OpenFails
  <2>2. TurnTypeOK'
    BY <1>0, <1>1, <1>4 DEF OpenFails, Prompted, TurnTypeOK
  <2>3. pc' = "idle"
    BY <1>1, <1>4 DEF OpenFails, Prompted, At
  <2>4. QED
    BY <1>1, <2>1, <2>2, <2>3, KeepsBase DEF Prompted
<1>5. QED
  BY <1>2, <1>3, <1>4

LEMMA ValidateStep ==
  ASSUME BaseInv, ValidateSession
  PROVE  BaseInv'
<1>0. StoreInv /\ TurnTypeOK /\ current \in SessionIds /\ copy \in Seq(Event)
  BY DEF BaseInv, TurnTypeOK
<1>1. StoreInv' /\ NoNewTorn
  <2>1. CASE NeedsRepair(copy)
    <3>1. Repaired(copy) \in Seq(Event) /\ ReplaceEvents(current, Repaired(copy))
      BY <1>0, <2>1, ScanType DEF ValidateSession
    <3>2. QED
      BY <1>0, <3>1, ReplaceStep
  <2>2. CASE ~NeedsRepair(copy)
    BY <1>0, <2>2, StoreStutter DEF ValidateSession
  <2>3. QED
    BY <2>1, <2>2
<1>2. TurnTypeOK' /\ pc' = "starting" /\ UNCHANGED crashes
  BY <1>0 DEF ValidateSession, TurnTypeOK, PCs
<1>3. QED
  BY <1>1, <1>2, KeepsBase

(* The four actions that append an event. *)
LEMMA AppendedStep ==
  ASSUME BaseInv, NEW es \in Seq(Event), NEW e \in Event,
         AppendEvent(current, es, e), copy' = Append(es, e),
         pc' \in PCs, calls' \in 0..MaxCalls,
         UNCHANGED <<current, clock, answer, outcome, listing, turn, crashes>>
  PROVE  BaseInv'
<1>1. StoreInv' /\ NoNewTorn
  BY AppendStep DEF BaseInv, TurnTypeOK
<1>2. copy' \in Seq(Event) /\ copy' # << >>
  OBVIOUS
<1>3. TurnTypeOK'
  BY <1>2 DEF BaseInv, TurnTypeOK
<1>4. QED
  BY <1>1, <1>2, <1>3, KeepsBase

LEMMA RunSteps ==
  ASSUME BaseInv, StartRun \/ AgentCallsTool \/ ToolReturns \/ AgentReplies
  PROVE  BaseInv'
<1>0. /\ StoreInv /\ TurnTypeOK /\ current \in SessionIds /\ copy \in Seq(Event)
      /\ calls \in 0..MaxCalls
  BY DEF BaseInv, TurnTypeOK
<1>1. CASE StartRun
  <2>1. View(current).events \in Seq(Event) /\ UserText(turn) \in Event
    BY <1>0, ViewType, EventTypes DEF StoreInv
  <2>2. QED
    BY <1>0, <1>1, <2>1, AppendedStep DEF StartRun, PCs
<1>2. ASSUME NEW e \in Event, AgentYields(e), calls' \in 0..MaxCalls
      PROVE  BaseInv'
  BY <1>0, <1>2, AppendedStep DEF AgentYields, Appended, PCs
<1>3. CASE AgentCallsTool
  <2>1. PICK t \in Tools : AgentYields(Call(t))
    BY <1>3 DEF AgentCallsTool
  <2>2. Call(t) \in Event
    BY <1>0, EventTypes
  <2>3. calls' \in 0..MaxCalls
    BY <1>0, <1>3, AgentTurnAssumption DEF AgentCallsTool
  <2>4. QED
    BY <1>2, <2>1, <2>2, <2>3
<1>4. CASE ToolReturns
  <2>1. LastEvent.of \in Tools
    BY <1>4, LastEventType DEF ToolReturns, At
  <2>2. Result(LastEvent.of) \in Event /\ calls' \in 0..MaxCalls
    BY <1>0, <1>4, <2>1, EventTypes DEF ToolReturns
  <2>3. QED
    BY <1>2, <1>4, <2>2 DEF ToolReturns
<1>5. CASE AgentReplies
  <2>1. PICK e \in {AgentText(turn), Blank(turn), Contentless(turn)} : AgentYields(e)
    BY <1>5 DEF AgentReplies
  <2>2. e \in Event
    BY <1>0, EventTypes
  <2>3. QED
    BY <1>0, <1>2, <1>5, <2>1, <2>2 DEF AgentReplies
<1>6. QED
  BY <1>1, <1>3, <1>4, <1>5

LEMMA HandleSteps ==
  ASSUME BaseInv, ManageSession \/ FinishTurn \/ TurnFails
  PROVE  BaseInv'
<1> USE DEF PCs, Outcomes
<1>0. /\ StoreInv /\ TurnTypeOK /\ RunHasEvents /\ current \in SessionIds
      /\ copy \in Seq(Event) /\ View(current).events \in Seq(Event)
  BY ViewType DEF BaseInv, StoreInv, TurnTypeOK
<1>1. CASE ManageSession
  <2> DEFINE stored == View(current).events
  <2>1. StoreInv' /\ NoNewTorn
    <3>1. Trimmed(stored) \in Seq(Event)
      BY <1>0, TrimmedType
    <3>2. ReplaceEvents(current, Trimmed(stored)) \/ UNCHANGED storeVars
      BY <1>1 DEF ManageSession
    <3>3. QED
      BY <1>0, <3>1, <3>2, ReplaceStep, StoreStutter
  <2>2. TurnTypeOK'
    BY <1>0, <1>1 DEF ManageSession, Captured, TurnTypeOK
  <2>3. UNCHANGED <<crashes, copy>> /\ pc = "managing"
    BY <1>1 DEF ManageSession, At
  <2>4. QED
    BY <1>0, <2>1, <2>2, <2>3, KeepsBase DEF RunHasEvents
<1>2. CASE FinishTurn
  <2>1. StoreInv' /\ NoNewTorn
    <3>1. Squashed(View(current).events) \in Seq(Event)
      BY <1>0, SquashedType
    <3>2. \/ ReplaceEvents(current, Squashed(View(current).events))
          \/ UNCHANGED storeVars
      BY <1>2 DEF FinishTurn
    <3>3. QED
      BY <1>0, <3>1, <3>2, ReplaceStep, StoreStutter
  <2>2. TurnTypeOK' /\ pc' = "idle" /\ UNCHANGED crashes
    BY <1>0, <1>2 DEF FinishTurn, TurnTypeOK
  <2>3. QED
    BY <2>1, <2>2, KeepsBase
<1>3. CASE TurnFails
  <2>1. StoreInv' /\ NoNewTorn
    BY <1>0, <1>3, StoreStutter DEF TurnFails
  <2>2. TurnTypeOK' /\ pc' = "idle" /\ UNCHANGED crashes
    BY <1>0, <1>3 DEF TurnFails, TurnTypeOK
  <2>3. QED
    BY <2>1, <2>2, KeepsBase
<1>4. QED
  BY <1>1, <1>2, <1>3

LEMMA CommandSteps ==
  ASSUME BaseInv, StartCompact \/ SummaryArrives \/ NoSummary \/ ResetSession
  PROVE  BaseInv'
<1> USE DEF PCs, Outcomes
<1>0. /\ StoreInv /\ TurnTypeOK /\ current \in SessionIds /\ clock \in SessionIds
      /\ copy \in Seq(Event) /\ View(current).events \in Seq(Event)
  BY ViewType DEF BaseInv, StoreInv, TurnTypeOK
<1>1. CASE StartCompact
  <2>1. StoreInv' /\ NoNewTorn
    BY <1>0, <1>1, GetStep DEF StartCompact
  <2>2. TurnTypeOK' /\ pc' = "summarizing" /\ UNCHANGED crashes
    BY <1>0, <1>1 DEF StartCompact, TurnTypeOK
  <2>3. QED
    BY <2>1, <2>2, KeepsBase
<1>2. CASE SummaryArrives
  <2>1. CompactedTo(copy, SummaryTag) \in Seq(Event)
    BY <1>0, EventTypes, CompactedType
  <2>2. StoreInv' /\ NoNewTorn
    BY <1>0, <1>2, <2>1, ReplaceStep DEF SummaryArrives
  <2>3. TurnTypeOK' /\ pc' = "idle" /\ UNCHANGED crashes
    BY <1>0, <1>2 DEF SummaryArrives, TurnTypeOK
  <2>4. QED
    BY <2>2, <2>3, KeepsBase
<1>3. CASE NoSummary \/ ResetSession
  <2>1. StoreInv' /\ NoNewTorn
    BY <1>0, <1>3, StoreStutter DEF NoSummary, ResetSession
  <2>2. TurnTypeOK' /\ pc' = "idle" /\ UNCHANGED crashes
    BY <1>0, <1>3 DEF NoSummary, ResetSession, TurnTypeOK, At
  <2>3. QED
    BY <2>1, <2>2, KeepsBase
<1>4. QED
  BY <1>1, <1>2, <1>3

LEMMA WorldSteps ==
  ASSUME BaseInv, Tick \/ FileWritten \/ Crash \/ Leave \/ Restart \/ ListSessions
  PROVE  BaseInv'
<1> USE DEF PCs, Outcomes
<1>0. StoreInv /\ TurnTypeOK /\ RunHasEvents
  BY DEF BaseInv
<1>1. CASE Tick
  <2>1. StoreInv' /\ NoNewTorn
    BY <1>0, <1>1, StoreStutter DEF Tick
  <2>2. TurnTypeOK'
    BY <1>0, <1>1, AgentTurnAssumption DEF Tick, TurnTypeOK
  <2>3. QED
    BY <1>0, <1>1, <2>1, <2>2, KeepsBase DEF Tick, RunHasEvents
<1>2. CASE FileWritten
  <2>1. StoreInv' /\ NoNewTorn
    BY <1>0, <1>2, FinishStep DEF FileWritten
  <2>2. TurnTypeOK' /\ UNCHANGED <<pc, copy, crashes>>
    BY <1>0, <1>2 DEF FileWritten, turnVars, TurnTypeOK
  <2>3. QED
    BY <1>0, <2>1, <2>2, KeepsBase DEF RunHasEvents
<1>3. CASE Crash
  <2>1. StoreInv'
    BY <1>0, <1>3, LoseStep DEF Crash
  <2>2. crashes' \in 0..MaxCrashes /\ crashes' # 0
    BY <1>0, <1>3, AgentTurnAssumption DEF Crash, TurnTypeOK
  <2>3. TurnTypeOK'
    BY <1>0, <1>3, <2>2 DEF Crash, TurnTypeOK
  <2>4. QED
    BY <1>3, <2>1, <2>2, <2>3 DEF Crash, BaseInv, RunHasEvents, TornNeedsCrash
<1>4. CASE Leave
  <2>1. StoreInv'
    BY <1>0, <1>4, LoseStep DEF Leave
  <2>2. TurnTypeOK' /\ UNCHANGED crashes
    BY <1>0, <1>4 DEF Leave, TurnTypeOK
  <2>3. NoNewTorn
    BY <1>0, <1>4 DEF Leave, At, LoseMemory, NoNewTorn
  <2>4. QED
    BY <1>4, <2>1, <2>2, <2>3, KeepsBase DEF Leave
<1>5. CASE Restart \/ ListSessions
  <2>1. StoreInv' /\ NoNewTorn
    BY <1>0, <1>5, StoreStutter DEF Restart, ListSessions
  <2>2. current' \in SessionIds
    BY <1>0, <1>5, AgentTurnAssumption DEF Restart, ListSessions, TurnTypeOK
  <2>3. TurnTypeOK' /\ pc' \in {"idle", "down"} /\ UNCHANGED crashes
    BY <1>0, <1>5, <2>2 DEF Restart, ListSessions, TurnTypeOK
  <2>4. QED
    BY <2>1, <2>3, KeepsBase
<1>6. QED
  BY <1>1, <1>2, <1>3, <1>4, <1>5

LEMMA BaseInit ==
  ASSUME Init
  PROVE  BaseInv
<1>1. StoreTypeOK
  <2>1. << >> \in Seq(Event)
    OBVIOUS
  <2>2. QED
    BY <2>1, CopyFacts DEF Init, StoreInit, StoreTypeOK
<1>2. TurnTypeOK
  BY AgentTurnAssumption DEF Init, TurnTypeOK, PCs, Outcomes
<1>3. OneWriter /\ TornIsForgotten /\ RunHasEvents /\ TornNeedsCrash
  BY DEF Init, StoreInit, OneWriter, TornIsForgotten, InMemory, RunHasEvents,
     TornNeedsCrash, Absent
<1>4. QED
  BY <1>1, <1>2, <1>3 DEF BaseInv, StoreInv

LEMMA BaseStep ==
  ASSUME BaseInv, [Next]_vars
  PROVE  BaseInv'
<1>1. CASE UNCHANGED vars
  <2>1. StoreInv' /\ NoNewTorn
    BY <1>1, StoreStutter DEF vars, BaseInv
  <2>2. UNCHANGED turnVars
    BY <1>1 DEF vars
  <2>3. QED
    BY <2>1, <2>2, KeepsBase DEF turnVars, BaseInv, TurnTypeOK, RunHasEvents
<1>2. CASE OpenSession \/ NewSession \/ OpenFails
  BY <1>2, OpeningSteps
<1>3. CASE ValidateSession
  BY <1>3, ValidateStep
<1>4. CASE StartRun \/ AgentCallsTool \/ ToolReturns \/ AgentReplies
  BY <1>4, RunSteps
<1>5. CASE ManageSession \/ FinishTurn \/ TurnFails
  BY <1>5, HandleSteps
<1>6. CASE StartCompact \/ SummaryArrives \/ NoSummary \/ ResetSession
  BY <1>6, CommandSteps
<1>7. CASE Tick \/ FileWritten \/ Crash \/ Leave \/ Restart \/ ListSessions
  BY <1>7, WorldSteps
<1>8. QED
  BY <1>1, <1>2, <1>3, <1>4, <1>5, <1>6, <1>7 DEF Next

LEMMA BaseInvariant == Spec => []BaseInv
<1>1. Init => BaseInv
  BY BaseInit
<1>2. BaseInv /\ [Next]_vars => BaseInv'
  BY BaseStep
<1>3. QED
  BY <1>1, <1>2, PTL DEF Spec

(* Every variable of AgentTurn and its store keeps to its type: whatever   *)
(* validation, trimming, squashing and compaction make of a session, its   *)
(* memory and its file hold events.                                        *)
THEOREM TypeCorrect == Spec => []TypeOK
<1>1. BaseInv => TypeOK
  BY DEF BaseInv, StoreInv, TypeOK
<1>2. QED
  BY <1>1, BaseInvariant, PTL

(* A torn file that nobody is writing is the work of a crash, and no       *)
(* process that finds it has the session in memory.                        *)
THEOREM TornByCrashAlone == Spec => []TornOnlyByCrash
<1>1. BaseInv => TornOnlyByCrash
  BY DEF BaseInv, StoreInv, TornIsForgotten, TornNeedsCrash, TurnTypeOK, TornOnlyByCrash
<1>2. QED
  BY <1>1, BaseInvariant, PTL

----------------------------------------------------------------------------
(* Durability of an answered turn. AnsweredTurnIsDurable speaks of the     *)
(* time when the file is complete; what carries it there is that until     *)
(* then the buffer holds what the memory holds, also while /compact asks   *)
(* for its summary.                                                        *)

WithoutTools(es) == \A i \in DOMAIN es : es[i].kind \notin ToolKinds

AnswerIsOnItsWay ==
  outcome = "answered" =>
    /\ pc \in {"idle", "summarizing"}
    /\ InMemory(current)
    /\ WithoutTools(mem[current].events)
    /\ \/ writing = {current} /\ buffer = mem[current].events
       \/ writing = {} /\ disk[current] = mem[current]

LEMMA ReplacedIsOnItsWay ==
  ASSUME BaseInv, NEW es \in Seq(Event), WithoutTools(es),
         ReplaceEvents(current, es), pc' = "idle", UNCHANGED current
  PROVE  AnswerIsOnItsWay'
<1>1. mem'[current] = Stored(es)
  BY DEF ReplaceEvents, BaseInv, StoreInv, StoreTypeOK, TurnTypeOK
<1>2. Stored(es).status = "whole" /\ Stored(es).events = es
  BY CopyFacts
<1>3. QED
  BY <1>1, <1>2 DEF ReplaceEvents, StartWrite, AnswerIsOnItsWay, InMemory, WithoutTools

LEMMA OnItsWayStep ==
  ASSUME BaseInv, AnswerIsOnItsWay, [Next]_vars
  PROVE  AnswerIsOnItsWay'
<1>0. /\ current \in SessionIds /\ copy \in Seq(Event)
      /\ mem \in [SessionIds -> Copies] /\ disk \in [SessionIds -> Copies \cup {Torn}]
      /\ View(current).events \in Seq(Event)
  BY ViewType DEF BaseInv, StoreInv, StoreTypeOK, TurnTypeOK
<1>1. CASE UNCHANGED vars
  BY <1>1 DEF vars, storeVars, turnVars, AnswerIsOnItsWay, InMemory, WithoutTools
<1>2. CASE OpenSession \/ NewSession \/ OpenFails \/ TurnFails \/ ResetSession \/ Crash
            \/ Leave
  BY <1>2 DEF OpenSession, NewSession, OpenFails, TurnFails, ResetSession, Crash, Leave,
     AnswerIsOnItsWay
<1>3. CASE \/ ValidateSession \/ StartRun \/ AgentCallsTool \/ ToolReturns
           \/ AgentReplies \/ ManageSession
  BY <1>3 DEF ValidateSession, StartRun, AgentCallsTool, ToolReturns, AgentReplies,
     AgentYields, ManageSession, At, AnswerIsOnItsWay
<1>4. CASE FinishTurn
  <2> DEFINE kept == Squashed(View(current).events)
  <2>1. kept \in Seq(Event) /\ WithoutTools(kept)
    BY <1>0, SquashedType DEF WithoutTools
  <2>2. CASE answer = "none"
    BY <1>4, <2>2 DEF FinishTurn, AnswerIsOnItsWay
  <2>3. CASE answer # "none"
    <3>1. ReplaceEvents(current, kept) /\ pc' = "idle" /\ UNCHANGED current
      BY <1>4, <2>3 DEF FinishTurn
    <3>2. QED
      <4> HIDE DEF kept
      <4> QED
        BY <2>1, <3>1, ReplacedIsOnItsWay
  <2>4. QED
    BY <2>2, <2>3
<1>5. CASE StartCompact
  <2>1. ASSUME outcome = "answered"
        PROVE  mem' = mem
    BY <1>0, <1>5, <2>1 DEF StartCompact, GetSession, AnswerIsOnItsWay, View
  <2>2. QED
    BY <1>5, <2>1 DEF StartCompact, GetSession, AnswerIsOnItsWay, InMemory, WithoutTools
<1>6. CASE SummaryArrives
  <2>1. SummaryTag \in Turns
    BY EventTypes DEF BaseInv
  <2>2. /\ CompactedTo(copy, SummaryTag) \in Seq(Event)
        /\ WithoutTools(CompactedTo(copy, SummaryTag))
    BY <1>0, <2>1, CompactedType DEF WithoutTools
  <2>3. QED
    BY <1>6, <2>2, ReplacedIsOnItsWay DEF SummaryArrives
<1>7. CASE NoSummary \/ Tick \/ ListSessions
  BY <1>7 DEF NoSummary, Tick, ListSessions, storeVars, At, AnswerIsOnItsWay,
     InMemory, WithoutTools
<1>8. CASE Restart
  BY <1>8 DEF Restart, AnswerIsOnItsWay
<1>9. CASE FileWritten
  <2>1. PICK s \in writing : disk' = [disk EXCEPT ![s] = Stored(buffer)]
    BY <1>9 DEF FileWritten, FinishWrite
  <2>2. ASSUME outcome = "answered"
        PROVE  disk'[current] = mem[current]
    <3>1. s = current /\ buffer = mem[current].events
      BY <2>1, <2>2 DEF AnswerIsOnItsWay
    <3>2. mem[current] = Stored(mem[current].events)
      BY <1>0, <2>2, CopyFacts DEF AnswerIsOnItsWay, InMemory
    <3>3. QED
      BY <1>0, <2>1, <3>1, <3>2
  <2>3. QED
    BY <1>9, <2>2 DEF FileWritten, FinishWrite, turnVars, AnswerIsOnItsWay, InMemory,
       WithoutTools
<1>10. QED
  BY <1>1, <1>2, <1>3, <1>4, <1>5, <1>6, <1>7, <1>8, <1>9 DEF Next

(* After an answered turn the file and the memory of the session are the   *)
(* same and free of tool traffic, however many prompts, calls, commands    *)
(* and crashes came before.                                                *)
THEOREM AnswerDurable == Spec => []AnsweredTurnIsDurable
<1>1. Init => AnswerIsOnItsWay
  BY DEF Init, AnswerIsOnItsWay
<1>2. BaseInv /\ AnswerIsOnItsWay /\ [Next]_vars => AnswerIsOnItsWay'
  BY OnItsWayStep
<1>3. AnswerIsOnItsWay => AnsweredTurnIsDurable
  BY DEF AnswerIsOnItsWay, AnsweredTurnIsDurable, At, WithoutTools
<1>4. QED
  BY <1>1, <1>2, <1>3, BaseInvariant, PTL DEF Spec

----------------------------------------------------------------------------
(* The memory, the file and the copy of a run hold the same dialogue, and  *)
(* each has every event of the one before.                                 *)

(* b has the dialogue of a, and every event of a in the same order.        *)
Mirrors(a, b) == Dialog(a) = Dialog(b) /\ Embeds(a, b)

(* What is written to a file, or is in it, mirrors the memory.             *)
StoreSync ==
  \A s \in SessionIds :
    /\ s \in writing =>
         disk[s] = Torn /\ InMemory(s) /\ Mirrors(mem[s].events, buffer)
    /\ s \notin writing /\ InMemory(s) =>
         OnDisk(s) /\ Mirrors(mem[s].events, disk[s].events)

(* In a turn the session is in memory, and the copy of a run mirrors it.   *)
TurnSync ==
  /\ pc \notin {"down", "idle"} => InMemory(current)
  /\ pc \in {"validating", "summarizing"} => copy = mem[current].events
  /\ pc \in {"running", "managing"} => Mirrors(mem[current].events, copy)

LEMMA MirrorsItself ==
  ASSUME NEW s \in Seq(Event)
  PROVE  Mirrors(s, s)
BY EmbedsItself DEF Mirrors

LEMMA MirrorsAppend ==
  ASSUME NEW s \in Seq(Event), NEW t \in Seq(Event), NEW e \in Event, Mirrors(s, t)
  PROVE  Mirrors(Append(s, e), Append(t, e))
<1>1. Dialog(Append(s, e)) = Dialog(Append(t, e))
  <2>1. Dialog(Append(s, e)) = IF e.kind \in TextKinds THEN Append(Dialog(s), e) ELSE Dialog(s)
    BY DialogAppend
  <2>2. Dialog(Append(t, e)) = IF e.kind \in TextKinds THEN Append(Dialog(t), e) ELSE Dialog(t)
    BY DialogAppend
  <2>3. QED
    BY <2>1, <2>2 DEF Mirrors
<1>2. QED
  BY <1>1, EmbedsAppend DEF Mirrors

LEMMA MirrorsTrimmed ==
  ASSUME NEW s \in Seq(Event), NEW t \in Seq(Event), Mirrors(s, t)
  PROVE  Mirrors(Trimmed(s), t)
<1>1. Embeds(Trimmed(s), t)
  BY EmbedsKept DEF Trimmed, Mirrors
<1>2. QED
  BY <1>1, DialogOfTrimmed DEF Mirrors

----------------------------------------------------------------------------
(* What the operations of the store do to a session in memory.             *)
OthersStay(s) ==
  \A u \in SessionIds \ {s} :
    mem'[u] = mem[u] /\ disk'[u] = disk[u] /\ u \notin writing /\ u \notin writing'

(* A write of es begins while the memory of s becomes ms. *)
Writes(s, ms, es) ==
  /\ OthersStay(s)
  /\ writing = {} /\ writing' = {s} /\ buffer' = es /\ disk'[s] = Torn
  /\ mem'[s] = Stored(ms)

LEMMA WriteFacts ==
  ASSUME StoreInv, NEW s \in SessionIds, NEW es, NEW ms, StartWrite(s, es),
         mem' = [mem EXCEPT ![s] = Stored(ms)]
  PROVE  Writes(s, ms, es)
BY DEF StoreInv, StoreTypeOK, StartWrite, Writes, OthersStay

LEMMA CreateWrites ==
  ASSUME StoreInv, NEW s \in SessionIds, CreateSession(s)
  PROVE  Writes(s, << >>, << >>)
BY WriteFacts DEF CreateSession

LEMMA ReplaceWrites ==
  ASSUME StoreInv, NEW s \in SessionIds, NEW es, ReplaceEvents(s, es)
  PROVE  Writes(s, es, es)
BY WriteFacts DEF ReplaceEvents

LEMMA AppendWrites ==
  ASSUME StoreInv, NEW s \in SessionIds, NEW es, NEW e, AppendEvent(s, es, e), InMemory(s)
  PROVE  Writes(s, Append(mem[s].events, e), Append(es, e))
BY WriteFacts DEF AppendEvent

LEMMA WritesSync ==
  ASSUME StoreInv, StoreSync, NEW s \in SessionIds, NEW ms \in Seq(Event),
         NEW es \in Seq(Event), Writes(s, ms, es), Mirrors(ms, es)
  PROVE  StoreSync' /\ InMemory(s)' /\ mem'[s].events = ms
<1>1. mem'[s].status = "whole" /\ mem'[s].events = ms
  BY CopyFacts DEF Writes
<1>2. \A u \in SessionIds \ {s} : u \notin writing' /\ mem'[u] = mem[u] /\ disk'[u] = disk[u]
                                    /\ u \notin writing
  BY DEF Writes, OthersStay
<1>3. s \in writing' /\ buffer' = es /\ disk'[s] = Torn
  BY DEF Writes
<1>4. QED
  BY <1>1, <1>2, <1>3 DEF StoreSync, InMemory, OnDisk

LEMMA GetSync ==
  ASSUME StoreInv, StoreSync, NEW s \in SessionIds, Exists(s), GetSession(s)
  PROVE  /\ StoreSync' /\ InMemory(s)' /\ mem'[s] = View(s) /\ writing' = {}
         /\ \A u \in SessionIds : View(u)' = View(u)
         /\ disk' = disk
<1>1. /\ mem'[s] = View(s) /\ disk' = disk /\ writing = {} /\ writing' = {}
      /\ \A u \in SessionIds \ {s} : mem'[u] = mem[u]
  BY DEF GetSession, StoreInv, StoreTypeOK
<1>2. View(s).status = "whole" /\ View(s).events \in Seq(Event)
  BY ViewType DEF Exists, InMemory, OnDisk, View, StoreInv
<1>3. OnDisk(s)' /\ Mirrors(mem'[s].events, disk'[s].events)
  <2>1. CASE InMemory(s)
    BY <1>1, <2>1 DEF StoreSync, OnDisk, View
  <2>2. CASE ~InMemory(s)
    BY <1>1, <1>2, <2>2, MirrorsItself DEF OnDisk, View
  <2>3. QED
    BY <2>1, <2>2
<1>4. StoreSync'
  BY <1>1, <1>3 DEF StoreSync, InMemory, OnDisk
<1>5. \A u \in SessionIds : View(u)' = View(u)
  BY <1>1, <1>2 DEF View, InMemory
<1>6. QED
  BY <1>1, <1>2, <1>4, <1>5 DEF InMemory

LEMMA FinishSync ==
  ASSUME StoreInv, StoreSync, FinishWrite
  PROVE  /\ StoreSync'
         /\ \E s \in SessionIds :
              /\ OthersStay(s) /\ InMemory(s) /\ disk[s] = Torn /\ disk'[s] = Stored(buffer)
              /\ Mirrors(mem[s].events, buffer)
         /\ mem' = mem
<1>1. PICK s \in writing : disk' = [disk EXCEPT ![s] = Stored(buffer)]
  BY DEF FinishWrite
<1>2. s \in SessionIds /\ writing = {s} /\ buffer \in Seq(Event) /\ disk'[s] = Stored(buffer)
  BY <1>1 DEF StoreInv, StoreTypeOK, OneWriter
<1>3. OthersStay(s) /\ mem' = mem /\ writing' = {}
  BY <1>1, <1>2 DEF FinishWrite, OthersStay, StoreInv, StoreTypeOK
<1>4. disk[s] = Torn /\ InMemory(s) /\ Mirrors(mem[s].events, buffer)
  BY <1>2 DEF StoreSync
<1>5. disk'[s].status = "whole" /\ disk'[s].events = buffer
  BY <1>2, CopyFacts
<1>6. StoreSync'
  BY <1>3, <1>4, <1>5 DEF StoreSync, OthersStay, InMemory, OnDisk
<1>7. QED
  BY <1>2, <1>3, <1>4, <1>6

LEMMA LoseSync ==
  ASSUME LoseMemory
  PROVE  StoreSync'
BY DEF LoseMemory, StoreSync, InMemory, Absent

LEMMA SyncStutter ==
  ASSUME StoreSync, UNCHANGED storeVars
  PROVE  StoreSync'
BY DEF storeVars, StoreSync, InMemory, OnDisk

SyncInv == StoreSync /\ TurnSync

(* The ways a turn goes on: with the session in memory and a copy that is  *)
(* the memory, mirrors it or is not looked at any more.                    *)
LEMMA SyncOpening ==
  ASSUME BaseInv, SyncInv, OpenSession \/ NewSession \/ OpenFails \/ StartCompact
  PROVE  SyncInv'
<1>0. StoreInv /\ StoreSync /\ current \in SessionIds /\ << >> \in Seq(Event)
  BY DEF BaseInv, TurnTypeOK, SyncInv
<1>1. CASE OpenSession \/ StartCompact
  <2>1. /\ Exists(current) /\ GetSession(current) /\ copy' = View(current).events
        /\ current' = current /\ pc' \in {"validating", "summarizing"}
    BY <1>1 DEF OpenSession, StartCompact, Prompted
  <2>2. StoreSync' /\ InMemory(current)' /\ mem'[current] = View(current)
    BY <1>0, <2>1, GetSync
  <2>3. TurnSync'
    BY <2>1, <2>2 DEF TurnSync
  <2>4. QED
    BY <2>2, <2>3 DEF SyncInv
<1>2. CASE NewSession
  <2>1. CreateSession(current) /\ current' = current /\ copy' = << >> /\ pc' = "validating"
    BY <1>2 DEF NewSession, Prompted
  <2>2. Writes(current, << >>, << >>)
    BY <1>0, <2>1, CreateWrites
  <2>3. StoreSync' /\ InMemory(current)' /\ mem'[current].events = << >>
    <3> DEFINE z == << >>
    <3>1. z \in Seq(Event) /\ Mirrors(z, z)
      BY <1>0, MirrorsItself
    <3>2. Writes(current, z, z)
      BY <2>2
    <3>3. StoreSync' /\ InMemory(current)' /\ mem'[current].events = z
      <4> HIDE DEF z
      <4> QED
        BY <1>0, <2>1, <3>1, <3>2, WritesSync
    <3>4. QED
      BY <3>3
  <2>4. TurnSync'
    BY <2>1, <2>3 DEF TurnSync
  <2>5. QED
    BY <2>3, <2>4 DEF SyncInv
<1>3. CASE OpenFails
  <2>1. pc' = "idle" /\ StoreSync'
    BY <1>0, <1>3, SyncStutter DEF OpenFails, Prompted, At
  <2>2. QED
    BY <2>1 DEF SyncInv, TurnSync
<1>4. QED
  BY <1>1, <1>2, <1>3

(* The session's events are replaced by es and the turn goes on at loc.    *)
LEMMA SyncReplaced ==
  ASSUME BaseInv, SyncInv, NEW es \in Seq(Event), ReplaceEvents(current, es),
         current' = current
  PROVE  StoreSync' /\ InMemory(current)' /\ mem'[current].events = es
<1>1. StoreInv /\ StoreSync /\ current \in SessionIds
  BY DEF BaseInv, TurnTypeOK, SyncInv
<1>2. Writes(current, es, es)
  BY <1>1, ReplaceWrites
<1>3. QED
  BY <1>1, <1>2, WritesSync, MirrorsItself

LEMMA SyncAppended ==
  ASSUME BaseInv, SyncInv, NEW es \in Seq(Event), NEW e \in Event, InMemory(current),
         Mirrors(mem[current].events, es), AppendEvent(current, es, e),
         copy' = Append(es, e), current' = current, pc' \in {"running", "managing"}
  PROVE  SyncInv'
<1>1. StoreInv /\ StoreSync /\ current \in SessionIds /\ mem[current].events \in Seq(Event)
  BY CopyFacts DEF BaseInv, TurnTypeOK, SyncInv, StoreInv, StoreTypeOK
<1> DEFINE m == Append(mem[current].events, e)
           c == Append(es, e)
<1>2. m \in Seq(Event) /\ c \in Seq(Event) /\ Mirrors(m, c)
  BY <1>1, MirrorsAppend
<1>3. Writes(current, m, c)
  BY <1>1, AppendWrites
<1>4. StoreSync' /\ InMemory(current)' /\ mem'[current].events = m
  <2> HIDE DEF m, c
  <2> QED
    BY <1>1, <1>2, <1>3, WritesSync
<1>5. TurnSync'
  <2> HIDE DEF m
  <2> QED
    BY <1>2, <1>4 DEF TurnSync
<1>6. QED
  BY <1>4, <1>5 DEF SyncInv

LEMMA SyncValidate ==
  ASSUME BaseInv, SyncInv, ValidateSession
  PROVE  SyncInv'
<1>1. pc = "validating" /\ pc' = "starting" /\ UNCHANGED <<current, copy>> /\ InMemory(current)
      /\ copy \in Seq(Event)
  BY DEF ValidateSession, At, SyncInv, TurnSync, BaseInv, TurnTypeOK
<1>2. StoreSync' /\ InMemory(current)'
  <2>1. CASE NeedsRepair(copy)
    <3>1. Repaired(copy) \in Seq(Event) /\ ReplaceEvents(current, Repaired(copy))
      BY <1>1, <2>1, ScanType DEF ValidateSession
    <3>2. QED
      BY <1>1, <3>1, SyncReplaced
  <2>2. CASE ~NeedsRepair(copy)
    <3>1. UNCHANGED storeVars
      BY <2>2 DEF ValidateSession
    <3>2. QED
      BY <1>1, <3>1, SyncStutter DEF SyncInv, InMemory, storeVars
  <2>3. QED
    BY <2>1, <2>2
<1>3. QED
  BY <1>1, <1>2 DEF SyncInv, TurnSync

LEMMA SyncRun ==
  ASSUME BaseInv, SyncInv, StartRun \/ AgentCallsTool \/ ToolReturns \/ AgentReplies
  PROVE  SyncInv'
<1>0. /\ TurnTypeOK /\ current \in SessionIds /\ copy \in Seq(Event)
      /\ mem[current].events \in Seq(Event)
  BY CopyFacts DEF BaseInv, TurnTypeOK, StoreInv, StoreTypeOK
<1>1. CASE StartRun
  <2>1. InMemory(current) /\ View(current) = mem[current]
    BY <1>1 DEF StartRun, At, SyncInv, TurnSync, View
  <2>2. UserText(turn) \in Event /\ Mirrors(mem[current].events, mem[current].events)
    BY <1>0, EventTypes, MirrorsItself
  <2>3. QED
    BY <1>0, <1>1, <2>1, <2>2, SyncAppended DEF StartRun
<1>2. ASSUME NEW e \in Event, AgentYields(e), pc = "running"
      PROVE  SyncInv'
  <2>1. InMemory(current) /\ Mirrors(mem[current].events, copy)
    BY <1>2 DEF SyncInv, TurnSync
  <2>2. QED
    BY <1>0, <1>2, <2>1, SyncAppended DEF AgentYields, Appended
<1>3. CASE AgentCallsTool
  <2>1. PICK t \in Tools : AgentYields(Call(t))
    BY <1>3 DEF AgentCallsTool
  <2>2. QED
    BY <1>0, <1>2, <1>3, <2>1, EventTypes DEF AgentCallsTool, At
<1>4. CASE ToolReturns
  <2>1. LastEvent.of \in Tools
    BY <1>4, LastEventType DEF ToolReturns, At
  <2>2. QED
    BY <1>0, <1>2, <1>4, <2>1, EventTypes DEF ToolReturns, At
<1>5. CASE AgentReplies
  <2>1. PICK e \in {AgentText(turn), Blank(turn), Contentless(turn)} : AgentYields(e)
    BY <1>5 DEF AgentReplies
  <2>2. QED
    BY <1>0, <1>2, <1>5, <2>1, EventTypes DEF AgentReplies, At
<1>6. QED
  BY <1>1, <1>3, <1>4, <1>5

LEMMA SyncManage ==
  ASSUME BaseInv, SyncInv, ManageSession
  PROVE  SyncInv'
<1>1. /\ current \in SessionIds /\ copy \in Seq(Event) /\ mem[current].events \in Seq(Event)
      /\ InMemory(current) /\ View(current) = mem[current]
      /\ Mirrors(mem[current].events, copy)
      /\ UNCHANGED <<current, copy>> /\ pc' \in {"idle", "closing", "running"}
  BY CopyFacts DEF BaseInv, TurnTypeOK, StoreInv, StoreTypeOK, ManageSession, At, SyncInv,
     TurnSync, View
<1>2. StoreSync' /\ InMemory(current)' /\ Mirrors(mem'[current].events, copy)
  <2>1. CASE ReplaceEvents(current, Trimmed(mem[current].events))
    <3>1. Trimmed(mem[current].events) \in Seq(Event)
      BY <1>1, TrimmedType
    <3>2. QED
      BY <1>1, <2>1, <3>1, SyncReplaced, MirrorsTrimmed
  <2>2. CASE UNCHANGED storeVars
    BY <1>1, <2>2, SyncStutter DEF SyncInv, storeVars, InMemory
  <2>3. QED
    BY <1>1, <2>1, <2>2 DEF ManageSession
<1>3. QED
  BY <1>1, <1>2 DEF SyncInv, TurnSync

LEMMA SyncIdle ==
  ASSUME BaseInv, SyncInv, FinishTurn \/ TurnFails \/ SummaryArrives \/ NoSummary \/ ResetSession
                             \/ Restart \/ Crash \/ Leave
  PROVE  SyncInv'
<1>0. /\ current \in SessionIds /\ copy \in Seq(Event) /\ View(current).events \in Seq(Event)
      /\ TurnTypeOK
  BY ViewType DEF BaseInv, TurnTypeOK, StoreInv
<1>1. pc' \in {"idle", "down"}
  BY DEF FinishTurn, TurnFails, SummaryArrives, NoSummary, ResetSession, At, Restart, Crash,
         Leave
<1>2. StoreSync'
  <2>1. CASE UNCHANGED storeVars
    BY <2>1, SyncStutter DEF SyncInv
  <2>2. CASE LoseMemory
    BY <2>2, LoseSync
  <2>3. CASE FinishTurn /\ ~UNCHANGED storeVars
    <3>1. Squashed(View(current).events) \in Seq(Event)
      BY <1>0, SquashedType
    <3>2. QED
      BY <2>3, <3>1, SyncReplaced DEF FinishTurn
  <2>4. CASE SummaryArrives
    <3>1. CompactedTo(copy, SummaryTag) \in Seq(Event)
      BY <1>0, EventTypes, CompactedType
    <3>2. QED
      BY <2>4, <3>1, SyncReplaced DEF SummaryArrives
  <2>5. QED
    BY <2>1, <2>2, <2>3, <2>4 DEF TurnFails, NoSummary, ResetSession, Restart, Crash, Leave
<1>3. QED
  BY <1>1, <1>2 DEF SyncInv, TurnSync

LEMMA SyncWorld ==
  ASSUME BaseInv, SyncInv, Tick \/ FileWritten \/ ListSessions \/ UNCHANGED vars
  PROVE  SyncInv'
<1>1. UNCHANGED <<mem, pc, current, copy>> /\ StoreSync'
  <2>1. CASE FileWritten
    BY <2>1, FinishSync DEF FileWritten, turnVars, BaseInv, SyncInv
  <2>2. CASE Tick \/ ListSessions \/ UNCHANGED vars
    BY <2>2, SyncStutter DEF Tick, ListSessions, vars, storeVars, turnVars, SyncInv
  <2>3. QED
    BY <2>1, <2>2
<1>2. QED
  BY <1>1 DEF SyncInv, TurnSync, InMemory

LEMMA SyncInvariant == Spec => []SyncInv
<1>1. Init => SyncInv
  BY DEF Init, StoreInit, SyncInv, StoreSync, TurnSync, InMemory, Absent
<1>2. BaseInv /\ SyncInv /\ [Next]_vars => SyncInv'
  <2> SUFFICES ASSUME BaseInv, SyncInv, [Next]_vars PROVE SyncInv'
    OBVIOUS
  <2>1. CASE OpenSession \/ NewSession \/ OpenFails \/ StartCompact
    BY <2>1, SyncOpening
  <2>2. CASE ValidateSession
    BY <2>2, SyncValidate
  <2>3. CASE StartRun \/ AgentCallsTool \/ ToolReturns \/ AgentReplies
    BY <2>3, SyncRun
  <2>4. CASE ManageSession
    BY <2>4, SyncManage
  <2>5. CASE \/ FinishTurn \/ TurnFails \/ SummaryArrives \/ NoSummary \/ ResetSession
             \/ Restart \/ Crash \/ Leave
    BY <2>5, SyncIdle
  <2>6. CASE Tick \/ FileWritten \/ ListSessions \/ UNCHANGED vars
    BY <2>6, SyncWorld
  <2>7. QED
    BY <2>1, <2>2, <2>3, <2>4, <2>5, <2>6 DEF Next
<1>3. QED
  BY <1>1, <1>2, BaseInvariant, PTL DEF Spec

(* The greedy reading of IsSubSequence, event by event.                    *)
FoundBody(s, t, g) ==
  [n \in 0..Len(t) |->
     IF n = 0 THEN 0
     ELSE IF g[n - 1] < Len(s) /\ s[g[n - 1] + 1] = t[n] THEN g[n - 1] + 1
     ELSE g[n - 1]]

LEMMA FoundRecursion ==
  ASSUME NEW E, NEW s \in Seq(E), NEW t \in Seq(E)
  PROVE  \E g : g = FoundBody(s, t, g) /\ (IsSubSequence(s, t) <=> g[Len(t)] = Len(s))
<1> DEFINE next(p) == IF p[1] < Len(s) /\ s[p[1] + 1] = t[p[2]] THEN p[1] + 1 ELSE p[1]
           F == [p \in Nat \X (1..Len(t)) |-> next(p)]
<1>1. Len(t) \in Nat /\ 0 \in Nat
  OBVIOUS
<1>2. F \in [Nat \X (1..Len(t)) -> Nat]
  <2>1. ASSUME NEW p \in Nat \X (1..Len(t)) PROVE next(p) \in Nat
    <3>1. p[1] \in Nat
      OBVIOUS
    <3>2. QED
      BY <3>1
  <2>2. QED
    BY <2>1
<1>3. PICK g \in Iterates(Len(t), Nat, 0, F) : TRUE
  <2> HIDE DEF F
  <2> QED
    BY <1>1, <1>2, Iteration
<1>4. ASSUME NEW n \in 0..Len(t)
      PROVE  g[n] = IF n = 0 THEN 0
                    ELSE IF g[n - 1] < Len(s) /\ s[g[n - 1] + 1] = t[n] THEN g[n - 1] + 1
                    ELSE g[n - 1]
  <2>1. CASE n = 0
    BY <1>3, <2>1 DEF Iterates
  <2>2. CASE n # 0
    <3>1. n \in 1..Len(t) /\ n - 1 \in 0..Len(t)
      BY <1>1, <2>2
    <3>2. g[n] = F[<<g[n - 1], n>>] /\ g[n - 1] \in Nat
      <4> HIDE DEF F
      <4> QED
        BY <1>3, <3>1 DEF Iterates
    <3>3. <<g[n - 1], n>> \in Nat \X (1..Len(t))
      BY <3>1, <3>2
    <3>4. QED
      BY <2>2, <3>2, <3>3
  <2>3. QED
    BY <2>1, <2>2
<1>5. g = FoundBody(s, t, g)
  <2>1. g = [n \in 0..Len(t) |-> g[n]]
    <3> HIDE DEF F
    <3> QED
      BY <1>3 DEF Iterates
  <2>2. QED
    BY <1>4, <2>1 DEF FoundBody
<1> DEFINE f == CHOOSE h : h = FoundBody(s, t, h)
<1>6. f = FoundBody(s, t, f)
  BY <1>5
<1>7. IsSubSequence(s, t) <=> f[Len(t)] = Len(s)
  BY DEF IsSubSequence, FoundBody
<1>8. QED
  BY <1>6, <1>7

(* Keep obeys its recursion in the same positions: what it has kept of the *)
(* first n events has been found by then, and nothing beyond s.            *)
LEMMA KeptIsSubSequence ==
  ASSUME NEW E, NEW t \in Seq(E), NEW I
  PROVE  IsSubSequence(Keep(t, I), t)
<1> DEFINE s == Keep(t, I)
           N == Len(t)
<1>1. s \in Seq(E) /\ N \in Nat /\ Len(s) \in Nat
  <2>1. s \in Seq(E)
    BY KeepType
  <2>2. QED
    <3> HIDE DEF s
    <3> QED
      BY <2>1
<1>2. PICK k : k = KeepBody(t, I, k) /\ s = k[N]
  BY KeepRecursion
<1>3. PICK g : g = FoundBody(s, t, g) /\ (IsSubSequence(s, t) <=> g[N] = Len(s))
  <2> HIDE DEF s
  <2> QED
    BY <1>1, FoundRecursion
<1> HIDE DEF s
<1>4. /\ k[0] = << >> /\ g[0] = 0
      /\ \A n \in 1..N : k[n] = IF n \in I THEN Append(k[n - 1], t[n]) ELSE k[n - 1]
      /\ \A n \in 1..N : g[n] = IF g[n - 1] < Len(s) /\ s[g[n - 1] + 1] = t[n]
                                  THEN g[n - 1] + 1 ELSE g[n - 1]
  <2>1. 0 \in 0..N /\ \A n \in 1..N : n \in 0..N /\ n # 0
    BY <1>1
  <2>2. \A n \in 0..N : k[n] = IF n = 0 THEN << >>
                              ELSE IF n \in I THEN Append(k[n - 1], t[n]) ELSE k[n - 1]
    BY <1>2 DEF KeepBody
  <2>3. \A n \in 0..N : g[n] = IF n = 0 THEN 0
                              ELSE IF g[n - 1] < Len(s) /\ s[g[n - 1] + 1] = t[n]
                                THEN g[n - 1] + 1 ELSE g[n - 1]
    BY <1>3 DEF FoundBody
  <2>4. k[0] = << >> /\ g[0] = 0
    BY <2>1, <2>2, <2>3
  <2>5. \A n \in 1..N : k[n] = IF n \in I THEN Append(k[n - 1], t[n]) ELSE k[n - 1]
    BY <2>1, <2>2
  <2>6. \A n \in 1..N : g[n] = IF g[n - 1] < Len(s) /\ s[g[n - 1] + 1] = t[n]
                                THEN g[n - 1] + 1 ELSE g[n - 1]
    BY <2>1, <2>3
  <2>7. QED
    BY <2>4, <2>5, <2>6
<1>5. \A n \in 0..N : k[n] \in Seq(E)
  <2>1. k[0] \in Seq(E)
    BY <1>4
  <2>2. ASSUME NEW n \in 1..N, k[n - 1] \in Seq(E) PROVE k[n] \in Seq(E)
    <3>1. t[n] \in E
      BY <2>2
    <3>2. k[n] = Append(k[n - 1], t[n]) \/ k[n] = k[n - 1]
      BY <1>4, <2>2
    <3>3. \A q \in Seq(E), e \in E : Append(q, e) \in Seq(E)
      OBVIOUS
    <3>4. Append(k[n - 1], t[n]) \in Seq(E)
      BY <2>2, <3>1, <3>3
    <3>5. QED
      BY <2>2, <3>2, <3>4
  <2>3. QED
    BY <1>1, <2>1, <2>2, Along
(* Each k[n] is a prefix of s: from the end backwards.                     *)
<1> DEFINE Pre(n) == /\ Len(k[n]) <= Len(s)
                     /\ \A i \in 1..Len(k[n]) : k[n][i] = s[i]
           D == {d \in 0..N : Pre(N - d)}
<1>6. \A d \in 0..N : d \in D
  <2>1. 0 \in D
    BY <1>1, <1>2
  <2>2. ASSUME NEW d \in 0..N, d \in D, d < N PROVE d + 1 \in D
    <3> DEFINE n == N - d
    <3>1. n \in 1..N /\ n - 1 = N - (d + 1) /\ d + 1 \in 0..N /\ n - 1 \in 0..N
      BY <1>1, <2>2
    <3>2. Pre(n) /\ k[n - 1] \in Seq(E) /\ t[n] \in E
      BY <1>5, <2>2, <3>1
    <3>3. k[n] = Append(k[n - 1], t[n]) \/ k[n] = k[n - 1]
      BY <1>4, <3>1
    <3>4. Pre(n - 1)
      <4> HIDE DEF n
      <4>1. CASE k[n] = k[n - 1]
        BY <3>2, <4>1
      <4>2. CASE k[n] = Append(k[n - 1], t[n])
        <5> DEFINE q == k[n - 1]
        <5>1. Len(k[n]) = Len(q) + 1 /\ Len(q) \in Nat /\ \A i \in 1..Len(q) : k[n][i] = q[i]
          BY <3>2, <4>2
        <5>2. QED
          BY <1>1, <3>2, <5>1
      <4>3. QED
        BY <3>3, <4>1, <4>2
    <3>5. QED
      BY <3>1, <3>4
  <2>3. QED
    <3> HIDE DEF D
    <3> QED
      BY <1>1, <2>1, <2>2, BoundedInduction
<1>7. \A n \in 0..N : Pre(n)
  <2> SUFFICES ASSUME NEW n \in 0..N PROVE Pre(n)
    OBVIOUS
  <2>1. N - n \in 0..N /\ N - (N - n) = n
    BY <1>1
  <2>2. QED
    BY <1>6, <2>1
<1> DEFINE G == {n \in 0..N : g[n] \in Nat /\ Len(k[n]) <= g[n] /\ g[n] <= Len(s)}
<1>8. \A n \in 0..N : n \in G
  <2>1. 0 \in G
    BY <1>1, <1>4
  <2>2. ASSUME NEW m \in 0..N, m \in G, m < N PROVE m + 1 \in G
    <3> DEFINE n == m + 1
    <3>1. n \in 1..N /\ n \in 0..N /\ n - 1 = m /\ m \in 0..N
      BY <1>1, <2>2
    <3>2. k[m] \in Seq(E) /\ Len(k[m]) \in Nat /\ t[n] \in E /\ Pre(n)
      BY <1>5, <1>7, <3>1
    <3>3. g[m] \in Nat /\ Len(k[m]) <= g[m] /\ g[m] <= Len(s)
      BY <2>2
    <3>4. g[n] = IF g[m] < Len(s) /\ s[g[m] + 1] = t[n] THEN g[m] + 1 ELSE g[m]
      BY <1>4, <3>1
    <3>5. k[n] = IF n \in I THEN Append(k[m], t[n]) ELSE k[m]
      BY <1>4, <3>1
    <3>6. g[n] \in Nat /\ Len(k[n]) <= g[n] /\ g[n] <= Len(s)
      <4> HIDE DEF n
      <4>1. CASE n \notin I
        BY <1>1, <3>2, <3>3, <3>4, <3>5, <4>1
      <4>2. CASE n \in I /\ g[m] > Len(k[m])
        <5>1. Len(k[n]) = Len(k[m]) + 1
          BY <3>2, <3>5, <4>2
        <5>2. QED
          BY <1>1, <3>2, <3>3, <3>4, <4>2, <5>1
      <4>3. CASE n \in I /\ g[m] = Len(k[m])
        <5>1. Len(k[n]) = Len(k[m]) + 1 /\ k[n][Len(k[m]) + 1] = t[n]
          BY <3>2, <3>5, <4>3
        <5>2. Len(k[m]) + 1 \in 1..Len(k[n]) /\ Len(k[m]) + 1 <= Len(s)
          BY <3>2, <5>1
        <5>3. s[g[m] + 1] = t[n] /\ g[m] < Len(s)
          BY <1>1, <3>2, <3>3, <4>3, <5>1, <5>2
        <5>4. QED
          BY <1>1, <3>2, <3>3, <3>4, <4>3, <5>1, <5>3
      <4>4. QED
        BY <3>2, <3>3, <4>1, <4>2, <4>3
    <3>7. QED
      BY <3>1, <3>6
  <2>3. QED
    <3> HIDE DEF G
    <3> QED
      BY <1>1, <2>1, <2>2, BoundedInduction
<1>9. g[N] = Len(s)
  <2>1. N \in 0..N
    BY <1>1
  <2>2. Len(s) <= g[N] /\ g[N] <= Len(s) /\ g[N] \in Nat
    BY <1>2, <1>8, <2>1
  <2>3. QED
    BY <1>1, <2>2
<1>10. QED
  BY <1>3, <1>9 DEF s

(* Between two writes the file of a session in memory is complete and has  *)
(* every event of the memory in its order, however often a run appended    *)
(* its own copy after the memory was trimmed.                              *)
THEOREM FileKeepsUp == Spec => []FileHoldsMemory
<1>1. BaseInv /\ SyncInv => FileHoldsMemory
  <2> SUFFICES ASSUME BaseInv, SyncInv, writing = {}, NEW s \in SessionIds, InMemory(s)
               PROVE  OnDisk(s) /\ IsSubSequence(mem[s].events, disk[s].events)
    BY DEF FileHoldsMemory
  <2>1. OnDisk(s) /\ Embeds(mem[s].events, disk[s].events)
    BY DEF SyncInv, StoreSync, Mirrors
  <2>2. disk[s].events \in Seq(Event)
    BY CopyFacts DEF BaseInv, StoreInv, StoreTypeOK
  <2>3. QED
    BY <2>1, <2>2, KeptIsSubSequence DEF Embeds
<1>2. QED
  BY <1>1, BaseInvariant, SyncInvariant, PTL

----------------------------------------------------------------------------
(* The refinement of ConversationLog.                                      *)

(* The conversations of ConversationLog, as AgentTurn shows them.          *)
Lives == [s \in SessionIds |-> DialogOf(View(s))]
Saves == [s \in SessionIds |-> DialogOf(disk[s])]
Opened == {s \in SessionIds : InMemory(s)}

LEMMA DialogOfCopies ==
  /\ DialogOf(Absent) = Log!Missing /\ DialogOf(Torn) = Log!Damaged
  /\ \A es \in Seq(Event) : DialogOf(Stored(es)) = Log!Kept(Dialog(es))
<1>1. DialogOf(Absent) = Log!Missing /\ DialogOf(Torn) = Log!Damaged
  BY DialogEmpty DEF DialogOf, Absent, Torn, Log!Missing, Log!Damaged
<1>2. ASSUME NEW es \in Seq(Event) PROVE DialogOf(Stored(es)) = Log!Kept(Dialog(es))
  BY DEF DialogOf, Stored, Log!Kept
<1>3. QED
  BY <1>1, <1>2

LEMMA WriteShows ==
  ASSUME StoreInv, NEW s \in SessionIds, NEW ms \in Seq(Event), NEW es, Writes(s, ms, es)
  PROVE  /\ Lives' = [Lives EXCEPT ![s] = Log!Kept(Dialog(ms))]
         /\ Saves' = [Saves EXCEPT ![s] = Log!Damaged]
         /\ Opened' = Opened \cup {s}
<1>1. /\ mem'[s] = Stored(ms) /\ disk'[s] = Torn /\ mem'[s].status = "whole"
      /\ \A u \in SessionIds \ {s} : mem'[u] = mem[u] /\ disk'[u] = disk[u]
  BY CopyFacts DEF Writes, OthersStay
<1>2. View(s)' = Stored(ms) /\ \A u \in SessionIds \ {s} : View(u)' = View(u)
  BY <1>1 DEF View, InMemory
<1>3. DialogOf(View(s)') = Log!Kept(Dialog(ms)) /\ DialogOf(disk'[s]) = Log!Damaged
  BY <1>1, <1>2, DialogOfCopies
<1>4. Lives' = [Lives EXCEPT ![s] = Log!Kept(Dialog(ms))]
  BY <1>2, <1>3 DEF Lives
<1>5. Saves' = [Saves EXCEPT ![s] = Log!Damaged]
  BY <1>1, <1>3 DEF Saves
<1>6. Opened' = Opened \cup {s}
  BY <1>1 DEF Opened, InMemory
<1>7. QED
  BY <1>4, <1>5, <1>6

(* Between two writes a session in memory is saved as it is. *)
LEMMA SettledIsSaved ==
  ASSUME StoreInv, StoreSync, NEW s \in SessionIds, InMemory(s), writing = {}
  PROVE  /\ Saves[s] = Lives[s]
         /\ s \in Opened /\ Lives[s].log = Dialog(mem[s].events)
<1>1. OnDisk(s) /\ Dialog(mem[s].events) = Dialog(disk[s].events) /\ View(s) = mem[s]
  BY DEF StoreSync, Mirrors, View
<1>2. QED
  BY <1>1 DEF Lives, Saves, Opened, DialogOf, InMemory, OnDisk

(* A write with the dialogue it had, or one event more, is a Tidy or a Say *)
(* of the conversation.                                                    *)
LEMMA WriteIsTidy ==
  ASSUME StoreInv, StoreSync, NEW s \in SessionIds, InMemory(s), NEW ms \in Seq(Event), NEW es,
         Writes(s, ms, es), Dialog(ms) = Dialog(mem[s].events)
  PROVE  Log!Tidy(s)
<1>1. writing = {}
  BY DEF Writes
<1>2. Saves[s] = Lives[s] /\ s \in Opened /\ Lives[s].log = Dialog(ms)
  BY <1>1, SettledIsSaved
<1>3. /\ Lives' = [Lives EXCEPT ![s] = Log!Kept(Dialog(ms))]
      /\ Saves' = [Saves EXCEPT ![s] = Log!Damaged]
      /\ Opened' = Opened \cup {s}
  BY WriteShows
<1>4. QED
  BY <1>2, <1>3 DEF Log!Tidy, Log!Changes, Log!Becomes, Lives, Saves, Opened

LEMMA WriteIsSay ==
  ASSUME StoreInv, StoreSync, NEW s \in SessionIds, InMemory(s), NEW ms \in Seq(Event), NEW es,
         Writes(s, ms, es), NEW e \in [kind : TextKinds, of : Turns],
         Dialog(ms) = Append(Dialog(mem[s].events), e)
  PROVE  Log!Say(s)
<1>1. writing = {}
  BY DEF Writes
<1>2. /\ Saves[s] = Lives[s] /\ s \in Opened
      /\ Append(Lives[s].log, e) = Dialog(ms)
  BY <1>1, SettledIsSaved
<1>3. /\ Lives' = [Lives EXCEPT ![s] = Log!Kept(Dialog(ms))]
      /\ Saves' = [Saves EXCEPT ![s] = Log!Damaged]
      /\ Opened' = Opened \cup {s}
  BY WriteShows
<1>4. QED
  BY <1>2, <1>3 DEF Log!Say, Log!Changes, Log!Becomes, Lives, Saves, Opened

(* Nothing of the conversation changes when no copy does and none is added.*)
LEMMA ViewsStay ==
  ASSUME \A s \in SessionIds : View(s)' = View(s) /\ InMemory(s)' = InMemory(s), disk' = disk
  PROVE  UNCHANGED Log!vars
BY DEF Log!vars

LEMMA StoreStays ==
  ASSUME UNCHANGED storeVars
  PROVE  UNCHANGED Log!vars
BY ViewsStay DEF storeVars, View, InMemory

LEMMA LogCreated ==
  ASSUME BaseInv, SyncInv, NewSession
  PROVE  Log!Begin(current)
<1> DEFINE z == << >>
<1>0. StoreInv /\ StoreSync /\ current \in SessionIds /\ z \in Seq(Event)
  BY DEF BaseInv, TurnTypeOK, SyncInv
<1>1. Writes(current, z, z)
  BY <1>0, CreateWrites DEF NewSession
<1>2. Dialog(z) = << >>
  BY DialogEmpty
<1>3. /\ Lives' = [Lives EXCEPT ![current] = Log!Kept(<< >>)]
      /\ Saves' = [Saves EXCEPT ![current] = Log!Damaged]
      /\ Opened' = Opened \cup {current}
  <2> HIDE DEF z
  <2> QED
    BY <1>0, <1>1, <1>2, WriteShows
<1>4. View(current) = disk[current] /\ current \notin Opened
  BY DEF NewSession, ReadsNothing, View, Opened
<1>5. Lives[current] = Saves[current]
  BY <1>0, <1>4 DEF Lives, Saves
<1>6. QED
  BY <1>3, <1>4, <1>5 DEF Log!Begin, Log!Changes, Log!Becomes, Lives, Saves, Opened

LEMMA LogValidated ==
  ASSUME BaseInv, SyncInv, ValidateSession
  PROVE  Log!Tidy(current) \/ UNCHANGED Log!vars
<1>0. /\ StoreInv /\ StoreSync /\ current \in SessionIds /\ copy \in Seq(Event)
      /\ InMemory(current) /\ copy = mem[current].events
  BY DEF BaseInv, TurnTypeOK, SyncInv, TurnSync, ValidateSession, At
<1>1. CASE NeedsRepair(copy)
  <2>1. Repaired(copy) \in Seq(Event) /\ Dialog(Repaired(copy)) = Dialog(copy)
    BY <1>0, ScanType, DialogOfRepaired
  <2>2. Writes(current, Repaired(copy), Repaired(copy))
    BY <1>0, <1>1, ReplaceWrites DEF ValidateSession
  <2>3. QED
    BY <1>0, <2>1, <2>2, WriteIsTidy
<1>2. CASE ~NeedsRepair(copy)
  BY <1>2, StoreStays DEF ValidateSession
<1>3. QED
  BY <1>1, <1>2

(* An event that is appended is said when it carries text, and invisible   *)
(* otherwise.                                                              *)
LEMMA LogAppended ==
  ASSUME BaseInv, SyncInv, InMemory(current), NEW es \in Seq(Event), NEW e \in Event,
         AppendEvent(current, es, e)
  PROVE  Log!Say(current) \/ Log!Tidy(current)
<1> DEFINE m == mem[current].events
<1>0. /\ StoreInv /\ StoreSync /\ current \in SessionIds /\ m \in Seq(Event)
      /\ Append(m, e) \in Seq(Event)
  <2>1. m \in Seq(Event)
    BY CopyFacts DEF BaseInv, TurnTypeOK, StoreInv, StoreTypeOK
  <2>2. QED
    BY <2>1 DEF BaseInv, TurnTypeOK, SyncInv
<1>1. Writes(current, Append(m, e), Append(es, e))
  BY <1>0, AppendWrites
<1>2. Dialog(Append(m, e)) = IF e.kind \in TextKinds THEN Append(Dialog(m), e) ELSE Dialog(m)
  BY <1>0, DialogAppend
<1>3. CASE e.kind \in TextKinds
  <2>1. e \in [kind : TextKinds, of : Turns]
    BY <1>3 DEF Event, TextKinds, ToolKinds
  <2>2. QED
    BY <1>0, <1>1, <1>2, <1>3, <2>1, WriteIsSay
<1>4. CASE e.kind \notin TextKinds
  BY <1>0, <1>1, <1>2, <1>4, WriteIsTidy
<1>5. QED
  BY <1>3, <1>4

LEMMA LogRun ==
  ASSUME BaseInv, SyncInv, StartRun \/ AgentCallsTool \/ ToolReturns \/ AgentReplies
  PROVE  Log!Say(current) \/ Log!Tidy(current)
<1>0. /\ TurnTypeOK /\ copy \in Seq(Event) /\ View(current).events \in Seq(Event)
      /\ InMemory(current)
  BY ViewType DEF BaseInv, TurnTypeOK, StoreInv, SyncInv, TurnSync, StartRun, AgentCallsTool,
     ToolReturns, AgentReplies, At
<1>1. CASE StartRun
  BY <1>0, <1>1, EventTypes, LogAppended DEF StartRun
<1>2. ASSUME NEW e \in Event, AgentYields(e)
      PROVE  Log!Say(current) \/ Log!Tidy(current)
  BY <1>0, <1>2, LogAppended DEF AgentYields, Appended
<1>3. CASE AgentCallsTool
  <2>1. PICK t \in Tools : AgentYields(Call(t))
    BY <1>3 DEF AgentCallsTool
  <2>2. QED
    BY <1>0, <1>2, <2>1, EventTypes
<1>4. CASE ToolReturns
  <2>1. LastEvent.of \in Tools /\ AgentYields(Result(LastEvent.of))
    BY <1>4, LastEventType DEF ToolReturns, At
  <2>2. QED
    BY <1>0, <1>2, <2>1, EventTypes
<1>5. CASE AgentReplies
  <2>1. PICK e \in {AgentText(turn), Blank(turn), Contentless(turn)} : AgentYields(e)
    BY <1>5 DEF AgentReplies
  <2>2. QED
    BY <1>0, <1>2, <2>1, EventTypes
<1>6. QED
  BY <1>1, <1>3, <1>4, <1>5

LEMMA LogManaged ==
  ASSUME BaseInv, SyncInv, ManageSession
  PROVE  Log!Tidy(current) \/ UNCHANGED Log!vars
<1> DEFINE m == mem[current].events
<1>0. /\ StoreInv /\ StoreSync /\ current \in SessionIds /\ m \in Seq(Event)
      /\ InMemory(current) /\ View(current) = mem[current]
  BY CopyFacts DEF BaseInv, TurnTypeOK, StoreInv, StoreTypeOK, ManageSession, At, SyncInv,
     TurnSync, View
<1>1. CASE ReplaceEvents(current, Trimmed(m))
  <2>1. Trimmed(m) \in Seq(Event) /\ Dialog(Trimmed(m)) = Dialog(m)
    BY <1>0, TrimmedType, DialogOfTrimmed
  <2>2. Writes(current, Trimmed(m), Trimmed(m))
    BY <1>0, <1>1, ReplaceWrites
  <2>3. QED
    BY <1>0, <2>1, <2>2, WriteIsTidy
<1>2. CASE UNCHANGED storeVars
  BY <1>2, StoreStays
<1>3. QED
  BY <1>0, <1>1, <1>2 DEF ManageSession

LEMMA LogFinished ==
  ASSUME BaseInv, SyncInv, FinishTurn
  PROVE  Log!Tidy(current) \/ UNCHANGED Log!vars
<1> DEFINE m == mem[current].events
<1>0. /\ StoreInv /\ StoreSync /\ current \in SessionIds /\ m \in Seq(Event)
      /\ InMemory(current) /\ View(current) = mem[current]
  BY CopyFacts DEF BaseInv, TurnTypeOK, StoreInv, StoreTypeOK, FinishTurn, At, SyncInv,
     TurnSync, View
<1>1. CASE ReplaceEvents(current, Squashed(m))
  <2>1. Squashed(m) \in Seq(Event) /\ Dialog(Squashed(m)) = Dialog(m)
    BY <1>0, SquashedType, DialogOfSquashed
  <2>2. Writes(current, Squashed(m), Squashed(m))
    BY <1>0, <1>1, ReplaceWrites
  <2>3. QED
    BY <1>0, <2>1, <2>2, WriteIsTidy
<1>2. CASE UNCHANGED storeVars
  BY <1>2, StoreStays
<1>3. QED
  BY <1>0, <1>1, <1>2 DEF FinishTurn

LEMMA LogSummarised ==
  ASSUME BaseInv, SyncInv, SummaryArrives
  PROVE  Log!Summarise(current)
<1> DEFINE m == mem[current].events
           k == CompactedTo(copy, SummaryTag)
<1>0. /\ StoreInv /\ StoreSync /\ current \in SessionIds /\ copy \in Seq(Event)
      /\ InMemory(current) /\ copy = m /\ writing = {} /\ SummaryTag \in Turns
  BY EventTypes DEF BaseInv, TurnTypeOK, SummaryArrives, At, SyncInv, TurnSync
<1>1. k \in Seq(Event)
  BY <1>0, CompactedType
<1>2. PICK n \in 0..Len(Dialog(m)) :
        Dialog(k) = Append(SubSeq(Dialog(m), 1, n), AgentText(SummaryTag))
  BY <1>0, DialogOfCompacted
<1>3. Writes(current, k, k)
  BY <1>0, ReplaceWrites DEF SummaryArrives
<1>4. /\ Saves[current] = Lives[current]
      /\ current \in Opened /\ Lives[current].log = Dialog(m)
  BY <1>0, SettledIsSaved
<1>5. /\ Lives' = [Lives EXCEPT ![current] = Log!Kept(Dialog(k))]
      /\ Saves' = [Saves EXCEPT ![current] = Log!Damaged]
      /\ Opened' = Opened \cup {current}
  <2> HIDE DEF k
  <2> QED
    BY <1>0, <1>1, <1>3, WriteShows
<1>6. /\ AgentText(SummaryTag) \in [kind : TextKinds, of : Turns]
      /\ AgentText(SummaryTag).of = SummaryTag
  BY <1>0 DEF AgentText, TextKinds
<1>7. /\ Log!Changes(current)
      /\ Log!Becomes(current, Append(SubSeq(Lives[current].log, 1, n), AgentText(SummaryTag)))
  <2> HIDE DEF k, m
  <2> QED
    BY <1>2, <1>4, <1>5 DEF Log!Changes, Log!Becomes, Lives, Saves, Opened
<1>8. n \in 0..Len(Lives[current].log)
  BY <1>4
<1>9. QED
  BY <1>4, <1>6, <1>7, <1>8 DEF Log!Summarise, Lives, Opened

LEMMA LogGot ==
  ASSUME StoreInv, StoreSync, NEW s \in SessionIds, Exists(s), GetSession(s)
  PROVE  Log!Open(s) \/ UNCHANGED Log!vars
<1>1. /\ disk' = disk /\ InMemory(s)' /\ \A u \in SessionIds : View(u)' = View(u)
      /\ \A u \in SessionIds \ {s} : InMemory(u)' = InMemory(u)
  <2>1. \A u \in SessionIds \ {s} : mem'[u] = mem[u]
    BY DEF GetSession, StoreInv, StoreTypeOK
  <2>2. \A u \in SessionIds \ {s} : InMemory(u)' = InMemory(u)
    BY <2>1 DEF InMemory
  <2>3. QED
    BY <2>2, GetSync
<1>2. CASE InMemory(s)
  <2>1. \A u \in SessionIds : InMemory(u)' = InMemory(u)
    BY <1>1, <1>2 DEF InMemory
  <2>2. QED
    BY <1>1, <2>1, ViewsStay
<1>3. CASE ~InMemory(s)
  <2>1. Lives' = Lives /\ Saves' = Saves /\ Opened' = Opened \cup {s}
    BY <1>1 DEF Lives, Saves, Opened
  <2>2. s \notin Opened /\ Lives[s].status = "whole"
    BY <1>3 DEF Opened, Lives, DialogOf, Exists, OnDisk, View
  <2>3. QED
    BY <2>1, <2>2 DEF Log!Open, Lives, Saves, Opened
<1>4. QED
  BY <1>2, <1>3

LEMMA LogOpened ==
  ASSUME BaseInv, SyncInv, OpenSession \/ StartCompact
  PROVE  Log!Open(current) \/ UNCHANGED Log!vars
<1>1. StoreInv /\ StoreSync /\ current \in SessionIds /\ Exists(current) /\ GetSession(current)
  BY DEF BaseInv, TurnTypeOK, SyncInv, OpenSession, StartCompact
<1>2. QED
  BY <1>1, LogGot

LEMMA LogSaved ==
  ASSUME BaseInv, SyncInv, FileWritten
  PROVE  \E s \in SessionIds : Log!Save(s)
<1>1. PICK s \in SessionIds :
        /\ OthersStay(s) /\ InMemory(s) /\ disk[s] = Torn /\ disk'[s] = Stored(buffer)
        /\ Mirrors(mem[s].events, buffer) /\ mem' = mem
  BY FinishSync DEF BaseInv, SyncInv, FileWritten
<1>2. buffer \in Seq(Event) /\ mem[s].events \in Seq(Event)
  BY CopyFacts DEF BaseInv, StoreInv, StoreTypeOK
<1>3. View(s) = mem[s] /\ \A u \in SessionIds : View(u)' = IF InMemory(u) THEN mem[u] ELSE disk'[u]
  BY <1>1 DEF View, InMemory
<1>4. \A u \in SessionIds : View(u)' = View(u)
  BY <1>1, <1>3 DEF View, OthersStay
<1>5. DialogOf(disk'[s]) = Log!Kept(Dialog(mem[s].events)) /\ DialogOf(disk[s]) = Log!Damaged
  BY <1>1, <1>2, DialogOfCopies DEF Mirrors
<1>6. /\ Lives[s] = Log!Kept(Dialog(mem[s].events))
      /\ s \in Opened /\ Opened' = Opened
  BY <1>1, <1>3 DEF Lives, Opened, DialogOf, InMemory, Log!Kept
<1>7. Saves' = [Saves EXCEPT ![s] = Lives[s]] /\ Saves[s] = Log!Damaged
  BY <1>1, <1>5, <1>6 DEF Saves, OthersStay
<1>8. Lives' = Lives
  BY <1>4 DEF Lives
<1>9. QED
  BY <1>6, <1>7, <1>8 DEF Log!Save, Lives, Saves, Opened

LEMMA LogLost ==
  ASSUME LoseMemory
  PROVE  Log!Crash
<1>1. \A s \in SessionIds : View(s)' = disk[s] /\ disk' = disk
  BY DEF LoseMemory, View, InMemory, Absent
<1>2. Lives' = Saves /\ Saves' = Saves /\ Opened' = {}
  BY <1>1 DEF Lives, Saves, Opened, LoseMemory, InMemory, Absent
<1>3. QED
  BY <1>2 DEF Log!Crash, Lives, Saves, Opened

(* The conversation the user sees, in memory and in the files, is the one  *)
(* ConversationLog promises, for any number of prompts, tool calls,        *)
(* commands, crashes and files that cannot be read: a step is one of its   *)
(* own or does not show.                                                   *)
THEOREM RefinesConversationLog == Spec => ImplementsConversationLog
<1>1. Init => Log!Init
  <2> SUFFICES ASSUME Init PROVE Log!Init
    OBVIOUS
  <2>1. \A s \in SessionIds : View(s) = Absent /\ disk[s] = Absent /\ ~InMemory(s)
    BY DEF Init, StoreInit, View, InMemory, Absent
  <2>2. QED
    BY <2>1, DialogOfCopies DEF Log!Init
<1>2. BaseInv /\ SyncInv /\ [Next]_vars => [Log!Next]_(Log!vars)
  <2> SUFFICES ASSUME BaseInv, SyncInv, [Next]_vars PROVE Log!Next \/ UNCHANGED Log!vars
    OBVIOUS
  <2>0. current \in SessionIds
    BY DEF BaseInv, TurnTypeOK
  <2>1. CASE NewSession
    BY <2>0, <2>1, LogCreated DEF Log!Next
  <2>2. CASE StartRun \/ AgentCallsTool \/ ToolReturns \/ AgentReplies
    BY <2>0, <2>2, LogRun DEF Log!Next
  <2>3. CASE ValidateSession \/ ManageSession \/ FinishTurn
    BY <2>0, <2>3, LogValidated, LogManaged, LogFinished DEF Log!Next
  <2>4. CASE SummaryArrives
    BY <2>0, <2>4, LogSummarised DEF Log!Next
  <2>5. CASE FileWritten
    BY <2>5, LogSaved DEF Log!Next
  <2>6. CASE Crash \/ Leave
    BY <2>6, LogLost DEF Log!Next, Crash, Leave
  <2>7. CASE OpenSession \/ StartCompact
    BY <2>0, <2>7, LogOpened DEF Log!Next
  <2>8. CASE OpenFails \/ TurnFails \/ NoSummary \/ ResetSession \/ Tick \/ Restart
             \/ ListSessions \/ UNCHANGED vars
    BY <2>8, StoreStays DEF OpenFails, TurnFails, NoSummary, ResetSession, Tick, Restart,
       ListSessions, vars
  <2>9. QED
    BY <2>1, <2>2, <2>3, <2>4, <2>5, <2>6, <2>7, <2>8 DEF Next
<1>3. QED
  BY <1>1, <1>2, BaseInvariant, SyncInvariant, PTL DEF Spec, ImplementsConversationLog, Log!Spec

----------------------------------------------------------------------------
(* The pairs of calls and responses. A crash in the middle of a run leaves *)
(* a file that may hold more responses than the limit; the trim of the     *)
(* next run can then take the call before an open one away, so that a      *)
(* response in memory has no call. What never happens is an orphan behind  *)
(* an open call, and that is what validation needs.                        *)

(* Whatever crashes and failed turns left, the memory and the files hold   *)
(* histories that validation can mend.                                     *)
StoreMends ==
  /\ \A s \in SessionIds : Mendable(mem[s].events) /\ Mendable(disk[s].events)
  /\ Mendable(buffer)

(* A run starts from intact pairs; from there the only open call, in its   *)
(* copy and in the memory, is the event it has just got.                   *)
RunMends ==
  /\ pc = "starting" => PairsIntact(mem[current].events)
  /\ pc \in {"running", "managing"} =>
       /\ ResultsAnswer(copy) /\ SettledBut(copy, LastEvent)
       /\ SettledBut(mem[current].events, LastEvent)

PairInv == StoreMends /\ RunMends

LEMMA NothingMends == PairsIntact(<< >>) /\ Mendable(<< >>)
<1> DEFINE z == << >>
<1>1. z \in Seq(Event) /\ \A i \in DOMAIN z : z[i].kind \notin ToolKinds
  OBVIOUS
<1>2. PairsIntact(z) /\ Mendable(z)
  <2> HIDE DEF z
  <2> QED
    BY <1>1, IntactWithoutTools, IntactIsMendable
<1>3. QED
  BY <1>2

LEMMA WritesMend ==
  ASSUME StoreInv, StoreMends, NEW s \in SessionIds, NEW ms \in Seq(Event),
         NEW es \in Seq(Event), Writes(s, ms, es), Mendable(ms), Mendable(es)
  PROVE  StoreMends' /\ mem'[s].events = ms
<1>1. mem'[s].events = ms /\ disk'[s].events = << >> /\ buffer' = es
  BY CopyFacts DEF Writes, Torn
<1>2. \A u \in SessionIds \ {s} : mem'[u] = mem[u] /\ disk'[u] = disk[u]
  BY DEF Writes, OthersStay
<1>3. ASSUME NEW u \in SessionIds PROVE Mendable(mem'[u].events) /\ Mendable(disk'[u].events)
  <2>1. CASE u = s
    BY <1>1, <2>1, NothingMends
  <2>2. CASE u # s
    BY <1>2, <2>2 DEF StoreMends
  <2>3. QED
    BY <2>1, <2>2
<1>4. QED
  BY <1>1, <1>3 DEF StoreMends

LEMMA StutterMends ==
  ASSUME StoreMends, UNCHANGED storeVars
  PROVE  StoreMends'
BY DEF StoreMends, storeVars

LEMMA GetMends ==
  ASSUME StoreInv, StoreMends, NEW s \in SessionIds, GetSession(s)
  PROVE  StoreMends'
<1>1. /\ mem'[s] = View(s) /\ disk' = disk /\ buffer' = buffer
      /\ \A u \in SessionIds \ {s} : mem'[u] = mem[u]
  BY DEF GetSession, StoreInv, StoreTypeOK
<1>2. Mendable(View(s).events)
  BY DEF StoreMends, View
<1>3. QED
  BY <1>1, <1>2 DEF StoreMends

LEMMA FinishMends ==
  ASSUME StoreInv, StoreMends, FinishWrite
  PROVE  StoreMends'
<1>1. PICK s \in writing : disk' = [disk EXCEPT ![s] = Stored(buffer)]
  BY DEF FinishWrite
<1>2. /\ mem' = mem /\ buffer' = << >> /\ buffer \in Seq(Event)
      /\ \A u \in SessionIds : disk'[u] = disk[u] \/ disk'[u] = Stored(buffer)
  BY <1>1 DEF FinishWrite, StoreInv, StoreTypeOK
<1>3. Stored(buffer).events = buffer
  BY <1>2, CopyFacts
<1>4. \A u \in SessionIds : Mendable(disk'[u].events)
  BY <1>2, <1>3 DEF StoreMends
<1>5. QED
  BY <1>2, <1>4, NothingMends DEF StoreMends

LEMMA LoseMends ==
  ASSUME StoreMends, LoseMemory
  PROVE  StoreMends'
BY NothingMends DEF StoreMends, LoseMemory, Absent

(* The steps that leave a session without tools or with intact pairs.      *)
LEMMA ReplacedMends ==
  ASSUME BaseInv, PairInv, NEW es \in Seq(Event), ReplaceEvents(current, es), PairsIntact(es),
         current' = current
  PROVE  StoreMends' /\ PairsIntact(mem'[current].events)
         /\ \A last : SettledBut(mem'[current].events, last)
<1>1. StoreInv /\ StoreMends /\ current \in SessionIds
  BY DEF BaseInv, TurnTypeOK, PairInv
<1>2. Writes(current, es, es) /\ Mendable(es)
  BY <1>1, ReplaceWrites, IntactIsMendable
<1>3. StoreMends' /\ mem'[current].events = es
  BY <1>1, <1>2, WritesMend
<1>4. QED
  BY <1>3, IntactIsMendable

LEMMA MendsOpening ==
  ASSUME BaseInv, PairInv, OpenSession \/ NewSession \/ OpenFails \/ StartCompact
  PROVE  PairInv'
<1>0. StoreInv /\ StoreMends /\ current \in SessionIds
  BY DEF BaseInv, TurnTypeOK, PairInv
<1>1. pc' \in {"validating", "idle", "summarizing"}
  BY DEF OpenSession, NewSession, OpenFails, StartCompact, Prompted, At
<1>2. StoreMends'
  <2>1. CASE OpenSession \/ StartCompact
    BY <1>0, <2>1, GetMends DEF OpenSession, StartCompact
  <2>2. CASE NewSession
    <3> DEFINE z == << >>
    <3>1. Writes(current, z, z) /\ z \in Seq(Event) /\ Mendable(z)
      BY <1>0, <2>2, CreateWrites, NothingMends DEF NewSession
    <3>2. QED
      <4> HIDE DEF z
      <4> QED
        BY <1>0, <3>1, WritesMend
  <2>3. CASE OpenFails
    BY <1>0, <2>3, StutterMends DEF OpenFails
  <2>4. QED
    BY <2>1, <2>2, <2>3
<1>3. QED
  BY <1>1, <1>2 DEF PairInv, RunMends

LEMMA MendsValidate ==
  ASSUME BaseInv, SyncInv, PairInv, ValidateSession
  PROVE  PairInv'
<1>0. /\ StoreMends /\ current \in SessionIds /\ copy \in Seq(Event) /\ pc' = "starting"
      /\ current' = current /\ copy = mem[current].events /\ Mendable(copy)
  BY DEF BaseInv, TurnTypeOK, SyncInv, TurnSync, ValidateSession, At, PairInv, StoreMends
<1>1. PairsIntact(Repaired(copy)) /\ (~NeedsRepair(copy) => PairsIntact(copy))
  BY <1>0, ValidationMends
<1>2. StoreMends' /\ PairsIntact(mem'[current].events)
  <2>1. CASE NeedsRepair(copy)
    <3>1. Repaired(copy) \in Seq(Event) /\ ReplaceEvents(current, Repaired(copy))
      BY <1>0, <2>1, ScanType DEF ValidateSession
    <3>2. QED
      BY <1>0, <1>1, <3>1, ReplacedMends
  <2>2. CASE ~NeedsRepair(copy)
    <3>1. UNCHANGED storeVars
      BY <2>2 DEF ValidateSession
    <3>2. mem' = mem
      BY <3>1 DEF storeVars
    <3>3. QED
      BY <1>0, <1>1, <2>2, <3>1, <3>2, StutterMends
  <2>3. QED
    BY <2>1, <2>2
<1>3. QED
  BY <1>0, <1>2 DEF PairInv, RunMends

LEMMA MendsAppended ==
  ASSUME BaseInv, PairInv, NEW es \in Seq(Event), NEW e \in Event, InMemory(current),
         AppendEvent(current, es, e), copy' = Append(es, e), current' = current,
         pc' \in {"running", "managing"},
         ResultsAnswer(Append(es, e)), SettledBut(Append(es, e), e),
         Mendable(Append(mem[current].events, e)),
         SettledBut(Append(mem[current].events, e), e)
  PROVE  PairInv'
<1> DEFINE m == Append(mem[current].events, e)
           c == Append(es, e)
<1>0. /\ StoreInv /\ StoreMends /\ current \in SessionIds /\ m \in Seq(Event)
      /\ c \in Seq(Event) /\ Mendable(c) /\ c[Len(c)] = e
  <2>1. mem[current].events \in Seq(Event)
    BY CopyFacts DEF BaseInv, TurnTypeOK, StoreInv, StoreTypeOK
  <2>2. Mendable(c)
    BY DEF ResultsAnswer, Mendable
  <2>3. QED
    BY <2>1, <2>2 DEF BaseInv, TurnTypeOK, PairInv
<1>1. Writes(current, m, c)
  BY <1>0, AppendWrites
<1>2. StoreMends' /\ mem'[current].events = m
  <2> HIDE DEF m, c
  <2> QED
    BY <1>0, <1>1, WritesMend DEF m
<1>3. LastEvent' = e
  BY <1>0 DEF LastEvent
<1>4. QED
  BY <1>2, <1>3 DEF PairInv, RunMends

(* The model's own events: a call, a response to the call it just made, or *)
(* neither.                                                                *)
LEMMA MendsYielded ==
  ASSUME BaseInv, SyncInv, PairInv, pc = "running", NEW e \in Event, AgentYields(e),
         IF IsToolCall(LastEvent) THEN IsToolResult(e) /\ e.of = LastEvent.of
                                  ELSE ~IsToolResult(e)
  PROVE  PairInv'
<1> DEFINE m == mem[current].events
<1>0. /\ copy \in Seq(Event) /\ copy # << >> /\ m \in Seq(Event) /\ InMemory(current)
      /\ ResultsAnswer(copy) /\ SettledBut(copy, LastEvent) /\ SettledBut(m, LastEvent)
      /\ Mendable(m) /\ LastEvent \in Event
  BY CopyFacts, LastEventType DEF BaseInv, TurnTypeOK, RunHasEvents, StoreInv, StoreTypeOK,
     SyncInv, TurnSync, PairInv, RunMends, StoreMends
<1>1. /\ ResultsAnswer(Append(copy, e)) /\ SettledBut(Append(copy, e), e)
      /\ Mendable(Append(m, e)) /\ SettledBut(Append(m, e), e)
  <2>1. CASE IsToolCall(LastEvent)
    <3>1. PairsIntact(Append(copy, e))
      BY <1>0, <2>1, IntactAppendAnswer DEF LastEvent
    <3>2. Append(copy, e) \in Seq(Event) /\ Append(m, e) \in Seq(Event)
      BY <1>0
    <3>3. ResultsAnswer(Append(copy, e)) /\ SettledBut(Append(copy, e), e)
      BY <3>1, <3>2, IntactSaid, IntactIsMendable
    <3>4. /\ \A i \in DOMAIN Append(m, e) :
               IsToolCall(Append(m, e)[i]) => CallAnsweredAt(Append(m, e), i)
          /\ Mendable(Append(m, e))
      BY <1>0, <2>1, AnswerClosesCall
    <3>5. QED
      BY <3>3, <3>4 DEF SettledBut
  <2>2. CASE ~IsToolCall(LastEvent)
    <3>1. PairsIntact(copy)
      BY <1>0, <2>2, SettledIsIntact
    <3>2. Mendable(Append(m, e)) /\ SettledBut(Append(m, e), e)
      BY <1>0, <2>2, MendableAppend, SettledAppend
    <3>3. SettledBut(Append(copy, e), e)
      BY <1>0, <2>2, SettledAppend
    <3>4. CASE IsToolCall(e)
      BY <1>0, <3>1, <3>2, <3>4, IntactAppendCall
    <3>5. CASE ~IsToolCall(e)
      <4>1. PairsIntact(Append(copy, e)) /\ Append(copy, e) \in Seq(Event)
        BY <1>0, <2>2, <3>1, <3>5, IntactAppendPlain
      <4>2. QED
        BY <3>2, <3>3, <4>1, IntactSaid
    <3>6. QED
      BY <3>4, <3>5
  <2>3. QED
    BY <2>1, <2>2
<1>2. QED
  BY <1>0, <1>1, MendsAppended DEF AgentYields, Appended

LEMMA MendsRun ==
  ASSUME BaseInv, SyncInv, PairInv, StartRun \/ AgentCallsTool \/ ToolReturns \/ AgentReplies
  PROVE  PairInv'
<1>0. TurnTypeOK
  BY DEF BaseInv
<1>1. CASE StartRun
  <2> DEFINE m == mem[current].events
             e == UserText(turn)
  <2>1. /\ InMemory(current) /\ View(current) = mem[current] /\ m \in Seq(Event)
        /\ PairsIntact(m) /\ e \in Event
    BY <1>0, <1>1, EventTypes, CopyFacts DEF StartRun, At, SyncInv, TurnSync, View, PairInv,
       RunMends, BaseInv, StoreInv, StoreTypeOK, TurnTypeOK
  <2>2. ~IsToolCall(e) /\ ~IsToolResult(e)
    BY DEF UserText, IsToolCall, IsToolResult
  <2>3. PairsIntact(Append(m, e)) /\ Append(m, e) \in Seq(Event)
    <3> HIDE DEF m, e
    <3> QED
      BY <2>1, <2>2, IntactAppendPlain
  <2>4. ResultsAnswer(Append(m, e)) /\ SettledBut(Append(m, e), e) /\ Mendable(Append(m, e))
    <3> HIDE DEF m, e
    <3> QED
      BY <2>3, IntactSaid, IntactIsMendable
  <2>5. /\ AppendEvent(current, m, e) /\ copy' = Append(m, e) /\ current' = current
        /\ pc' \in {"running", "managing"}
    BY <1>1, <2>1 DEF StartRun
  <2>6. QED
    BY <2>1, <2>4, <2>5, MendsAppended
<1>2. CASE AgentCallsTool
  <2>1. PICK t \in Tools : AgentYields(Call(t))
    BY <1>2 DEF AgentCallsTool
  <2>2. Call(t) \in Event /\ ~IsToolResult(Call(t)) /\ ~IsToolCall(LastEvent) /\ pc = "running"
    BY <1>0, <1>2, EventTypes DEF AgentCallsTool, At, Call, IsToolResult
  <2>3. QED
    BY <2>1, <2>2, MendsYielded
<1>3. CASE ToolReturns
  <2> DEFINE e == Result(LastEvent.of)
  <2>1. LastEvent.of \in Tools /\ IsToolCall(LastEvent) /\ pc = "running" /\ AgentYields(e)
    BY <1>3, LastEventType DEF ToolReturns, At
  <2>2. e \in Event /\ IsToolResult(e) /\ e.of = LastEvent.of
    BY <1>0, <2>1, EventTypes DEF Result, IsToolResult
  <2>3. QED
    BY <2>1, <2>2, MendsYielded
<1>4. CASE AgentReplies
  <2>1. PICK e \in {AgentText(turn), Blank(turn), Contentless(turn)} : AgentYields(e)
    BY <1>4 DEF AgentReplies
  <2>2. e \in Event /\ ~IsToolResult(e) /\ ~IsToolCall(LastEvent) /\ pc = "running"
    BY <1>0, <1>4, EventTypes DEF AgentReplies, At, AgentText, Blank, Contentless, IsToolResult
  <2>3. QED
    BY <2>1, <2>2, MendsYielded
<1>5. QED
  BY <1>1, <1>2, <1>3, <1>4

LEMMA MendsManage ==
  ASSUME BaseInv, SyncInv, PairInv, ManageSession
  PROVE  PairInv'
<1> DEFINE m == mem[current].events
<1>1. /\ m \in Seq(Event) /\ View(current) = mem[current] /\ pc = "managing"
      /\ UNCHANGED <<current, copy>> /\ pc' \in {"idle", "closing", "running"}
  BY CopyFacts DEF BaseInv, TurnTypeOK, StoreInv, StoreTypeOK, ManageSession, At, SyncInv,
     TurnSync, View
<1>2. LastEvent' = LastEvent /\ ResultsAnswer(copy) /\ SettledBut(copy, LastEvent)
      /\ SettledBut(m, LastEvent) /\ StoreMends
  BY <1>1 DEF LastEvent, PairInv, RunMends
<1>3. StoreMends' /\ SettledBut(mem'[current].events, LastEvent)
  <2>1. CASE ReplaceEvents(current, Trimmed(m)) /\ ~TrimFails(m)
    <3>1. Trimmed(m) \in Seq(Event) /\ PairsIntact(Trimmed(m))
      BY <1>1, <2>1, TrimmedType, IntactOfTrimmed
    <3>2. QED
      BY <1>1, <2>1, <3>1, ReplacedMends
  <2>2. CASE UNCHANGED storeVars
    BY <1>2, <2>2, StutterMends DEF storeVars
  <2>3. QED
    BY <1>1, <2>1, <2>2 DEF ManageSession
<1>4. QED
  BY <1>1, <1>2, <1>3 DEF PairInv, RunMends

LEMMA MendsIdle ==
  ASSUME BaseInv, SyncInv, PairInv,
         FinishTurn \/ TurnFails \/ SummaryArrives \/ NoSummary \/ ResetSession
           \/ Restart \/ Crash \/ Leave
  PROVE  PairInv'
<1>0. /\ current \in SessionIds /\ copy \in Seq(Event) /\ View(current).events \in Seq(Event)
      /\ TurnTypeOK /\ StoreMends
  BY ViewType DEF BaseInv, TurnTypeOK, StoreInv, PairInv
<1>1. pc' \in {"idle", "down"}
  BY DEF FinishTurn, TurnFails, SummaryArrives, NoSummary, ResetSession, At, Restart, Crash,
         Leave
<1>2. StoreMends'
  <2>1. CASE UNCHANGED storeVars
    BY <1>0, <2>1, StutterMends
  <2>2. CASE LoseMemory
    BY <1>0, <2>2, LoseMends
  <2>3. CASE FinishTurn /\ ~UNCHANGED storeVars
    <3> DEFINE k == Squashed(View(current).events)
    <3>1. k \in Seq(Event) /\ PairsIntact(k)
      BY <1>0, SquashedType, IntactWithoutTools
    <3>2. QED
      BY <2>3, <3>1, ReplacedMends DEF FinishTurn
  <2>4. CASE SummaryArrives
    <3> DEFINE k == CompactedTo(copy, SummaryTag)
    <3>1. k \in Seq(Event) /\ PairsIntact(k)
      <4>1. k \in Seq(Event) /\ \A i \in DOMAIN k : k[i].kind \notin ToolKinds
        BY <1>0, EventTypes, CompactedType
      <4> HIDE DEF k
      <4>2. QED
        BY <4>1, IntactWithoutTools
    <3>2. QED
      BY <2>4, <3>1, ReplacedMends DEF SummaryArrives
  <2>5. QED
    BY <2>1, <2>2, <2>3, <2>4 DEF TurnFails, NoSummary, ResetSession, Restart, Crash, Leave
<1>3. QED
  BY <1>1, <1>2 DEF PairInv, RunMends

LEMMA MendsWorld ==
  ASSUME BaseInv, PairInv, Tick \/ FileWritten \/ ListSessions \/ UNCHANGED vars
  PROVE  PairInv'
<1>1. UNCHANGED <<mem, pc, current, copy>> /\ StoreMends'
  <2>1. CASE FileWritten
    BY <2>1, FinishMends DEF FileWritten, FinishWrite, turnVars, BaseInv, PairInv
  <2>2. CASE Tick \/ ListSessions \/ UNCHANGED vars
    BY <2>2, StutterMends DEF Tick, ListSessions, vars, storeVars, turnVars, PairInv
  <2>3. QED
    BY <2>1, <2>2
<1>2. QED
  BY <1>1 DEF PairInv, RunMends, LastEvent

LEMMA PairInvariant == Spec => []PairInv
<1>1. Init => PairInv
  BY NothingMends DEF Init, StoreInit, PairInv, StoreMends, RunMends, Absent
<1>2. BaseInv /\ SyncInv /\ PairInv /\ [Next]_vars => PairInv'
  <2> SUFFICES ASSUME BaseInv, SyncInv, PairInv, [Next]_vars PROVE PairInv'
    OBVIOUS
  <2>1. CASE OpenSession \/ NewSession \/ OpenFails \/ StartCompact
    BY <2>1, MendsOpening
  <2>2. CASE ValidateSession
    BY <2>2, MendsValidate
  <2>3. CASE StartRun \/ AgentCallsTool \/ ToolReturns \/ AgentReplies
    BY <2>3, MendsRun
  <2>4. CASE ManageSession
    BY <2>4, MendsManage
  <2>5. CASE \/ FinishTurn \/ TurnFails \/ SummaryArrives \/ NoSummary \/ ResetSession
             \/ Restart \/ Crash \/ Leave
    BY <2>5, MendsIdle
  <2>6. CASE Tick \/ FileWritten \/ ListSessions \/ UNCHANGED vars
    BY <2>6, MendsWorld
  <2>7. QED
    BY <2>1, <2>2, <2>3, <2>4, <2>5, <2>6 DEF Next
<1>3. QED
  BY <1>1, <1>2, BaseInvariant, SyncInvariant, PTL DEF Spec

(* The history a run shows to the model has every response behind its call *)
(* and no open call but the last event, whatever crashes and failed turns  *)
(* left behind: what validation has to mend it can, and nothing after it   *)
(* breaks a pair.                                                          *)
THEOREM ModelSeesPairs == Spec => []ModelSeesIntactPairs
<1>1. BaseInv /\ PairInv => ModelSeesIntactPairs
  <2> SUFFICES ASSUME BaseInv, PairInv, pc = "running"
               PROVE  PairsIntact(IF IsToolCall(LastEvent)
                                    THEN SubSeq(copy, 1, Len(copy) - 1) ELSE copy)
    BY DEF ModelSeesIntactPairs
  <2>1. /\ copy \in Seq(Event) /\ copy # << >> /\ ResultsAnswer(copy)
        /\ SettledBut(copy, LastEvent) /\ LastEvent \in Event
    BY LastEventType DEF BaseInv, TurnTypeOK, RunHasEvents, PairInv, RunMends
  <2> DEFINE f == SubSeq(copy, 1, Len(copy) - 1)
  <2>2. f \in Seq(Event) /\ copy = Append(f, LastEvent)
    BY <2>1 DEF LastEvent
  <2>3. CASE IsToolCall(LastEvent)
    <3>1. PairsIntact(f)
      <4> HIDE DEF f
      <4> QED
        BY <2>1, <2>2, <2>3, IntactBeforeCall
    <3>2. QED
      BY <2>3, <3>1
  <2>4. CASE ~IsToolCall(LastEvent)
    BY <2>1, <2>4, SettledIsIntact
  <2>5. QED
    BY <2>3, <2>4
<1>2. QED
  BY <1>1, BaseInvariant, PairInvariant, PTL
=============================================================================
