---------------------------- MODULE SessionStore ----------------------------
(***************************************************************************)
(* JSONSessionService and JSONSessionSerializer: every session lives twice,*)
(* in the memory of the process and in a JSON file, and the service keeps  *)
(* the two together by writing the file after every change.                *)
(*                                                                         *)
(* The file is written in place (Path.write_text): it is truncated first   *)
(* and filled afterwards, so that a process that dies in between leaves a  *)
(* torn file. Nothing else of the process runs meanwhile: every operation  *)
(* of the service needs writing = {}.                                      *)
(*                                                                         *)
(* A read of the file gives the session; nothing, when there is no file,   *)
(* the file cannot be read or is not text (OSError, UnicodeDecodeError); or*)
(* an error, when its text is not that of a session.                       *)
(***************************************************************************)
EXTENDS SessionEvents

CONSTANT SessionIds

VARIABLES
  mem,      \* InMemorySessionService.sessions: id -> copy in this process
  disk,     \* id -> the JSON file
  writing,  \* the session whose file is being written, if any
  buffer    \* what is being written to it

storeVars == <<mem, disk, writing, buffer>>

Absent     == [status |-> "absent", events |-> << >>]
Torn       == [status |-> "torn",   events |-> << >>]
Stored(es) == [status |-> "whole",  events |-> es]

Copies == {Absent} \cup [status : {"whole"}, events : Seq(Event)]

StoreTypeOK ==
  /\ mem  \in [SessionIds -> Copies]
  /\ disk \in [SessionIds -> Copies \cup {Torn}]
  /\ writing \in SUBSET SessionIds
  /\ buffer \in Seq(Event)

StoreInit ==
  /\ mem  = [s \in SessionIds |-> Absent]
  /\ disk = [s \in SessionIds |-> Absent]
  /\ writing = {}
  /\ buffer = << >>

InMemory(s)   == mem[s].status = "whole"
OnDisk(s)     == disk[s].status = "whole"
Exists(s)     == InMemory(s) \/ OnDisk(s)

(* What a read of s can come to, besides the session. A torn file can end  *)
(* in the middle of a character and not be text.                           *)
ReadsNothing(s) == ~InMemory(s)
ReadRaises(s)   == ~InMemory(s) /\ disk[s].status = "torn"

(* What get_session returns for s: the memory, else the file. *)
View(s) == IF InMemory(s) THEN mem[s] ELSE disk[s]

(* serializer.write: the file is truncated now and complete only after     *)
(* FinishWrite.                                                            *)
StartWrite(s, es) ==
  /\ writing = {}
  /\ writing' = {s}
  /\ buffer'  = es
  /\ disk'    = [disk EXCEPT ![s] = Torn]

FinishWrite ==
  /\ \E s \in writing : disk' = [disk EXCEPT ![s] = Stored(buffer)]
  /\ writing' = {}
  /\ buffer'  = << >>
  /\ UNCHANGED mem

(* get_session that returns a session: one found only on disk is loaded    *)
(* into memory.                                                            *)
GetSession(s) ==
  /\ writing = {}
  /\ Exists(s)
  /\ mem' = [mem EXCEPT ![s] = View(s)]
  /\ UNCHANGED <<disk, writing, buffer>>

(* create_session writes over the file, whatever it holds. *)
CreateSession(s) ==
  /\ mem' = [mem EXCEPT ![s] = Stored(<< >>)]
  /\ StartWrite(s, << >>)

(* append_event: the event goes to the copy the caller holds and to the    *)
(* session in memory; the file gets the caller's copy, whatever the memory *)
(* holds by now.                                                           *)
(* MUTANT: the file is written without the new event. *)
AppendEvent_WritesOldCopy(s, copy, e) ==
  /\ mem' = [mem EXCEPT ![s] =
               IF InMemory(s) THEN Stored(Append(mem[s].events, e)) ELSE @]
  /\ StartWrite(s, copy)

AppendEvent(s, copy, e) ==
  /\ mem' = [mem EXCEPT ![s] =
               IF InMemory(s) THEN Stored(Append(mem[s].events, e)) ELSE @]
  /\ StartWrite(s, Append(copy, e))

(* replace_events: deletes the session from memory, creates it again,      *)
(* appends the new events one by one and writes the file once.             *)
(* MUTANT: the file is not written. *)
ReplaceEvents_MemoryOnly(s, es) ==
  /\ writing = {}
  /\ mem' = [mem EXCEPT ![s] = Stored(es)]
  /\ UNCHANGED <<disk, writing, buffer>>

ReplaceEvents(s, es) ==
  /\ mem' = [mem EXCEPT ![s] = Stored(es)]
  /\ StartWrite(s, es)

(* The process ends: the memory is gone, a file being written stays torn.  *)
LoseMemory ==
  /\ mem' = [s \in SessionIds |-> Absent]
  /\ writing' = {}
  /\ buffer'  = << >>
  /\ UNCHANGED disk

(* list_saved: parses every file. OSError and UnicodeDecodeError skip a    *)
(* file; the validation error of a torn one ends the listing.              *)
ListMayFail == \E s \in SessionIds : disk[s].status = "torn"

============================================================================
