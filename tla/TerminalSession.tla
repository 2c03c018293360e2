--------------------------- MODULE TerminalSession ---------------------------
(***************************************************************************)
(* TerminalSession: shell commands in a pseudo-terminal, one at a time.    *)
(* The main thread carries bytes between the user and the command and      *)
(* keeps a journal of them; every 20 seconds a timer thread takes a        *)
(* snapshot of the journal and arms the next timer; another thread may     *)
(* send input of its own; signals interrupt the main thread.               *)
(*                                                                         *)
(* A step is what a thread does between two places where another one can   *)
(* see it: a section under the lock, or an assignment outside of it. Text  *)
(* comes in pieces, numbered in their order, of which some end a line; no  *)
(* piece is blank. What ends a line is the two characters \ and n, for so  *)
(* the source has it: an end of line as terminals have it ends none.       *)
(***************************************************************************)
EXTENDS Naturals, Sequences, SequencesExt

CONSTANTS
  MaxCommands,  \* bound: commands
  MaxPieces,    \* bound: pieces that a command prints, and that its user types
  MaxSends,     \* bound: calls of send_input
  MaxTimers,    \* bound: timers at a time
  MaxFaults    \* bound: errors of the operating system, and signals that stop the session

ASSUME TerminalSessionAssumption ==
  /\ MaxCommands \in Nat /\ MaxPieces \in Nat /\ MaxSends \in Nat /\ MaxFaults \in Nat
  /\ MaxTimers \in Nat \ {0}

VARIABLES
  started,    \* between start and stop
  isRunning,  \* is_running
  pc,         \* where the main thread is
  command,    \* current_command: the number of the command, 0 for None
  begun,      \* commands so far
  outcome,    \* how the last command ended
  fd,         \* _master_fd, _process: the command they belong to, 0 for None
  mode,       \* of the user's terminal: "cooked" or "raw"
  oldMode,    \* old_settings: a mode, or "none"
  stuck,      \* a finally block was not run to its end
  process,    \* of the command: "none", "running" or "exited"
  journal,    \* session_data
  buffer,     \* _command_output_buffer
  typed,      \* user_input_buffer
  current,    \* snapshot_timer, 0 for None
  timers,     \* what every timer is doing
  printed,    \* the pieces of the command: whether each ends a line
  keys,       \* the number of pieces the user typed
  read,       \* the number of pieces read from the command
  shown,      \* those of them that reached the user's screen
  passed,     \* the pieces typed that reached the command
  lost,       \* something that was read did not reach the screen
  delivered,  \* what send_input wrote to the terminal of the command
  sender,     \* where the thread that sends input is
  sends,
  faults       \* errors and signals so far

clientVars == <<started, begun, outcome>>
termVars == <<fd, mode, oldMode, stuck>>
textVars == <<journal, buffer, typed>>
seenVars == <<shown, passed, lost>>
workVars == <<printed, keys, read, seenVars>>
timerVars == <<current, timers>>
sendVars == <<delivered, sender, sends>>
mainVars == <<pc, command, typed, clientVars, termVars, workVars>>
vars == <<mainVars, isRunning, process, journal, buffer, timerVars, sendVars, faults>>

Entry(source, text) == [source |-> source, text |-> text]

Timers == 1..MaxTimers

Init ==
  /\ started = FALSE /\ isRunning = FALSE /\ pc = "idle"
  /\ command = 0 /\ begun = 0 /\ outcome = "none"
  /\ fd = 0 /\ mode = "cooked" /\ oldMode = "none" /\ stuck = FALSE
  /\ process = "none"
  /\ journal = << >> /\ buffer = << >> /\ typed = << >>
  /\ current = 0 /\ timers = [t \in Timers |-> "free"]
  /\ printed = << >> /\ keys = 0 /\ read = 0 /\ delivered = << >>
  /\ shown = << >> /\ passed = << >> /\ lost = FALSE
  /\ sender = "idle" /\ sends = 0 /\ faults = 0

Goes(from, to) == pc = from /\ pc' = to

Fault == faults < MaxFaults /\ faults' = faults + 1

-----------------------------------------------------------------------------
(* Timers. A timer that fired cannot be cancelled any more.                *)

(* A snapshot_timer that is over may as well be None: cancelling it does   *)
(* nothing.                                                                *)
Cancels ==
  IF current # 0 /\ timers[current] = "armed"
    THEN timers' = [timers EXCEPT ![current] = "free"] /\ current' = 0
    ELSE UNCHANGED timerVars

Arms(others) ==
  \E t \in Timers :
    /\ others[t] = "free" /\ \A u \in 1..(t - 1) : others[u] # "free"
    /\ current' = t
    /\ timers' = [others EXCEPT ![t] = "armed"]

-----------------------------------------------------------------------------
(* What the sections under the lock do to the journal and the buffer.      *)

Journals(source, text) ==
  journal' = IF text = << >> THEN journal ELSE Append(journal, Entry(source, text))

(* MUTANT: the buffer is not emptied.                                      *)
FlushBuffer_Keeps == Journals("command", buffer) /\ UNCHANGED buffer

(* _flush_command_output_buffer.                                           *)
FlushBuffer == Journals("command", buffer) /\ buffer' = << >>

-----------------------------------------------------------------------------
(* execute_command, in the main thread.                                    *)

Execute ==
  /\ Goes("idle", "clearing")
  /\ started /\ begun < MaxCommands
  /\ command' = begun + 1 /\ begun' = begun + 1
  /\ UNCHANGED <<started, isRunning, outcome, process, faults, termVars, textVars,
                 workVars, timerVars, sendVars>>

ClearJournal ==
  /\ Goes("clearing", "adding")
  /\ journal' = << >>
  /\ printed' = << >> /\ read' = 0 /\ keys' = 0 /\ delivered' = << >> /\ outcome' = "none"
  /\ shown' = << >> /\ passed' = << >> /\ lost' = FALSE
  /\ UNCHANGED <<started, begun, isRunning, command, process, buffer, typed, sender,
                 sends, faults, termVars, timerVars>>

(* The timer of an earlier command may still be there: it is forgotten.    *)
AddCommand ==
  /\ Goes("adding", "spawning")
  /\ Journals("user", <<0>>)
  /\ Arms(timers)
  /\ UNCHANGED <<isRunning, command, process, buffer, typed, faults,
                 clientVars, termVars, workVars, sendVars>>

(* _execute_command_with_pty.                                              *)
Spawn ==
  /\ Goes("spawning", "preparing")
  /\ process' = "running" /\ fd' = command
  /\ UNCHANGED <<isRunning, command, mode, oldMode, stuck, faults, clientVars, textVars,
                 workVars, timerVars, sendVars>>

(* OSError: there is no such directory, no process can be made, the        *)
(* standard input has no descriptor, select fails.                         *)
ErrorHandled ==
  /\ pc \in {"spawning", "preparing", "loop"} /\ pc' = "restoring"
  /\ outcome' = "error"
  /\ Fault
  /\ UNCHANGED <<started, isRunning, command, begun, process,
                 termVars, textVars, workVars, timerVars, sendVars>>

MakeRaw ==
  /\ Goes("preparing", "loop")
  /\ mode' = "raw" /\ oldMode' = mode
  /\ typed' = << >> /\ buffer' = << >>
  /\ UNCHANGED <<isRunning, command, fd, stuck, process, journal, faults,
                 clientVars, workVars, timerVars, sendVars>>

(* The standard input is no terminal: termios.error is no OSError.         *)
NoTerminal ==
  /\ Goes("preparing", "restoring")
  /\ outcome' = "raised"
  /\ Fault
  /\ UNCHANGED <<started, isRunning, command, begun, process,
                 termVars, textVars, workVars, timerVars, sendVars>>

Unread == read < Len(printed)

(* _handle_master_fd: whole lines go to the journal.                       *)
ReadOutput ==
  /\ pc = "loop" /\ Unread
  /\ read' = read + 1
  /\ shown' = Append(shown, read + 1)
  /\ IF printed[read + 1]
       THEN Journals("command", Append(buffer, read + 1)) /\ buffer' = << >>
       ELSE buffer' = Append(buffer, read + 1) /\ UNCHANGED journal
  /\ UNCHANGED <<isRunning, pc, command, process, typed, printed, keys, passed, lost,
                 faults, clientVars, termVars, timerVars, sendVars>>

(* OSError of the write to the standard output: what was read is dropped.  *)
ShowFails ==
  /\ pc = "loop" /\ Unread
  /\ read' = read + 1
  /\ lost' = TRUE
  /\ Fault
  /\ UNCHANGED <<isRunning, pc, command, process, typed, journal, buffer, printed, keys,
                 shown, passed, clientVars, termVars, timerVars, sendVars>>

(* _handle_stdin: the command gets every key, the journal whole lines.     *)
ReadKeys ==
  /\ pc = "loop" /\ keys < MaxPieces
  /\ keys' = keys + 1
  /\ passed' = Append(passed, keys + 1)
  /\ \/ typed' = Append(typed, keys + 1) /\ UNCHANGED journal
     \/ typed' = << >> /\ Journals("user", Append(typed, keys + 1))
  /\ UNCHANGED <<isRunning, pc, command, process, buffer, printed, read, shown, lost,
                 faults, clientVars, termVars, timerVars, sendVars>>

(* OSError of the write to the command: the keys are dropped.              *)
PassFails ==
  /\ pc = "loop" /\ keys < MaxPieces
  /\ keys' = keys + 1
  /\ Fault
  /\ UNCHANGED <<isRunning, pc, command, process, textVars, printed, read, seenVars,
                 clientVars, termVars, timerVars, sendVars>>

SeeExit ==
  /\ Goes("loop", "logging") /\ process = "exited"
  /\ UNCHANGED <<isRunning, command, process, faults, clientVars, termVars,
                 textVars, workVars, timerVars, sendVars>>

LogKeys ==
  /\ Goes("logging", "flushing")
  /\ Journals("user", typed)
  /\ typed' = << >>
  /\ UNCHANGED <<isRunning, command, process, buffer, faults, clientVars,
                 termVars, workVars, timerVars, sendVars>>

FlushOutput ==
  /\ Goes("flushing", "draining")
  /\ FlushBuffer
  /\ UNCHANGED <<isRunning, command, process, typed, faults, clientVars,
                 termVars, workVars, timerVars, sendVars>>

(* _read_remaining_output.                                                 *)
DrainOutput ==
  /\ pc = "draining" /\ Unread
  /\ read' = read + 1
  /\ shown' = Append(shown, read + 1)
  /\ Journals("command", <<read + 1>>)
  /\ UNCHANGED <<isRunning, pc, command, process, buffer, typed, printed,
                 keys, passed, lost, faults, clientVars, termVars, timerVars,
                 sendVars>>

(* OSError: the rest is left where it is.                                  *)
DrainFails ==
  /\ Goes("draining", "restoring") /\ Unread
  /\ lost' = TRUE
  /\ outcome' \in {"completed", "failed"}
  /\ Fault
  /\ UNCHANGED <<started, isRunning, command, begun, process, termVars,
                 textVars, printed, keys, read, shown, passed, timerVars, sendVars>>

DrainEnds ==
  /\ Goes("draining", "restoring") /\ ~Unread
  /\ outcome' \in {"completed", "failed"}
  /\ UNCHANGED <<started, isRunning, command, begun, process, faults,
                 termVars, textVars, workVars, timerVars, sendVars>>

(* MUTANT: the terminal is put back where the return code is known.        *)
RestoredMode_OnReturn ==
  IF outcome \in {"completed", "failed"} /\ oldMode # "none" THEN oldMode ELSE mode

RestoredMode == IF oldMode = "none" THEN mode ELSE oldMode

(* finally: the terminal, then the references, then under the lock the     *)
(* buffer, then the descriptor. Only a process that exited was waited for. *)
Restore ==
  /\ Goes("restoring", "releasing")
  /\ mode' = RestoredMode /\ oldMode' = "none" /\ fd' = 0
  /\ process' = IF process = "exited" THEN "none" ELSE process
  /\ UNCHANGED <<isRunning, command, stuck, faults, clientVars, textVars,
                 workVars, timerVars, sendVars>>

(* termios.error, or one more signal: the rest of the finally block is left *)
(* out. Raw mode is then what later commands find, and put back.           *)
RestoreFails ==
  /\ pc \in {"restoring", "releasing"} /\ pc' = "cancelling"
  /\ (pc = "restoring" /\ oldMode # "none") \/ ~isRunning
  /\ oldMode' = "none" /\ stuck' = TRUE
  /\ outcome' = "raised"
  /\ Fault
  /\ UNCHANGED <<started, isRunning, command, begun, process, fd, mode,
                 textVars, workVars, timerVars, sendVars>>

Release ==
  /\ Goes("releasing", IF outcome = "raised" THEN "cancelling" ELSE "finishing")
  /\ buffer' = << >> /\ typed' = << >>
  /\ UNCHANGED <<isRunning, command, process, journal, faults,
                 clientVars, termVars, workVars, timerVars, sendVars>>

(* Then on_session_complete gets a copy of the journal.                    *)
Finish ==
  /\ Goes("finishing", "cancelling")
  /\ FlushBuffer
  /\ UNCHANGED <<isRunning, command, process, typed, faults, clientVars,
                 termVars, workVars, timerVars, sendVars>>

(* The callback raises OSError: it is called again, with an error.         *)
CallbackFails ==
  /\ Goes("finishing", "cancelling")
  /\ FlushBuffer
  /\ outcome' = IF outcome = "error" THEN "error" ELSE "unheard"
  /\ Fault
  /\ UNCHANGED <<started, begun, isRunning, command, process, typed,
                 termVars, workVars, timerVars, sendVars>>

CancelTimer ==
  /\ Goes("cancelling", "forgetting")
  /\ Cancels
  /\ UNCHANGED <<isRunning, command, process, faults, clientVars,
                 termVars, textVars, workVars, sendVars>>

Forget ==
  /\ Goes("forgetting", "idle")
  /\ command' = 0
  /\ UNCHANGED <<isRunning, process, faults, clientVars, termVars,
                 textVars, workVars, timerVars, sendVars>>

Main ==
  \/ ClearJournal \/ AddCommand \/ Spawn \/ ErrorHandled \/ MakeRaw \/ NoTerminal
  \/ ReadOutput \/ ShowFails \/ ReadKeys \/ PassFails \/ SeeExit
  \/ LogKeys \/ FlushOutput \/ DrainOutput \/ DrainFails \/ DrainEnds
  \/ Restore \/ RestoreFails \/ Release \/ Finish \/ CallbackFails \/ CancelTimer \/ Forget

-----------------------------------------------------------------------------
Start ==
  /\ pc = "idle" /\ ~started /\ begun < MaxCommands
  /\ started' = TRUE /\ isRunning' = TRUE
  /\ UNCHANGED <<pc, command, begun, outcome, process, faults, termVars,
                 textVars, workVars, timerVars, sendVars>>

Stop ==
  /\ pc = "idle" /\ started
  /\ started' = FALSE /\ isRunning' = FALSE
  /\ Cancels
  /\ UNCHANGED <<pc, command, begun, outcome, process, faults,
                 termVars, textVars, workVars, sendVars>>

(* _signal_handler during a command: it goes on, without snapshots.        *)
Signal ==
  /\ command # 0 /\ isRunning
  /\ Fault
  /\ isRunning' = FALSE
  /\ Cancels
  /\ UNCHANGED <<mainVars, process, journal, buffer, sendVars>>

(* The next signal goes to the original handler. That of SIGINT raises     *)
(* KeyboardInterrupt where the main thread is.                             *)
Interrupt ==
  /\ pc \in {"spawning", "preparing", "loop", "logging", "flushing", "draining"}
  /\ pc' = "restoring"
  /\ ~isRunning
  /\ outcome' = "raised"
  /\ UNCHANGED <<started, isRunning, command, begun, process, faults, termVars,
                 textVars, workVars, timerVars, sendVars>>

(* That of SIGTERM is the default as a rule, which ends the whole program  *)
(* there and then: no finally block is reached. What the user's terminal   *)
(* was set to stays, and the command goes on without it.                   *)
Killed ==
  /\ pc # "dead" /\ started /\ ~(command # 0 /\ isRunning)
  /\ pc' = "dead"
  /\ isRunning' = FALSE /\ started' = FALSE /\ command' = 0 /\ outcome' = "none"
  /\ fd' = 0 /\ oldMode' = "none" /\ stuck' = FALSE
  /\ journal' = << >> /\ buffer' = << >> /\ typed' = << >>
  /\ printed' = << >> /\ keys' = 0 /\ read' = 0
  /\ shown' = << >> /\ passed' = << >> /\ lost' = FALSE
  /\ current' = 0 /\ timers' = [t \in Timers |-> "free"]
  /\ delivered' = << >> /\ sender' = "idle"
  /\ UNCHANGED <<begun, mode, process, sends, faults>>

(* The command itself.                                                     *)
Prints ==
  /\ process = "running" /\ fd # 0 /\ fd = command /\ Len(printed) < MaxPieces
  /\ \E ends \in BOOLEAN : printed' = Append(printed, ends)
  /\ UNCHANGED <<isRunning, pc, command, process, keys, read, seenVars, faults,
                 clientVars, termVars, textVars, timerVars, sendVars>>

Exit ==
  /\ process = "running" /\ fd # 0
  /\ process' = "exited"
  /\ UNCHANGED <<mainVars, isRunning, journal, buffer, faults, timerVars,
                 sendVars>>

-----------------------------------------------------------------------------
(* _take_snapshot, in the thread of a timer.                               *)

Fire(t) ==
  /\ timers[t] = "armed"
  /\ timers' = [timers EXCEPT ![t] = "fired"]
  /\ UNCHANGED <<mainVars, isRunning, process, journal, buffer, current,
                 faults, sendVars>>

FlushForSnapshot(t) ==
  /\ timers[t] = "fired"
  /\ timers' = [timers EXCEPT ![t] = "flushed"]
  /\ FlushBuffer
  /\ UNCHANGED <<mainVars, isRunning, process, current, faults, sendVars>>

(* MUTANT: whether the session was stopped is not asked.                   *)
GoesOn_WhileCommand == command # 0

GoesOn == isRunning /\ command # 0

(* on_session_update gets a copy of the journal, and may take its time.    *)
DecideNext(t) ==
  /\ timers[t] = "flushed"
  /\ timers' = [timers EXCEPT ![t] = IF GoesOn THEN "arming" ELSE "free"]
  /\ current' = IF ~GoesOn /\ current = t THEN 0 ELSE current
  /\ UNCHANGED <<mainVars, isRunning, process, journal, buffer,
                 faults, sendVars>>

ArmNext(t) ==
  /\ timers[t] = "arming"
  /\ Arms([timers EXCEPT ![t] = "free"])
  /\ UNCHANGED <<mainVars, isRunning, process, journal, buffer, faults,
                 sendVars>>

TimerSteps(t) ==
  Fire(t) \/ FlushForSnapshot(t) \/ DecideNext(t) \/ ArmNext(t)

-----------------------------------------------------------------------------
(* send_input, in another thread or in the callback of a snapshot. The     *)
(* references are read again at every step.                                *)

Sends(from, to) == sender = from /\ sender' = to

SendChecks ==
  /\ pc # "dead" /\ sender \in {"idle", "raised"} /\ sends < MaxSends
  /\ sends' = sends + 1
  /\ sender' = IF isRunning /\ fd # 0 THEN "checked" ELSE "idle"
  /\ UNCHANGED <<mainVars, isRunning, process, journal, buffer, delivered,
                 faults, timerVars>>

(* None has no method poll.                                                *)
SendPolls ==
  /\ Sends("checked", IF fd = 0 THEN "raised" ELSE IF process = "running" THEN "polled" ELSE "idle")
  /\ UNCHANGED <<mainVars, isRunning, process, journal, buffer, delivered,
                 sends, faults, timerVars>>

(* MUTANT: the reference that was there at the check.                      *)
Reaches_AsChecked == TRUE

Reaches == fd # 0

(* Under the lock, which the main thread takes between the references and  *)
(* the descriptor: whoever finds the reference finds the terminal open.    *)
SendWrites ==
  /\ Sends("polled", IF Reaches THEN "idle" ELSE "raised")
  /\ IF Reaches THEN Journals("automated", <<sends>>) ELSE UNCHANGED journal
  /\ delivered' = IF fd # 0 THEN Append(delivered, sends) ELSE delivered
  /\ UNCHANGED <<mainVars, isRunning, process, buffer, sends, faults,
                 timerVars>>

(* OSError: nobody has the terminal open any more.                         *)
SendFails ==
  /\ Sends("polled", "idle") /\ fd # 0 /\ process # "running"
  /\ UNCHANGED <<mainVars, isRunning, process, journal, buffer, delivered,
                 sends, faults, timerVars>>

Sender == SendPolls \/ SendWrites \/ SendFails

-----------------------------------------------------------------------------
Next ==
  \/ Main \/ Execute \/ Start \/ Stop \/ Signal \/ Interrupt \/ Killed \/ Prints \/ Exit
  \/ \E t \in Timers : TimerSteps(t)
  \/ SendChecks \/ Sender

(* Threads go on and timers fire; commands need not end, users need not    *)
(* type and clients need not stop.                                         *)
Spec ==
  /\ Init /\ [][Next]_vars
  /\ WF_vars(Main)
  /\ \A t \in Timers : WF_vars(TimerSteps(t))
  /\ WF_vars(Sender)

-----------------------------------------------------------------------------
(* Properties.                                                             *)

Logged(source) ==
  FlattenSeq([i \in DOMAIN journal |-> IF journal[i].source = source THEN journal[i].text ELSE << >>])

(* What reached the user's screen, or the command from its user, is in the *)
(* journal or in a buffer, once and in its order, although two threads     *)
(* flush; an error or an exception may cost its end, which the buffers     *)
(* held. What on_session_complete gets has all of it, and all the command  *)
(* printed if the screen took it. (A terminal that could not be put back   *)
(* leaves the buffers to the next command.)                                *)
NothingIsLost ==
  ~stuck =>
    /\ IsPrefix(Logged("command") \o buffer, shown)
    /\ keys > 0 => IsPrefix(Logged("user") \o typed, <<0>> \o passed)
    /\ outcome \notin {"error", "raised"} =>
         /\ Logged("command") \o buffer = shown
         /\ keys > 0 => Logged("user") \o typed = <<0>> \o passed
         /\ pc = "cancelling" =>
              /\ buffer = << >> /\ typed = << >>
              /\ ~lost => Len(shown) = Len(printed)

(* The journal shows exactly the automated input that reached the terminal *)
(* of its command, whenever the command ends meanwhile.                    *)
SentInputIsJournaled == Logged("automated") = delivered

(* However a command ends, its user gets the terminal back, unless the     *)
(* terminal refuses, and only an exception or an error leaves a process    *)
(* behind. A second signal with the default handler ends the program in    *)
(* raw mode: what it leaves is none of these places.                       *)
TerminalIsRestored ==
  pc \in {"idle", "clearing", "adding", "spawning"} =>
    /\ ~stuck => mode = "cooked" /\ fd = 0
    /\ outcome \in {"completed", "failed", "unheard"} => process = "none"

(* Snapshots end after the session was stopped or interrupted.             *)
SnapshotsEnd == ~isRunning ~> (isRunning \/ \A t \in Timers : timers[t] = "free")

=============================================================================
