------------------------ MODULE TerminalSession_proofs ------------------------
(***************************************************************************)
(* Proofs that a command, however it ends, gives the terminal back, and    *)
(* that the journal has what passed through the terminal, whoever flushes. *)
(* The promises are about a few places of execute_command, and what makes  *)
(* them true happens at those before: the invariants say what holds there. *)
(***************************************************************************)
EXTENDS TerminalSession, NaturalFacts, SequenceTheorems

WithProcess == {"logging", "flushing", "draining"}
WithTerminal == {"loop", "restoring"} \cup WithProcess
WithReference == {"preparing"} \cup WithTerminal
Undecided == {"adding", "spawning", "preparing", "loop"} \cup WithProcess

Ended == outcome \in {"completed", "failed", "unheard"}

(* Raw mode and the references are gone after a finally block that was run *)
(* to its end, and what it puts back is what the user had.                 *)
NothingIsHeld ==
  ~stuck =>
    /\ oldMode \in {"none", "cooked"}
    /\ mode # "cooked" /\ pc # "dead" => pc \in WithTerminal /\ oldMode = "cooked"
    /\ fd # 0 => pc \in WithReference

(* A command has an outcome when its output is drained, and its output is  *)
(* drained when it has exited.                                             *)
OutcomeTellsProcess ==
  /\ pc \in Undecided => outcome = "none"
  /\ pc \in WithProcess => process = "exited"
  /\ Ended /\ pc = "restoring" => process = "exited"
  /\ Ended /\ pc # "restoring" => process = "none"
  /\ pc \in {"restoring", "releasing"} => outcome \in {"completed", "failed", "error", "raised"}
  /\ pc = "finishing" => outcome \in {"completed", "failed", "error"}

RInv == NothingIsHeld /\ OutcomeTellsProcess

(* What the session holds at every place of execute_command: the terminal  *)
(* and the references only up to the finally block, and a process that was *)
(* waited for when there is a return code.                                 *)
THEOREM RestoredInvariant == Spec => []RInv
<1> USE DEF RInv, NothingIsHeld, OutcomeTellsProcess, Ended, Undecided, WithReference,
            WithTerminal, WithProcess
<1>1. Init => RInv
  BY DEF Init
<1>2. RInv /\ [Next]_vars => RInv'
  <2> SUFFICES ASSUME RInv, [Next]_vars PROVE RInv'
    OBVIOUS
  <2> USE DEF Goes, clientVars, termVars, textVars, seenVars, workVars, mainVars
  <2>1. CASE Main
    <3>1. CASE ClearJournal \/ AddCommand \/ Spawn \/ ErrorHandled
      BY <3>1 DEF ClearJournal, AddCommand, Spawn, ErrorHandled
    <3>2. CASE MakeRaw \/ NoTerminal
      BY <3>2 DEF MakeRaw, NoTerminal
    <3>3. CASE ReadOutput \/ ShowFails \/ ReadKeys \/ PassFails \/ SeeExit
      BY <3>3 DEF ReadOutput, ShowFails, ReadKeys, PassFails, SeeExit
    <3>4. CASE LogKeys \/ FlushOutput \/ DrainOutput
      BY <3>4 DEF LogKeys, FlushOutput, DrainOutput
    <3>5. CASE DrainFails \/ DrainEnds
      BY <3>5 DEF DrainFails, DrainEnds
    <3>6. CASE Restore \/ RestoreFails
      BY <3>6 DEF Restore, RestoreFails, RestoredMode
    <3>7. CASE Release
      BY <3>7 DEF Release
    <3>8. CASE Finish \/ CallbackFails
      BY <3>8 DEF Finish, CallbackFails
    <3>9. CASE CancelTimer \/ Forget
      BY <3>9 DEF CancelTimer, Forget
    <3> QED BY <2>1, <3>1, <3>2, <3>3, <3>4, <3>5, <3>6, <3>7, <3>8, <3>9 DEF Main
  <2>2. CASE Execute \/ Start \/ Stop
    BY <2>2 DEF Execute, Start, Stop
  <2>3. CASE Signal \/ Interrupt \/ Killed
    BY <2>3 DEF Signal, Interrupt, Killed
  <2>4. CASE Prints \/ Exit
    BY <2>4 DEF Prints, Exit
  <2>5. CASE \E t \in Timers : TimerSteps(t)
    BY <2>5 DEF TimerSteps, Fire, FlushForSnapshot, DecideNext, ArmNext
  <2>6. CASE SendChecks \/ Sender
    BY <2>6 DEF SendChecks, Sender, SendPolls, SendWrites, SendFails
  <2>7. CASE UNCHANGED vars
    BY <2>7 DEF vars
  <2> QED BY <2>1, <2>2, <2>3, <2>4, <2>5, <2>6, <2>7 DEF Next
<1> QED BY <1>1, <1>2, PTL DEF Spec

(* Between two commands the user's terminal is the user's again, nothing   *)
(* refers to the last command, and a command with a return code has been   *)
(* waited for (the finally block of _execute_command_with_pty), whatever   *)
(* errors, interrupts and signals came, as long as no finally block was    *)
(* cut short itself and the program was not ended by a second signal.      *)
THEOREM TerminalIsRestoredTheorem == Spec => []TerminalIsRestored
<1>1. RInv => TerminalIsRestored
  BY DEF RInv, NothingIsHeld, OutcomeTellsProcess, Ended, Undecided, WithReference,
         WithTerminal, WithProcess, TerminalIsRestored
<1> QED BY <1>1, RestoredInvariant, PTL

-----------------------------------------------------------------------------
(* What the journal has of one source, as pieces are added to it.          *)

Sources == {"user", "command", "automated"}
Entries == [source : Sources, text : Seq(Nat)]

(* The pieces of one source, in a journal. *)
TextsIn(j, source) == [i \in DOMAIN j |-> IF j[i].source = source THEN j[i].text ELSE << >>]
LoggedIn(j, source) == FlattenSeq(TextsIn(j, source))

(* Logged is about the journal as it is.                                   *)
LEMMA LoggedIsLoggedIn == \A source : Logged(source) = LoggedIn(journal, source)
BY DEF Logged, LoggedIn, TextsIn

(* Nothing was logged in an empty journal.                                 *)
LEMMA LoggedNothing == \A source : LoggedIn(<< >>, source) = << >>
<1> SUFFICES ASSUME NEW source PROVE LoggedIn(<< >>, source) = << >>
  OBVIOUS
<1>1. TextsIn(<< >>, source) = << >>
  BY DEF TextsIn
<1>2. QED
  BY <1>1 DEF LoggedIn, FlattenSeq

(* An entry more adds its text to what its source logged.                  *)
LEMMA LoggedMore ==
  ASSUME NEW j \in Seq(Entries), NEW e \in Entries, NEW source
  PROVE  /\ LoggedIn(j, source) \in Seq(Nat)
         /\ LoggedIn(Append(j, e), source) =
              IF e.source = source THEN LoggedIn(j, source) \o e.text ELSE LoggedIn(j, source)
<1> DEFINE k == Append(j, e)
           text == IF e.source = source THEN e.text ELSE << >>
<1>1. << >> \in Seq(Nat) /\ text \in Seq(Nat)
  BY DEF Entries
<1>2. /\ Len(j) \in Nat /\ DOMAIN j = 1..Len(j) /\ \A i \in 1..Len(j) : j[i] \in Entries
      /\ Len(k) = Len(j) + 1 /\ DOMAIN k = 1..(Len(j) + 1)
      /\ k[Len(j) + 1] = e /\ \A i \in 1..Len(j) : k[i] = j[i]
  <2> HIDE DEF Entries
  <2>1. k \in Seq(Entries)
    BY AppendProperties
  <2>2. QED
    BY <2>1, AppendProperties
<1>3. TextsIn(j, source) \in Seq(Seq(Nat))
  <2>1. \A i \in 1..Len(j) :
          (IF j[i].source = source THEN j[i].text ELSE << >>) \in Seq(Nat)
    BY <1>1, <1>2 DEF Entries
  <2>2. QED
    BY <1>2, <2>1 DEF TextsIn
<1>4. TextsIn(k, source) = Append(TextsIn(j, source), text)
  <2> DEFINE a == TextsIn(k, source)
             b == Append(TextsIn(j, source), text)
  <2>1. /\ DOMAIN a = 1..(Len(j) + 1)
        /\ \A i \in 1..(Len(j) + 1) : a[i] = IF k[i].source = source THEN k[i].text ELSE << >>
    BY <1>2 DEF TextsIn
  <2>2. /\ Len(TextsIn(j, source)) = Len(j)
        /\ \A i \in 1..Len(j) : TextsIn(j, source)[i] =
                                  IF j[i].source = source THEN j[i].text ELSE << >>
    BY <1>2, <1>3 DEF TextsIn
  <2>3. b \in Seq(Seq(Nat)) /\ Len(b) = Len(j) + 1 /\ b[Len(j) + 1] = text
        /\ \A i \in 1..Len(j) : b[i] = TextsIn(j, source)[i]
    <3> HIDE DEF text
    <3> QED
      BY <1>1, <1>3, <2>2, AppendProperties
  <2>4. \A i \in 1..(Len(j) + 1) : a[i] = b[i]
    <3> HIDE DEF a, b
    <3>1. a[Len(j) + 1] = b[Len(j) + 1]
      BY <1>2, <2>1, <2>3
    <3>2. \A i \in 1..Len(j) : a[i] = b[i]
      <4> SUFFICES ASSUME NEW i \in 1..Len(j) PROVE a[i] = b[i]
        OBVIOUS
      <4>1. k[i] = j[i] /\ i \in 1..(Len(j) + 1)
        BY <1>2
      <4>2. b[i] = TextsIn(j, source)[i]
        BY <2>3
      <4> HIDE DEF k
      <4>3. QED
        BY <2>1, <2>2, <4>1, <4>2
    <3>3. QED
      BY <1>2, <3>1, <3>2
  <2>5. a \in Seq(Seq(Nat)) /\ Len(a) = Len(j) + 1
    <3>1. \A i \in 1..(Len(j) + 1) : b[i] \in Seq(Nat)
      <4> HIDE DEF b
      <4> QED
        BY <2>3
    <3>2. a = [i \in 1..(Len(j) + 1) |-> a[i]]
      BY <2>1 DEF TextsIn
    <3>3. \A i \in 1..(Len(j) + 1) : a[i] \in Seq(Nat)
      BY <2>4, <3>1
    <3> HIDE DEF a, b
    <3>4. QED
      BY <1>2, <3>2, <3>3
  <2>6. QED
    <3> HIDE DEF a, b
    <3>1. a = b
      BY <2>3, <2>4, <2>5, SeqEqual
    <3>2. QED
      BY <3>1 DEF a, b
<1>5. /\ FlattenSeq(TextsIn(j, source)) \in Seq(Nat)
      /\ FlattenSeq(Append(TextsIn(j, source), text)) = FlattenSeq(TextsIn(j, source)) \o text
  <2> HIDE DEF text
  <2> QED
    BY <1>1, <1>3, FlattenAppend
<1>6. FlattenSeq(TextsIn(j, source)) \o << >> = FlattenSeq(TextsIn(j, source))
  BY <1>5, ConcatEmptySeq
<1>7. QED
  BY <1>4, <1>5, <1>6 DEF LoggedIn

(* What Journals does, for each source. *)
LEMMA JournalsFacts ==
  ASSUME journal \in Seq(Entries), NEW source \in Sources, NEW text \in Seq(Nat),
         Journals(source, text)
  PROVE  /\ journal' \in Seq(Entries)
         /\ \A other \in Sources : LoggedIn(journal', other) =
              IF other = source THEN LoggedIn(journal, other) \o text
                                ELSE LoggedIn(journal, other)
<1>0. \A other : LoggedIn(journal, other) \in Seq(Nat)
  <2>1. Entry("user", << >>) \in Entries
    <3>1. << >> \in Seq(Nat)
      OBVIOUS
    <3>2. QED
      BY <3>1 DEF Entry, Entries, Sources
  <2>2. QED
    BY <2>1, LoggedMore
<1>1. CASE text = << >>
  <2>1. journal' = journal
    BY <1>1 DEF Journals
  <2>2. \A other : LoggedIn(journal, other) \o << >> = LoggedIn(journal, other)
    BY <1>0, ConcatEmptySeq
  <2>3. QED
    BY <1>1, <2>1, <2>2
<1>2. CASE text # << >>
  <2> DEFINE e == Entry(source, text)
  <2>1. journal' = Append(journal, e)
    BY <1>2 DEF Journals
  <2>2. e \in Entries /\ e.source = source /\ e.text = text
    BY DEF Entry, Entries
  <2> HIDE DEF e
  <2>3. journal' \in Seq(Entries)
    BY <2>1, <2>2, AppendProperties
  <2>4. \A other : LoggedIn(Append(journal, e), other) =
              IF e.source = other THEN LoggedIn(journal, other) \o e.text
                                  ELSE LoggedIn(journal, other)
    BY <2>2, LoggedMore
  <2>5. QED
    BY <2>1, <2>2, <2>3, <2>4
<1>3. QED
  BY <1>1, <1>2

-----------------------------------------------------------------------------
(* Nothing is lost.                                                        *)

TextType ==
  /\ journal \in Seq(Entries)
  /\ buffer \in Seq(Nat) /\ typed \in Seq(Nat) /\ delivered \in Seq(Nat)
  /\ shown \in Seq(Nat) /\ passed \in Seq(Nat)
  /\ printed \in Seq(BOOLEAN)
  /\ read \in Nat /\ keys \in Nat /\ sends \in Nat

AtRest == {"finishing", "cancelling", "forgetting", "idle", "clearing", "adding", "spawning",
           "preparing"}
Drained == {"restoring", "releasing", "finishing", "cancelling"}

(* What may cost the end of a text. *)
Broken == {"error", "raised"}

(* The buffers are used from the loop to the end of the output. *)
BuffersAreEmpty ==
  /\ pc \in AtRest => buffer = << >> /\ typed = << >>
  /\ pc \in {"draining", "restoring", "releasing"} /\ outcome \notin Broken =>
       buffer = << >> /\ typed = << >>
  /\ pc = "flushing" => typed = << >>

(* All output is read when a command ends with a return code and none was  *)
(* lost, and none comes afterwards.                                        *)
OutputIsRead ==
  /\ read <= Len(printed)
  /\ ~lost => Len(shown) = read
  /\ pc \in Drained /\ outcome \notin Broken =>
       /\ ~lost => read = Len(printed)
       /\ fd = 0 \/ process = "exited"

OutputIsKept ==
  /\ IsPrefix(Logged("command") \o buffer, shown)
  /\ outcome \notin Broken => Logged("command") \o buffer = shown

KeysAreKept ==
  /\ pc = "adding" => keys = 0 /\ passed = << >> /\ Logged("user") = << >>
  /\ keys > 0 => IsPrefix(Logged("user") \o typed, <<0>> \o passed)
  /\ outcome \notin Broken /\ (keys > 0 \/ pc \in {"spawning", "preparing", "loop"}) =>
       Logged("user") \o typed = <<0>> \o passed

TextInv == BuffersAreEmpty /\ OutputIsRead /\ OutputIsKept /\ KeysAreKept

(* What one text being the beginning of another means.                     *)
LEMMA PrefixMeaning ==
  ASSUME NEW s \in Seq(Nat), NEW t \in Seq(Nat)
  PROVE  IsPrefix(s, t) <=> Len(s) <= Len(t) /\ \A i \in 1..Len(s) : s[i] = t[i]
<1>1. Len(s) \in Nat /\ Len(t) \in Nat
  OBVIOUS
<1>2. /\ SubSeq(s, 1, Len(s)) \in Seq(Nat) /\ Len(SubSeq(s, 1, Len(s))) = Len(s)
      /\ \A i \in 1..Len(s) : SubSeq(s, 1, Len(s))[i] = s[i]
  BY <1>1
<1>3. CASE Len(s) <= Len(t)
  <2> DEFINE a == SubSeq(s, 1, Len(s))
             b == SubSeq(t, 1, Len(s))
  <2>1. /\ b \in Seq(Nat) /\ Len(b) = Len(s)
        /\ \A i \in 1..Len(s) : b[i] = t[i]
    BY <1>1, <1>3
  <2> HIDE DEF a, b
  <2>2. a \in Seq(Nat) /\ Len(a) = Len(s) /\ \A i \in 1..Len(s) : a[i] = s[i]
    BY <1>2 DEF a
  <2>3. a = b <=> \A i \in 1..Len(s) : a[i] = b[i]
    <3>1. (\A i \in 1..Len(s) : a[i] = b[i]) => a = b
      BY <2>1, <2>2, SeqEqual
    <3>2. QED
      BY <3>1
  <2>4. QED
    BY <1>3, <2>1, <2>2, <2>3 DEF IsPrefix, a, b
<1>4. CASE ~(Len(s) <= Len(t))
  BY <1>4 DEF IsPrefix
<1>5. QED
  BY <1>3, <1>4

(* A text begins itself, and the beginning of a text begins whatever the   *)
(* text begins.                                                            *)
LEMMA PrefixFacts ==
  ASSUME NEW s \in Seq(Nat), NEW t \in Seq(Nat), NEW u \in Seq(Nat)
  PROVE  /\ IsPrefix(u, u)
         /\ IsPrefix(s \o t, u) => IsPrefix(s, u)
<1>1. IsPrefix(u, u)
  BY PrefixMeaning
<1>2. ASSUME IsPrefix(s \o t, u) PROVE IsPrefix(s, u)
  <2> DEFINE a == s \o t
  <2>1. /\ a \in Seq(Nat) /\ Len(a) = Len(s) + Len(t) /\ Len(s) \in Nat /\ Len(t) \in Nat /\ Len(u) \in Nat
        /\ \A i \in 1..Len(s) : a[i] = s[i]
    BY ConcatProperties
  <2> HIDE DEF a
  <2>2. Len(a) <= Len(u) /\ \A i \in 1..Len(a) : a[i] = u[i]
    BY <1>2, <2>1, PrefixMeaning DEF a
  <2>3. Len(s) <= Len(u) /\ Len(s) <= Len(a)
    BY <2>1, <2>2
  <2>4. ASSUME NEW i \in 1..Len(s) PROVE s[i] = u[i]
    <3>1. i \in 1..Len(a)
      BY <2>1, <2>3
    <3>2. QED
      BY <2>1, <2>2, <3>1
  <2>5. QED
    BY <2>3, <2>4, PrefixMeaning
<1>3. QED
  BY <1>1, <1>2

(* A piece more at the end of the last of two sequences. *)
LEMMA GlueMore ==
  ASSUME NEW s \in Seq(Nat), NEW t \in Seq(Nat), NEW x \in Nat
  PROVE  /\ s \o t \in Seq(Nat) /\ s \o << >> = s /\ << >> \o s = s
         /\ s \o Append(t, x) = Append(s \o t, x)
         /\ s \o <<x>> = Append(s, x)
         /\ (s \o t) \o << >> = s \o t
<1>1. s \o t \in Seq(Nat) /\ s \o << >> = s /\ << >> \o s = s
  BY ConcatProperties, ConcatEmptySeq
<1>2. <<x>> \in Seq(Nat) /\ Append(t, x) = t \o <<x>> /\ Append(s \o t, x) = (s \o t) \o <<x>>
      /\ Append(s, x) = s \o <<x>>
  BY <1>1, AppendIsConcat
<1>3. s \o Append(t, x) = Append(s \o t, x)
  BY <1>2, ConcatAssociative
<1>4. (s \o t) \o << >> = s \o t
  BY <1>1, ConcatEmptySeq
<1>5. QED
  BY <1>1, <1>2, <1>3, <1>4

(* The same journal has the same text,                                     *)
LEMMA LoggedStays ==
  ASSUME journal' = journal
  PROVE  \A source : Logged(source)' = Logged(source)
BY DEF Logged

(* what is journaled comes at the end of the text of its source,           *)
LEMMA LoggedGrows ==
  ASSUME TextType, NEW source \in Sources, NEW text \in Seq(Nat), Journals(source, text)
  PROVE  /\ journal' \in Seq(Entries)
         /\ \A other \in Sources : Logged(other)' =
              IF other = source THEN Logged(other) \o text ELSE Logged(other)
<1>1. /\ journal' \in Seq(Entries)
      /\ \A other \in Sources : LoggedIn(journal', other) =
              IF other = source THEN LoggedIn(journal, other) \o text
                                ELSE LoggedIn(journal, other)
  BY JournalsFacts DEF TextType
<1>2. \A other : Logged(other)' = LoggedIn(journal', other)
  BY DEF Logged, LoggedIn, TextsIn
<1>3. QED
  BY <1>1, <1>2, LoggedIsLoggedIn

(* and a text is a sequence of pieces.                                     *)
LEMMA LoggedType ==
  ASSUME TextType
  PROVE  \A source : Logged(source) \in Seq(Nat)
<1>1. << >> \in Seq(Nat)
  OBVIOUS
<1>2. Entry("user", << >>) \in Entries
  BY <1>1 DEF Entry, Entries, Sources
<1>3. QED
  BY <1>2, LoggedMore, LoggedIsLoggedIn DEF TextType

-----------------------------------------------------------------------------
(* Steps that leave the journal and what was printed, read and typed as    *)
(* they are.                                                               *)
TextVars == <<journal, printed, keys, read, shown, passed, lost>>

(* What such a step may change of the rest.                                *)
LEMMA TextKeeps ==
  ASSUME TextInv, UNCHANGED TextVars, buffer' = buffer, typed' = typed,
         outcome' \notin Broken => outcome \notin Broken,
         pc' \in AtRest => pc \in AtRest \cup {"releasing"} /\ (buffer = << >> /\ typed = << >>),
         pc' \in {"draining", "restoring", "releasing"} /\ outcome' \notin Broken =>
           buffer = << >> /\ typed = << >>,
         pc' = "flushing" => typed = << >>,
         pc' = "adding" => pc = pc',
         pc' \in Drained /\ outcome' \notin Broken =>
           (~lost => read = Len(printed)) /\ (fd' = 0 \/ process' = "exited"),
         pc' \in {"spawning", "preparing", "loop"} => pc \in {"spawning", "preparing", "loop"}
  PROVE  TextInv'
<1>1. Logged("command")' = Logged("command") /\ Logged("user")' = Logged("user")
  BY LoggedStays DEF TextVars
<1>2. BuffersAreEmpty'
  BY DEF BuffersAreEmpty, AtRest
<1>3. OutputIsRead'
  BY DEF TextInv, OutputIsRead, TextVars
<1>4. OutputIsKept' /\ KeysAreKept'
  BY <1>1 DEF TextInv, OutputIsKept, KeysAreKept, TextVars
<1>5. QED
  BY <1>2, <1>3, <1>4 DEF TextInv

(* Those of the main thread,                                               *)
LEMMA TextOfMain ==
  ASSUME ~stuck, RInv, TextType, TextInv,
         \/ Spawn \/ ErrorHandled \/ MakeRaw \/ NoTerminal \/ SeeExit \/ DrainEnds
         \/ Restore \/ Release \/ CancelTimer \/ Forget \/ Interrupt \/ Execute
  PROVE  TextInv'
<1> USE DEF Goes, clientVars, termVars, textVars, seenVars, workVars, mainVars, TextVars
<1>0. /\ BuffersAreEmpty /\ OutputIsRead
      /\ pc \in WithProcess => process = "exited"
  BY DEF TextInv, RInv, OutcomeTellsProcess
<1>a. read \in Nat /\ Len(printed) \in Nat
  BY DEF TextType
<1> USE DEF AtRest, Drained, Broken, BuffersAreEmpty, OutputIsRead, Unread
<1>1. CASE Spawn
  BY <1>0, <1>1, TextKeeps DEF Spawn
<1>2. CASE ErrorHandled
  BY <1>0, <1>2, TextKeeps DEF ErrorHandled
<1>3. CASE MakeRaw
  BY <1>0, <1>3, TextKeeps DEF MakeRaw
<1>4. CASE NoTerminal
  BY <1>0, <1>4, TextKeeps DEF NoTerminal
<1>5. CASE SeeExit
  BY <1>0, <1>5, TextKeeps DEF SeeExit
<1>6. CASE DrainEnds
  <2>1. pc = "draining" /\ outcome' \notin Broken /\ pc' = "restoring" /\ process' = process
        /\ ~(read < Len(printed)) /\ UNCHANGED TextVars /\ buffer' = buffer /\ typed' = typed
    BY <1>6 DEF DrainEnds
  <2>2. read = Len(printed) /\ process' = "exited"
    BY <1>0, <1>a, <2>1 DEF WithProcess
  <2>3. outcome \notin Broken
    BY <2>1 DEF RInv, OutcomeTellsProcess, Undecided, WithProcess
  <2>4. QED
    BY <1>0, <2>1, <2>2, <2>3, TextKeeps
<1>7. CASE Restore
  BY <1>0, <1>7, TextKeeps DEF Restore
<1>8. CASE Release /\ outcome \notin Broken
  BY <1>0, <1>8, TextKeeps DEF Release
<1>9. CASE Release /\ outcome \in Broken
  <2>1. /\ pc' \in {"cancelling", "finishing"} /\ outcome' \in Broken /\ buffer' = << >> /\ typed' = << >>
        /\ UNCHANGED TextVars
    BY <1>9 DEF Release
  <2>2. BuffersAreEmpty' /\ OutputIsRead'
    BY <1>0, <2>1
  <2>3. \A source : Logged(source)' = Logged(source) /\ Logged(source) \in Seq(Nat)
                    /\ Logged(source) \o << >> = Logged(source)
    BY <2>1, LoggedStays, LoggedType, GlueMore
  <2>4. buffer \in Seq(Nat) /\ typed \in Seq(Nat) /\ shown \in Seq(Nat) /\ <<0>> \o passed \in Seq(Nat)
    <3>1. <<0>> \in Seq(Nat) /\ passed \in Seq(Nat)
      BY DEF TextType
    <3>2. QED
      BY <3>1, ConcatProperties DEF TextType
  <2>5. OutputIsKept'
    <3>1. IsPrefix(Logged("command"), shown)
      BY <2>3, <2>4, PrefixFacts DEF TextInv, OutputIsKept
    <3>2. QED
      BY <2>1, <2>3, <3>1 DEF OutputIsKept
  <2>6. KeysAreKept'
    <3>1. keys > 0 => IsPrefix(Logged("user"), <<0>> \o passed)
      BY <2>3, <2>4, PrefixFacts DEF TextInv, KeysAreKept
    <3>2. QED
      BY <2>1, <2>3, <3>1 DEF KeysAreKept
  <2>7. QED
    BY <2>2, <2>5, <2>6 DEF TextInv
<1>10. CASE CancelTimer
  BY <1>0, <1>10, TextKeeps DEF CancelTimer
<1>11. CASE Forget \/ Execute
  BY <1>0, <1>11, TextKeeps DEF Forget, Execute
<1>12. CASE Interrupt
  BY <1>0, <1>12, TextKeeps DEF Interrupt
<1>13. QED
  BY <1>1, <1>2, <1>3, <1>4, <1>5, <1>6, <1>7, <1>8, <1>9, <1>10, <1>11, <1>12

(* and those of its client, the signals, the timers and the senders.       *)
LEMMA TextOfOthers ==
  ASSUME TextInv,
         \/ Start \/ Stop \/ Signal \/ Exit \/ SendChecks \/ SendPolls \/ SendFails
         \/ UNCHANGED vars \/ \E t \in Timers : Fire(t) \/ DecideNext(t) \/ ArmNext(t)
  PROVE  TextInv'
<1>1. /\ UNCHANGED TextVars /\ UNCHANGED <<pc, outcome, buffer, typed, fd>>
      /\ process' = process \/ process' = "exited"
  BY DEF Goes, clientVars, termVars, textVars, seenVars, workVars, mainVars, TextVars, vars, Start, Stop,
     Signal, Exit, SendChecks, SendPolls, SendFails, Fire, DecideNext, ArmNext
<1>2. BuffersAreEmpty /\ OutputIsRead
  BY DEF TextInv
<1>3. QED
  BY <1>1, <1>2, TextKeeps DEF AtRest, Drained, BuffersAreEmpty, OutputIsRead

(* The end of the program,                                                 *)
LEMMA TextOfTheEnd ==
  ASSUME Killed
  PROVE  TextInv'
<1>1. /\ pc' = "dead" /\ journal' = << >> /\ buffer' = << >> /\ typed' = << >>
      /\ printed' = << >> /\ keys' = 0 /\ read' = 0 /\ shown' = << >>
  BY DEF Killed
<1>2. Logged("command")' = << >>
  BY <1>1, LoggedNothing DEF Logged, LoggedIn, TextsIn
<1>3. << >> \o << >> = << >> /\ IsPrefix(<< >>, << >>) /\ Len(<< >>) = 0
  <2>1. << >> \in Seq(Nat)
    OBVIOUS
  <2>2. QED
    BY <2>1, GlueMore, PrefixFacts
<1>4. OutputIsKept'
  BY <1>1, <1>2, <1>3 DEF OutputIsKept
<1>5. BuffersAreEmpty' /\ OutputIsRead' /\ KeysAreKept'
  BY <1>1, <1>3 DEF BuffersAreEmpty, OutputIsRead, KeysAreKept, AtRest, Drained
<1>6. QED
  BY <1>4, <1>5 DEF TextInv

(* and errors that lose what was read or typed.                            *)
LEMMA TextOfErrors ==
  ASSUME ~stuck, RInv, TextType, TextInv, ShowFails \/ PassFails \/ DrainFails
  PROVE  TextInv'
<1> USE DEF Goes, clientVars, termVars, textVars, seenVars, workVars, mainVars
<1>0. /\ BuffersAreEmpty /\ OutputIsRead /\ OutputIsKept /\ KeysAreKept
      /\ pc \in WithProcess => process = "exited"
      /\ pc \in {"loop", "draining"} => outcome = "none"
  BY DEF TextInv, RInv, OutcomeTellsProcess, Undecided, WithProcess
<1>a. read \in Nat /\ keys \in Nat /\ Len(printed) \in Nat
  BY DEF TextType
<1> USE DEF AtRest, Drained, Broken, BuffersAreEmpty, OutputIsRead, Unread
<1>1. CASE ShowFails
  <2>1. /\ read < Len(printed) /\ read' = read + 1 /\ lost' = TRUE
        /\ UNCHANGED <<pc, outcome, buffer, typed, journal, printed, keys, shown, passed>>
        /\ pc = "loop"
    BY <1>1 DEF ShowFails
  <2>2. BuffersAreEmpty' /\ OutputIsRead'
    BY <1>0, <1>a, <2>1
  <2>3. OutputIsKept' /\ KeysAreKept'
    BY <1>0, <2>1, LoggedStays DEF OutputIsKept, KeysAreKept
  <2>4. QED
    BY <2>2, <2>3 DEF TextInv
<1>2. CASE PassFails
  <2>1. /\ keys' = keys + 1 /\ pc = "loop"
        /\ UNCHANGED <<pc, outcome, buffer, typed, journal, printed, read, lost, shown, passed>>
    BY <1>2 DEF PassFails
  <2>2. BuffersAreEmpty' /\ OutputIsRead'
    BY <1>0, <2>1
  <2>3. OutputIsKept'
    BY <1>0, <2>1, LoggedStays DEF OutputIsKept
  <2>4. Logged("user") \o typed = <<0>> \o passed
    BY <1>0, <2>1 DEF KeysAreKept
  <2>5. IsPrefix(<<0>> \o passed, <<0>> \o passed)
    <3>1. <<0>> \in Seq(Nat) /\ passed \in Seq(Nat)
      BY DEF TextType
    <3>2. <<0>> \o passed \in Seq(Nat)
      BY <3>1, ConcatProperties
    <3>3. QED
      BY <3>2, PrefixFacts
  <2>6. KeysAreKept'
    <3>1. Logged("user")' \o typed' = <<0>> \o passed'
      BY <2>1, <2>4, LoggedStays
    <3>2. QED
      BY <2>1, <2>4, <2>5, <3>1 DEF KeysAreKept
  <2>7. QED
    BY <2>2, <2>3, <2>6 DEF TextInv
<1>3. CASE DrainFails
  <2>1. /\ pc = "draining" /\ pc' = "restoring" /\ lost' = TRUE /\ outcome' \notin Broken
        /\ process' = process /\ UNCHANGED <<buffer, typed, journal, printed, keys, read, shown, passed>>
    BY <1>3 DEF DrainFails
  <2>2. process' = "exited" /\ outcome \notin Broken
    BY <1>0, <2>1 DEF WithProcess
  <2>3. BuffersAreEmpty' /\ OutputIsRead'
    BY <1>0, <2>1, <2>2
  <2>4. OutputIsKept' /\ KeysAreKept'
    BY <1>0, <2>1, <2>2, LoggedStays DEF OutputIsKept, KeysAreKept
  <2>5. QED
    BY <2>3, <2>4 DEF TextInv
<1>4. QED
  BY <1>1, <1>2, <1>3

(* The journal, the buffers and the counters keep their types.             *)
LEMMA TypeOfText == TextType /\ [Next]_vars => TextType'
<1> SUFFICES ASSUME TextType, [Next]_vars PROVE TextType'
  OBVIOUS
<1> USE DEF Goes, clientVars, termVars, textVars, seenVars, workVars, mainVars
<1>1. /\ << >> \in Seq(Nat) /\ <<0>> \in Seq(Nat) /\ << >> \in Seq(BOOLEAN) /\ << >> \in Seq(Entries)
      /\ \A s \in Seq(Nat), x \in Nat : Append(s, x) \in Seq(Nat) /\ <<x>> \in Seq(Nat)
  BY AppendProperties
<1>2. "user" \in Sources /\ "command" \in Sources /\ "automated" \in Sources
  BY DEF Sources
<1>3. \A source \in Sources, text \in Seq(Nat) : Journals(source, text) => journal' \in Seq(Entries)
  BY JournalsFacts DEF TextType
<1>4. /\ journal \in Seq(Entries) /\ buffer \in Seq(Nat) /\ typed \in Seq(Nat)
      /\ delivered \in Seq(Nat) /\ printed \in Seq(BOOLEAN)
      /\ read \in Nat /\ keys \in Nat /\ sends \in Nat
      /\ shown \in Seq(Nat) /\ passed \in Seq(Nat)
  BY DEF TextType
<1>5. CASE ClearJournal \/ AddCommand \/ ReadOutput \/ ReadKeys \/ LogKeys \/ FlushOutput
  <2>1. CASE ClearJournal
    BY <1>1, <1>4, <2>1 DEF ClearJournal, TextType
  <2>2. CASE AddCommand
    BY <1>1, <1>2, <1>3, <1>4, <2>2 DEF AddCommand, TextType, sendVars
  <2>3. CASE ReadOutput
    <3>1. Append(buffer, read + 1) \in Seq(Nat) /\ Append(shown, read + 1) \in Seq(Nat) /\ read + 1 \in Nat
      BY <1>1, <1>4
    <3>2. journal' = journal \/ Journals("command", Append(buffer, read + 1))
      BY <2>3 DEF ReadOutput
    <3>3. journal' \in Seq(Entries)
      BY <1>2, <1>3, <1>4, <3>1, <3>2
    <3>4. buffer' \in Seq(Nat) /\ read' \in Nat /\ typed' = typed /\ delivered' = delivered
          /\ printed' = printed /\ keys' = keys /\ sends' = sends
          /\ shown' = Append(shown, read + 1) /\ passed' = passed
      BY <1>1, <2>3, <3>1 DEF ReadOutput, sendVars
    <3>5. QED
      BY <1>4, <3>1, <3>3, <3>4 DEF TextType
  <2>4. CASE ReadKeys
    <3>1. Append(typed, keys + 1) \in Seq(Nat) /\ Append(passed, keys + 1) \in Seq(Nat) /\ keys + 1 \in Nat
      BY <1>1, <1>4
    <3>2. journal' = journal \/ Journals("user", Append(typed, keys + 1))
      BY <2>4 DEF ReadKeys
    <3>3. journal' \in Seq(Entries)
      BY <1>2, <1>3, <1>4, <3>1, <3>2
    <3>4. typed' \in Seq(Nat) /\ keys' \in Nat /\ buffer' = buffer /\ delivered' = delivered
          /\ printed' = printed /\ read' = read /\ sends' = sends
          /\ passed' = Append(passed, keys + 1) /\ shown' = shown
      BY <1>1, <2>4, <3>1 DEF ReadKeys, sendVars
    <3>5. QED
      BY <1>4, <3>1, <3>3, <3>4 DEF TextType
  <2>5. CASE LogKeys \/ FlushOutput
    BY <1>1, <1>2, <1>3, <1>4, <2>5 DEF LogKeys, FlushOutput, FlushBuffer, TextType, sendVars
  <2>6. QED
    BY <1>5, <2>1, <2>2, <2>3, <2>4, <2>5
<1>6. CASE DrainOutput \/ Finish \/ CallbackFails \/ Release \/ MakeRaw
  <2>1. CASE DrainOutput
    <3>1. <<read + 1>> \in Seq(Nat) /\ Append(shown, read + 1) \in Seq(Nat) /\ read + 1 \in Nat
      BY <1>1, <1>4
    <3>2. Journals("command", <<read + 1>>) /\ read' = read + 1
      BY <2>1 DEF DrainOutput
    <3>3. journal' \in Seq(Entries)
      BY <1>2, <1>3, <3>1, <3>2
    <3>4. UNCHANGED <<buffer, typed, delivered, printed, keys, sends, passed>>
          /\ shown' = Append(shown, read + 1)
      BY <2>1 DEF DrainOutput, sendVars
    <3>5. QED
      BY <1>4, <3>1, <3>2, <3>3, <3>4 DEF TextType
  <2>2. CASE Finish \/ CallbackFails
    BY <1>1, <1>2, <1>3, <1>4, <2>2 DEF Finish, CallbackFails, FlushBuffer, TextType, sendVars
  <2>3. CASE Release \/ MakeRaw
    BY <1>1, <1>4, <2>3 DEF Release, MakeRaw, TextType, sendVars
  <2>4. QED
    BY <1>6, <2>1, <2>2, <2>3
<1>7. CASE Prints
  BY <1>4, <1>7, AppendProperties DEF Prints, TextType, sendVars
<1>8. CASE \E t \in Timers : TimerSteps(t)
  BY <1>1, <1>2, <1>3, <1>4, <1>8
     DEF TimerSteps, Fire, FlushForSnapshot, DecideNext, ArmNext, FlushBuffer, TextType, sendVars
<1>9. CASE SendChecks \/ Sender
  <2>1. CASE SendChecks \/ SendPolls \/ SendFails
    BY <1>4, <2>1, SMTT(40) DEF SendChecks, SendPolls, SendFails, TextType, sendVars
  <2>2. CASE SendWrites
    <3>1. <<sends>> \in Seq(Nat) /\ Append(delivered, sends) \in Seq(Nat)
      BY <1>1, <1>4
    <3>2. journal' = journal \/ Journals("automated", <<sends>>)
      BY <2>2 DEF SendWrites
    <3>3. journal' \in Seq(Entries)
      BY <1>2, <1>3, <1>4, <3>1, <3>2
    <3>4. UNCHANGED <<buffer, typed, printed, read, keys, sends, shown, passed>>
          /\ delivered' \in {delivered, Append(delivered, sends)}
      BY <2>2 DEF SendWrites
    <3>5. QED
      BY <1>4, <3>1, <3>3, <3>4 DEF TextType
  <2>3. QED
    BY <1>9, <2>1, <2>2 DEF Sender
<1>10. CASE \/ Spawn \/ ErrorHandled \/ NoTerminal \/ SeeExit \/ DrainEnds \/ Restore \/ CancelTimer
            \/ Forget \/ Interrupt \/ Execute \/ Start \/ Stop \/ Signal \/ Exit \/ UNCHANGED vars
  BY <1>4, <1>10 DEF Spawn, ErrorHandled, NoTerminal, SeeExit, DrainEnds, Restore, CancelTimer,
     Forget, Interrupt, Execute, Start, Stop, Signal, Exit, vars, TextType, sendVars
<1>11. CASE ShowFails \/ PassFails \/ DrainFails \/ RestoreFails \/ Killed
  <2>1. CASE ShowFails
    BY <1>4, <2>1 DEF ShowFails, TextType, sendVars
  <2>2. CASE PassFails
    BY <1>4, <2>2 DEF PassFails, TextType, sendVars
  <2>3. CASE DrainFails
    BY <1>4, <2>3 DEF DrainFails, TextType, sendVars
  <2>4. CASE RestoreFails
    BY <1>4, <2>4 DEF RestoreFails, TextType, sendVars
  <2>5. CASE Killed
    BY <1>1, <1>4, <2>5 DEF Killed, TextType
  <2>6. QED
    BY <1>11, <2>1, <2>2, <2>3, <2>4, <2>5
<1>12. QED
  BY <1>5, <1>6, <1>7, <1>8, <1>9, <1>10, <1>11 DEF Next, Main

-----------------------------------------------------------------------------
(* What a flush of the buffer does.                                        *)
LEMMA FlushFacts ==
  ASSUME TextType, FlushBuffer
  PROVE  /\ buffer' = << >>
         /\ Logged("command")' \o buffer' = Logged("command") \o buffer
         /\ Logged("user")' = Logged("user") /\ Logged("automated")' = Logged("automated")
<1>1. "user" \in Sources /\ "command" \in Sources /\ "automated" \in Sources
  BY DEF Sources
<1>2. /\ Logged("command")' = Logged("command") \o buffer
      /\ Logged("user")' = Logged("user") /\ Logged("automated")' = Logged("automated")
  BY <1>1, LoggedGrows DEF FlushBuffer, TextType
<1>3. buffer \in Seq(Nat) /\ Logged("command") \in Seq(Nat)
  BY LoggedType DEF TextType
<1>4. (Logged("command") \o buffer) \o << >> = Logged("command") \o buffer
  BY <1>3, GlueMore
<1>5. QED
  BY <1>2, <1>4 DEF FlushBuffer

(* Whoever flushes, and wherever the main thread is.                       *)
LEMMA FlushKeeps ==
  ASSUME TextType, TextInv, FlushBuffer, typed' = typed, UNCHANGED workVars,
         \/ UNCHANGED <<pc, outcome, fd, process>>
         \/ pc = "flushing" /\ pc' = "draining" /\ outcome' = outcome
         \/ /\ pc = "finishing" /\ pc' = "cancelling" /\ UNCHANGED <<fd, process>>
            /\ outcome' \notin Broken => outcome \notin Broken
  PROVE  TextInv'
<1>1. /\ buffer' = << >>
      /\ Logged("command")' \o buffer' = Logged("command") \o buffer
      /\ Logged("user")' = Logged("user")
  BY FlushFacts
<1>2. /\ BuffersAreEmpty /\ OutputIsRead /\ OutputIsKept /\ KeysAreKept
      /\ UNCHANGED <<read, printed, keys, shown, passed, lost>>
  BY DEF TextInv, workVars, seenVars
<1>3. BuffersAreEmpty'
  BY <1>1, <1>2 DEF BuffersAreEmpty, AtRest
<1>4. OutputIsRead'
  BY <1>2 DEF OutputIsRead, Drained
<1>5. outcome' \notin Broken => outcome \notin Broken
  OBVIOUS
<1>6. OutputIsKept' /\ KeysAreKept'
  BY <1>1, <1>2, <1>5 DEF OutputIsKept, KeysAreKept
<1>7. QED
  BY <1>3, <1>4, <1>6 DEF TextInv

(* The steps that add to the journal or to what was read and typed.        *)
LEMMA TextOfWriters ==
  ASSUME ~stuck, RInv, TextType, TextInv,
         ClearJournal \/ AddCommand \/ ReadOutput \/ ReadKeys \/ LogKeys \/ DrainOutput \/ Prints \/ SendWrites
  PROVE  TextInv'
<1> USE DEF Goes, clientVars, termVars, textVars, seenVars, workVars, mainVars, sendVars
<1>0. BuffersAreEmpty /\ OutputIsRead /\ OutputIsKept /\ KeysAreKept
  BY DEF TextInv
<1>a. /\ journal \in Seq(Entries) /\ buffer \in Seq(Nat) /\ typed \in Seq(Nat)
      /\ read \in Nat /\ keys \in Nat /\ sends \in Nat /\ printed \in Seq(BOOLEAN)
      /\ Len(printed) \in Nat
  BY DEF TextType
<1>b. "user" \in Sources /\ "command" \in Sources /\ "automated" \in Sources
  BY DEF Sources
<1>c. \A source : Logged(source) \in Seq(Nat)
  BY LoggedType
<1>d. /\ <<0>> \in Seq(Nat) /\ << >> \in Seq(Nat) /\ shown \in Seq(Nat) /\ passed \in Seq(Nat)
      /\ <<0>> \o passed \in Seq(Nat) /\ \A s \in Seq(Nat) : IsPrefix(s, s)
  <2>1. <<0>> \in Seq(Nat) /\ << >> \in Seq(Nat) /\ shown \in Seq(Nat) /\ passed \in Seq(Nat)
    BY DEF TextType
  <2>2. \A s \in Seq(Nat) : IsPrefix(s, s)
    BY PrefixFacts
  <2>3. QED
    BY <2>1, <2>2, ConcatProperties
<1>e. \A source \in Sources, text \in Seq(Nat) : Journals(source, text) =>
         \A other \in Sources : Logged(other)' =
              IF other = source THEN Logged(other) \o text ELSE Logged(other)
  BY LoggedGrows
<1>1. CASE ClearJournal
  <2>1. \A source : Logged(source)' = << >>
    BY <1>1, LoggedNothing, LoggedStays DEF ClearJournal, Logged, LoggedIn, TextsIn
  <2>2. buffer' = << >> /\ typed' = << >> /\ pc' = "adding" /\ read' = 0 /\ keys' = 0
        /\ printed' = << >> /\ shown' = << >> /\ passed' = << >> /\ Len(<< >>) = 0
    BY <1>0, <1>1 DEF ClearJournal, BuffersAreEmpty, AtRest
  <2>3. << >> \o << >> = << >>
    BY <1>d, GlueMore
  <2>4. OutputIsKept'
    BY <1>d, <2>1, <2>2, <2>3 DEF OutputIsKept
  <2>5. KeysAreKept'
    BY <2>1, <2>2 DEF KeysAreKept
  <2>6. BuffersAreEmpty' /\ OutputIsRead'
    BY <2>2 DEF BuffersAreEmpty, OutputIsRead, Drained
  <2>7. QED
    BY <2>4, <2>5, <2>6 DEF TextInv
<1>2. CASE AddCommand
  <2>1. Logged("user")' = Logged("user") \o <<0>> /\ Logged("command")' = Logged("command")
    BY <1>b, <1>d, <1>e, <1>2 DEF AddCommand
  <2>2. /\ pc = "adding" /\ pc' = "spawning" /\ buffer' = buffer /\ typed' = typed
        /\ UNCHANGED <<read, keys, printed, shown, passed, lost, outcome>>
    BY <1>2 DEF AddCommand
  <2>3. /\ Logged("user") = << >> /\ keys = 0 /\ buffer = << >> /\ typed = << >> /\ passed = << >>
    BY <1>0, <2>2 DEF KeysAreKept, BuffersAreEmpty, AtRest
  <2>4. << >> \o <<0>> = <<0>>
    BY <1>d, GlueMore
  <2>5. Logged("user")' \o typed' = <<0>> \o passed'
    BY <1>d, <2>1, <2>2, <2>3, <2>4
  <2>6. OutputIsKept'
    BY <1>0, <2>1, <2>2 DEF OutputIsKept
  <2>7. KeysAreKept'
    BY <2>2, <2>3, <2>5 DEF KeysAreKept
  <2>8. BuffersAreEmpty' /\ OutputIsRead'
    BY <1>0, <2>2, <2>3 DEF BuffersAreEmpty, OutputIsRead, Drained
  <2>9. QED
    BY <2>6, <2>7, <2>8 DEF TextInv
<1>3. CASE ReadOutput
  <2>1. /\ pc = "loop" /\ pc' = "loop" /\ read < Len(printed) /\ read' = read + 1
        /\ UNCHANGED <<typed, keys, printed, outcome, passed, lost>> /\ outcome = "none"
        /\ shown' = Append(shown, read + 1)
    BY <1>3 DEF ReadOutput, Unread, RInv, OutcomeTellsProcess, Undecided
  <2> DEFINE logged == Logged("command")
             text == Append(buffer, read + 1)
  <2>2. text \in Seq(Nat) /\ logged \o text = Append(logged \o buffer, read + 1)
        /\ (logged \o text) \o << >> = logged \o text
    <3>1. text \in Seq(Nat)
      BY <1>a, <1>d, AppendProperties
    <3> HIDE DEF text
    <3>2. (logged \o text) \o << >> = logged \o text
      BY <1>c, <3>1, GlueMore
    <3>3. logged \o Append(buffer, read + 1) = Append(logged \o buffer, read + 1)
      <4>1. logged \in Seq(Nat) /\ buffer \in Seq(Nat) /\ read + 1 \in Nat
        BY <1>a, <1>c
      <4> HIDE DEF logged
      <4>2. QED
        BY <4>1, GlueMore, SMTT(40)
    <3>4. QED
      BY <3>1, <3>2, <3>3 DEF text
  <2>3. /\ Logged("user")' = Logged("user")
        /\ Logged("command")' \o buffer' = logged \o text
    <3>1. CASE printed[read + 1]
      <4>1. Journals("command", text) /\ buffer' = << >>
        BY <1>3, <3>1 DEF ReadOutput
      <4> HIDE DEF text
      <4>2. Logged("command")' = logged \o text /\ Logged("user")' = Logged("user")
        BY <1>b, <1>e, <2>2, <4>1
      <4> HIDE DEF logged
      <4>3. QED
        BY <2>2, <4>1, <4>2
    <3>2. CASE ~printed[read + 1]
      BY <1>3, <3>2, LoggedStays DEF ReadOutput
    <3>3. QED
      BY <3>1, <3>2
  <2>4. logged \o text = shown' /\ shown' \in Seq(Nat) /\ Len(shown') = Len(shown) + 1
    <3>1. logged \o buffer = shown
      BY <1>0, <2>1 DEF OutputIsKept, Broken
    <3>2. Append(shown, read + 1) \in Seq(Nat) /\ Len(Append(shown, read + 1)) = Len(shown) + 1
      BY <1>a, <1>d, AppendProperties
    <3>3. QED
      BY <2>1, <2>2, <3>1, <3>2
  <2>5. OutputIsKept'
    BY <1>d, <2>1, <2>3, <2>4 DEF OutputIsKept
  <2>6. KeysAreKept'
    BY <1>0, <2>1, <2>3 DEF KeysAreKept
  <2>7. BuffersAreEmpty' /\ OutputIsRead'
    BY <1>0, <1>a, <2>1, <2>4, SMTT(40) DEF BuffersAreEmpty, OutputIsRead, Drained, AtRest
  <2>8. QED
    BY <2>5, <2>6, <2>7 DEF TextInv
<1>4. CASE ReadKeys
  <2>1. /\ pc = "loop" /\ pc' = "loop" /\ keys' = keys + 1
        /\ UNCHANGED <<read, buffer, printed, outcome, shown, lost>> /\ outcome = "none"
        /\ passed' = Append(passed, keys + 1)
    BY <1>4 DEF ReadKeys, RInv, OutcomeTellsProcess, Undecided
  <2> DEFINE logged == Logged("user")
             text == Append(typed, keys + 1)
  <2>2. text \in Seq(Nat) /\ logged \o text = Append(logged \o typed, keys + 1)
        /\ (logged \o text) \o << >> = logged \o text
    <3>1. text \in Seq(Nat)
      BY <1>a, <1>d, AppendProperties
    <3> HIDE DEF text
    <3>2. (logged \o text) \o << >> = logged \o text
      BY <1>c, <3>1, GlueMore
    <3>3. logged \o Append(typed, keys + 1) = Append(logged \o typed, keys + 1)
      <4>1. logged \in Seq(Nat) /\ typed \in Seq(Nat) /\ keys + 1 \in Nat
        BY <1>a, <1>c
      <4> HIDE DEF logged
      <4>2. QED
        BY <4>1, GlueMore
    <3>4. QED
      BY <3>1, <3>2, <3>3 DEF text
  <2>3. /\ Logged("command")' = Logged("command")
        /\ Logged("user")' \o typed' = logged \o text
    <3>1. CASE typed' = text /\ UNCHANGED journal
      BY <3>1, LoggedStays
    <3>2. CASE typed' = << >> /\ Journals("user", text)
      <4> HIDE DEF text
      <4>2. Logged("user")' = logged \o text /\ Logged("command")' = Logged("command")
        BY <1>b, <1>e, <2>2, <3>2
      <4> HIDE DEF logged
      <4>3. QED
        BY <2>2, <3>2, <4>2
    <3>3. QED
      BY <1>4, <3>1, <3>2 DEF ReadKeys
  <2>4. logged \o text = <<0>> \o passed' /\ <<0>> \o passed' \in Seq(Nat)
    <3> DEFINE first == <<0>>
    <3>1. first \in Seq(Nat) /\ passed \in Seq(Nat) /\ keys + 1 \in Nat
      BY <1>a, <1>d
    <3>2. logged \o typed = first \o passed
      BY <1>0, <2>1 DEF KeysAreKept, Broken
    <3> HIDE DEF first
    <3>3. first \o Append(passed, keys + 1) = Append(first \o passed, keys + 1)
      BY <3>1, GlueMore, SMTT(40)
    <3>4. Append(first \o passed, keys + 1) \in Seq(Nat)
      BY <3>1, ConcatProperties, AppendProperties
    <3>5. QED
      BY <2>1, <2>2, <3>2, <3>3, <3>4 DEF first
  <2>5. KeysAreKept'
    BY <1>d, <2>1, <2>3, <2>4 DEF KeysAreKept
  <2>6. OutputIsKept'
    BY <1>0, <2>1, <2>3 DEF OutputIsKept
  <2>7. BuffersAreEmpty' /\ OutputIsRead'
    BY <1>0, <1>a, <2>1 DEF BuffersAreEmpty, OutputIsRead, Drained, AtRest
  <2>8. QED
    BY <2>5, <2>6, <2>7 DEF TextInv
<1>5. CASE LogKeys
  <2>1. /\ pc = "logging" /\ pc' = "flushing" /\ buffer' = buffer /\ typed' = << >>
        /\ UNCHANGED <<read, keys, printed, shown, passed, lost, outcome>>
    BY <1>5 DEF LogKeys
  <2>2. Logged("user")' = Logged("user") \o typed /\ Logged("command")' = Logged("command")
    BY <1>a, <1>b, <1>e, <1>5 DEF LogKeys
  <2>3. Logged("user")' \o typed' = Logged("user") \o typed
    <3>1. (Logged("user") \o typed) \o << >> = Logged("user") \o typed
      BY <1>a, <1>c, GlueMore
    <3>2. QED
      BY <2>1, <2>2, <3>1
  <2>4. KeysAreKept' /\ OutputIsKept'
    BY <1>0, <2>1, <2>2, <2>3 DEF KeysAreKept, OutputIsKept
  <2>5. BuffersAreEmpty' /\ OutputIsRead'
    BY <1>0, <2>1 DEF BuffersAreEmpty, OutputIsRead, Drained, AtRest
  <2>6. QED
    BY <2>4, <2>5 DEF TextInv
<1>6. CASE DrainOutput
  <2>1. /\ pc = "draining" /\ pc' = "draining" /\ UNCHANGED <<buffer, typed, keys, printed, outcome, passed, lost>>
        /\ read < Len(printed) /\ read' = read + 1 /\ outcome = "none"
        /\ shown' = Append(shown, read + 1) /\ Journals("command", <<read + 1>>)
    BY <1>6 DEF DrainOutput, Unread, RInv, OutcomeTellsProcess, Undecided, WithProcess
  <2>2. <<read + 1>> \in Seq(Nat)
    BY <1>a
  <2>3. Logged("command")' = Logged("command") \o <<read + 1>> /\ Logged("user")' = Logged("user")
    BY <1>b, <1>e, <2>1, <2>2
  <2>4. buffer = << >> /\ Logged("command") \o buffer = shown
    BY <1>0, <2>1 DEF BuffersAreEmpty, OutputIsKept, Broken
  <2>5. Logged("command") \o << >> = Logged("command")
        /\ Logged("command") \o <<read + 1>> = Append(Logged("command"), read + 1)
        /\ Append(Logged("command"), read + 1) \o << >> = Append(Logged("command"), read + 1)
    <3>1. Logged("command") \o << >> = Logged("command")
          /\ Logged("command") \o <<read + 1>> = Append(Logged("command"), read + 1)
      BY <1>a, <1>c, <1>d, GlueMore
    <3>2. Append(Logged("command"), read + 1) \in Seq(Nat)
      BY <1>a, <1>c, <1>d, AppendProperties
    <3>3. QED
      BY <3>1, <3>2, <1>d, GlueMore
  <2>6. shown' \in Seq(Nat) /\ Len(shown') = Len(shown) + 1
    BY <1>a, <1>d, <2>1, AppendProperties
  <2>7. Logged("command")' \o buffer' = shown'
    BY <2>1, <2>3, <2>4, <2>5
  <2>8. OutputIsKept' /\ KeysAreKept'
    BY <1>0, <1>d, <2>1, <2>3, <2>6, <2>7 DEF KeysAreKept, OutputIsKept
  <2>9. BuffersAreEmpty' /\ OutputIsRead'
    BY <1>0, <1>a, <2>1, <2>4, <2>6 DEF BuffersAreEmpty, OutputIsRead, Drained, AtRest, Broken
  <2>10. QED
    BY <2>8, <2>9 DEF TextInv
<1>7. CASE Prints
  <2>1. PICK ends \in BOOLEAN : printed' = Append(printed, ends)
    BY <1>7 DEF Prints
  <2>2. Len(printed') = Len(printed) + 1
    BY <1>a, <2>1
  <2>3. /\ process = "running" /\ fd # 0
        /\ UNCHANGED <<pc, outcome, fd, process, buffer, typed, journal, read, keys, shown, passed, lost>>
    BY <1>7 DEF Prints
  <2>4. ~(pc \in Drained /\ outcome \notin Broken)
    BY <1>0, <2>3 DEF OutputIsRead
  <2>5. BuffersAreEmpty' /\ OutputIsRead'
    BY <1>0, <1>a, <2>2, <2>3, <2>4 DEF BuffersAreEmpty, OutputIsRead
  <2>6. OutputIsKept' /\ KeysAreKept'
    BY <1>0, <2>3, LoggedStays DEF OutputIsKept, KeysAreKept
  <2>7. QED
    BY <2>5, <2>6 DEF TextInv
<1>8. CASE SendWrites
  <2>1. UNCHANGED <<pc, outcome, fd, process, buffer, typed, printed, read, keys, shown, passed, lost>>
    BY <1>8 DEF SendWrites
  <2>2. <<sends>> \in Seq(Nat) /\ (journal' = journal \/ Journals("automated", <<sends>>))
    BY <1>a, <1>8 DEF SendWrites
  <2>3. Logged("command")' = Logged("command") /\ Logged("user")' = Logged("user")
    BY <1>b, <1>e, <2>2, LoggedStays
  <2>4. QED
    BY <1>0, <2>1, <2>3 DEF TextInv, BuffersAreEmpty, OutputIsRead, OutputIsKept, KeysAreKept
<1>9. QED
  BY <1>1, <1>2, <1>3, <1>4, <1>5, <1>6, <1>7, <1>8

(* A finally block that was not run to its end stays so, unless the        *)
(* program ends.                                                           *)
LEMMA StuckStays == [Next]_vars /\ ~stuck' => ~stuck \/ Killed
BY DEF Next, Main, Goes, clientVars, termVars, textVars, seenVars, workVars, mainVars, vars, TimerSteps,
   Sender, ClearJournal, AddCommand, Spawn, ErrorHandled, MakeRaw, NoTerminal, ReadOutput, ShowFails,
   ReadKeys, PassFails, SeeExit, LogKeys, FlushOutput, DrainOutput, DrainFails, DrainEnds, Restore,
   RestoreFails, Release, Finish, CallbackFails, CancelTimer, Forget, Execute, Start, Stop, Signal,
   Interrupt, Prints, Exit, Fire, FlushForSnapshot, DecideNext, ArmNext, SendChecks, SendPolls,
   SendWrites, SendFails

(* All of them.                                                            *)
LEMMA TextOfStep ==
  ASSUME ~stuck, ~stuck', RInv, TextType, TextInv, [Next]_vars
  PROVE  TextInv'
<1>1. CASE FlushOutput \/ Finish \/ CallbackFails
  <2>1. FlushBuffer /\ typed' = typed /\ UNCHANGED workVars
        /\ \/ pc = "flushing" /\ pc' = "draining" /\ outcome' = outcome
           \/ /\ pc = "finishing" /\ pc' = "cancelling" /\ UNCHANGED <<fd, process>>
              /\ outcome' \notin Broken => outcome \notin Broken
    BY <1>1 DEF FlushOutput, Finish, CallbackFails, Goes, clientVars, termVars, seenVars, workVars, mainVars,
       RInv, OutcomeTellsProcess, Broken
  <2>2. QED
    BY <2>1, FlushKeeps
<1>2. CASE \E t \in Timers : FlushForSnapshot(t)
  <2>1. FlushBuffer /\ typed' = typed /\ UNCHANGED workVars /\ UNCHANGED <<pc, outcome, fd, process>>
    BY <1>2 DEF FlushForSnapshot, clientVars, termVars, seenVars, workVars, mainVars
  <2>2. QED
    BY <2>1, FlushKeeps
<1>3. ~RestoreFails
  BY DEF RestoreFails
<1>4. QED
  BY <1>1, <1>2, <1>3, TextOfMain, TextOfOthers, TextOfWriters, TextOfErrors, TextOfTheEnd
     DEF Next, Main, TimerSteps, Sender

(* Only send_input journals automated input, and only the next command     *)
(* clears it.                                                              *)
LEMMA SentOfStep == TextType /\ SentInputIsJournaled /\ [Next]_vars => SentInputIsJournaled'
<1> SUFFICES ASSUME TextType, SentInputIsJournaled, [Next]_vars PROVE SentInputIsJournaled'
  OBVIOUS
<1> USE DEF Goes, clientVars, termVars, textVars, seenVars, workVars, mainVars, sendVars
<1>a. /\ journal \in Seq(Entries) /\ buffer \in Seq(Nat) /\ typed \in Seq(Nat) /\ delivered \in Seq(Nat)
      /\ read \in Nat /\ keys \in Nat /\ sends \in Nat
  BY DEF TextType
<1>b. "user" \in Sources /\ "command" \in Sources /\ "automated" \in Sources
  BY DEF Sources
<1>c. \A source \in Sources, text \in Seq(Nat) : Journals(source, text) =>
         \A other \in Sources : Logged(other)' =
              IF other = source THEN Logged(other) \o text ELSE Logged(other)
  BY LoggedGrows
<1>1. CASE journal' = journal /\ delivered' = delivered
  BY <1>1, LoggedStays DEF SentInputIsJournaled
<1>2. CASE /\ delivered' = delivered
           /\ \E source \in {"user", "command"}, text \in Seq(Nat) : Journals(source, text)
  BY <1>b, <1>c, <1>2 DEF SentInputIsJournaled
<1>3. CASE ClearJournal \/ Killed
  BY <1>3, LoggedNothing DEF ClearJournal, Killed, SentInputIsJournaled, Logged, LoggedIn, TextsIn
<1>4. CASE SendWrites
  <2>1. CASE fd # 0
    <3>1. <<sends>> \in Seq(Nat) /\ Journals("automated", <<sends>>) /\ delivered' = Append(delivered, sends)
      BY <1>a, <1>4, <2>1 DEF SendWrites, Reaches
    <3>2. Logged("automated")' = Logged("automated") \o <<sends>>
      BY <1>b, <1>c, <3>1
    <3>3. delivered \o <<sends>> = Append(delivered, sends)
      BY <1>a, GlueMore
    <3>4. QED
      BY <3>1, <3>2, <3>3 DEF SentInputIsJournaled
  <2>2. CASE fd = 0
    BY <1>1, <1>4, <2>2 DEF SendWrites, Reaches
  <2>3. QED
    BY <2>1, <2>2
<1>5. CASE AddCommand \/ ReadOutput \/ ReadKeys \/ LogKeys \/ DrainOutput
  <2>1. /\ <<0>> \in Seq(Nat) /\ Append(buffer, read + 1) \in Seq(Nat)
        /\ Append(typed, keys + 1) \in Seq(Nat) /\ <<read + 1>> \in Seq(Nat)
    BY <1>a, AppendProperties
  <2>2. /\ delivered' = delivered
        /\ \/ journal' = journal \/ Journals("user", <<0>>)
           \/ Journals("command", Append(buffer, read + 1))
           \/ Journals("user", Append(typed, keys + 1)) \/ Journals("user", typed)
           \/ Journals("command", <<read + 1>>)
    BY <1>5 DEF AddCommand, ReadOutput, ReadKeys, LogKeys, DrainOutput
  <2>3. QED
    BY <1>a, <1>1, <1>2, <2>1, <2>2
<1>6. CASE FlushOutput \/ Finish \/ CallbackFails \/ \E t \in Timers : FlushForSnapshot(t)
  <2>1. delivered' = delivered /\ Journals("command", buffer)
    BY <1>6 DEF FlushOutput, Finish, CallbackFails, FlushForSnapshot, FlushBuffer
  <2>2. QED
    BY <1>a, <1>2, <2>1
<1>7. CASE \/ Spawn \/ ErrorHandled \/ MakeRaw \/ NoTerminal \/ SeeExit \/ DrainEnds \/ Restore \/ Release
           \/ CancelTimer \/ Forget \/ Interrupt \/ Execute \/ Start \/ Stop \/ Signal \/ Exit \/ Prints
           \/ SendChecks \/ SendPolls \/ SendFails \/ UNCHANGED vars
           \/ ShowFails \/ PassFails \/ DrainFails \/ RestoreFails
           \/ \E t \in Timers : Fire(t) \/ DecideNext(t) \/ ArmNext(t)
  BY <1>1, <1>7 DEF Spawn, ErrorHandled, MakeRaw, NoTerminal, SeeExit, DrainEnds, Restore, Release,
     CancelTimer, Forget, Interrupt, Execute, Start, Stop, Signal, Exit, Prints, SendChecks,
     SendPolls, SendFails, ShowFails, PassFails, DrainFails, RestoreFails, vars, Fire, DecideNext, ArmNext
<1>8. QED
  BY <1>3, <1>4, <1>5, <1>6, <1>7 DEF Next, Main, TimerSteps, Sender

(* The journal and the buffers at every place of execute_command.          *)
KeptInv == ~stuck => TextInv

THEOREM TextInvariant == Spec => [](TextType /\ KeptInv /\ SentInputIsJournaled)
<1>1. Init => TextType /\ KeptInv /\ SentInputIsJournaled
  <2> SUFFICES ASSUME Init PROVE TextType /\ TextInv /\ SentInputIsJournaled
    BY DEF KeptInv
  <2>1. TextType
    BY DEF Init, TextType
  <2>2. \A source : Logged(source) = << >>
    BY LoggedNothing, LoggedIsLoggedIn DEF Init
  <2>3. /\ buffer = << >> /\ typed = << >> /\ pc = "idle" /\ read = 0 /\ keys = 0 /\ printed = << >>
        /\ delivered = << >> /\ shown = << >> /\ Len(<< >>) = 0
    BY DEF Init
  <2>4. OutputIsKept
    <3>1. << >> \in Seq(Nat) /\ << >> \o << >> = << >> /\ IsPrefix(<< >>, << >>)
      <4>1. << >> \in Seq(Nat)
        OBVIOUS
      <4>2. QED
        BY <4>1, GlueMore, PrefixFacts
    <3>2. QED
      BY <2>2, <2>3, <3>1 DEF OutputIsKept
  <2>5. BuffersAreEmpty /\ OutputIsRead /\ KeysAreKept
    BY <2>3 DEF BuffersAreEmpty, OutputIsRead, KeysAreKept, Drained
  <2>6. QED
    BY <2>1, <2>2, <2>3, <2>4, <2>5 DEF TextInv, SentInputIsJournaled
<1>2. RInv /\ TextType /\ KeptInv /\ SentInputIsJournaled /\ [Next]_vars
        => (TextType /\ KeptInv /\ SentInputIsJournaled)'
  <2> SUFFICES ASSUME RInv, TextType, KeptInv, SentInputIsJournaled, [Next]_vars
               PROVE  (TextType /\ KeptInv /\ SentInputIsJournaled)'
    OBVIOUS
  <2>1. TextType' /\ SentInputIsJournaled'
    BY TypeOfText, SentOfStep
  <2>2. CASE ~stuck
    BY <2>1, <2>2, TextOfStep DEF KeptInv
  <2>3. CASE stuck /\ Killed
    BY <2>1, <2>3, TextOfTheEnd DEF KeptInv
  <2>4. QED
    BY <2>1, <2>2, <2>3, StuckStays DEF KeptInv
<1>3. QED
  BY <1>1, <1>2, RestoredInvariant, PTL DEF Spec

(* What reached the user's screen, or the command from its user, is in the *)
(* journal or in a buffer, once and in its order, although a timer's thread *)
(* flushes between any two steps of the loop, and on_session_complete gets *)
(* it all; an error or an exception costs no more than the end of it. (All *)
(* as long as no finally block was cut short.)                             *)
THEOREM NothingIsLostTheorem == Spec => []NothingIsLost
<1>1. RInv /\ TextType /\ KeptInv => NothingIsLost
  BY DEF KeptInv, TextInv, TextType, BuffersAreEmpty, AtRest, OutputIsRead, OutputIsKept, KeysAreKept, Drained,
     Broken, NothingIsLost
<1>2. QED
  BY <1>1, RestoredInvariant, TextInvariant, PTL

(* Whenever the command ends, the journal shows exactly the automated input *)
(* that reached its terminal.                                               *)
THEOREM SentInputTheorem == Spec => []SentInputIsJournaled
BY TextInvariant, PTL

=============================================================================
