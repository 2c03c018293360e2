-------------------------- MODULE HistoryCompaction -------------------------
(***************************************************************************)
(* HistoryCompactor: what becomes of the dialogue of an agent once its run *)
(* is over and the texts it said reach most of the context window. The     *)
(* result is announced to the caller; no session is changed by it.         *)
(*                                                                         *)
(* A message is [role, size]: the tokens litellm counts for it.            *)
(***************************************************************************)
EXTENDS Naturals, SequencesExt

CONSTANTS
  Window,      \* _get_context_window(): tokens
  SummarySize  \* tokens of a summary the model gives

MINIMUM_RECENT_MESSAGES == 4

(* The strategy the agent names, or else the one of the policy. *)
GetHistoryStrategy(history, policy) == IF history # "none" THEN history ELSE policy

Message(role, size) == [role |-> role, size |-> size]

CountTokens(messages) ==
  LET upTo[n \in 0..Len(messages)] ==
        IF n = 0 THEN 0 ELSE upTo[n - 1] + messages[n].size
  IN  upTo[Len(messages)]

(* extract_messages_from_events: events without text leave no message. *)
ExtractMessages(texts) ==
  LET upTo[n \in 0..Len(texts)] ==
        IF n = 0 THEN << >>
        ELSE IF texts[n] > 0 THEN Append(upTo[n - 1], Message("assistant", texts[n]))
        ELSE upTo[n - 1]
  IN  upTo[Len(texts)]

(* 80 % of the window starts a compaction, half of it is its target. *)
ShouldCompact(messages) == CountTokens(messages) >= (80 * Window) \div 100

Target == Window \div 2

Ending(messages, n) == SubSeq(messages, Len(messages) - n + 1, Len(messages))

(* MUTANT: the tokens of the first message are not counted. *)
Fits_RecentOnly(messages, n) == CountTokens(Ending(messages, n)) <= Target

Fits(messages, n) ==
  messages[1].size + CountTokens(Ending(messages, n)) <= Target

(* TruncateStrategy: the first message, and going back from the last one   *)
(* as many as fit; sizes only add up, so that the loop stops for good.     *)
Truncate(messages) ==
  IF Len(messages) <= MINIMUM_RECENT_MESSAGES THEN messages
  ELSE LET taken == Cardinality({n \in 1..(Len(messages) - 1) : Fits(messages, n)})
       IN  <<messages[1]>> \o Ending(messages, taken)

(* SummarizeLlmAdapter answers with the model's summary, which may be      *)
(* empty, and with the first characters of the text when there is none.    *)
SummaryTexts == {0, 1, SummarySize}

(* SummarizeStrategy: what lies between the first message and the last     *)
(* four becomes one message, however much those weigh.                     *)
Summarize(messages, size) ==
  LET recent == Ending(messages, MINIMUM_RECENT_MESSAGES)
  IN  IF Len(messages) <= MINIMUM_RECENT_MESSAGES + 1 THEN messages
      ELSE <<messages[1]>>
             \o (IF size > 0 THEN <<Message("system", size)>> ELSE << >>) \o recent

(* _get_strategy: without a model to summarize, or with any other name, a  *)
(* strategy truncates.                                                     *)
Compactions(messages, strategy) ==
  IF strategy = "summarize" THEN {Summarize(messages, size) : size \in SummaryTexts}
  ELSE {Truncate(messages)}

(* The HistoryCompactionEvents check_and_compact_history may yield: one,   *)
(* or none when nothing was said or it does not weigh enough.              *)
Announcement(messages, kept) ==
  [original |-> CountTokens(messages), compacted |-> CountTokens(kept),
   removed |-> Len(messages) - Len(kept)]
=============================================================================
