--------------------------- MODULE ConversationLog ---------------------------
(***************************************************************************)
(* What the session layer promises to the user, without tools, files and   *)
(* the steps of a turn: a conversation that the program has opened only    *)
(* grows at its end or is summarised on request, and a crash takes back at *)
(* most what was being saved when it struck. A saved conversation that the *)
(* program has not opened is opened as it is, or begun anew: the files it  *)
(* cannot read are not kept from that.                                     *)
(***************************************************************************)
EXTENDS Integers, Sequences

CONSTANTS SessionIds, Says, IsSummary(_)

VARIABLES
  live,   \* id -> the conversation the program goes on with
  saved,  \* id -> the conversation a restart would find
  open    \* the conversations this run of the program has opened

vars == <<live, saved, open>>

Missing == [status |-> "absent", log |-> << >>]
Damaged == [status |-> "torn",   log |-> << >>]
Kept(l) == [status |-> "whole",  log |-> l]

Init ==
  /\ live  = [s \in SessionIds |-> Missing]
  /\ saved = [s \in SessionIds |-> Missing]
  /\ open  = {}

(* A change starts from a conversation that is saved, and the saved one is *)
(* unusable until Save.                                                    *)
Changes(s) ==
  /\ saved[s] = live[s]
  /\ saved' = [saved EXCEPT ![s] = Damaged]
  /\ open'  = open \cup {s}

Becomes(s, l) == live' = [live EXCEPT ![s] = Kept(l)]

(* The first time this run of the program meets the conversation: it goes  *)
(* on from what is saved, or from nothing.                                 *)
Open(s) ==
  /\ s \notin open
  /\ live[s].status = "whole"
  /\ open' = open \cup {s}
  /\ UNCHANGED <<live, saved>>

Begin(s) == s \notin open /\ Changes(s) /\ Becomes(s, << >>)

Say(s) ==
  /\ s \in open
  /\ Changes(s)
  /\ \E e \in Says : Becomes(s, Append(live[s].log, e))

(* Housekeeping: everything but the conversation may be rewritten. *)
Tidy(s) == s \in open /\ Changes(s) /\ Becomes(s, live[s].log)

(* A prefix of the conversation stays and a summary replaces the rest. *)
Summarise(s) ==
  /\ s \in open
  /\ Changes(s)
  /\ \E n \in 0..Len(live[s].log), e \in Says :
       IsSummary(e) /\ Becomes(s, Append(SubSeq(live[s].log, 1, n), e))

Save(s) ==
  /\ s \in open
  /\ saved[s] = Damaged
  /\ saved' = [saved EXCEPT ![s] = live[s]]
  /\ UNCHANGED <<live, open>>

Crash ==
  /\ live' = saved
  /\ open' = {}
  /\ UNCHANGED saved

Next ==
  \/ \E s \in SessionIds :
       Open(s) \/ Begin(s) \/ Say(s) \/ Tidy(s) \/ Summarise(s) \/ Save(s)
  \/ Crash

Spec == Init /\ [][Next]_vars
============================================================================
