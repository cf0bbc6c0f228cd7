------------------------------ MODULE SessionLog -------------------------------
(***************************************************************************)
(* What the session store promises of a conversation: it is recorded       *)
(* message by message, "so an interrupted or crashed turn leaves a         *)
(* resumable session rather than nothing" (agent/sessions.py).  What a     *)
(* resume would show only grows at its end; a failure costs at most the    *)
(* record at the end; and nothing but a deletion takes the rest away.      *)
(***************************************************************************)
EXTENDS SequencesExt

CONSTANTS
    Sessions,   \* session ids
    Message,    \* the messages that can be recorded
    Unreadable  \* what a resume shows in the place of a damaged record

VARIABLE
    history     \* what a resume of each session would show

LogInit == history = [s \in Sessions |-> <<>>]

(* A message is recorded, or its record is damaged.                        *)
Record(s) ==
    \E m \in Message \cup {Unreadable} :
        history' = [history EXCEPT ![s] = Append(@, m)]

(* The latest record is damaged after all.                                 *)
Spoil(s) ==
    /\ history[s] # <<>>
    /\ history' = [history EXCEPT ![s] = Append(Front(@), Unreadable)]

Delete(s) == history' = [history EXCEPT ![s] = <<>>]

LogNext == \E s \in Sessions : Record(s) \/ Spoil(s) \/ Delete(s)

LogSpec == LogInit /\ [][LogNext]_history
=============================================================================
