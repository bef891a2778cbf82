---------------------------- MODULE SummaryContract ----------------------------
(***************************************************************************)
(* What the readers of a meeting's summary are promised, with no worker,   *)
(* attempt or query in sight.  The meeting gets one summary, of one of its *)
(* transcripts, and keeps it: only its text may be written anew.  Its      *)
(* action items are listed one after the other and never taken back.  A    *)
(* job is completed only when there is a summary.                          *)
(***************************************************************************)
EXTENDS Naturals

CONSTANTS Jobs, Transcripts, Ids, MaxItems

VARIABLES
  made,       \* the summary's id and transcript; {} while there is none
  listed,     \* action items listed so far
  completed   \* completed jobs

vars == <<made, listed, completed>>

Init == made = {} /\ listed = 0 /\ completed = {}

Make(i, t) ==
  /\ made = {}
  /\ made' = {[id |-> i, transcript |-> t]}
  /\ UNCHANGED <<listed, completed>>

List ==
  /\ made # {} /\ listed < MaxItems
  /\ listed' = listed + 1
  /\ UNCHANGED <<made, completed>>

Complete(j) ==
  /\ made # {}
  /\ completed' = completed \union {j}
  /\ UNCHANGED <<made, listed>>

\* A late webhook opens the job again.
Reopen(j) ==
  /\ completed' = completed \ {j}
  /\ UNCHANGED <<made, listed>>

Next ==
  \/ \E i \in Ids, t \in Transcripts : Make(i, t)
  \/ List
  \/ \E j \in Jobs : Complete(j) \/ Reopen(j)

Spec == Init /\ [][Next]_vars

=============================================================================
