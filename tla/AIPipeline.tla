----------------------------- MODULE AIPipeline -----------------------------
(***************************************************************************)
(* What the AI job pipeline promises for every recording, with no          *)
(* goroutine, query or webhook in sight.  A recording waits for its        *)
(* transcript, is ready for its summary, is done, or is dead.  It may fall *)
(* back at any time (a late upload, a webhook delivered twice), but it     *)
(* moves forward only on evidence that is never taken back, and it is      *)
(* given up only after all its retries.                                    *)
(***************************************************************************)
EXTENDS Naturals

CONSTANTS Recordings, Meetings, MaxRetries

VARIABLES
  phase,        \* phase of each recording
  meeting,      \* the meeting it was made in
  spent,        \* retries it has used
  transcribed,  \* recordings with a stored transcript
  summarized    \* meetings with a stored summary

vars == <<phase, meeting, spent, transcribed, summarized>>

Phases == {"none", "waiting", "ready", "done", "dead"}

Init ==
  /\ phase = [j \in Recordings |-> "none"]
  /\ meeting \in [Recordings -> Meetings]
  /\ spent = [j \in Recordings |-> 0]
  /\ transcribed = {}
  /\ summarized = {}

Record(j, m) ==
  /\ phase[j] = "none"
  /\ phase' = [phase EXCEPT ![j] = "waiting"]
  /\ meeting' = [meeting EXCEPT ![j] = m]
  /\ UNCHANGED <<spent, transcribed, summarized>>

Enter(j, p) == phase[j] # "none" /\ phase' = [phase EXCEPT ![j] = p]

\* An upload returns, or AssemblyAI reports progress.
Submit(j) == Enter(j, "waiting") /\ UNCHANGED <<meeting, spent, transcribed, summarized>>

Transcribe(j) ==
  /\ phase[j] # "none"
  /\ transcribed' = transcribed \union {j}
  /\ UNCHANGED <<phase, meeting, spent, summarized>>

Open(j) ==
  /\ j \in transcribed
  /\ Enter(j, "ready")
  /\ UNCHANGED <<meeting, spent, transcribed, summarized>>

Summarize(j) ==
  /\ j \in transcribed
  /\ summarized' = summarized \union {meeting[j]}
  /\ UNCHANGED <<phase, meeting, spent, transcribed>>

Complete(j) ==
  /\ j \in transcribed /\ meeting[j] \in summarized
  /\ Enter(j, "done")
  /\ UNCHANGED <<meeting, spent, transcribed, summarized>>

Retry(j) ==
  /\ spent[j] < MaxRetries
  /\ spent' = [spent EXCEPT ![j] = @ + 1]
  /\ \/ Enter(j, "waiting")
     \/ j \in transcribed /\ Enter(j, "ready")
  /\ UNCHANGED <<meeting, transcribed, summarized>>

GiveUp(j) ==
  /\ spent[j] = MaxRetries
  /\ Enter(j, "dead")
  /\ UNCHANGED <<meeting, spent, transcribed, summarized>>

Next ==
  \E j \in Recordings :
    \/ \E m \in Meetings : Record(j, m)
    \/ Submit(j) \/ Transcribe(j) \/ Open(j) \/ Summarize(j) \/ Complete(j)
    \/ Retry(j) \/ GiveUp(j)

Spec == Init /\ [][Next]_vars

=============================================================================
