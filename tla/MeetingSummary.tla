---------------------------- MODULE MeetingSummary -----------------------------
(***************************************************************************)
(* From the transcripts of one meeting to its summary and back to the      *)
(* reader: the end of handleCompletedTranscript, JobEnd running            *)
(* generateMeetingSummary in a summary worker, and GetMeetingSummary of    *)
(* the API, over the tables transcripts, transcript_utterances,            *)
(* meeting_summaries and action_items.                                     *)
(*                                                                         *)
(* This is the inside of the actions StoreTranscript, Summarize and        *)
(* SummaryFails of AIJobs, one action per statement and per call of Groq.  *)
(* How jobs get from one status to the next is AIJobs' matter: here a job  *)
(* only has the statuses that its meeting's reader tells apart.            *)
(***************************************************************************)
EXTENDS Naturals, FiniteSets

CONSTANTS
  MaxJobs,         \* bound: jobs of the meeting, numbered by created_at
  MaxTranscripts,  \* bound: transcripts; a transcript's number is its place in id order
  MaxIds,          \* bound: ids of MeetingSummary values, one for each that is made
  MaxItems,        \* action items of an analysis, at most
  MaxAttempts,     \* jobcontext: attempts of a claim, 3
  SlowWorkers,     \* whether a summary may outlive the ten minutes of cleanupZombieJobs: not all
                   \* of its statements end with the five minutes of its context
  Workers, Hooks, Readers,  \* summary workers, running webhooks and running requests
  Sweeps           \* bound: jobs that cleanupZombieJobs has found and still has to reset

ASSUME SummaryBounds ==
  /\ MaxJobs \in Nat \ {0} /\ MaxTranscripts \in Nat /\ MaxIds \in Nat
  /\ MaxItems \in Nat /\ MaxAttempts \in Nat \ {0}
  /\ SlowWorkers \in BOOLEAN
ASSUME SummaryNames ==
  /\ Workers \intersect (Hooks \union Readers \union Sweeps) = {}
  /\ Hooks \intersect (Readers \union Sweeps) = {}
  /\ Readers \intersect Sweeps = {}

VARIABLES
  jobs,         \* ai_jobs: the status of each job of the meeting
  transcripts,  \* the transcripts table
  spoken,       \* transcripts with rows in transcript_utterances
  row,          \* meeting_summaries: room_id is unique, so at most one row
  items,        \* action_items
  ids,          \* ids used so far
  at            \* each goroutine: its next step and what it holds in its locals

vars == <<jobs, transcripts, spoken, row, items, ids, at>>

Jobs        == 1..MaxJobs
Transcripts == 1..MaxTranscripts
Ids         == 1..MaxIds
Items       == 1..MaxItems
Goroutines  == Workers \union Hooks \union Readers \union Sweeps
None        == 0

\* The statuses in which a job is nothing to a summary worker and nothing to the reader are
\* one, "other".
Statuses == {"other", "transcript_ready", "summarizing", "completed"}

\* What ValidateTranscriptLength makes of a transcript: too short in any case, long enough
\* only with the labels of its speakers, or long enough.
Lengths == {"short", "labelled", "long"}

PCs == {"idle", "store_utterances", "mark_ready",
        "transcript", "utterances", "groq", "save_minimal", "save", "items", "touch",
        "finish", "mark_failed", "reset", "read_jobs", "read_items", "told"}

Transcript   == [length : Lengths, summary : BOOLEAN]
NoTranscript == [length |-> "none"]
Row          == [id : Ids, transcript : Transcripts]   \* no property reads its texts
NoRow        == [id |-> None]
Item         == [summary : Ids, place : Items]
Local        == [pc : PCs, job : Jobs \union {None}, transcript : Transcripts \union {None},
                 id : Ids \union {None}, place : Nat, attempt : Nat,
                 snap : Row \union {NoRow}]

TypeOK ==
  /\ jobs \in [Jobs -> Statuses]
  /\ transcripts \in [Transcripts -> Transcript \union {NoTranscript}]
  /\ spoken \in SUBSET Transcripts
  /\ row \in Row \union {NoRow}
  /\ items \in SUBSET Item
  /\ ids \in 0..MaxIds
  /\ at \in [Goroutines -> Local]

Idle == [pc |-> "idle", job |-> None, transcript |-> None, id |-> None, place |-> 0,
         attempt |-> 0, snap |-> NoRow]

Init ==
  /\ jobs = [j \in Jobs |-> "other"]
  /\ transcripts = [t \in Transcripts |-> NoTranscript]
  /\ spoken = {} /\ row = NoRow /\ items = {} /\ ids = 0
  /\ at = [g \in Goroutines |-> Idle]

-----------------------------------------------------------------------------

Stored    == {t \in Transcripts : transcripts[t] # NoTranscript}
HasRow    == row # NoRow

Step(g, local) == at' = [at EXCEPT ![g] = local]
Goto(g, pc)    == Step(g, [at[g] EXCEPT !.pc = pc])
Done(g)        == Step(g, Idle)
SetJob(j, s)   == jobs' = [jobs EXCEPT ![j] = s]

-----------------------------------------------------------------------------
(* handleCompletedTranscript, for a webhook that may come again at any time *)

\* The id is random: the new row may come before the others of the meeting or after.
CreateTranscript(g, j) ==
  /\ at[g] = Idle
  /\ \E t \in Transcripts \ Stored, len \in Lengths :
       /\ transcripts' = [transcripts EXCEPT ![t] = [length |-> len, summary |-> FALSE]]
       /\ Step(g, [Idle EXCEPT !.pc = "store_utterances", !.job = j, !.transcript = t])
  /\ UNCHANGED <<jobs, spoken, row, items, ids>>

\* A second statement. If it fails, or there are none, the transcript goes without.
CreateUtterances(g) ==
  /\ at[g].pc = "store_utterances"
  /\ \/ spoken' = spoken \union {at[g].transcript}
     \/ UNCHANGED spoken
  /\ Step(g, [Idle EXCEPT !.pc = "mark_ready", !.job = at[g].job])
  /\ UNCHANGED <<jobs, transcripts, row, items, ids>>

MarkReady(g) ==
  /\ at[g].pc = "mark_ready"
  /\ SetJob(at[g].job, "transcript_ready")
  /\ Done(g)
  /\ UNCHANGED <<transcripts, spoken, row, items, ids>>

\* The statement fails, which is only logged: the transcript stays.
HookFails(g) ==
  /\ at[g].pc = "mark_ready"
  /\ Done(g)
  /\ UNCHANGED <<jobs, transcripts, spoken, row, items, ids>>

-----------------------------------------------------------------------------
(* summaryWorker: a claim, then JobBegin and JobEnd *)

Claim(w, j) ==
  /\ at[w] = Idle
  /\ jobs[j] = "transcript_ready"
  /\ SetJob(j, "summarizing")
  /\ Step(w, [Idle EXCEPT !.pc = "transcript", !.job = j])
  /\ UNCHANGED <<transcripts, spoken, row, items, ids>>

\* The next round of JobEnd's loop.
Again(w) == [Idle EXCEPT !.pc = "transcript", !.job = at[w].job, !.attempt = at[w].attempt + 1]

\* Mutant: the attempts are not counted.
AfterErrorForever(w, retryable) ==
  IF retryable THEN [Again(w) EXCEPT !.attempt = at[w].attempt]
                              ELSE [Idle EXCEPT !.pc = "mark_failed", !.job = at[w].job]

\* Mutant: the error of the last attempt is dropped.
AfterErrorDropped(w, retryable) ==
  IF retryable /\ at[w].attempt + 1 < MaxAttempts
  THEN Again(w)
  ELSE [Idle EXCEPT !.pc = "finish", !.job = at[w].job]

\* The text of an error decides, and nothing says what a driver or a service writes into it.
IsRetryableError == BOOLEAN

\* JobEnd after an error: IsRetryableError and the attempts decide. The five minutes of
\* JobBegin cut an attempt wherever it stands, as an error that is not retried.
AfterError(w, retryable) ==
  IF retryable /\ at[w].attempt + 1 < MaxAttempts
  THEN Again(w)
  ELSE [Idle EXCEPT !.pc = "mark_failed", !.job = at[w].job]

-----------------------------------------------------------------------------
(* generateMeetingSummary *)

\* GetTranscriptByMeetingID: First, in the order of the primary key.
GetTranscript(w) ==
  /\ at[w].pc = "transcript"
  /\ \/ \E t \in Stored :
          /\ \A u \in Stored : t <= u
          /\ Step(w, [at[w] EXCEPT !.pc = "utterances", !.transcript = t])
     \/ Stored = {} /\ Step(w, AfterError(w, FALSE))
  /\ UNCHANGED <<jobs, transcripts, spoken, row, items, ids>>

TooShort(t) ==
  transcripts[t].length = "short" \/ (transcripts[t].length = "labelled" /\ t \notin spoken)

\* Mutant: a short transcript is analysed like the others.
NextForAll(w) == "groq"

AfterUtterances(w) ==
  IF TooShort(at[w].transcript) THEN "save_minimal" ELSE "groq"

GetUtterances(w) ==
  /\ at[w].pc = "utterances"
  /\ Goto(w, AfterUtterances(w))
  /\ UNCHANGED <<jobs, transcripts, spoken, row, items, ids>>

\* GenerateStructuredAnalysis, ParseGroqJSONResponse and ValidateAnalysisResult
Analyse(w) ==
  /\ at[w].pc = "groq"
  /\ Goto(w, "save")
  /\ UNCHANGED <<jobs, transcripts, spoken, row, items, ids>>

\* A query, the rate limiter, Groq or its answer fails, or the context has expired.
AttemptFails(w) ==
  /\ at[w].pc \in {"transcript", "utterances", "groq"}
  /\ \E retryable \in IsRetryableError : Step(w, AfterError(w, retryable))
  /\ UNCHANGED <<jobs, transcripts, spoken, row, items, ids>>

\* Mutant: the summary does not name its transcript.
UpsertUnlinked(i, t) == IF HasRow THEN row ELSE [id |-> i, transcript |-> None]

\* Mutant: the conflict gives the row the new id and the new transcript.
UpsertReplaces(i, t) == [id |-> i, transcript |-> t]

\* INSERT ... ON CONFLICT (room_id) DO UPDATE writes the texts of the row that is there and
\* leaves its id and transcript_id as they are.
Upsert(i, t) == IF HasRow THEN row ELSE [id |-> i, transcript |-> t]

Saving(w) == at[w].pc \in {"save", "save_minimal"}

Returned(w) == [Idle EXCEPT !.pc = "finish", !.job = at[w].job]

AfterSave(w, i) ==
  IF at[w].pc = "save"
  THEN [at[w] EXCEPT !.pc = "items", !.id = i, !.place = 1, !.attempt = 0]
  ELSE Returned(w)

\* A MeetingSummary value has an id of its own; nobody sees it before it is saved.
Store(w) ==
  /\ ids < MaxIds
  /\ ids' = ids + 1
  /\ row' = Upsert(ids + 1, at[w].transcript)

SaveMeetingSummary(w) ==
  /\ Saving(w)
  /\ Store(w)
  /\ Step(w, AfterSave(w, ids + 1))
  /\ UNCHANGED <<jobs, transcripts, spoken, items>>

\* The statement fails, or it is done and the connection is lost before the answer.
SaveFails(w) ==
  /\ Saving(w)
  /\ Store(w) \/ UNCHANGED <<row, ids>>
  /\ \E retryable \in IsRetryableError : Step(w, AfterError(w, retryable))
  /\ UNCHANGED <<jobs, transcripts, spoken, items>>

\* Mutant: action_items.summary_id refers to nothing.
HasParentAlways(i) == TRUE

\* The foreign key of action_items.summary_id (migration 003)
HasParent(i) == HasRow /\ row.id = i

NextPlace(w) == IF at[w].place < MaxItems THEN [at[w] EXCEPT !.place = @ + 1]
                                          ELSE [at[w] EXCEPT !.pc = "touch"]

\* One INSERT of SaveActionItems.
SaveActionItem(w) ==
  /\ at[w].pc = "items" /\ at[w].place <= MaxItems
  /\ HasParent(at[w].id)
  /\ items' = items \union {[summary |-> at[w].id, place |-> at[w].place]}
  /\ Step(w, NextPlace(w))
  /\ UNCHANGED <<jobs, transcripts, spoken, row, ids>>

\* Mutant: an item that is refused is skipped.
StopItemsSkips(w) ==
  /\ at[w].pc = "items"
  /\ Step(w, NextPlace(w))
  /\ UNCHANGED <<jobs, transcripts, spoken, row, items, ids>>

\* There are no more items, or an INSERT fails: the foreign key, the CHECKs on the type and
\* the priority that Groq has chosen, the connection. The error is only logged.
StopItems(w) ==
  /\ at[w].pc = "items"
  /\ Goto(w, "touch")
  /\ UNCHANGED <<jobs, transcripts, spoken, row, items, ids>>

\* UpdateTranscript saves the copy that was read, whose other fields nobody has changed. An
\* error, also that of the context that has expired, is logged.
UpdateTranscript(w) ==
  /\ at[w].pc = "touch"
  /\ \/ transcripts' = [transcripts EXCEPT ![at[w].transcript].summary = TRUE]
     \/ UNCHANGED transcripts
  /\ Step(w, Returned(w))
  /\ UNCHANGED <<jobs, spoken, row, items, ids>>

-----------------------------------------------------------------------------
(* The end of a claim *)

\* UpdateAIJobStatus(completed); an error leaves the job to cleanupZombieJobs.
Finish(w) ==
  /\ at[w].pc = "finish"
  /\ \/ SetJob(at[w].job, "completed")
     \/ UNCHANGED jobs
  /\ Done(w)
  /\ UNCHANGED <<transcripts, spoken, row, items, ids>>

\* MarkJobAsFailed: one more try from where the job stands, or no more; or an error.
MarkFailed(w) ==
  /\ at[w].pc = "mark_failed"
  /\ \/ \E s \in {"transcript_ready", "other"} : SetJob(at[w].job, s)
     \/ UNCHANGED jobs
  /\ Done(w)
  /\ UNCHANGED <<transcripts, spoken, row, items, ids>>

-----------------------------------------------------------------------------
(* cleanupZombieJobs *)

\* A row that is ten minutes old, when its worker may still be running if SlowWorkers.
FindZombie(z, j) ==
  /\ at[z] = Idle
  /\ jobs[j] = "summarizing"
  /\ SlowWorkers \/ \A w \in Workers : at[w].job # j
  /\ Step(z, [Idle EXCEPT !.pc = "reset", !.job = j])
  /\ UNCHANGED <<jobs, transcripts, spoken, row, items, ids>>

\* An UPDATE by id, whatever has become of the job since, or an error, which is ignored.
ResetZombie(z) ==
  /\ at[z].pc = "reset"
  /\ \/ SetJob(at[z].job, "transcript_ready")
     \/ UNCHANGED jobs
  /\ Done(z)
  /\ UNCHANGED <<transcripts, spoken, row, items, ids>>

\* The process dies, and its goroutines with it.
Restart ==
  /\ \E g \in Goroutines : at[g] # Idle
  /\ at' = [g \in Goroutines |-> Idle]
  /\ UNCHANGED <<jobs, transcripts, spoken, row, items, ids>>

-----------------------------------------------------------------------------
(* GetMeetingSummary and buildSummaryResponse *)

\* A query that fails counts as "no summary yet".
ReadSummary(r) ==
  /\ at[r] = Idle
  /\ \/ HasRow /\ Step(r, [Idle EXCEPT !.pc = "read_items", !.snap = row])
     \/ Step(r, [Idle EXCEPT !.pc = "read_jobs"])
  /\ UNCHANGED <<jobs, transcripts, spoken, row, items, ids>>

\* The status of the latest job becomes the answer: "completed", or another.
ReadJobs(r) ==
  /\ at[r].pc = "read_jobs"
  /\ IF jobs[MaxJobs] = "completed" THEN Goto(r, "told") ELSE Done(r)
  /\ UNCHANGED <<jobs, transcripts, spoken, row, items, ids>>

\* The chapters are those of the transcript of the row, the items those with its id: the
\* answer.
ReadItems(r) ==
  /\ at[r].pc = "read_items"
  /\ Done(r)
  /\ UNCHANGED <<jobs, transcripts, spoken, row, items, ids>>

Respond(r) ==
  /\ at[r].pc = "told"
  /\ Done(r)
  /\ UNCHANGED <<jobs, transcripts, spoken, row, items, ids>>

-----------------------------------------------------------------------------

Hook(g) ==
  \/ \E j \in Jobs : CreateTranscript(g, j)
  \/ CreateUtterances(g) \/ MarkReady(g) \/ HookFails(g)

\* What a worker does by itself once it has claimed a job.
Proceed(w) ==
  \/ GetTranscript(w) \/ GetUtterances(w) \/ Analyse(w) \/ AttemptFails(w)
  \/ SaveMeetingSummary(w) \/ SaveFails(w) \/ SaveActionItem(w) \/ StopItems(w)
  \/ UpdateTranscript(w) \/ Finish(w) \/ MarkFailed(w)

Reader(r) == ReadSummary(r) \/ ReadJobs(r) \/ ReadItems(r) \/ Respond(r)

Next ==
  \/ \E g \in Hooks : Hook(g)
  \/ \E w \in Workers : Proceed(w) \/ \E j \in Jobs : Claim(w, j)
  \/ \E r \in Readers : Reader(r)
  \/ \E z \in Sweeps : ResetZombie(z) \/ \E j \in Jobs : FindZombie(z, j)
  \/ Restart

Spec == Init /\ [][Next]_vars

\* A worker that has claimed a job keeps running until the process ends; calls of Groq and
\* of the database return, if only with an error.
Fairness == \A w \in Workers : WF_vars(Proceed(w))
FairSpec == Spec /\ Fairness

-----------------------------------------------------------------------------
(* Properties *)

\* A completed job has a summary behind it, and a reader who is told "job completed but
\* summary not available" (GetMeetingSummary: "shouldn't happen") only has looked for the
\* summary too early, or could not look: it is there.
NoSummaryOnlyByRace ==
  /\ \A j \in Jobs : jobs[j] = "completed" => HasRow
  /\ \A r \in Readers : at[r].pc = "told" => HasRow

\* The items of a meeting come from one analysis, the one that made the row: every later
\* attempt and every later job brings a new text, and no items.
ItemsOfOneAnalysis == \A i \in items : HasRow /\ i.summary = row.id

\* What is there of an analysis' items is the beginning of its list, although nothing
\* ties its statements together and every one of them may fail or be the last.
ItemsFromTheStart ==
  \A i \in items, p \in Items : p < i.place => [summary |-> i.summary, place |-> p] \in items

\* While a reader fetches chapters and items for the row he has read, the row keeps its
\* id and its transcript, however many workers write the summary again.
ReaderKeepsHisRow ==
  \A r \in Readers : at[r].snap # NoRow =>
                        /\ HasRow
                        /\ at[r].snap.id = row.id /\ at[r].snap.transcript = row.transcript

\* A transcript has a summary text of its own only if it was long enough to be analysed and
\* the meeting has its summary: that copy is written last, from what was read first.
TranscriptTextLast ==
  \A t \in Stored : transcripts[t].summary => HasRow /\ ~TooShort(t)

\* Every claim comes to an end, with the job completed or marked failed, whatever Groq and
\* the database answer: again and again each worker is without a job.
EveryClaimEnds == \A w \in Workers : []<>(at[w] = Idle)

\* The steps that a worker has still to take at most, from where it stands: first the
\* attempts, then the items of the one that has been saved.
Stage == [transcript |-> 3, utterances |-> 2, groq |-> 1, save |-> 0, save_minimal |-> 0]

StepsLeft(l) ==
  CASE l.pc = "idle"                     -> 0
    [] l.pc \in {"finish", "mark_failed"} -> 1
    [] l.pc = "touch"                    -> 2
    [] l.pc = "items"                    -> MaxItems + 4 - l.place
    [] OTHER -> MaxItems + 4 + 4 * (MaxAttempts - l.attempt) + Stage[l.pc]

\* A claim cannot go on for ever: whatever Groq and the database answer, each step of its
\* worker leaves fewer steps to take, errors, further attempts and refused items included,
\* and no webhook, reader, other worker or cleanupZombieJobs gives it a step more.
EveryStepCounts ==
  [][\A w \in Workers :
       at[w] # Idle => IF at'[w] = at[w] THEN ~Proceed(w)
                       ELSE StepsLeft(at'[w]) \in 0..(StepsLeft(at[w]) - 1)]_vars

Contract == INSTANCE SummaryContract WITH
  made      <- IF HasRow THEN {[id |-> row.id, transcript |-> row.transcript]} ELSE {},
  listed    <- Cardinality(items),
  completed <- {j \in Jobs : jobs[j] = "completed"}

\* For its readers this is SummaryContract: one summary, items listed one by one, and
\* completed jobs only when it is there.
ImplementsContract == Contract!Spec

=============================================================================
