------------------------------- MODULE AIJobs -------------------------------
(***************************************************************************)
(* The AI job pipeline of internal/usecase/ai/service.go: the ai_jobs      *)
(* table and every goroutine that writes it.                               *)
(*                                                                         *)
(*   requests        POST /meetings/:id/process-ai (StartProcessing)       *)
(*   hooks           AssemblyAI webhook handlers                           *)
(*   PendingWorker   pendingJobWorker: submits pending jobs                *)
(*   TimeoutWorker   webhookTimeoutWorker: polls for missed webhooks       *)
(*   ZombieWorker    cleanupZombieJobs: re-opens abandoned summaries       *)
(*   SummaryWorkers  summaryWorker: claims a transcript and summarises it  *)
(*                                                                         *)
(* One action is one SQL statement (or one call of an external service)    *)
(* together with the local control flow up to the next one: the handlers   *)
(* run no transactions, so every other interleaving is possible.           *)
(***************************************************************************)
EXTENDS Naturals, FiniteSets

CONSTANTS
  NumJobs,         \* bound: rows of ai_jobs; a job's number is its created_at order
  Tids,            \* bound: transcript ids AssemblyAI may hand out
  Meetings,        \* rooms a recording can belong to
  Requests,        \* concurrent process-ai requests
  Hooks,           \* concurrent AssemblyAI webhook handlers
  SummaryWorkers,  \* StartWorkerPool(ctx, 3)
  PendingWorker, TimeoutWorker, ZombieWorker,
  UploadSlots,     \* capacity of uploadSemaphore, 2 in the code
  MaxRetries,      \* ai_jobs.max_retries, 3 in the code
  PollLimit,       \* LIMIT of the pending poll, 5 in the code
  ScanLimit,       \* LIMIT of GetJobsByStatus, 10 in the code
  MaxDeliveries,   \* bound: times AssemblyAI may deliver one webhook
  Announced,       \* transcript states AssemblyAI announces by webhook
  MaxFaults,       \* bound: failed statements, cancelled requests and crashes
  SlowWorkers,     \* may a live summary worker still run ten minutes after its claim?
  NoTid            \* external_job_id IS NULL

NoJob == 0
Jobs  == 1 .. NumJobs
Submitters == Requests \union {PendingWorker}
Pollers    == {PendingWorker, TimeoutWorker, ZombieWorker}
Actors     == Submitters \union Hooks \union SummaryWorkers \union {TimeoutWorker, ZombieWorker}
Events     == {"processing", "completed", "error"}

ASSUME BoundsAssumption ==
  /\ NumJobs \in Nat /\ UploadSlots \in Nat /\ MaxRetries \in Nat
  /\ PollLimit \in Nat /\ ScanLimit \in Nat /\ MaxDeliveries \in Nat /\ MaxFaults \in Nat
  /\ Meetings # {} /\ SlowWorkers \in BOOLEAN /\ Announced \subseteq Events

ASSUME NamesAssumption ==
  /\ NoTid \notin Tids
  /\ Requests \intersect Hooks = {}
  /\ SummaryWorkers \intersect (Requests \union Hooks) = {}
  /\ Pollers \intersect (Requests \union Hooks \union SummaryWorkers) = {}
  /\ PendingWorker # TimeoutWorker /\ PendingWorker # ZombieWorker
  /\ TimeoutWorker # ZombieWorker

VARIABLES
  job,       \* the ai_jobs table
  asm,       \* AssemblyAI: the job each transcript was requested for, its state
  webhooks,  \* AssemblyAI: webhook calls still to come, per transcript and event
  stored,    \* transcripts table: the AssemblyAI transcripts that have a row
  summary,   \* meeting_summaries table: transcript the meeting's row was made from
  at,        \* where each goroutine stands and what it holds in its locals
  batch,     \* rows a polling worker has read and not yet handled
  takers,    \* history: summary workers that took the job since its status was last set
  faults     \* statements failed, requests cancelled and crashes so far

vars == <<job, asm, webhooks, stored, summary, at, batch, takers, faults>>

Statuses == {"none", "pending", "submitted", "processing", "transcript_ready",
             "summarizing", "completed", "failed"}
PCs == {"idle", "acquire", "attempt", "await", "store", "ready", "processing", "touch",
        "claim", "work", "finish", "fail_read", "fail_write", "exhausted"}

AIJob  == [status : Statuses, meeting : Meetings, ext : Tids \union {NoTid},
           retries : Nat, old : BOOLEAN]
Local  == [pc : PCs, job : Jobs \union {NoJob}, tid : Tids \union {NoTid},
           arg : Statuses]
Row    == [job : Jobs, ext : Tids \union {NoTid}]

TypeOK ==
  /\ job \in [Jobs -> AIJob]
  /\ asm \in [Tids -> [job : Jobs \union {NoJob},
                       state : {"none", "queued", "completed", "error"}]]
  /\ webhooks \in [Tids -> [Events -> Nat]]
  /\ stored \in SUBSET Tids
  /\ summary \in [Meetings -> Tids \union {NoTid}]
  /\ at \in [Actors -> Local]
  /\ batch \in [Pollers -> SUBSET Row]
  /\ takers \in [Jobs -> SUBSET SummaryWorkers]
  /\ faults \in Nat

\* Where a goroutine stands, the job it works on, and what else it has read.
Frame(pc, j, t, s) == [pc |-> pc, job |-> j, tid |-> t, arg |-> s]
At(pc, j)          == Frame(pc, j, NoTid, "none")
Idle               == At("idle", NoJob)

NewAIJob(m) == [status |-> "pending", meeting |-> m, ext |-> NoTid, retries |-> 0, old |-> FALSE]

NoRow == [NewAIJob(CHOOSE m \in Meetings : TRUE) EXCEPT !.status = "none"]

Init ==
  /\ job = [j \in Jobs |-> NoRow]
  /\ asm = [t \in Tids |-> [job |-> NoJob, state |-> "none"]]
  /\ webhooks = [t \in Tids |-> [e \in Events |-> 0]]
  /\ stored = {}
  /\ summary = [m \in Meetings |-> NoTid]
  /\ at = [a \in Actors |-> Idle]
  /\ batch = [p \in Pollers |-> {}]
  /\ takers = [j \in Jobs |-> {}]
  /\ faults = 0

-----------------------------------------------------------------------------
(* The table's queries and updates *)

InStatus(s) == {j \in Jobs : job[j].status = s}

\* Mutant: the claim trusts the row read by the poll.
ClaimsStaleRow(j, s) == TRUE

\* UPDATE ... WHERE id = j AND status = s affects a row
Claims(j, s) == job[j].status = s

\* ORDER BY created_at ASC LIMIT n
Page(S, n) == {j \in S : Cardinality({k \in S : k < j}) < n}
IsOldest(j, S) == j \in S /\ \A k \in S : j <= k

\* What a poll keeps of the rows it read: the ids, or also the external ids.
Rows(S)       == {[job |-> j, ext |-> NoTid] : j \in S}
RowsWithId(S) == {[job |-> j, ext |-> job[j].ext] : j \in S}

\* Every write of a row renews updated_at.
Write(j, row) == job' = [job EXCEPT ![j] = [row EXCEPT !.old = FALSE]]

WriteStatus(j, s) ==
  /\ Write(j, [job[j] EXCEPT !.status = s])
  /\ takers' = [takers EXCEPT ![j] = {}]

Goto(a, pc)  == at' = [at EXCEPT ![a] = At(pc, @.job)]
Return(a)    == at' = [at EXCEPT ![a] = Idle]

-----------------------------------------------------------------------------
(* Where jobs come from *)

CanInsert(j) == /\ job[j].status = "none"
                /\ \A k \in Jobs : k < j => job[k].status # "none"

\* handleEgressEndedV2: the webhook only inserts the row, the worker submits it.
EgressEnded(m) ==
  /\ \E j \in Jobs : CanInsert(j) /\ job' = [job EXCEPT ![j] = NewAIJob(m)]
  /\ UNCHANGED <<asm, webhooks, stored, summary, at, batch, takers, faults>>

\* StartProcessing: insert a pending row, then submit it without claiming it.
StartProcessing(r, m) ==
  /\ at[r] = Idle
  /\ \E j \in Jobs :
       /\ CanInsert(j)
       /\ job' = [job EXCEPT ![j] = NewAIJob(m)]
       /\ at' = [at EXCEPT ![r] = At("acquire", j)]
  /\ UNCHANGED <<asm, webhooks, stored, summary, batch, takers, faults>>

PollPending ==
  /\ at[PendingWorker] = Idle /\ batch[PendingWorker] = {}
  /\ InStatus("pending") # {}
  /\ batch' = [batch EXCEPT ![PendingWorker] = Rows(Page(InStatus("pending"), PollLimit))]
  /\ UNCHANGED <<job, asm, webhooks, stored, summary, at, takers, faults>>

\* The claim: UPDATE ... SET status = 'submitted' WHERE id = ? AND status = 'pending'.
ClaimPending ==
  /\ at[PendingWorker] = Idle
  /\ \E r \in batch[PendingWorker] :
       /\ IsOldest(r.job, {q.job : q \in batch[PendingWorker]})
       /\ batch' = [batch EXCEPT ![PendingWorker] = @ \ {r}]
       /\ IF Claims(r.job, "pending")
          THEN /\ WriteStatus(r.job, "submitted")
               /\ at' = [at EXCEPT ![PendingWorker] = At("acquire", r.job)]
          ELSE UNCHANGED <<job, takers, at>>
  /\ UNCHANGED <<asm, webhooks, stored, summary, faults>>

-----------------------------------------------------------------------------
(* SubmitToAssemblyAI, run by a request or by the pending worker *)

\* The semaphore slot is held from here until the function returns.
Uploading == {a \in Submitters : at[a].pc \notin {"idle", "acquire"}}

Acquire(a) ==
  /\ at[a].pc = "acquire"
  /\ Cardinality(Uploading) < UploadSlots
  /\ Goto(a, "attempt")
  /\ UNCHANGED <<job, asm, webhooks, stored, summary, batch, takers, faults>>

\* Mutant: transcriptID is shared by the running uploads instead of local to each.
SubmitSharedId(a) ==
  /\ at[a].pc = "attempt"
  /\ \E t \in Tids :
       /\ asm[t].state = "none"
       /\ asm' = [asm EXCEPT ![t] = [job |-> at[a].job, state |-> "queued"]]
       /\ at' = [b \in Actors |->
                   IF b = a THEN [at[b] EXCEPT !.pc = "await", !.tid = t]
                   ELSE IF at[b].pc = "await" THEN [at[b] EXCEPT !.tid = t] ELSE at[b]]
  /\ UNCHANGED <<job, webhooks, stored, summary, batch, takers, faults>>

\* Upload, then TranscribeFromURL: AssemblyAI has the transcript before the call returns.
Submit(a) ==
  /\ at[a].pc = "attempt"
  /\ \E t \in Tids :
       /\ asm[t].state = "none"
       /\ asm' = [asm EXCEPT ![t] = [job |-> at[a].job, state |-> "queued"]]
       /\ at' = [at EXCEPT ![a] = Frame("await", at[a].job, t, "none")]
       /\ webhooks' = [webhooks EXCEPT ![t]["processing"] =
                         IF "processing" \in Announced THEN MaxDeliveries ELSE 0]
  /\ UNCHANGED <<job, stored, summary, batch, takers, faults>>

\* The call returns and MarkJobAsSubmitted records the id, whatever the row says by now.
MarkJobAsSubmitted(a) ==
  /\ at[a].pc = "await"
  /\ Write(at[a].job, [job[at[a].job] EXCEPT !.status = "submitted", !.ext = at[a].tid])
  /\ takers' = [takers EXCEPT ![at[a].job] = {}]
  /\ Return(a)
  /\ UNCHANGED <<asm, webhooks, stored, summary, batch, faults>>

\* Download, upload, transcription or the write fails: back off and try again, with a
\* new transcript, or give up after 30 seconds.
AttemptFails(a) ==
  /\ \/ at[a].pc = "await" /\ Goto(a, "attempt")
     \/ at[a].pc \in {"attempt", "await"} /\ Goto(a, "fail_read")
  /\ UNCHANGED <<job, asm, webhooks, stored, summary, batch, takers, faults>>

-----------------------------------------------------------------------------
(* MarkJobAsFailed, run by any of the others: read, conditional update, update *)

\* Mutants: a status the table does not know; every failure retried as a summary.
RetryAsRetrying(j) == "retrying"
RetryAsReady(j)    == "transcript_ready"

RetryStatus(j) == IF job[j].status = "summarizing" THEN "transcript_ready" ELSE "pending"

FailRead(a) ==
  /\ at[a].pc = "fail_read"
  /\ at' = [at EXCEPT ![a] = Frame("fail_write", @.job, NoTid, RetryStatus(@.job))]
  /\ UNCHANGED <<job, asm, webhooks, stored, summary, batch, takers, faults>>

\* Mutants: the bound is one too high, one too low.
RetryLeftHigh(j) == job[j].retries <= MaxRetries
RetryLeftLow(j)  == job[j].retries + 1 < MaxRetries

RetryLeft(j) == job[j].retries < MaxRetries

\* Mutant: the retry is not counted.
RetriedFree(row, s) == [row EXCEPT !.status = s]

Retried(row, s) == [row EXCEPT !.retries = @ + 1, !.status = s]

\* UPDATE ... SET retry_count = retry_count + 1 WHERE retry_count < max_retries
FailWrite(a) ==
  LET j == at[a].job IN
  /\ at[a].pc = "fail_write"
  /\ IF RetryLeft(j)
     THEN /\ Write(j, Retried(job[j], at[a].arg))
          /\ takers' = [takers EXCEPT ![j] = {}]
          /\ Return(a)
     ELSE Goto(a, "exhausted") /\ UNCHANGED <<job, takers>>
  /\ UNCHANGED <<asm, webhooks, stored, summary, batch, faults>>

FailExhausted(a) ==
  /\ at[a].pc = "exhausted"
  /\ WriteStatus(at[a].job, "failed")
  /\ Return(a)
  /\ UNCHANGED <<asm, webhooks, stored, summary, batch, faults>>

-----------------------------------------------------------------------------
(* HandleAssemblyAIWebhook *)

HandlerFor(e) == CASE e = "processing" -> "processing"
                   [] e = "completed"  -> "store"
                   [] e = "error"      -> "fail_read"

\* A webhook arrives, late, in any order, several times or never, and the handler looks
\* up its job (GetAIJobByExternalID). If no row has the id, it answers with an error.
Deliver(h, t, e) ==
  LET found == {j \in Jobs : job[j].ext = t} IN
  /\ at[h] = Idle
  /\ webhooks[t][e] > 0
  /\ webhooks' = [webhooks EXCEPT ![t][e] = @ - 1]
  /\ \/ \E j \in found :
          at' = [at EXCEPT ![h] = Frame(HandlerFor(e), j, t, "none")]
     \/ found = {} /\ UNCHANGED at
  /\ UNCHANGED <<job, asm, stored, summary, batch, takers, faults>>

MarkProcessing(h) ==
  /\ at[h].pc = "processing"
  /\ WriteStatus(at[h].job, "processing")
  /\ Return(h)
  /\ UNCHANGED <<asm, webhooks, stored, summary, batch, faults>>

-----------------------------------------------------------------------------
(* handleCompletedTranscript, run by a webhook handler or the timeout worker *)

\* Mutant: a failed insert is logged and the job goes on.
StoreUnchecked(a) ==
  /\ at[a].pc = "store"
  /\ \/ stored' = stored \union {at[a].tid}
     \/ stored' = stored
  /\ Goto(a, "ready")
  /\ UNCHANGED <<job, asm, webhooks, summary, batch, takers, faults>>

StoreTranscript(a) ==
  /\ at[a].pc = "store"
  /\ stored' = stored \union {at[a].tid}
  /\ Goto(a, "ready")
  /\ UNCHANGED <<job, asm, webhooks, summary, batch, takers, faults>>

\* Fetching or inserting fails: the webhook handler only answers with an error (Abandon),
\* the timeout worker marks the job failed.
StoreFails ==
  /\ at[TimeoutWorker].pc = "store"
  /\ Goto(TimeoutWorker, "fail_read")
  /\ UNCHANGED <<job, asm, webhooks, stored, summary, batch, takers, faults>>

\* UpdateAIJobStatus(transcript_ready), whatever the row says by now.
MarkReady(a) ==
  /\ at[a].pc = "ready"
  /\ WriteStatus(at[a].job, "transcript_ready")
  /\ Return(a)
  /\ UNCHANGED <<asm, webhooks, stored, summary, batch, faults>>

-----------------------------------------------------------------------------
(* webhookTimeoutWorker *)

\* Mutant: a submitted job without an external id is left alone.
StuckWithId(j) == job[j].status = "submitted" /\ job[j].old /\ job[j].ext # NoTid

Stuck(j) == job[j].status = "submitted" /\ job[j].old

PollStuck ==
  LET stuck == {j \in Jobs : Stuck(j)} IN
  /\ at[TimeoutWorker] = Idle /\ batch[TimeoutWorker] = {}
  /\ stuck # {}
  /\ batch' = [batch EXCEPT ![TimeoutWorker] = RowsWithId(stuck)]
  /\ UNCHANGED <<job, asm, webhooks, stored, summary, at, takers, faults>>

\* Ask AssemblyAI about the id read with the row, if there is one.
NextStep(t) == IF t = NoTid THEN "fail_read"
               ELSE CASE asm[t].state = "completed" -> "store"
                      [] asm[t].state = "error"     -> "fail_read"
                      [] OTHER                      -> "touch"

CheckStuck ==
  /\ at[TimeoutWorker] = Idle
  /\ \E r \in batch[TimeoutWorker] :
       /\ batch' = [batch EXCEPT ![TimeoutWorker] = @ \ {r}]
       /\ at' = [at EXCEPT ![TimeoutWorker] =
                   Frame(NextStep(r.ext), r.job, r.ext, "none")]
  /\ UNCHANGED <<job, asm, webhooks, stored, summary, takers, faults>>

\* Still transcribing: renew updated_at and nothing else.
Touch ==
  /\ at[TimeoutWorker].pc = "touch"
  /\ Write(at[TimeoutWorker].job, job[at[TimeoutWorker].job])
  /\ Return(TimeoutWorker)
  /\ UNCHANGED <<asm, webhooks, stored, summary, batch, takers, faults>>

-----------------------------------------------------------------------------
(* summaryWorker and cleanupZombieJobs *)

PollReady(w) ==
  /\ at[w] = Idle
  /\ \E j \in InStatus("transcript_ready") :
       /\ IsOldest(j, InStatus("transcript_ready"))
       /\ at' = [at EXCEPT ![w] = At("claim", j)]
  /\ UNCHANGED <<job, asm, webhooks, stored, summary, batch, takers, faults>>

\* UPDATE ... SET status = 'summarizing' WHERE id = ? AND status = 'transcript_ready'
ClaimReady(w) ==
  LET j == at[w].job IN
  /\ at[w].pc = "claim"
  /\ IF Claims(j, "transcript_ready")
     THEN /\ Write(j, [job[j] EXCEPT !.status = "summarizing"])
          /\ takers' = [takers EXCEPT ![j] = @ \union {w}]
          /\ Goto(w, "work")
     ELSE Return(w) /\ UNCHANGED <<job, takers>>
  /\ UNCHANGED <<asm, webhooks, stored, summary, batch, faults>>

TranscriptsOf(m) == {t \in stored : job[asm[t].job].meeting = m}

\* Some transcript of the meeting is summarised and the meeting's row upserted.
StoreSummary(w) ==
  LET m == job[at[w].job].meeting IN
  \E t \in TranscriptsOf(m) : summary' = [summary EXCEPT ![m] = t]

\* One of JobEnd's attempts gets through. What follows in the function is only logged on
\* failure.
Summarize(w) ==
  /\ at[w].pc = "work"
  /\ StoreSummary(w)
  /\ Goto(w, "finish")
  /\ UNCHANGED <<job, asm, webhooks, stored, batch, takers, faults>>

\* Mutant: the error of the last attempt is dropped.
SummaryFailureIgnored(w) ==
  /\ at[w].pc = "work"
  /\ Goto(w, "finish")
  /\ UNCHANGED <<job, asm, webhooks, stored, summary, batch, takers, faults>>

\* A non-retryable error, three failed attempts or the five minutes are over. The upsert of
\* an attempt may have been done all the same, when only its answer was lost.
SummaryFails(w) ==
  /\ at[w].pc = "work"
  /\ StoreSummary(w) \/ UNCHANGED summary
  /\ Goto(w, "fail_read")
  /\ UNCHANGED <<job, asm, webhooks, stored, batch, takers, faults>>

\* UpdateAIJobStatus(completed), whatever the row says by now.
Finish(w) ==
  /\ at[w].pc = "finish"
  /\ WriteStatus(at[w].job, "completed")
  /\ Return(w)
  /\ UNCHANGED <<asm, webhooks, stored, summary, batch, faults>>

PollZombies ==
  LET zombies == {j \in Page(InStatus("summarizing"), ScanLimit) : job[j].old} IN
  /\ batch[ZombieWorker] = {}
  /\ zombies # {}
  /\ batch' = [batch EXCEPT ![ZombieWorker] = Rows(zombies)]
  /\ UNCHANGED <<job, asm, webhooks, stored, summary, at, takers, faults>>

ResetZombie ==
  /\ \E r \in batch[ZombieWorker] :
       /\ IsOldest(r.job, {q.job : q \in batch[ZombieWorker]})
       /\ batch' = [batch EXCEPT ![ZombieWorker] = @ \ {r}]
       /\ WriteStatus(r.job, "transcript_ready")
  /\ UNCHANGED <<asm, webhooks, stored, summary, at, faults>>

-----------------------------------------------------------------------------
(* The environment: AssemblyAI, time and failures *)

AsmFinish(t, s) ==
  /\ asm[t].state = "queued"
  /\ asm' = [asm EXCEPT ![t].state = s]
  /\ webhooks' = [webhooks EXCEPT ![t][s] = IF s \in Announced THEN MaxDeliveries ELSE 0]
  /\ UNCHANGED <<job, stored, summary, at, batch, takers, faults>>

Summarizing(w, j) == at[w].job = j /\ at[w].pc \notin {"idle", "claim"}

\* Ten minutes go by without a write of the row. A summary runs under a five-minute
\* context, so a live worker is only caught by this when SlowWorkers.
Age(j) ==
  /\ job[j].status \in {"submitted", "summarizing"} /\ ~job[j].old
  /\ \/ SlowWorkers \/ job[j].status = "submitted"
     \/ \A w \in SummaryWorkers : ~Summarizing(w, j)
  /\ job' = [job EXCEPT ![j].old = TRUE]
  /\ UNCHANGED <<asm, webhooks, stored, summary, at, batch, takers, faults>>

\* A statement fails, or the request's context is cancelled: the rest of the operation
\* fails with it, and what was written stays written. In a worker, a failure at one of
\* the Guarded places is an AttemptFails, StoreFails or SummaryFails instead.
Guarded == {"attempt", "await", "store", "work"}

Abandon(a) ==
  /\ at[a] # Idle /\ faults < MaxFaults
  /\ a \in Requests \union Hooks \/ at[a].pc \notin Guarded
  /\ Return(a)
  /\ faults' = faults + 1
  /\ UNCHANGED <<job, asm, webhooks, stored, summary, batch, takers>>

\* A worker's first statement about a row fails, or AssemblyAI cannot be reached: it goes
\* on with the next row. The stuck jobs come in no order.
SkipRow(p) ==
  /\ at[p] = Idle /\ faults < MaxFaults
  /\ \E r \in batch[p] :
       /\ p = TimeoutWorker \/ IsOldest(r.job, {q.job : q \in batch[p]})
       /\ batch' = [batch EXCEPT ![p] = @ \ {r}]
  /\ faults' = faults + 1
  /\ UNCHANGED <<job, asm, webhooks, stored, summary, at, takers>>

\* The process stops, gracefully or not, and is started again.
Crash ==
  /\ faults < MaxFaults
  /\ at' = [a \in Actors |-> Idle]
  /\ batch' = [p \in Pollers |-> {}]
  /\ faults' = faults + 1
  /\ UNCHANGED <<job, asm, webhooks, stored, summary, takers>>

-----------------------------------------------------------------------------
(* The specification *)

Marking(a) == FailRead(a) \/ FailWrite(a) \/ FailExhausted(a)

Upload(a) == Acquire(a) \/ Submit(a) \/ MarkJobAsSubmitted(a) \/ AttemptFails(a)

Request(r) == Upload(r) \/ Marking(r)

Hook(h) == MarkProcessing(h) \/ StoreTranscript(h) \/ MarkReady(h) \/ Marking(h)

PendingJobWorker ==
  PollPending \/ ClaimPending \/ Upload(PendingWorker) \/ Marking(PendingWorker)

WebhookTimeoutWorker ==
  \/ PollStuck \/ CheckStuck \/ Touch
  \/ StoreTranscript(TimeoutWorker) \/ StoreFails \/ MarkReady(TimeoutWorker)
  \/ Marking(TimeoutWorker)

SummaryWorker(w) ==
  PollReady(w) \/ ClaimReady(w) \/ Summarize(w) \/ SummaryFails(w) \/ Finish(w) \/ Marking(w)

CleanupZombieJobs == PollZombies \/ ResetZombie

\* Nothing left to do: every recording is settled (or left in 'processing', which no
\* worker looks at) and every goroutine is back at its ticker.
Quiescent ==
  /\ \A j \in Jobs : job[j].status \in {"completed", "failed", "processing"}
  /\ \A a \in Actors : at[a] = Idle
  /\ \A p \in Pollers : batch[p] = {}
  /\ UNCHANGED vars

Next ==
  \/ \E m \in Meetings : EgressEnded(m)
  \/ \E r \in Requests : (\E m \in Meetings : StartProcessing(r, m)) \/ Request(r)
  \/ \E h \in Hooks : (\E t \in Tids, e \in Events : Deliver(h, t, e)) \/ Hook(h)
  \/ PendingJobWorker
  \/ WebhookTimeoutWorker
  \/ CleanupZombieJobs
  \/ \E w \in SummaryWorkers : SummaryWorker(w)
  \/ \E t \in Tids, s \in {"completed", "error"} : AsmFinish(t, s)
  \/ \E j \in Jobs : Age(j)
  \/ \E a \in Actors : Abandon(a)
  \/ \E p \in Pollers : SkipRow(p)
  \/ Crash
  \/ Quiescent

Spec == Init /\ [][Next]_vars

\* The tickers keep firing and a started operation goes on (each has a timeout of its
\* own), time passes and AssemblyAI answers every request in the end. That a webhook is
\* delivered is not assumed, nor that any request, egress or fault ever happens.
Fairness ==
  /\ \A r \in Requests : WF_vars(Request(r))
  /\ \A h \in Hooks : WF_vars(Hook(h))
  /\ WF_vars(PendingJobWorker)
  /\ WF_vars(WebhookTimeoutWorker)
  /\ WF_vars(CleanupZombieJobs)
  /\ \A w \in SummaryWorkers : WF_vars(SummaryWorker(w))
  /\ \A t \in Tids : WF_vars(\E s \in {"completed", "error"} : AsmFinish(t, s))
  /\ \A j \in Jobs : WF_vars(Age(j))

FairSpec == Spec /\ Fairness

-----------------------------------------------------------------------------
(* Properties *)

\* AssemblyAI made transcript t for job j; a transcript of j is stored; the summary of
\* j's meeting was made from a stored transcript of that meeting.
Requested(t, j)  == asm[t].job = j /\ asm[t].state # "none"
HasTranscript(j) == \E t \in stored : asm[t].job = j
HasSummary(j)    == summary[job[j].meeting] \in TranscriptsOf(job[j].meeting)

\* MarkJobAsFailed is called by six places that race on one row; the guard in its
\* UPDATE keeps retry_count within max_retries all the same.
RetriesBounded == \A j \in Jobs : job[j].retries <= MaxRetries

\* A job is given up only when its retries are used up, although the statement that
\* says 'failed' runs after, and separately from, the one that found none left.
FailedOnlyWhenExhausted ==
  \A j \in Jobs : job[j].status = "failed" => job[j].retries = MaxRetries

\* The external id of a job is a transcript requested for that job: uploads that run
\* at the same time, retries and second submissions never exchange their ids. The
\* webhook handler, which finds the job by this id alone, depends on it.
ExternalIdOwned ==
  \A j \in Jobs : job[j].ext # NoTid => Requested(job[j].ext, j)

\* A job waits for its summary, is being summarised or is completed only when a
\* transcript of its own recording is stored, whichever webhook, poll, retry or
\* clean-up brought it there.
TranscriptBeforeSummary ==
  \A j \in Jobs : job[j].status \in {"transcript_ready", "summarizing", "completed"} =>
                    HasTranscript(j)

\* A completed job's meeting has a summary, made from a stored transcript of that
\* meeting: 'completed' is written after the work and without looking at the row.
CompletedHasSummary ==
  \A j \in Jobs : job[j].status = "completed" => HasSummary(j)

\* "Only one worker will succeed if multiple workers see the same job": from one time
\* a job's status is set to the next, at most one summary worker takes it.
OneTakerPerOpening == \A j \in Jobs : Cardinality(takers[j]) <= 1

\* A job goes back to the submission queue only by spending one of its retries, so the
\* uploads of a recording that failures can cause are bounded.
RequeueSpendsRetry ==
  [][\A j \in Jobs :
       (job[j].status # "none" /\ job[j].status # "pending" /\ job'[j].status = "pending")
         => job'[j].retries = job[j].retries + 1]_vars

\* Every recording is settled in the end, completed or given up, with no webhook ever
\* delivered, with workers dying at any point and with any call failing.
EveryJobSettles ==
  \A j \in Jobs : job[j].status # "none" ~> job[j].status \in {"completed", "failed"}

-----------------------------------------------------------------------------
(* The inductive invariant, of which the safety properties are parts: what the locals *)
(* of a goroutine between two statements still say about the tables.                   *)

\* A goroutine that is not at its ticker works on a job, and holds what it needs next.
WithTranscript == {"await", "store"}
RetryStatuses  == {"pending", "transcript_ready"}

Busy ==
  \A a \in Actors : /\ at[a].pc # "idle" => at[a].job \in Jobs
                    /\ at[a].pc \in WithTranscript => at[a].tid \in Tids
                    /\ at[a].pc = "fail_write" => at[a].arg \in RetryStatuses

\* Whatever a goroutine or AssemblyAI refers to has been inserted.
Created ==
  /\ \A j \in Jobs : job[j].status = "none" => job[j].ext = NoTid /\ job[j].retries = 0
  /\ \A a \in Actors : at[a].pc # "idle" => job[at[a].job].status # "none"
  /\ \A p \in Pollers : \A r \in batch[p] : job[r.job].status # "none"
  /\ \A t \in Tids : asm[t].state # "none" =>
                       asm[t].job \in Jobs /\ job[asm[t].job].status # "none"

Budget ==
  /\ RetriesBounded /\ FailedOnlyWhenExhausted
  /\ \A a \in Actors : at[a].pc = "exhausted" => job[at[a].job].retries = MaxRetries

Lineage ==
  /\ \A j \in Jobs : job[j].ext # NoTid => Requested(job[j].ext, j)
  /\ \A a \in Actors : at[a].pc \in WithTranscript => Requested(at[a].tid, at[a].job)
  /\ \A r \in batch[TimeoutWorker] : r.ext # NoTid => Requested(r.ext, r.job)
  /\ \A t \in stored : asm[t].state # "none"

Evidence ==
  /\ TranscriptBeforeSummary /\ CompletedHasSummary
  /\ \A r \in batch[ZombieWorker] : HasTranscript(r.job)
  /\ \A a \in Actors :
       /\ at[a].pc \in {"ready", "work", "finish"} => HasTranscript(at[a].job)
       /\ at[a].pc = "finish" => HasSummary(at[a].job)
       /\ at[a].pc = "fail_write" /\ at[a].arg = "transcript_ready" => HasTranscript(at[a].job)

Taken ==
  /\ \A j \in Jobs : job[j].status # "summarizing" => takers[j] = {}
  /\ \A j \in Jobs : \A v, w \in takers[j] : v = w

-----------------------------------------------------------------------------
(* The abstract pipeline *)

PhaseOf(s) ==
  CASE s = "none"                                    -> "none"
    [] s \in {"pending", "submitted", "processing"}  -> "waiting"
    [] s \in {"transcript_ready", "summarizing"}     -> "ready"
    [] s = "completed"                               -> "done"
    [] s = "failed"                                  -> "dead"

Pipeline == INSTANCE AIPipeline WITH
  Recordings  <- Jobs,
  phase       <- [j \in Jobs |-> PhaseOf(job[j].status)],
  meeting     <- [j \in Jobs |-> job[j].meeting],
  spent       <- [j \in Jobs |-> job[j].retries],
  transcribed <- {asm[t].job : t \in stored},
  summarized  <- {m \in Meetings : summary[m] # NoTid}

\* The statements of all the handlers and workers, in any interleaving and with any
\* faults, do nothing that the eight transitions of AIPipeline do not allow.
ImplementsPipeline == Pipeline!Spec

-----------------------------------------------------------------------------
(* What the comments of the code say, and the code does not do *)

\* "Update external_job_id IMMEDIATELY to avoid race with webhook; Webhook can arrive
\* within seconds, must have external_job_id in DB first": a webhook that
\* is delivered finds its job.
WebhookFindsJob ==
  [][\A t \in Tids, e \in Events :
       webhooks'[t][e] < webhooks[t][e] => \E j \in Jobs : job[j].ext = t]_vars

\* "Use WHERE clause with current status to ensure only one worker claims it": no two
\* goroutines submit the same job at the same time.
OneSubmitterPerJob ==
  \A a, b \in Submitters : a # b /\ at[a] # Idle /\ at[b] # Idle => at[a].job # at[b].job

=============================================================================
