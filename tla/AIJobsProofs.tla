---------------------------- MODULE AIJobsProofs ----------------------------
(* Theorems about AIJobs, for any number of jobs, transcripts, workers,      *)
(* requests, webhooks and faults, and any retry limit.                      *)
EXTENDS AIJobs, FiniteSetTheorems, TLAPS

StoringActors == Hooks \union {TimeoutWorker}

\* The steps of Next one by one, without the goroutine they belong to.
Step ==
  \/ \E m \in Meetings : EgressEnded(m)
  \/ \E r \in Requests, m \in Meetings : StartProcessing(r, m)
  \/ PollPending \/ ClaimPending
  \/ \E a \in Submitters :
       Acquire(a) \/ Submit(a) \/ MarkJobAsSubmitted(a) \/ AttemptFails(a)
  \/ \E a \in Actors : FailRead(a) \/ FailWrite(a) \/ FailExhausted(a) \/ Abandon(a)
  \/ \E h \in Hooks, t \in Tids, e \in Events : Deliver(h, t, e)
  \/ \E h \in Hooks : MarkProcessing(h)
  \/ \E a \in StoringActors : StoreTranscript(a) \/ MarkReady(a)
  \/ StoreFails \/ PollStuck \/ CheckStuck \/ Touch
  \/ \E w \in SummaryWorkers :
       PollReady(w) \/ ClaimReady(w) \/ Summarize(w) \/ SummaryFails(w) \/ Finish(w)
  \/ PollZombies \/ ResetZombie
  \/ \E t \in Tids, s \in {"completed", "error"} : AsmFinish(t, s)
  \/ \E j \in Jobs : Age(j)
  \/ \E p \in Pollers : SkipRow(p)
  \/ Crash
  \/ UNCHANGED vars

LEMMA NextIsStep == [Next]_vars => Step
  BY DEF Next, Step, Request, Hook, PendingJobWorker, WebhookTimeoutWorker, SummaryWorker,
         CleanupZombieJobs, Upload, Marking, Quiescent, StoringActors, Actors, Submitters

LEMMA SomeMeeting == (CHOOSE m \in Meetings : TRUE) \in Meetings
  BY BoundsAssumption

LEMMA FrameType ==
  ASSUME NEW pc \in PCs, NEW j \in Jobs \union {NoJob}, NEW t \in Tids \union {NoTid},
         NEW s \in Statuses
  PROVE  /\ Frame(pc, j, t, s) \in Local
         /\ Frame(pc, j, t, s).pc = pc /\ Frame(pc, j, t, s).job = j
  BY DEF Frame, Local

LEMMA AtType == ASSUME NEW pc \in PCs, NEW j \in Jobs PROVE At(pc, j) \in Local
  BY FrameType DEF At, Statuses

LEMMA IdleType == Idle \in Local
  BY FrameType DEF Idle, At, PCs, Statuses

LEMMA NewType == ASSUME NEW m \in Meetings PROVE NewAIJob(m) \in AIJob
  BY DEF NewAIJob, AIJob, Statuses

LEMMA NoRowType == NoRow \in AIJob
  BY SomeMeeting DEF NoRow, NewAIJob, AIJob, Statuses

LEMMA TypeInit == Init => TypeOK
  <1> SUFFICES ASSUME Init PROVE TypeOK
    OBVIOUS
  <1>1. job \in [Jobs -> AIJob] /\ at \in [Actors -> Local]
    BY NoRowType, IdleType DEF Init
  <1>2. asm \in [Tids -> [job : Jobs \union {NoJob}, state : {"none", "queued", "completed", "error"}]]
    BY DEF Init
  <1>3. QED
    BY <1>1, <1>2 DEF Init, TypeOK

\* What the updates of the model do to the types.
LEMMA WriteType ==
  ASSUME TypeOK, NEW j \in Jobs, NEW row \in AIJob, Write(j, row)
  PROVE  job' \in [Jobs -> AIJob]
  BY DEF Write, TypeOK, AIJob

LEMMA WriteStatusType ==
  ASSUME TypeOK, NEW j \in Jobs, NEW s \in Statuses, WriteStatus(j, s)
  PROVE  job' \in [Jobs -> AIJob] /\ takers' \in [Jobs -> SUBSET SummaryWorkers]
  <1>1. [job[j] EXCEPT !.status = s] \in AIJob
    BY DEF TypeOK, AIJob
  <1>2. QED
    BY <1>1, WriteType DEF WriteStatus, TypeOK

LEMMA GotoType ==
  ASSUME TypeOK, Busy, NEW a \in Actors, NEW pc \in PCs \ (WithTranscript \union {"fail_write"}),
         at[a].pc # "idle", Goto(a, pc)
  PROVE  at' \in [Actors -> Local] /\ Busy'
  <1>1. at[a].job \in Jobs /\ at' = [at EXCEPT ![a] = At(pc, at[a].job)]
    BY DEF Goto, Busy
  <1>2. /\ At(pc, at[a].job) \in Local
        /\ At(pc, at[a].job).job = at[a].job /\ At(pc, at[a].job).pc = pc
    BY <1>1, AtType DEF At, Frame
  <1>3. QED
    BY <1>1, <1>2 DEF TypeOK, Busy

LEMMA ReturnType ==
  ASSUME TypeOK, Busy, NEW a \in Actors, Return(a)
  PROVE  at' \in [Actors -> Local] /\ Busy'
  <1>1. Idle \in Local /\ Idle.pc = "idle" /\ at' = [at EXCEPT ![a] = Idle]
    BY IdleType DEF Return, Idle, At, Frame
  <1>2. QED
    BY <1>1 DEF TypeOK, Busy, WithTranscript

LEMMA SetType ==
  ASSUME TypeOK, Busy, NEW a \in Actors, NEW pc \in PCs, NEW j \in Jobs,
         NEW t \in Tids \union {NoTid}, NEW s \in Statuses,
         pc \in WithTranscript => t \in Tids, pc = "fail_write" => s \in RetryStatuses,
         at' = [at EXCEPT ![a] = Frame(pc, j, t, s)]
  PROVE  at' \in [Actors -> Local] /\ Busy'
  <1>1. /\ Frame(pc, j, t, s) \in Local
        /\ Frame(pc, j, t, s).pc = pc /\ Frame(pc, j, t, s).job = j
        /\ Frame(pc, j, t, s).tid = t /\ Frame(pc, j, t, s).arg = s
    BY FrameType DEF Frame
  <1>2. QED
    BY <1>1 DEF TypeOK, Busy

LEMMA SubmittedType ==
  ASSUME NEW row \in AIJob, NEW t \in Tids \union {NoTid}
  PROVE  [row EXCEPT !.status = "submitted", !.ext = t] \in AIJob
  BY DEF AIJob, Statuses

LEMMA StatusType ==
  ASSUME NEW row \in AIJob, NEW s \in Statuses
  PROVE  [row EXCEPT !.status = s] \in AIJob
  BY DEF AIJob

LEMMA RetriedType ==
  ASSUME NEW row \in AIJob, NEW s \in Statuses
  PROVE  Retried(row, s) \in AIJob
  <1>1. row.retries + 1 \in Nat
    BY DEF AIJob
  <1>2. QED
    BY <1>1 DEF Retried, AIJob

LEMMA BatchType ==
  ASSUME TypeOK, NEW p \in Pollers, NEW S \in SUBSET Row, batch' = [batch EXCEPT ![p] = S]
  PROVE  batch' \in [Pollers -> SUBSET Row]
  BY DEF TypeOK

LEMMA RowsType ==
  ASSUME TypeOK, NEW S \in SUBSET Jobs
  PROVE  Rows(S) \in SUBSET Row /\ RowsWithId(S) \in SUBSET Row
  BY DEF Rows, RowsWithId, Row, TypeOK, AIJob

LEMMA ActorSets ==
  /\ Submitters \subseteq Actors /\ StoringActors \subseteq Actors
  /\ Requests \subseteq Actors /\ Hooks \subseteq Actors /\ SummaryWorkers \subseteq Actors
  /\ PendingWorker \in Actors /\ TimeoutWorker \in Actors /\ ZombieWorker \in Actors
  /\ PendingWorker \in Pollers /\ TimeoutWorker \in Pollers /\ ZombieWorker \in Pollers
  BY DEF Actors, Submitters, StoringActors, Pollers

LEMMA BusyInit == Init => Busy
  BY DEF Init, Busy, Idle, At, Frame, WithTranscript

LEMMA TypeStep == TypeOK /\ Busy /\ [Next]_vars => TypeOK' /\ Busy'
  <1> SUFFICES ASSUME TypeOK, Busy, Step PROVE TypeOK' /\ Busy'
    BY NextIsStep
  <1> USE ActorSets
  <1>1. ASSUME NEW m \in Meetings, EgressEnded(m) PROVE TypeOK' /\ Busy'
    <2>1. job' \in [Jobs -> AIJob]
      BY <1>1, NewType DEF EgressEnded, TypeOK
    <2>2. QED
      BY <1>1, <2>1 DEF EgressEnded, TypeOK, Busy
  <1>2. ASSUME NEW r \in Requests, NEW m \in Meetings, StartProcessing(r, m) PROVE TypeOK' /\ Busy'
    <2>1. PICK j \in Jobs : job' = [job EXCEPT ![j] = NewAIJob(m)]
                            /\ at' = [at EXCEPT ![r] = At("acquire", j)]
      BY <1>2 DEF StartProcessing
    <2>2. job' \in [Jobs -> AIJob]
      BY <2>1, NewType DEF TypeOK
    <2>3. at' = [at EXCEPT ![r] = Frame("acquire", j, NoTid, "none")]
      BY <2>1 DEF At
    <2>4. at' \in [Actors -> Local] /\ Busy'
      BY <2>3, SetType DEF PCs, Statuses, WithTranscript
    <2>5. QED
      BY <1>2, <2>2, <2>4 DEF StartProcessing, TypeOK
  <1>3. CASE PollPending
    <2>1. Page(InStatus("pending"), PollLimit) \in SUBSET Jobs
      BY DEF Page, InStatus
    <2>2. batch' \in [Pollers -> SUBSET Row]
      BY <1>3, <2>1, RowsType, BatchType DEF PollPending
    <2>3. QED
      BY <1>3, <2>2 DEF PollPending, TypeOK, Busy
  <1>4. CASE ClaimPending
    <2>1. PICK r \in batch[PendingWorker] : ClaimPending!2!(r)
      BY <1>4 DEF ClaimPending
    <2>2. batch' \in [Pollers -> SUBSET Row] /\ r.job \in Jobs
      BY <2>1 DEF TypeOK, Row
    <2>3. CASE Claims(r.job, "pending")
      <3>1. job' \in [Jobs -> AIJob] /\ takers' \in [Jobs -> SUBSET SummaryWorkers]
        BY <2>1, <2>2, <2>3, WriteStatusType DEF Statuses
      <3>2. at' = [at EXCEPT ![PendingWorker] = Frame("acquire", r.job, NoTid, "none")]
        BY <2>1, <2>3 DEF At
      <3>3. at' \in [Actors -> Local] /\ Busy'
        BY <2>2, <3>2, SetType DEF PCs, Statuses, WithTranscript
      <3>4. QED
        BY <1>4, <2>2, <3>1, <3>3 DEF ClaimPending, TypeOK
    <2>4. CASE ~Claims(r.job, "pending")
      BY <1>4, <2>1, <2>2, <2>4 DEF ClaimPending, TypeOK, Busy
    <2>5. QED
      BY <2>3, <2>4
  <1>5. ASSUME NEW a \in Submitters, Acquire(a) PROVE TypeOK' /\ Busy'
    <2>1. at' \in [Actors -> Local] /\ Busy'
      BY <1>5, GotoType DEF Acquire, PCs, WithTranscript
    <2>2. QED
      BY <1>5, <2>1 DEF Acquire, TypeOK
  <1>6. ASSUME NEW a \in Submitters, Submit(a) PROVE TypeOK' /\ Busy'
    <2>1. PICK t \in Tids : Submit(a)!2!(t)
      BY <1>6 DEF Submit
    <2>2. at[a].job \in Jobs
      BY <1>6 DEF Submit, Busy
    <2>3. at' \in [Actors -> Local] /\ Busy'
      <3>1. at' = [at EXCEPT ![a] = Frame("await", at[a].job, t, "none")]
        BY <2>1
      <3>2. QED
        BY <2>2, <3>1, SetType DEF PCs, Statuses, WithTranscript
    <2>4. asm' \in [Tids -> [job : Jobs \union {NoJob},
                             state : {"none", "queued", "completed", "error"}]]
      BY <2>1, <2>2 DEF TypeOK
    <2>5. webhooks' \in [Tids -> [Events -> Nat]]
      BY <2>1, BoundsAssumption DEF TypeOK
    <2>6. QED
      BY <1>6, <2>3, <2>4, <2>5 DEF Submit, TypeOK
  <1>7. ASSUME NEW a \in Submitters, MarkJobAsSubmitted(a) PROVE TypeOK' /\ Busy'
    <2>1. at[a].job \in Jobs /\ at[a].tid \in Tids \union {NoTid}
      BY <1>7 DEF MarkJobAsSubmitted, Busy, TypeOK, Local
    <2>2. [job[at[a].job] EXCEPT !.status = "submitted", !.ext = at[a].tid] \in AIJob
      BY <2>1, SubmittedType DEF TypeOK
    <2>3. job' \in [Jobs -> AIJob]
      BY <1>7, <2>1, <2>2, WriteType DEF MarkJobAsSubmitted
    <2>4. at' \in [Actors -> Local] /\ Busy'
      BY <1>7, ReturnType DEF MarkJobAsSubmitted
    <2>5. QED
      BY <1>7, <2>3, <2>4 DEF MarkJobAsSubmitted, TypeOK
  <1>8. ASSUME NEW a \in Submitters, AttemptFails(a) PROVE TypeOK' /\ Busy'
    <2>1. at' \in [Actors -> Local] /\ Busy'
      BY <1>8, GotoType DEF AttemptFails, PCs, WithTranscript
    <2>2. QED
      BY <1>8, <2>1 DEF AttemptFails, TypeOK
  <1>9. ASSUME NEW a \in Actors, FailRead(a) PROVE TypeOK' /\ Busy'
    <2>1. /\ at[a].job \in Jobs
          /\ RetryStatus(at[a].job) \in Statuses /\ RetryStatus(at[a].job) \in RetryStatuses
      BY <1>9 DEF FailRead, Busy, RetryStatus, RetryStatuses, Statuses
    <2>2. at' = [at EXCEPT ![a] = Frame("fail_write", at[a].job, NoTid, RetryStatus(at[a].job))]
      BY <1>9 DEF FailRead
    <2>3. at' \in [Actors -> Local] /\ Busy'
      BY <2>1, <2>2, SetType DEF PCs, WithTranscript
    <2>4. QED
      BY <1>9, <2>3 DEF FailRead, TypeOK
  <1>10. ASSUME NEW a \in Actors, FailWrite(a) PROVE TypeOK' /\ Busy'
    <2>1. at[a].job \in Jobs /\ at[a].arg \in Statuses
      BY <1>10 DEF FailWrite, Busy, TypeOK, Local
    <2>2. CASE RetryLeft(at[a].job)
      <3>1. Retried(job[at[a].job], at[a].arg) \in AIJob
        BY <2>1, RetriedType DEF TypeOK
      <3>2. job' \in [Jobs -> AIJob]
        BY <1>10, <2>1, <2>2, <3>1, WriteType DEF FailWrite
      <3>3. at' \in [Actors -> Local] /\ Busy'
        BY <1>10, <2>2, ReturnType DEF FailWrite
      <3>4. QED
        BY <1>10, <2>2, <3>2, <3>3 DEF FailWrite, TypeOK
    <2>3. CASE ~RetryLeft(at[a].job)
      <3>1. at' \in [Actors -> Local] /\ Busy'
        BY <1>10, <2>3, GotoType DEF FailWrite, PCs, WithTranscript
      <3>2. QED
        BY <1>10, <2>3, <3>1 DEF FailWrite, TypeOK
    <2>4. QED
      BY <2>2, <2>3
  <1>11. ASSUME NEW a \in Actors, FailExhausted(a) PROVE TypeOK' /\ Busy'
    <2>1. at[a].job \in Jobs
      BY <1>11 DEF FailExhausted, Busy
    <2>2. job' \in [Jobs -> AIJob] /\ takers' \in [Jobs -> SUBSET SummaryWorkers]
      BY <1>11, <2>1, WriteStatusType DEF FailExhausted, Statuses
    <2>3. at' \in [Actors -> Local] /\ Busy'
      BY <1>11, ReturnType DEF FailExhausted
    <2>4. QED
      BY <1>11, <2>2, <2>3 DEF FailExhausted, TypeOK
  <1>12. ASSUME NEW a \in Actors, Abandon(a) PROVE TypeOK' /\ Busy'
    <2>1. at' \in [Actors -> Local] /\ Busy'
      BY <1>12, ReturnType DEF Abandon
    <2>2. QED
      BY <1>12, <2>1 DEF Abandon, TypeOK
  <1>13. ASSUME NEW h \in Hooks, NEW t \in Tids, NEW e \in Events, Deliver(h, t, e)
         PROVE  TypeOK' /\ Busy'
    <2>1. HandlerFor(e) \in PCs /\ HandlerFor(e) # "fail_write"
      BY DEF HandlerFor, Events, PCs
    <2>2. at' \in [Actors -> Local] /\ Busy'
      <3>1. CASE at' = at
        BY <3>1 DEF TypeOK, Busy
      <3>2. ASSUME NEW j \in Jobs, at' = [at EXCEPT ![h] = Frame(HandlerFor(e), j, t, "none")]
            PROVE  at' \in [Actors -> Local] /\ Busy'
        BY <2>1, <3>2, SetType DEF Statuses, WithTranscript
      <3>3. QED
        BY <1>13, <3>1, <3>2 DEF Deliver
    <2>3. webhooks' \in [Tids -> [Events -> Nat]]
      BY <1>13 DEF Deliver, TypeOK
    <2>4. QED
      BY <1>13, <2>2, <2>3 DEF Deliver, TypeOK
  <1>14. ASSUME NEW h \in Hooks, MarkProcessing(h) PROVE TypeOK' /\ Busy'
    <2>1. at[h].job \in Jobs
      BY <1>14 DEF MarkProcessing, Busy
    <2>2. job' \in [Jobs -> AIJob] /\ takers' \in [Jobs -> SUBSET SummaryWorkers]
      BY <1>14, <2>1, WriteStatusType DEF MarkProcessing, Statuses
    <2>3. at' \in [Actors -> Local] /\ Busy'
      BY <1>14, ReturnType DEF MarkProcessing
    <2>4. QED
      BY <1>14, <2>2, <2>3 DEF MarkProcessing, TypeOK
  <1>15. ASSUME NEW a \in StoringActors, StoreTranscript(a) PROVE TypeOK' /\ Busy'
    <2>1. at[a].tid \in Tids
      BY <1>15 DEF StoreTranscript, Busy, WithTranscript
    <2>2. at' \in [Actors -> Local] /\ Busy'
      BY <1>15, GotoType DEF StoreTranscript, PCs, WithTranscript
    <2>3. QED
      BY <1>15, <2>1, <2>2 DEF StoreTranscript, TypeOK
  <1>16. ASSUME NEW a \in StoringActors, MarkReady(a) PROVE TypeOK' /\ Busy'
    <2>1. at[a].job \in Jobs
      BY <1>16 DEF MarkReady, Busy
    <2>2. job' \in [Jobs -> AIJob] /\ takers' \in [Jobs -> SUBSET SummaryWorkers]
      BY <1>16, <2>1, WriteStatusType DEF MarkReady, Statuses
    <2>3. at' \in [Actors -> Local] /\ Busy'
      BY <1>16, ReturnType DEF MarkReady
    <2>4. QED
      BY <1>16, <2>2, <2>3 DEF MarkReady, TypeOK
  <1>17. CASE StoreFails
    <2>1. at' \in [Actors -> Local] /\ Busy'
      BY <1>17, GotoType DEF StoreFails, PCs, WithTranscript
    <2>2. QED
      BY <1>17, <2>1 DEF StoreFails, TypeOK
  <1>18. CASE PollStuck
    <2>1. {j \in Jobs : Stuck(j)} \in SUBSET Jobs
      OBVIOUS
    <2>2. batch' \in [Pollers -> SUBSET Row]
      BY <1>18, <2>1, RowsType, BatchType DEF PollStuck
    <2>3. QED
      BY <1>18, <2>2 DEF PollStuck, TypeOK, Busy
  <1>19. CASE CheckStuck
    <2>1. PICK r \in batch[TimeoutWorker] : CheckStuck!2!(r)
      BY <1>19 DEF CheckStuck
    <2>2. r.job \in Jobs /\ r.ext \in Tids \union {NoTid}
      BY DEF TypeOK, Row
    <2>3. /\ NextStep(r.ext) \in PCs /\ NextStep(r.ext) # "fail_write"
          /\ NextStep(r.ext) \in WithTranscript => r.ext \in Tids
      BY <2>2 DEF NextStep, PCs, WithTranscript
    <2>4. at' \in [Actors -> Local] /\ Busy'
      BY <2>1, <2>2, <2>3, SetType DEF Statuses
    <2>5. batch' \in [Pollers -> SUBSET Row]
      BY <2>1 DEF TypeOK
    <2>6. QED
      BY <1>19, <2>4, <2>5 DEF CheckStuck, TypeOK
  <1>20. ASSUME NEW p \in Pollers, SkipRow(p) PROVE TypeOK' /\ Busy'
    <2>1. batch' \in [Pollers -> SUBSET Row] /\ faults' \in Nat
      BY <1>20 DEF SkipRow, TypeOK
    <2>2. QED
      BY <1>20, <2>1 DEF SkipRow, TypeOK, Busy
  <1>21. CASE Touch
    <2>1. at[TimeoutWorker].job \in Jobs /\ job[at[TimeoutWorker].job] \in AIJob
      BY <1>21 DEF Touch, Busy, TypeOK
    <2>2. job' \in [Jobs -> AIJob]
      BY <1>21, <2>1, WriteType DEF Touch
    <2>3. at' \in [Actors -> Local] /\ Busy'
      BY <1>21, ReturnType DEF Touch
    <2>4. QED
      BY <1>21, <2>2, <2>3 DEF Touch, TypeOK
  <1>22. ASSUME NEW w \in SummaryWorkers, PollReady(w) PROVE TypeOK' /\ Busy'
    <2>1. PICK j \in Jobs : at' = [at EXCEPT ![w] = At("claim", j)]
      BY <1>22 DEF PollReady, InStatus
    <2>2. at' = [at EXCEPT ![w] = Frame("claim", j, NoTid, "none")]
      BY <2>1 DEF At
    <2>3. at' \in [Actors -> Local] /\ Busy'
      BY <2>2, SetType DEF PCs, Statuses, WithTranscript
    <2>4. QED
      BY <1>22, <2>3 DEF PollReady, TypeOK
  <1>23. ASSUME NEW w \in SummaryWorkers, ClaimReady(w) PROVE TypeOK' /\ Busy'
    <2>1. at[w].job \in Jobs
      BY <1>23 DEF ClaimReady, Busy
    <2>2. CASE Claims(at[w].job, "transcript_ready")
      <3>1. [job[at[w].job] EXCEPT !.status = "summarizing"] \in AIJob
        BY <2>1, StatusType DEF TypeOK, Statuses
      <3>2. job' \in [Jobs -> AIJob]
        BY <1>23, <2>1, <2>2, <3>1, WriteType DEF ClaimReady
      <3>3. takers' \in [Jobs -> SUBSET SummaryWorkers]
        BY <1>23, <2>1, <2>2 DEF ClaimReady, TypeOK
      <3>4. at' \in [Actors -> Local] /\ Busy'
        BY <1>23, <2>2, GotoType DEF ClaimReady, PCs, WithTranscript
      <3>5. QED
        BY <1>23, <3>2, <3>3, <3>4 DEF ClaimReady, TypeOK
    <2>3. CASE ~Claims(at[w].job, "transcript_ready")
      <3>1. at' \in [Actors -> Local] /\ Busy'
        BY <1>23, <2>3, ReturnType DEF ClaimReady
      <3>2. QED
        BY <1>23, <2>3, <3>1 DEF ClaimReady, TypeOK
    <2>4. QED
      BY <2>2, <2>3
  <1>24. ASSUME NEW w \in SummaryWorkers, Summarize(w) PROVE TypeOK' /\ Busy'
    <2>1. summary' \in [Meetings -> Tids \union {NoTid}]
      BY <1>24 DEF Summarize, StoreSummary, TypeOK, TranscriptsOf
    <2>2. at' \in [Actors -> Local] /\ Busy'
      BY <1>24, GotoType DEF Summarize, PCs, WithTranscript
    <2>3. QED
      BY <1>24, <2>1, <2>2 DEF Summarize, TypeOK
  <1>25. ASSUME NEW w \in SummaryWorkers, SummaryFails(w) PROVE TypeOK' /\ Busy'
    <2>1. summary' \in [Meetings -> Tids \union {NoTid}]
      BY <1>25 DEF SummaryFails, StoreSummary, TypeOK, TranscriptsOf
    <2>2. at' \in [Actors -> Local] /\ Busy'
      BY <1>25, GotoType DEF SummaryFails, PCs, WithTranscript
    <2>3. QED
      BY <1>25, <2>1, <2>2 DEF SummaryFails, TypeOK
  <1>26. ASSUME NEW w \in SummaryWorkers, Finish(w) PROVE TypeOK' /\ Busy'
    <2>1. at[w].job \in Jobs
      BY <1>26 DEF Finish, Busy
    <2>2. job' \in [Jobs -> AIJob] /\ takers' \in [Jobs -> SUBSET SummaryWorkers]
      BY <1>26, <2>1, WriteStatusType DEF Finish, Statuses
    <2>3. at' \in [Actors -> Local] /\ Busy'
      BY <1>26, ReturnType DEF Finish
    <2>4. QED
      BY <1>26, <2>2, <2>3 DEF Finish, TypeOK
  <1>27. CASE PollZombies
    <2>1. {j \in Page(InStatus("summarizing"), ScanLimit) : job[j].old} \in SUBSET Jobs
      BY DEF Page, InStatus
    <2>2. batch' \in [Pollers -> SUBSET Row]
      BY <1>27, <2>1, RowsType, BatchType DEF PollZombies
    <2>3. QED
      BY <1>27, <2>2 DEF PollZombies, TypeOK, Busy
  <1>28. CASE ResetZombie
    <2>1. PICK r \in batch[ZombieWorker] : ResetZombie!1!(r)
      BY <1>28 DEF ResetZombie
    <2>2. batch' \in [Pollers -> SUBSET Row] /\ r.job \in Jobs
      BY <2>1 DEF TypeOK, Row
    <2>3. job' \in [Jobs -> AIJob] /\ takers' \in [Jobs -> SUBSET SummaryWorkers]
      BY <2>1, <2>2, WriteStatusType DEF Statuses
    <2>4. QED
      BY <1>28, <2>2, <2>3 DEF ResetZombie, TypeOK, Busy
  <1>29. ASSUME NEW t \in Tids, NEW s \in {"completed", "error"}, AsmFinish(t, s)
         PROVE  TypeOK' /\ Busy'
    <2>1. webhooks' \in [Tids -> [Events -> Nat]]
      BY <1>29, BoundsAssumption DEF AsmFinish, TypeOK
    <2>2. asm' \in [Tids -> [job : Jobs \union {NoJob},
                             state : {"none", "queued", "completed", "error"}]]
      BY <1>29 DEF AsmFinish, TypeOK
    <2>3. QED
      BY <1>29, <2>1, <2>2 DEF AsmFinish, TypeOK, Busy
  <1>30. ASSUME NEW j \in Jobs, Age(j) PROVE TypeOK' /\ Busy'
    <2>1. job' \in [Jobs -> AIJob]
      BY <1>30 DEF Age, TypeOK, AIJob
    <2>2. QED
      BY <1>30, <2>1 DEF Age, TypeOK, Busy
  <1>31. CASE Crash
    <2>1. at' \in [Actors -> Local] /\ Busy'
      BY <1>31, IdleType DEF Crash, Busy, Idle, At, Frame, WithTranscript
    <2>2. batch' \in [Pollers -> SUBSET Row] /\ faults' \in Nat
      BY <1>31 DEF Crash, TypeOK
    <2>3. QED
      BY <1>31, <2>1, <2>2 DEF Crash, TypeOK
  <1>32. CASE UNCHANGED vars
    BY <1>32 DEF vars, TypeOK, Busy
  <1>33. QED
    BY <1>1, <1>2, <1>3, <1>4, <1>5, <1>6, <1>7, <1>8, <1>9, <1>10, <1>11, <1>12, <1>13,
       <1>14, <1>15, <1>16, <1>17, <1>18, <1>19, <1>20, <1>21, <1>22, <1>23, <1>24, <1>25,
       <1>26, <1>27, <1>28, <1>29, <1>30, <1>31, <1>32 DEF Step

\* Every variable keeps its type, and no goroutine ever works without a job.
THEOREM TypeCorrect == Spec => [](TypeOK /\ Busy)
  BY TypeInit, BusyInit, TypeStep, PTL DEF Spec

-----------------------------------------------------------------------------
(* What a step does to the rows *)

Inserts(j, m) == job[j].status = "none" /\ job' = [job EXCEPT ![j] = NewAIJob(m)]
                 /\ takers' = takers
Retries(a)    == FailWrite(a) /\ RetryLeft(at[a].job)
Takes(w)      == ClaimReady(w) /\ Claims(at[w].job, "transcript_ready")
Renews(j)     == Write(j, job[j]) /\ takers' = takers
Ages(j)       == job' = [job EXCEPT ![j].old = TRUE] /\ takers' = takers

\* A goroutine is at work on the job or holds a row of it.
Held(j) == \/ \E a \in Actors : at[a].pc # "idle" /\ at[a].job = j
           \/ \E p \in Pollers : \E r \in batch[p] : r.job = j

\* Why a row is given a new status by a statement that does not look at the old one.
Because(j, s) ==
  /\ Held(j)
  /\ \/ s \in {"submitted", "processing"}
     \/ s = "failed"    /\ \E a \in Actors : at[a].pc = "exhausted" /\ at[a].job = j
     \/ s = "completed" /\ \E a \in Actors : at[a].pc = "finish" /\ at[a].job = j
     \/ s = "transcript_ready" /\ \E a \in Actors : at[a].pc = "ready" /\ at[a].job = j
     \/ s = "transcript_ready" /\ \E r \in batch[ZombieWorker] : r.job = j

LEMMA Effects ==
  ASSUME TypeOK, Busy, Step
  PROVE  \/ UNCHANGED <<job, takers>>
         \/ \E j \in Jobs, m \in Meetings : Inserts(j, m)
         \/ \E j \in Jobs, s \in Statuses \ {"none"} : WriteStatus(j, s) /\ Because(j, s)
         \/ \E a \in Submitters : MarkJobAsSubmitted(a)
         \/ \E a \in Actors : Retries(a)
         \/ \E w \in SummaryWorkers : Takes(w)
         \/ \E j \in Jobs : Renews(j) \/ Ages(j)
  <1> DEFINE Goal == \/ UNCHANGED <<job, takers>>
                     \/ \E j \in Jobs, m \in Meetings : Inserts(j, m)
                     \/ \E j \in Jobs, s \in Statuses \ {"none"} : WriteStatus(j, s) /\ Because(j, s)
                     \/ \E a \in Submitters : MarkJobAsSubmitted(a)
                     \/ \E a \in Actors : Retries(a)
                     \/ \E w \in SummaryWorkers : Takes(w)
                     \/ \E j \in Jobs : Renews(j) \/ Ages(j)
  <1> USE ActorSets
  <1>1. ASSUME NEW m \in Meetings, EgressEnded(m) PROVE Goal
    BY <1>1 DEF EgressEnded, CanInsert, Inserts
  <1>2. ASSUME NEW r \in Requests, NEW m \in Meetings, StartProcessing(r, m) PROVE Goal
    BY <1>2 DEF StartProcessing, CanInsert, Inserts
  <1>3. CASE ClaimPending
    <2>1. PICK r \in batch[PendingWorker] : ClaimPending!2!(r)
      BY <1>3 DEF ClaimPending
    <2>2. r.job \in Jobs
      BY DEF TypeOK, Row
    <2>3. QED
      BY <2>1, <2>2 DEF Statuses, Because, Held
  <1>4. ASSUME NEW a \in Actors, FailWrite(a) PROVE Goal
    BY <1>4 DEF FailWrite, Retries
  <1>5. ASSUME NEW a \in Actors, FailExhausted(a) PROVE Goal
    BY <1>5 DEF FailExhausted, Busy, Statuses, Because, Held
  <1>6. ASSUME NEW h \in Hooks, MarkProcessing(h) PROVE Goal
    BY <1>6 DEF MarkProcessing, Busy, Statuses, Because, Held
  <1>7. ASSUME NEW a \in StoringActors, MarkReady(a) PROVE Goal
    BY <1>7 DEF MarkReady, Busy, Statuses, Because, Held
  <1>8. CASE Touch
    BY <1>8 DEF Touch, Busy, Renews
  <1>9. ASSUME NEW w \in SummaryWorkers, ClaimReady(w) PROVE Goal
    BY <1>9 DEF ClaimReady, Takes
  <1>10. ASSUME NEW w \in SummaryWorkers, Finish(w) PROVE Goal
    BY <1>10 DEF Finish, Busy, Statuses, Because, Held
  <1>11. CASE ResetZombie
    <2>1. PICK r \in batch[ZombieWorker] : ResetZombie!1!(r)
      BY <1>11 DEF ResetZombie
    <2>2. r.job \in Jobs
      BY DEF TypeOK, Row
    <2>3. QED
      BY <2>1, <2>2 DEF Statuses, Because, Held
  <1>12. ASSUME NEW j \in Jobs, Age(j) PROVE Goal
    BY <1>12 DEF Age, Ages
  <1>13. ASSUME NEW a \in Submitters, MarkJobAsSubmitted(a) PROVE Goal
    BY <1>13
  <1>14. CASE UNCHANGED <<job, takers>>
    BY <1>14
  <1>15. QED
    BY <1>1, <1>2, <1>3, <1>4, <1>5, <1>6, <1>7, <1>8, <1>9, <1>10, <1>11, <1>12, <1>13, <1>14
       DEF Step, PollPending, Acquire, Submit, AttemptFails, FailRead, Abandon, Deliver,
           StoreTranscript, StoreFails, PollStuck, CheckStuck, SkipRow, PollReady,
           Summarize, SummaryFails, PollZombies, AsmFinish, Crash, vars

\* The rows after each of these effects.
LEMMA InsertedRows ==
  ASSUME TypeOK, NEW j \in Jobs, NEW m \in Meetings, Inserts(j, m)
  PROVE  /\ job'[j] = NewAIJob(m) /\ \A k \in Jobs \ {j} : job'[k] = job[k]
         /\ job'[j].status = "pending" /\ job'[j].ext = NoTid /\ job'[j].retries = 0
         /\ takers' = takers
  BY DEF Inserts, TypeOK, NewAIJob

LEMMA StatusRows ==
  ASSUME TypeOK, NEW j \in Jobs, NEW s, WriteStatus(j, s)
  PROVE  /\ \A k \in Jobs \ {j} : job'[k] = job[k] /\ takers'[k] = takers[k]
         /\ job'[j].status = s /\ job'[j].ext = job[j].ext /\ job'[j].retries = job[j].retries
         /\ job'[j].meeting = job[j].meeting /\ takers'[j] = {}
  BY DEF WriteStatus, Write, TypeOK, AIJob

LEMMA SubmittedRows ==
  ASSUME TypeOK, Busy, NEW a \in Actors, MarkJobAsSubmitted(a)
  PROVE  LET j == at[a].job IN
         /\ j \in Jobs
         /\ \A k \in Jobs \ {j} : job'[k] = job[k] /\ takers'[k] = takers[k]
         /\ job'[j].status = "submitted" /\ job'[j].ext = at[a].tid
         /\ job'[j].retries = job[j].retries
         /\ job'[j].meeting = job[j].meeting /\ takers'[j] = {}
  BY DEF MarkJobAsSubmitted, Write, TypeOK, AIJob, Busy

LEMMA RetriedRows ==
  ASSUME TypeOK, Busy, NEW a \in Actors, Retries(a)
  PROVE  LET j == at[a].job IN
         /\ j \in Jobs
         /\ \A k \in Jobs \ {j} : job'[k] = job[k] /\ takers'[k] = takers[k]
         /\ job'[j].status = at[a].arg /\ at[a].arg \in RetryStatuses
         /\ job'[j].ext = job[j].ext /\ job'[j].meeting = job[j].meeting
         /\ job[j].retries \in Nat /\ job[j].retries < MaxRetries
         /\ job'[j].retries = job[j].retries + 1 /\ takers'[j] = {}
  <1> DEFINE j == at[a].job
  <1>1. /\ j \in Jobs /\ at[a].arg \in RetryStatuses /\ job[j] \in AIJob
        /\ job[j].retries \in Nat /\ job[j].retries < MaxRetries
    BY DEF Retries, RetryLeft, FailWrite, TypeOK, AIJob, Busy
  <1>2. /\ job' = [job EXCEPT ![j] = [Retried(job[j], at[a].arg) EXCEPT !.old = FALSE]]
        /\ takers' = [takers EXCEPT ![j] = {}]
    BY DEF Retries, FailWrite, Write
  <1>3. /\ \A k \in Jobs \ {j} : job'[k] = job[k] /\ takers'[k] = takers[k]
        /\ job'[j] = [Retried(job[j], at[a].arg) EXCEPT !.old = FALSE] /\ takers'[j] = {}
    BY <1>1, <1>2 DEF TypeOK
  <1>4. /\ job'[j].status = at[a].arg /\ job'[j].ext = job[j].ext
        /\ job'[j].meeting = job[j].meeting /\ job'[j].retries = job[j].retries + 1
    BY <1>1, <1>3 DEF Retried, AIJob
  <1>5. QED
    BY <1>1, <1>3, <1>4

LEMMA TakenRows ==
  ASSUME TypeOK, Busy, NEW w \in SummaryWorkers, Takes(w)
  PROVE  LET j == at[w].job IN
         /\ j \in Jobs /\ job[j].status = "transcript_ready"
         /\ \A k \in Jobs \ {j} : job'[k] = job[k] /\ takers'[k] = takers[k]
         /\ job'[j].status = "summarizing" /\ job'[j].ext = job[j].ext
         /\ job'[j].retries = job[j].retries
         /\ job'[j].meeting = job[j].meeting /\ takers'[j] = takers[j] \union {w}
  <1> DEFINE j == at[w].job
  <1>1. j \in Jobs /\ job[j] \in AIJob /\ job[j].status = "transcript_ready"
    BY ActorSets DEF Takes, Claims, ClaimReady, TypeOK, Busy
  <1>2. /\ job' = [job EXCEPT ![j] = [[job[j] EXCEPT !.status = "summarizing"] EXCEPT !.old = FALSE]]
        /\ takers' = [takers EXCEPT ![j] = takers[j] \union {w}]
    BY <1>1 DEF Takes, ClaimReady, Write, TypeOK
  <1>3. /\ \A k \in Jobs \ {j} : job'[k] = job[k] /\ takers'[k] = takers[k]
        /\ job'[j] = [[job[j] EXCEPT !.status = "summarizing"] EXCEPT !.old = FALSE]
        /\ takers'[j] = takers[j] \union {w}
    BY <1>1, <1>2 DEF TypeOK
  <1>4. /\ job'[j].status = "summarizing" /\ job'[j].ext = job[j].ext
        /\ job'[j].retries = job[j].retries /\ job'[j].meeting = job[j].meeting
    BY <1>1, <1>3 DEF AIJob
  <1>5. QED
    BY <1>1, <1>3, <1>4

LEMMA AgedRows ==
  ASSUME TypeOK, NEW j \in Jobs, Renews(j) \/ Ages(j)
  PROVE  /\ \A k \in Jobs : /\ job'[k].status = job[k].status /\ job'[k].ext = job[k].ext
                            /\ job'[k].retries = job[k].retries
                            /\ job'[k].meeting = job[k].meeting
         /\ takers' = takers
  BY DEF Renews, Ages, Write, TypeOK, AIJob

-----------------------------------------------------------------------------
(* At most one summary worker takes a job from one write of its status to the next *)

LEMMA TakenInit == Init => Taken
  BY DEF Init, Taken

LEMMA TakenStep == TypeOK /\ Busy /\ Taken /\ [Next]_vars => Taken'
  <1> SUFFICES ASSUME TypeOK, Busy, Taken, Step PROVE Taken'
    BY NextIsStep
  <1>1. CASE UNCHANGED <<job, takers>>
    BY <1>1 DEF Taken
  <1>2. ASSUME NEW j \in Jobs, NEW m \in Meetings, Inserts(j, m) PROVE Taken'
    <2>1. job[j].status = "none"
      BY <1>2 DEF Inserts
    <2>2. QED
      BY <1>2, <2>1, InsertedRows DEF Taken
  <1>3. ASSUME NEW j \in Jobs, NEW s \in Statuses, WriteStatus(j, s) PROVE Taken'
    BY <1>3, StatusRows DEF Taken
  <1>4. ASSUME NEW a \in Actors, MarkJobAsSubmitted(a) PROVE Taken'
    BY <1>4, SubmittedRows DEF Taken
  <1>5. ASSUME NEW a \in Actors, Retries(a) PROVE Taken'
    BY <1>5, RetriedRows DEF Taken
  <1>6. ASSUME NEW w \in SummaryWorkers, Takes(w) PROVE Taken'
    <2>1. takers'[at[w].job] = {w}
      BY <1>6, TakenRows DEF Taken
    <2>2. QED
      BY <1>6, <2>1, TakenRows DEF Taken
  <1>7. ASSUME NEW j \in Jobs, Renews(j) \/ Ages(j) PROVE Taken'
    BY <1>7, AgedRows DEF Taken
  <1>8. QED
    BY <1>1, <1>2, <1>3, <1>4, <1>5, <1>6, <1>7, Effects, ActorSets

LEMMA TakenOnce == TypeOK /\ Taken => OneTakerPerOpening
  <1> SUFFICES ASSUME TypeOK, Taken, NEW j \in Jobs PROVE Cardinality(takers[j]) <= 1
    BY DEF OneTakerPerOpening
  <1>1. CASE takers[j] = {}
    BY <1>1, FS_EmptySet
  <1>2. ASSUME NEW w \in takers[j] PROVE Cardinality(takers[j]) = 1
    <2>1. takers[j] = {w}
      BY <1>2 DEF Taken
    <2>2. QED
      BY <2>1, FS_Singleton
  <1>3. QED
    BY <1>1, <1>2

\* "Only one worker will succeed if multiple workers see the same job" holds for every
\* number of workers, jobs and faults, and however late a worker acts on what it polled.
THEOREM OneTaker == Spec => []OneTakerPerOpening
  BY TypeCorrect, TakenInit, TakenStep, TakenOnce, PTL DEF Spec

-----------------------------------------------------------------------------
(* Whatever a goroutine or AssemblyAI refers to has been inserted *)

LEMMA RowsStay ==
  ASSUME TypeOK, Busy, Step, NEW k \in Jobs, job[k].status # "none"
  PROVE  job'[k].status # "none" /\ job'[k].meeting = job[k].meeting
  <1> DEFINE Goal == job'[k].status # "none" /\ job'[k].meeting = job[k].meeting
  <1>1. CASE UNCHANGED <<job, takers>>
    BY <1>1
  <1>2. ASSUME NEW j \in Jobs, NEW m \in Meetings, Inserts(j, m) PROVE Goal
    BY <1>2, InsertedRows DEF Inserts
  <1>3. ASSUME NEW j \in Jobs, NEW s \in Statuses \ {"none"}, WriteStatus(j, s) PROVE Goal
    BY <1>3, StatusRows
  <1>4. ASSUME NEW a \in Actors, MarkJobAsSubmitted(a) PROVE Goal
    BY <1>4, SubmittedRows
  <1>5. ASSUME NEW a \in Actors, Retries(a) PROVE Goal
    BY <1>5, RetriedRows DEF RetryStatuses
  <1>6. ASSUME NEW w \in SummaryWorkers, Takes(w) PROVE Goal
    BY <1>6, TakenRows
  <1>7. ASSUME NEW j \in Jobs, Renews(j) \/ Ages(j) PROVE Goal
    BY <1>7, AgedRows
  <1>8. QED
    BY <1>1, <1>2, <1>3, <1>4, <1>5, <1>6, <1>7, Effects, ActorSets

\* A goroutine changes the job it works on only when it starts anew.
Stays == \A a \in Actors : \/ at'[a].pc = "idle"
                           \/ at[a].pc # "idle" /\ at'[a].job = at[a].job

LEMMA GotoStays ==
  ASSUME TypeOK, NEW a \in Actors, NEW pc, at[a].pc # "idle", Goto(a, pc)
  PROVE  Stays
  BY DEF Stays, Goto, TypeOK, Local, At, Frame, Busy

LEMMA ReturnStays ==
  ASSUME TypeOK, NEW a \in Actors, Return(a)
  PROVE  Stays
  BY DEF Stays, Return, TypeOK, Local, Idle, At, Frame

LEMMA Moves ==
  ASSUME TypeOK, Busy, Step
  PROVE  \/ Stays
         \/ \E r \in Requests, m \in Meetings : StartProcessing(r, m)
         \/ ClaimPending \/ CheckStuck
         \/ \E h \in Hooks, t \in Tids, e \in Events : Deliver(h, t, e)
         \/ \E w \in SummaryWorkers : PollReady(w)
  <1> USE ActorSets
  <1>1. ASSUME NEW a \in Submitters, Acquire(a) \/ AttemptFails(a) PROVE Stays
    BY <1>1, GotoStays DEF Acquire, AttemptFails
  <1>2. ASSUME NEW a \in Submitters, Submit(a) PROVE Stays
    BY <1>2 DEF Submit, Stays, TypeOK, Frame
  <1>3. ASSUME NEW a \in Actors, FailRead(a) PROVE Stays
    BY <1>3 DEF FailRead, Stays, TypeOK, Frame
  <1>4. ASSUME NEW a \in Actors, FailWrite(a) PROVE Stays
    BY <1>4, GotoStays, ReturnStays DEF FailWrite
  <1>5. ASSUME NEW a \in Actors,
               \/ MarkJobAsSubmitted(a) \/ FailExhausted(a) \/ Abandon(a) \/ MarkProcessing(a)
               \/ MarkReady(a) \/ Finish(a)
        PROVE  Stays
    BY <1>5, ReturnStays DEF MarkJobAsSubmitted, FailExhausted, Abandon, MarkProcessing,
                             MarkReady, Finish
  <1>6. CASE Touch
    BY <1>6, ReturnStays DEF Touch
  <1>7. ASSUME NEW a \in Actors, StoreTranscript(a) \/ Summarize(a) \/ SummaryFails(a)
        PROVE  Stays
    BY <1>7, GotoStays DEF StoreTranscript, Summarize, SummaryFails
  <1>8. CASE StoreFails
    BY <1>8, GotoStays DEF StoreFails
  <1>9. ASSUME NEW w \in SummaryWorkers, ClaimReady(w) PROVE Stays
    BY <1>9, GotoStays, ReturnStays DEF ClaimReady
  <1>10. CASE Crash
    BY <1>10 DEF Crash, Stays, Idle, At, Frame
  <1>11. CASE UNCHANGED at
    BY <1>11 DEF Stays
  <1>12. QED
    BY <1>1, <1>2, <1>3, <1>4, <1>5, <1>6, <1>7, <1>8, <1>9, <1>10, <1>11
       DEF Step, EgressEnded, PollPending, PollStuck, SkipRow, PollZombies, ResetZombie,
           AsmFinish, Age, vars

\* Only the polls add rows to a batch, only uploads request transcripts.
LEMMA BatchShrinks ==
  ASSUME TypeOK, Step, NEW p \in Pollers, NEW r \in batch'[p]
  PROVE  r \in batch[p] \/ PollPending \/ PollStuck \/ PollZombies
  <1>1. CASE ClaimPending
    BY <1>1, ActorSets DEF ClaimPending, TypeOK
  <1>2. CASE CheckStuck \/ \E q \in Pollers : SkipRow(q)
    BY <1>2, ActorSets DEF CheckStuck, SkipRow, TypeOK
  <1>3. CASE ResetZombie
    BY <1>3, ActorSets DEF ResetZombie, TypeOK
  <1>4. CASE Crash
    BY <1>4 DEF Crash
  <1>5. CASE UNCHANGED batch
    BY <1>5
  <1>6. QED
    BY <1>1, <1>2, <1>3, <1>4, <1>5
       DEF Step, EgressEnded, StartProcessing, Acquire, Submit, MarkJobAsSubmitted,
           AttemptFails, FailRead, FailWrite, FailExhausted, Abandon, Deliver, MarkProcessing,
           StoreTranscript, MarkReady, StoreFails, Touch, PollReady, ClaimReady, Summarize,
           SummaryFails, Finish, AsmFinish, Age, vars

LEMMA Requesting ==
  ASSUME TypeOK, Step, NEW t \in Tids
  PROVE  \/ asm'[t] = asm[t]
         \/ /\ asm'[t].job = asm[t].job /\ asm[t].state # "none"
            /\ asm'[t].state # "none"
         \/ \E a \in Submitters : Submit(a) /\ asm[t].state = "none"
  <1> DEFINE Goal == \/ asm'[t] = asm[t]
                     \/ /\ asm'[t].job = asm[t].job /\ asm[t].state # "none"
                        /\ asm'[t].state # "none"
                     \/ \E a \in Submitters : Submit(a) /\ asm[t].state = "none"
  <1>1. ASSUME NEW a \in Submitters, Submit(a) PROVE Goal
    BY <1>1 DEF Submit, TypeOK
  <1>2. ASSUME NEW u \in Tids, NEW s \in {"completed", "error"}, AsmFinish(u, s) PROVE Goal
    BY <1>2 DEF AsmFinish, TypeOK
  <1>3. CASE UNCHANGED asm
    BY <1>3
  <1>4. QED
    BY <1>1, <1>2, <1>3
       DEF Step, EgressEnded, StartProcessing, PollPending, ClaimPending, Acquire,
           MarkJobAsSubmitted, AttemptFails, FailRead, FailWrite, FailExhausted, Abandon,
           Deliver, MarkProcessing, StoreTranscript, MarkReady, StoreFails, PollStuck,
           CheckStuck, SkipRow, Touch, PollReady, ClaimReady, Summarize, SummaryFails,
           Finish, PollZombies, ResetZombie, Age, Crash, vars

LEMMA PageType ==
  ASSUME NEW s \in Statuses, NEW n \in Nat, NEW j \in Page(InStatus(s), n)
  PROVE  j \in Jobs /\ job[j].status = s
  BY DEF Page, InStatus

LEMMA NewRow ==
  ASSUME TypeOK, NEW q \in Pollers, NEW S, batch' = [batch EXCEPT ![q] = Rows(S)],
         NEW p \in Pollers, NEW r \in batch'[p]
  PROVE  r \in batch[p] \/ r.job \in S
  BY DEF Rows, TypeOK

LEMMA NoRowFields == NoRow.status = "none" /\ NoRow.ext = NoTid /\ NoRow.retries = 0
  BY SomeMeeting DEF NoRow, NewAIJob

LEMMA IdleFields == Idle.pc = "idle" /\ Idle.job = NoJob
  BY DEF Idle, At, Frame

LEMMA CreatedInit == Init => Created
  <1> SUFFICES ASSUME Init PROVE Created
    OBVIOUS
  <1>1. \A j \in Jobs : job[j].ext = NoTid /\ job[j].retries = 0
    BY NoRowFields DEF Init
  <1>2. \A a \in Actors : at[a].pc = "idle"
    BY IdleFields DEF Init
  <1>3. QED
    BY <1>1, <1>2 DEF Init, Created

LEMMA CreatedStep == TypeOK /\ Busy /\ Created /\ [Next]_vars => Created'
  <1> SUFFICES ASSUME TypeOK, Busy, Created, Step PROVE Created'
    BY NextIsStep
  <1> USE ActorSets
  <1>1. \A k \in Jobs : job[k].status # "none" => job'[k].status # "none"
    BY RowsStay
  <1>2. ASSUME NEW k \in Jobs, job'[k].status = "none"
        PROVE  job'[k].ext = NoTid /\ job'[k].retries = 0
    <2> DEFINE Goal == job'[k].ext = NoTid /\ job'[k].retries = 0
    <2>1. job[k].status = "none" /\ job[k].ext = NoTid /\ job[k].retries = 0
      BY <1>1, <1>2 DEF Created
    <2>2. CASE UNCHANGED <<job, takers>>
      BY <2>1, <2>2
    <2>3. ASSUME NEW j \in Jobs, NEW m \in Meetings, Inserts(j, m) PROVE Goal
      BY <2>1, <2>3, InsertedRows
    <2>4. ASSUME NEW j \in Jobs, NEW s \in Statuses \ {"none"}, WriteStatus(j, s)
          PROVE  Goal
      BY <2>1, <2>4, StatusRows
    <2>5. ASSUME NEW a \in Actors, MarkJobAsSubmitted(a) PROVE Goal
      BY <1>2, <2>1, <2>5, SubmittedRows
    <2>6. ASSUME NEW a \in Actors, Retries(a) PROVE Goal
      BY <1>2, <2>1, <2>6, RetriedRows DEF RetryStatuses
    <2>7. ASSUME NEW w \in SummaryWorkers, Takes(w) PROVE Goal
      BY <2>1, <2>7, TakenRows
    <2>8. ASSUME NEW j \in Jobs, Renews(j) \/ Ages(j) PROVE Goal
      BY <2>1, <2>8, AgedRows
    <2>9. QED
      BY <2>2, <2>3, <2>4, <2>5, <2>6, <2>7, <2>8, Effects
  <1>3. ASSUME NEW a \in Actors, at'[a].pc # "idle"
        PROVE  job'[at'[a].job].status # "none"
    <2>1. CASE Stays
      BY <1>1, <1>3, <2>1 DEF Stays, Busy, Created
    <2>2. ASSUME NEW r \in Requests, NEW m \in Meetings, StartProcessing(r, m)
          PROVE  job'[at'[a].job].status # "none"
      <3>1. PICK j \in Jobs : job' = [job EXCEPT ![j] = NewAIJob(m)]
                              /\ at' = [at EXCEPT ![r] = At("acquire", j)]
        BY <2>2 DEF StartProcessing
      <3>2. job'[j].status # "none"
        BY <3>1 DEF NewAIJob, TypeOK
      <3>3. CASE a = r
        BY <3>1, <3>2, <3>3 DEF TypeOK, At, Frame
      <3>4. CASE a # r
        BY <1>1, <1>3, <3>1, <3>4 DEF Busy, Created, TypeOK
      <3>5. QED
        BY <3>3, <3>4
    <2>3. CASE ClaimPending
      <3>1. PICK r \in batch[PendingWorker] : ClaimPending!2!(r)
        BY <2>3 DEF ClaimPending
      <3>2. r.job \in Jobs /\ job[r.job].status # "none"
        BY DEF TypeOK, Row, Created
      <3>3. at'[a] = at[a] \/ at'[a].job = r.job
        BY <3>1 DEF TypeOK, At, Frame
      <3>4. QED
        BY <1>1, <1>3, <3>2, <3>3 DEF Busy, Created
    <2>4. CASE CheckStuck
      <3>1. PICK r \in batch[TimeoutWorker] : CheckStuck!2!(r)
        BY <2>4 DEF CheckStuck
      <3>2. r.job \in Jobs /\ job[r.job].status # "none"
        BY DEF TypeOK, Row, Created
      <3>3. at'[a] = at[a] \/ at'[a].job = r.job
        BY <3>1 DEF TypeOK, Frame
      <3>4. QED
        BY <1>1, <1>3, <3>2, <3>3 DEF Busy, Created
    <2>5. ASSUME NEW h \in Hooks, NEW t \in Tids, NEW e \in Events, Deliver(h, t, e)
          PROVE  job'[at'[a].job].status # "none"
      <3>1. CASE at' = at
        BY <1>1, <1>3, <3>1 DEF Busy, Created
      <3>2. ASSUME NEW j \in Jobs, job[j].ext = t,
                   at' = [at EXCEPT ![h] = Frame(HandlerFor(e), j, t, "none")]
            PROVE  job'[at'[a].job].status # "none"
        <4>1. job[j].status # "none"
          BY <3>2, NamesAssumption DEF Created
        <4>2. at'[a] = at[a] \/ at'[a].job = j
          BY <3>2 DEF TypeOK, Frame
        <4>3. QED
          BY <1>1, <1>3, <4>1, <4>2 DEF Busy, Created
      <3>3. QED
        BY <2>5, <3>1, <3>2 DEF Deliver
    <2>6. ASSUME NEW w \in SummaryWorkers, PollReady(w) PROVE job'[at'[a].job].status # "none"
      <3>1. PICK j \in InStatus("transcript_ready") : at' = [at EXCEPT ![w] = At("claim", j)]
        BY <2>6 DEF PollReady
      <3>2. at'[a] = at[a] \/ at'[a].job = j
        BY <3>1 DEF TypeOK, At, Frame
      <3>3. QED
        BY <1>1, <1>3, <3>2 DEF Busy, Created, InStatus
    <2>7. QED
      BY <2>1, <2>2, <2>3, <2>4, <2>5, <2>6, Moves
  <1>4. ASSUME NEW p \in Pollers, NEW r \in batch'[p] PROVE job'[r.job].status # "none"
    <2> DEFINE Old == r \in batch[p]
               Read(s) == r.job \in Jobs /\ job[r.job].status = s
    <2>1. CASE PollPending
      <3>1. batch' = [batch EXCEPT ![PendingWorker] = Rows(Page(InStatus("pending"), PollLimit))]
        BY <2>1 DEF PollPending
      <3>2. Old \/ Read("pending")
        BY <1>4, <3>1, NewRow, PageType, BoundsAssumption DEF Statuses
      <3>3. QED
        BY <1>1, <3>2 DEF Created, TypeOK, Row
    <2>2. CASE PollStuck
      <3>1. Old \/ Read("submitted")
        BY <1>4, <2>2 DEF PollStuck, RowsWithId, Stuck, TypeOK
      <3>2. QED
        BY <1>1, <3>1 DEF Created, TypeOK, Row
    <2>3. CASE PollZombies
      <3>1. PICK S \in SUBSET Page(InStatus("summarizing"), ScanLimit) :
              batch' = [batch EXCEPT ![ZombieWorker] = Rows(S)]
        BY <2>3 DEF PollZombies
      <3>2. Old \/ r.job \in S
        BY <1>4, <3>1, NewRow
      <3>3. r.job \in S => Read("summarizing")
        BY <3>1, PageType, BoundsAssumption DEF Statuses
      <3>4. QED
        BY <1>1, <3>2, <3>3 DEF Created, TypeOK, Row
    <2>4. CASE Old
      BY <1>1, <2>4 DEF Created, TypeOK, Row
    <2>5. Old \/ PollPending \/ PollStuck \/ PollZombies
      BY <1>4, BatchShrinks
    <2>6. QED
      BY <2>1, <2>2, <2>3, <2>4, <2>5
  <1>5. ASSUME NEW t \in Tids, asm'[t].state # "none"
        PROVE  asm'[t].job \in Jobs /\ job'[asm'[t].job].status # "none"
    <2>1. CASE asm'[t].job = asm[t].job /\ asm[t].state # "none"
      BY <1>1, <2>1 DEF Created
    <2>2. ASSUME NEW a \in Submitters, Submit(a), asm[t].state = "none"
          PROVE  asm'[t].job \in Jobs /\ job'[asm'[t].job].status # "none"
      <3>1. asm'[t].job = at[a].job /\ at[a].pc # "idle"
        BY <1>5, <2>2 DEF Submit, TypeOK
      <3>2. QED
        BY <1>1, <3>1 DEF Created, Busy
    <2>3. QED
      BY <1>5, <2>1, <2>2, Requesting
  <1>6. QED
    BY <1>2, <1>3, <1>4, <1>5 DEF Created

-----------------------------------------------------------------------------
(* How a goroutine comes to stand where it claims something *)

Silent == {"idle", "acquire", "attempt", "fail_read", "processing", "touch", "claim"}

Arrives(a) ==
  \/ at'[a].pc \in Silent
  \/ a \in Submitters /\ Submit(a) /\ at'[a].pc = "await"
  \/ FailRead(a) /\ at'[a].pc = "fail_write"
  \/ FailWrite(a) /\ ~RetryLeft(at[a].job) /\ at'[a].pc = "exhausted"
  \/ (\E t \in Tids, e \in Events : Deliver(a, t, e)) /\ at'[a].pc = "store"
  \/ a = TimeoutWorker /\ CheckStuck /\ at'[a].pc = "store"
  \/ StoreTranscript(a) /\ at'[a].pc = "ready"
  \/ a \in SummaryWorkers /\ Takes(a) /\ at'[a].pc = "work"
  \/ a \in SummaryWorkers /\ Summarize(a) /\ at'[a].pc = "finish"

LEMMA GotoArrives ==
  ASSUME TypeOK, NEW b \in Actors, NEW pc, Goto(b, pc), NEW a \in Actors
  PROVE  at'[a] = at[a] \/ (a = b /\ at'[a].pc = pc)
  BY DEF Goto, TypeOK, At, Frame

LEMMA ReturnArrives ==
  ASSUME TypeOK, NEW b \in Actors, Return(b), NEW a \in Actors
  PROVE  at'[a] = at[a] \/ at'[a].pc = "idle"
  BY IdleFields DEF Return, TypeOK

LEMMA Arrivals == ASSUME TypeOK, Busy, Step, NEW a \in Actors PROVE at'[a] = at[a] \/ Arrives(a)
  <1> USE ActorSets
  <1> DEFINE Goal == at'[a] = at[a] \/ Arrives(a)
  <1>1. ASSUME NEW r \in Requests, NEW m \in Meetings, StartProcessing(r, m) PROVE Goal
    BY <1>1 DEF StartProcessing, TypeOK, At, Frame, Arrives, Silent
  <1>2. CASE ClaimPending
    BY <1>2 DEF ClaimPending, TypeOK, At, Frame, Arrives, Silent
  <1>3. ASSUME NEW b \in Submitters, Acquire(b) \/ AttemptFails(b) PROVE Goal
    <2>1. Goto(b, "attempt") \/ Goto(b, "fail_read")
      BY <1>3 DEF Acquire, AttemptFails
    <2>2. QED
      BY <2>1, GotoArrives DEF Arrives, Silent
  <1>4. ASSUME NEW b \in Submitters, Submit(b) PROVE Goal
    <2>1. at'[a] = at[a] \/ (a = b /\ at'[a].pc = "await")
      BY <1>4 DEF Submit, TypeOK, Frame
    <2>2. QED
      BY <1>4, <2>1 DEF Arrives
  <1>5. ASSUME NEW b \in Actors,
               \/ MarkJobAsSubmitted(b) \/ FailExhausted(b) \/ Abandon(b) \/ MarkProcessing(b)
               \/ MarkReady(b) \/ Finish(b)
        PROVE  Goal
    BY <1>5, ReturnArrives DEF MarkJobAsSubmitted, FailExhausted, Abandon, MarkProcessing,
                               MarkReady, Finish, Arrives, Silent
  <1>6. ASSUME NEW b \in Actors, FailRead(b) PROVE Goal
    BY <1>6 DEF FailRead, TypeOK, Frame, Arrives
  <1>7. ASSUME NEW b \in Actors, FailWrite(b) PROVE Goal
    <2>1. CASE RetryLeft(at[b].job)
      BY <1>7, <2>1, ReturnArrives DEF FailWrite, Arrives, Silent
    <2>2. CASE ~RetryLeft(at[b].job)
      BY <1>7, <2>2, GotoArrives DEF FailWrite, Arrives
    <2>3. QED
      BY <2>1, <2>2
  <1>8. ASSUME NEW h \in Hooks, NEW t \in Tids, NEW e \in Events, Deliver(h, t, e) PROVE Goal
    <2>1. HandlerFor(e) \in Silent \/ HandlerFor(e) = "store"
      BY DEF HandlerFor, Events, Silent
    <2>2. at'[a] = at[a] \/ (a = h /\ at'[a].pc = HandlerFor(e))
      BY <1>8 DEF Deliver, TypeOK, Frame
    <2>3. QED
      BY <1>8, <2>1, <2>2 DEF Arrives
  <1>9. ASSUME NEW b \in StoringActors, StoreTranscript(b) PROVE Goal
    BY <1>9, GotoArrives DEF StoreTranscript, Arrives
  <1>10. CASE StoreFails
    BY <1>10, GotoArrives DEF StoreFails, Arrives, Silent
  <1>11. CASE CheckStuck
    <2>1. PICK r \in batch[TimeoutWorker] : CheckStuck!2!(r)
      BY <1>11 DEF CheckStuck
    <2>2. NextStep(r.ext) \in Silent \/ NextStep(r.ext) = "store"
      BY DEF NextStep, Silent
    <2>3. at'[a] = at[a] \/ (a = TimeoutWorker /\ at'[a].pc = NextStep(r.ext))
      BY <2>1 DEF TypeOK, Frame
    <2>4. QED
      BY <1>11, <2>2, <2>3 DEF Arrives
  <1>12. CASE Touch
    BY <1>12, ReturnArrives DEF Touch, Arrives, Silent
  <1>13. ASSUME NEW w \in SummaryWorkers, PollReady(w) PROVE Goal
    BY <1>13 DEF PollReady, TypeOK, At, Frame, Arrives, Silent
  <1>14. ASSUME NEW w \in SummaryWorkers, ClaimReady(w) PROVE Goal
    BY <1>14, GotoArrives, ReturnArrives DEF ClaimReady, Takes, Arrives, Silent
  <1>15. ASSUME NEW w \in SummaryWorkers, Summarize(w) PROVE Goal
    BY <1>15, GotoArrives DEF Summarize, Arrives
  <1>16. ASSUME NEW w \in SummaryWorkers, SummaryFails(w) PROVE Goal
    BY <1>16, GotoArrives DEF SummaryFails, Arrives, Silent
  <1>17. CASE Crash
    BY <1>17, IdleFields DEF Crash, Arrives, Silent
  <1>18. CASE UNCHANGED at
    BY <1>18
  <1>19. QED
    BY <1>1, <1>2, <1>3, <1>4, <1>5, <1>6, <1>7, <1>8, <1>9, <1>10, <1>11, <1>12, <1>13,
       <1>14, <1>15, <1>16, <1>17, <1>18
       DEF Step, EgressEnded, PollPending, PollStuck, SkipRow, PollZombies, ResetZombie,
           AsmFinish, Age, vars

-----------------------------------------------------------------------------
(* The retry budget *)

LEMMA BudgetInit == Init => Budget
  <1> SUFFICES ASSUME Init PROVE Budget
    OBVIOUS
  <1>1. \A j \in Jobs : job[j].retries = 0 /\ job[j].status # "failed"
    BY NoRowFields DEF Init
  <1>2. \A a \in Actors : at[a].pc = "idle"
    BY IdleFields DEF Init
  <1>3. QED
    BY <1>1, <1>2, BoundsAssumption DEF Budget, RetriesBounded, FailedOnlyWhenExhausted

\* One row after a step: within the bound, failed only at the bound, and at the bound
\* for ever once there.
LEMMA BudgetRow ==
  ASSUME TypeOK, Busy, Budget, Step, NEW k \in Jobs
  PROVE  /\ job'[k].retries <= MaxRetries
         /\ job'[k].status = "failed" => job'[k].retries = MaxRetries
         /\ job[k].status # "none" /\ job[k].retries = MaxRetries => job'[k].retries = MaxRetries
  <1> DEFINE Goal == /\ job'[k].retries <= MaxRetries
                     /\ job'[k].status = "failed" => job'[k].retries = MaxRetries
                     /\ job[k].status # "none" /\ job[k].retries = MaxRetries
                          => job'[k].retries = MaxRetries
  <1>0. /\ job[k].retries \in Nat /\ MaxRetries \in Nat /\ job[k].retries <= MaxRetries
        /\ job[k].status = "failed" => job[k].retries = MaxRetries
    BY BoundsAssumption DEF TypeOK, AIJob, Budget, RetriesBounded, FailedOnlyWhenExhausted
  <1>1. CASE UNCHANGED <<job, takers>>
    BY <1>0, <1>1
  <1>2. ASSUME NEW j \in Jobs, NEW m \in Meetings, Inserts(j, m) PROVE Goal
    <2>1. job[j].status = "none"
      BY <1>2 DEF Inserts
    <2>2. job'[j].status = "pending" /\ job'[j].retries = 0
      BY <1>2, InsertedRows
    <2>3. k # j => job'[k] = job[k]
      BY <1>2, InsertedRows
    <2>4. QED
      BY <1>0, <2>1, <2>2, <2>3
  <1>3. ASSUME NEW j \in Jobs, NEW s \in Statuses \ {"none"}, WriteStatus(j, s), Because(j, s)
        PROVE  Goal
    <2>1. CASE j # k
      BY <1>0, <1>3, <2>1, StatusRows
    <2>2. CASE j = k
      <3>1. s = "failed" => job[k].retries = MaxRetries
        BY <1>3, <2>2 DEF Because, Budget
      <3>2. QED
        BY <1>0, <1>3, <2>2, <3>1, StatusRows
    <2>3. QED
      BY <2>1, <2>2
  <1>4. ASSUME NEW a \in Actors, MarkJobAsSubmitted(a) PROVE Goal
    BY <1>0, <1>4, SubmittedRows
  <1>5. ASSUME NEW a \in Actors, Retries(a) PROVE Goal
    BY <1>0, <1>5, RetriedRows DEF RetryStatuses
  <1>6. ASSUME NEW w \in SummaryWorkers, Takes(w) PROVE Goal
    BY <1>0, <1>6, TakenRows
  <1>7. ASSUME NEW j \in Jobs, Renews(j) \/ Ages(j) PROVE Goal
    BY <1>0, <1>7, AgedRows
  <1>8. QED
    BY <1>1, <1>2, <1>3, <1>4, <1>5, <1>6, <1>7, Effects, ActorSets

LEMMA BudgetStep == TypeOK /\ Busy /\ Created /\ Budget /\ [Next]_vars => Budget'
  <1> SUFFICES ASSUME TypeOK, Busy, Created, Budget, Step PROVE Budget'
    BY NextIsStep
  <1>1. ASSUME NEW a \in Actors, at'[a].pc = "exhausted"
        PROVE  job'[at'[a].job].retries = MaxRetries
    <2>1. CASE at'[a] = at[a]
      BY <1>1, <2>1, BudgetRow DEF Budget, Busy, Created
    <2>2. CASE FailWrite(a) /\ ~RetryLeft(at[a].job)
      <3>1. /\ at[a].job \in Jobs /\ job[at[a].job].status # "none"
            /\ at'[a].job = at[a].job
        BY <2>2 DEF FailWrite, Busy, Created, Goto, TypeOK, At, Frame
      <3>2. job[at[a].job].retries = MaxRetries
        <4>1. ~(job[at[a].job].retries < MaxRetries) /\ job[at[a].job].retries <= MaxRetries
          BY <2>2, <3>1 DEF RetryLeft, Budget, RetriesBounded
        <4>2. job[at[a].job].retries \in Nat /\ MaxRetries \in Nat
          BY <3>1, BoundsAssumption DEF TypeOK, AIJob
        <4>3. QED
          BY <4>1, <4>2
      <3>3. QED
        BY <3>1, <3>2, BudgetRow
    <2>3. QED
      BY <1>1, <2>1, <2>2, Arrivals DEF Arrives, Silent
  <1>2. QED
    BY <1>1, BudgetRow DEF Budget, RetriesBounded, FailedOnlyWhenExhausted

\* retry_count never passes max_retries, although MarkJobAsFailed reads the row and
\* updates it in separate statements and any number of goroutines run it at once.
THEOREM RetryBound == Spec => []RetriesBounded
  <1>1. Budget => RetriesBounded
    BY DEF Budget
  <1>2. QED
    BY <1>1, TypeCorrect, CreatedInit, CreatedStep, BudgetInit, BudgetStep, PTL DEF Spec

\* A job is marked failed only when every retry has been used.
THEOREM FailedMeansExhausted == Spec => []FailedOnlyWhenExhausted
  <1>1. Budget => FailedOnlyWhenExhausted
    BY DEF Budget
  <1>2. QED
    BY <1>1, TypeCorrect, CreatedInit, CreatedStep, BudgetInit, BudgetStep, PTL DEF Spec

-----------------------------------------------------------------------------
(* Lineage: which transcript belongs to which job *)

LEMMA RequestedStays ==
  ASSUME TypeOK, Step, NEW t \in Tids, NEW j, Requested(t, j)
  PROVE  asm'[t].job = j /\ asm'[t].state # "none"
  BY Requesting DEF Requested

LEMMA LineageInit == Init => Lineage
  <1> SUFFICES ASSUME Init PROVE Lineage
    OBVIOUS
  <1>1. (\A j \in Jobs : job[j].ext = NoTid) /\ (\A a \in Actors : at[a].pc = "idle")
    BY NoRowFields, IdleFields DEF Init
  <1>2. QED
    BY <1>1, ActorSets DEF Init, Lineage, WithTranscript

LEMMA Storing ==
  ASSUME Step
  PROVE  UNCHANGED stored \/ \E a \in StoringActors : StoreTranscript(a)
  BY DEF Step, EgressEnded, StartProcessing, PollPending, ClaimPending, Acquire, Submit,
         MarkJobAsSubmitted, AttemptFails, FailRead, FailWrite, FailExhausted, Abandon,
         Deliver, MarkProcessing, MarkReady, StoreFails, PollStuck, CheckStuck, SkipRow,
         Touch, PollReady, ClaimReady, Summarize, SummaryFails, Finish, PollZombies,
         ResetZombie, AsmFinish, Age, Crash, vars

\* The only rows of the timeout worker's batch that are new come from PollStuck.
LEMMA StuckRows ==
  ASSUME TypeOK, Step, NEW r \in batch'[TimeoutWorker]
  PROVE  r \in batch[TimeoutWorker] \/ (r.job \in Jobs /\ r.ext = job[r.job].ext)
  <1> USE ActorSets
  <1>1. CASE PollPending
    BY <1>1, NamesAssumption DEF PollPending, TypeOK
  <1>2. CASE PollZombies
    BY <1>2, NamesAssumption DEF PollZombies, TypeOK
  <1>3. CASE PollStuck
    BY <1>3 DEF PollStuck, RowsWithId, TypeOK
  <1>4. QED
    BY <1>1, <1>2, <1>3, BatchShrinks

\* Only MarkJobAsSubmitted gives a row an external id.
LEMMA ExternalIds ==
  ASSUME TypeOK, Busy, Step, NEW k \in Jobs, job'[k].ext # NoTid
  PROVE  \/ job'[k].ext = job[k].ext
         \/ \E a \in Actors : at[a].pc = "await" /\ at[a].job = k /\ job'[k].ext = at[a].tid
  <1> DEFINE Goal == \/ job'[k].ext = job[k].ext
                     \/ \E a \in Actors : /\ at[a].pc = "await" /\ at[a].job = k
                                          /\ job'[k].ext = at[a].tid
  <1>1. CASE UNCHANGED <<job, takers>>
    BY <1>1
  <1>2. ASSUME NEW j \in Jobs, NEW m \in Meetings, Inserts(j, m) PROVE Goal
    BY <1>2, InsertedRows
  <1>3. ASSUME NEW j \in Jobs, NEW s \in Statuses, WriteStatus(j, s) PROVE Goal
    BY <1>3, StatusRows
  <1>4. ASSUME NEW a \in Actors, MarkJobAsSubmitted(a) PROVE Goal
    <2>1. at[a].pc = "await"
      BY <1>4 DEF MarkJobAsSubmitted
    <2>2. QED
      BY <1>4, <2>1, SubmittedRows
  <1>5. ASSUME NEW a \in Actors, Retries(a) PROVE Goal
    BY <1>5, RetriedRows
  <1>6. ASSUME NEW w \in SummaryWorkers, Takes(w) PROVE Goal
    BY <1>6, TakenRows
  <1>7. ASSUME NEW j \in Jobs, Renews(j) \/ Ages(j) PROVE Goal
    BY <1>7, AgedRows
  <1>8. QED
    BY <1>1, <1>2, <1>3, <1>4, <1>5, <1>6, <1>7, Effects, ActorSets

LEMMA LineageStep == TypeOK /\ Busy /\ Lineage /\ [Next]_vars => Lineage' /\ (stored \subseteq stored')
  <1> SUFFICES ASSUME TypeOK, Busy, Lineage, Step PROVE Lineage' /\ (stored \subseteq stored')
    BY NextIsStep
  <1> USE ActorSets
  <1> DEFINE Owned(t, j) == asm'[t].job = j /\ asm'[t].state # "none"
  <1>0. ASSUME NEW t \in Tids, NEW j, Requested(t, j) PROVE Owned(t, j)
    BY <1>0, RequestedStays
  <1>1. ASSUME NEW k \in Jobs, job'[k].ext # NoTid PROVE Owned(job'[k].ext, k)
    <2>1. CASE job'[k].ext = job[k].ext
      <3>1. job[k].ext \in Tids /\ Requested(job[k].ext, k)
        BY <1>1, <2>1 DEF Lineage, TypeOK, AIJob
      <3>2. QED
        BY <2>1, <3>1, <1>0
    <2>2. ASSUME NEW a \in Actors, at[a].pc = "await", at[a].job = k, job'[k].ext = at[a].tid
          PROVE  Owned(job'[k].ext, k)
      <3>1. at[a].tid \in Tids /\ Requested(at[a].tid, k)
        BY <2>2 DEF Lineage, Busy, WithTranscript
      <3>2. QED
        BY <2>2, <3>1, <1>0
    <2>3. QED
      BY <1>1, <2>1, <2>2, ExternalIds
  <1>2. ASSUME NEW a \in Actors, at'[a].pc \in WithTranscript
        PROVE  Owned(at'[a].tid, at'[a].job)
    <2>1. CASE at'[a] = at[a]
      <3>1. at[a].tid \in Tids /\ Requested(at[a].tid, at[a].job)
        BY <1>2, <2>1 DEF Lineage, Busy
      <3>2. QED
        BY <2>1, <3>1, <1>0
    <2>2. CASE a \in Submitters /\ Submit(a)
      BY <2>2 DEF Submit, TypeOK, Frame
    <2>3. ASSUME NEW t \in Tids, NEW e \in Events, Deliver(a, t, e), at'[a] # at[a]
          PROVE  Owned(at'[a].tid, at'[a].job)
      <3>1. PICK j \in Jobs : job[j].ext = t /\ at' = [at EXCEPT ![a] = Frame(HandlerFor(e), j, t, "none")]
        BY <2>3 DEF Deliver
      <3>2. Requested(t, j)
        BY <3>1, NamesAssumption DEF Lineage
      <3>3. at'[a].tid = t /\ at'[a].job = j
        BY <3>1 DEF TypeOK, Frame
      <3>4. QED
        BY <3>2, <3>3, <1>0
    <2>4. CASE a = TimeoutWorker /\ CheckStuck /\ at'[a].pc = "store"
      <3>1. PICK r \in batch[TimeoutWorker] : CheckStuck!2!(r)
        BY <2>4 DEF CheckStuck
      <3>2. at'[a].pc = NextStep(r.ext) /\ at'[a].tid = r.ext /\ at'[a].job = r.job
        BY <2>4, <3>1 DEF TypeOK, Frame
      <3>3. r.ext \in Tids /\ Requested(r.ext, r.job)
        BY <2>4, <3>2 DEF NextStep, Lineage, TypeOK, Row
      <3>4. QED
        BY <3>2, <3>3, <1>0
    <2>5. QED
      BY <1>2, <2>1, <2>2, <2>3, <2>4, Arrivals DEF Arrives, Silent, WithTranscript
  <1>3. ASSUME NEW r \in batch'[TimeoutWorker], r.ext # NoTid PROVE Owned(r.ext, r.job)
    <2>1. r.ext \in Tids /\ Requested(r.ext, r.job)
      <3>1. CASE r \in batch[TimeoutWorker]
        BY <1>3, <3>1 DEF Lineage, TypeOK, Row
      <3>2. CASE r.job \in Jobs /\ r.ext = job[r.job].ext
        BY <1>3, <3>2 DEF Lineage, TypeOK, AIJob
      <3>3. QED
        BY <1>3, <3>1, <3>2, StuckRows
    <2>2. QED
      BY <2>1, <1>0
  <1>4. stored \subseteq stored' /\ \A t \in stored' : asm'[t].state # "none"
    <2>1. \A t \in stored : asm'[t].state # "none"
      BY RequestedStays DEF Lineage, Requested, TypeOK
    <2>2. ASSUME NEW a \in StoringActors, StoreTranscript(a)
          PROVE  stored \subseteq stored' /\ \A t \in stored' : asm'[t].state # "none"
      <3>1. at[a].tid \in Tids /\ Requested(at[a].tid, at[a].job)
        BY <2>2 DEF StoreTranscript, Busy, Lineage, WithTranscript
      <3>2. stored' = stored \union {at[a].tid} /\ asm'[at[a].tid].state # "none"
        BY <2>2, <3>1, <1>0 DEF StoreTranscript
      <3>3. QED
        BY <2>1, <3>2
    <2>3. CASE UNCHANGED stored
      BY <2>1, <2>3
    <2>4. QED
      BY <2>2, <2>3, Storing
  <1>5. QED
    BY <1>1, <1>2, <1>3, <1>4 DEF Lineage, Requested

\* The transcript under a job's external id was requested for that job, so the webhook
\* handler and the timeout worker never store one recording's words under another.
THEOREM IdsNeverSwapped == Spec => []ExternalIdOwned
  <1>1. Lineage => ExternalIdOwned
    BY DEF Lineage, ExternalIdOwned
  <1>2. QED
    BY <1>1, TypeCorrect, LineageInit, LineageStep, PTL DEF Spec

-----------------------------------------------------------------------------
(* The evidence a status stands for *)

\* The summary is stored, whether the attempt gets through or not.
WritesSummary(w) == (Summarize(w) \/ SummaryFails(w)) /\ StoreSummary(w)

LEMMA Summarizers ==
  ASSUME Step
  PROVE  UNCHANGED summary \/ \E w \in SummaryWorkers : WritesSummary(w)
  BY DEF WritesSummary, Step, Summarize, EgressEnded, StartProcessing, PollPending,
         ClaimPending, Acquire, Submit, MarkJobAsSubmitted, AttemptFails, FailRead, FailWrite,
         FailExhausted, Abandon, Deliver, MarkProcessing, MarkReady, StoreTranscript,
         StoreFails, PollStuck, CheckStuck, SkipRow, Touch, PollReady, ClaimReady,
         SummaryFails, Finish, PollZombies, ResetZombie, AsmFinish, Age, Crash, vars

\* What it does, with the meeting named.
LEMMA SummarizeEffect ==
  ASSUME TypeOK, Busy, NEW w \in SummaryWorkers, WritesSummary(w)
  PROVE  LET j == at[w].job IN
         /\ j \in Jobs /\ job[j].meeting \in Meetings
         /\ \E t \in TranscriptsOf(job[j].meeting) :
              summary' = [summary EXCEPT ![job[j].meeting] = t]
         /\ UNCHANGED <<job, asm, stored>>
  BY ActorSets DEF WritesSummary, Summarize, SummaryFails, StoreSummary, Busy, TypeOK, AIJob

LEMMA TranscriptsStay ==
  ASSUME TypeOK, Busy, Created, Lineage, Step, stored \subseteq stored', NEW t \in stored
  PROVE  /\ t \in stored' /\ asm'[t].job = asm[t].job /\ asm[t].job \in Jobs
         /\ job'[asm'[t].job].meeting = job[asm[t].job].meeting
  <1>1. t \in Tids /\ asm[t].state # "none"
    BY DEF TypeOK, Lineage
  <1>2. asm[t].job \in Jobs /\ job[asm[t].job].status # "none"
    BY <1>1 DEF Created
  <1>3. asm'[t].job = asm[t].job
    BY <1>1, RequestedStays DEF Requested
  <1>4. QED
    BY <1>2, <1>3, RowsStay

LEMMA SummaryStays ==
  ASSUME TypeOK, Busy, Created, Lineage, Step, stored \subseteq stored',
         NEW j \in Jobs, job[j].status # "none", HasSummary(j)
  PROVE  HasSummary(j)'
  <1> DEFINE m == job[j].meeting
  <1>1. m \in Meetings /\ job'[j].meeting = m
    BY RowsStay DEF TypeOK, AIJob
  <1>2. \A t \in TranscriptsOf(m) : t \in stored' /\ job'[asm'[t].job].meeting = m
    BY TranscriptsStay DEF TranscriptsOf
  <1>3. summary'[m] \in TranscriptsOf(m)
    <2>1. CASE UNCHANGED summary
      BY <2>1 DEF HasSummary
    <2>2. ASSUME NEW w \in SummaryWorkers, WritesSummary(w) PROVE summary'[m] \in TranscriptsOf(m)
      <3>1. PICK t \in TranscriptsOf(job[at[w].job].meeting) :
              summary' = [summary EXCEPT ![job[at[w].job].meeting] = t]
        BY <2>2, SummarizeEffect
      <3>2. QED
        BY <1>1, <3>1 DEF HasSummary, TypeOK
    <2>3. QED
      BY <2>1, <2>2, Summarizers
  <1>4. QED
    BY <1>1, <1>2, <1>3 DEF HasSummary, TranscriptsOf

\* The only rows of the clean-up's batch that are new come from PollZombies.
LEMMA ZombieRows ==
  ASSUME TypeOK, Step, NEW r \in batch'[ZombieWorker]
  PROVE  r \in batch[ZombieWorker] \/ (r.job \in Jobs /\ job[r.job].status = "summarizing")
  <1> USE ActorSets
  <1>1. CASE PollPending
    BY <1>1, NamesAssumption DEF PollPending, TypeOK
  <1>2. CASE PollStuck
    BY <1>2, NamesAssumption DEF PollStuck, TypeOK
  <1>3. CASE PollZombies
    <2>1. PICK S \in SUBSET Page(InStatus("summarizing"), ScanLimit) :
            batch' = [batch EXCEPT ![ZombieWorker] = Rows(S)]
      BY <1>3 DEF PollZombies
    <2>2. r \in batch[ZombieWorker] \/ r.job \in S
      BY <2>1, NewRow
    <2>3. QED
      BY <2>1, <2>2, PageType, BoundsAssumption DEF Statuses
  <1>4. QED
    BY <1>1, <1>2, <1>3, BatchShrinks

LEMMA EvidenceInit == Init => Evidence
  <1> SUFFICES ASSUME Init PROVE Evidence
    OBVIOUS
  <1>1. (\A j \in Jobs : job[j].status = "none") /\ (\A a \in Actors : at[a].pc = "idle")
    BY NoRowFields, IdleFields DEF Init
  <1>2. batch[ZombieWorker] = {}
    BY ActorSets DEF Init
  <1>3. QED
    BY <1>1, <1>2 DEF Evidence, TranscriptBeforeSummary, CompletedHasSummary

LEMMA EvidenceStep ==
  TypeOK /\ Busy /\ Created /\ Lineage /\ Evidence /\ [Next]_vars => Evidence'
  <1> SUFFICES ASSUME TypeOK, Busy, Created, Lineage, Evidence, Step, stored \subseteq stored'
               PROVE  Evidence'
    BY NextIsStep, LineageStep
  <1> USE ActorSets
  <1> DEFINE HT(j) == \E t \in stored' : asm'[t].job = j
             Made(j) == summary'[job'[j].meeting]
             HS(j) == Made(j) \in stored' /\ job'[asm'[Made(j)].job].meeting = job'[j].meeting
  <1>1. ASSUME NEW j, HasTranscript(j) PROVE HT(j)
    BY <1>1, TranscriptsStay DEF HasTranscript
  <1>2. ASSUME NEW j \in Jobs, job[j].status # "none", HasSummary(j) PROVE HS(j)
    BY <1>2, SummaryStays DEF HasSummary, TranscriptsOf
  <1>3. ASSUME NEW k \in Jobs, job'[k].status \in {"transcript_ready", "summarizing", "completed"}
        PROVE  HasTranscript(k)
    <2>0. job'[k].status = job[k].status => HasTranscript(k)
      BY <1>3 DEF Evidence, TranscriptBeforeSummary
    <2>1. CASE UNCHANGED <<job, takers>>
      BY <2>0, <2>1
    <2>2. ASSUME NEW j \in Jobs, NEW m \in Meetings, Inserts(j, m) PROVE HasTranscript(k)
      BY <1>3, <2>0, <2>2, InsertedRows
    <2>3. ASSUME NEW j \in Jobs, NEW s \in Statuses \ {"none"}, WriteStatus(j, s), Because(j, s)
          PROVE  HasTranscript(k)
      <3>1. CASE j # k
        BY <2>0, <2>3, <3>1, StatusRows
      <3>2. CASE j = k
        <4>1. s \in {"transcript_ready", "summarizing", "completed"}
          BY <1>3, <2>3, <3>2, StatusRows
        <4>2. QED
          BY <2>3, <3>2, <4>1 DEF Because, Evidence
      <3>3. QED
        BY <3>1, <3>2
    <2>4. ASSUME NEW a \in Actors, MarkJobAsSubmitted(a) PROVE HasTranscript(k)
      BY <1>3, <2>0, <2>4, SubmittedRows
    <2>5. ASSUME NEW a \in Actors, Retries(a) PROVE HasTranscript(k)
      <3>1. at[a].pc = "fail_write"
        BY <2>5 DEF Retries, FailWrite
      <3>2. QED
        BY <1>3, <2>0, <2>5, <3>1, RetriedRows DEF Evidence, RetryStatuses
    <2>6. ASSUME NEW w \in SummaryWorkers, Takes(w) PROVE HasTranscript(k)
      BY <1>3, <2>0, <2>6, TakenRows DEF Evidence, TranscriptBeforeSummary
    <2>7. ASSUME NEW j \in Jobs, Renews(j) \/ Ages(j) PROVE HasTranscript(k)
      BY <2>0, <2>7, AgedRows
    <2>8. QED
      BY <2>1, <2>2, <2>3, <2>4, <2>5, <2>6, <2>7, Effects
  <1>4. ASSUME NEW k \in Jobs, job'[k].status = "completed"
        PROVE  job[k].status # "none" /\ HasSummary(k)
    <2> DEFINE Goal == job[k].status # "none" /\ HasSummary(k)
    <2>0. job'[k].status = job[k].status => Goal
      BY <1>4 DEF Evidence, CompletedHasSummary
    <2>1. CASE UNCHANGED <<job, takers>>
      BY <2>0, <2>1
    <2>2. ASSUME NEW j \in Jobs, NEW m \in Meetings, Inserts(j, m) PROVE Goal
      BY <1>4, <2>0, <2>2, InsertedRows
    <2>3. ASSUME NEW j \in Jobs, NEW s \in Statuses \ {"none"}, WriteStatus(j, s), Because(j, s)
          PROVE  Goal
      <3>1. CASE j # k
        BY <2>0, <2>3, <3>1, StatusRows
      <3>2. CASE j = k
        <4>1. s = "completed"
          BY <1>4, <2>3, <3>2, StatusRows
        <4>2. PICK a \in Actors : at[a].pc = "finish" /\ at[a].job = k
          BY <2>3, <3>2, <4>1 DEF Because
        <4>3. QED
          BY <4>2 DEF Evidence, Created
      <3>3. QED
        BY <3>1, <3>2
    <2>4. ASSUME NEW a \in Actors, MarkJobAsSubmitted(a) PROVE Goal
      BY <1>4, <2>0, <2>4, SubmittedRows
    <2>5. ASSUME NEW a \in Actors, Retries(a) PROVE Goal
      BY <1>4, <2>0, <2>5, RetriedRows DEF RetryStatuses
    <2>6. ASSUME NEW w \in SummaryWorkers, Takes(w) PROVE Goal
      BY <1>4, <2>0, <2>6, TakenRows
    <2>7. ASSUME NEW j \in Jobs, Renews(j) \/ Ages(j) PROVE Goal
      BY <2>0, <2>7, AgedRows
    <2>8. QED
      BY <2>1, <2>2, <2>3, <2>4, <2>5, <2>6, <2>7, Effects
  <1>5. ASSUME NEW r \in batch'[ZombieWorker] PROVE HT(r.job)
    BY <1>1, <1>5, ZombieRows DEF Evidence, TranscriptBeforeSummary
  <1>6. ASSUME NEW a \in Actors, at'[a].pc \in {"ready", "work", "finish"} PROVE HT(at'[a].job)
    <2>1. CASE at'[a] = at[a]
      BY <1>1, <1>6, <2>1 DEF Evidence
    <2>2. CASE StoreTranscript(a)
      <3>1. at[a].tid \in stored' /\ at'[a].job = at[a].job
        BY <2>2 DEF StoreTranscript, Goto, TypeOK, At, Frame
      <3>2. at[a].tid \in Tids /\ Requested(at[a].tid, at[a].job)
        BY <2>2 DEF StoreTranscript, Busy, Lineage, WithTranscript
      <3>3. QED
        BY <3>1, <3>2, RequestedStays
    <2>3. CASE a \in SummaryWorkers /\ Takes(a)
      <3>1. HasTranscript(at[a].job)
        BY <2>3, TakenRows DEF Evidence, TranscriptBeforeSummary
      <3>2. at'[a].job = at[a].job
        BY <2>3 DEF Takes, ClaimReady, Goto, TypeOK, At, Frame
      <3>3. QED
        BY <1>1, <3>1, <3>2
    <2>4. CASE a \in SummaryWorkers /\ Summarize(a)
      <3>1. HasTranscript(at[a].job)
        BY <2>4 DEF Summarize, Evidence
      <3>2. at'[a].job = at[a].job
        BY <2>4 DEF Summarize, Goto, TypeOK, At, Frame
      <3>3. QED
        BY <1>1, <3>1, <3>2
    <2>5. QED
      BY <1>6, <2>1, <2>2, <2>3, <2>4, Arrivals DEF Arrives, Silent
  <1>7. ASSUME NEW a \in Actors, at'[a].pc = "finish" PROVE HS(at'[a].job)
    <2>1. CASE at'[a] = at[a]
      <3>1. HasSummary(at[a].job) /\ at[a].job \in Jobs /\ job[at[a].job].status # "none"
        BY <1>7, <2>1 DEF Evidence, Created, Busy
      <3>2. QED
        BY <1>2, <2>1, <3>1
    <2>2. CASE a \in SummaryWorkers /\ Summarize(a)
      <3> DEFINE j == at[a].job
      <3>0. WritesSummary(a)
        BY <2>2 DEF WritesSummary, Summarize
      <3>1. PICK t \in TranscriptsOf(job[j].meeting) :
              summary' = [summary EXCEPT ![job[j].meeting] = t]
        BY <2>2, <3>0, SummarizeEffect
      <3>2. j \in Jobs /\ job[j].meeting \in Meetings /\ UNCHANGED <<job, asm, stored>>
        BY <2>2, <3>0, SummarizeEffect
      <3>3. summary'[job'[j].meeting] = t
        BY <3>1, <3>2 DEF TypeOK
      <3>4. at'[a].job = j
        BY <2>2 DEF Summarize, Goto, TypeOK, At, Frame
      <3>5. t \in stored' /\ job'[asm'[t].job].meeting = job'[j].meeting
        BY <3>1, <3>2 DEF TranscriptsOf
      <3>6. QED
        BY <3>3, <3>4, <3>5
    <2> HIDE DEF HS
    <2>3. at'[a] = at[a] \/ (a \in SummaryWorkers /\ Summarize(a))
      BY <1>7, Arrivals DEF Arrives, Silent
    <2>4. QED
      BY <2>1, <2>2, <2>3
  <1>8. ASSUME NEW a \in Actors, at'[a].pc = "fail_write", at'[a].arg = "transcript_ready"
        PROVE  HT(at'[a].job)
    <2>1. CASE at'[a] = at[a]
      BY <1>1, <1>8, <2>1 DEF Evidence
    <2>2. CASE FailRead(a)
      <3>1. /\ at'[a].job = at[a].job /\ at'[a].arg = RetryStatus(at[a].job)
            /\ at[a].job \in Jobs
        BY <2>2 DEF FailRead, TypeOK, Frame, Busy
      <3>2. job[at[a].job].status = "summarizing"
        BY <1>8, <3>1 DEF RetryStatus
      <3>3. QED
        BY <1>1, <3>1, <3>2 DEF Evidence, TranscriptBeforeSummary
    <2>3. QED
      BY <1>8, <2>1, <2>2, Arrivals DEF Arrives, Silent
  <1>9. TranscriptBeforeSummary'
    BY <1>1, <1>3 DEF TranscriptBeforeSummary, HasTranscript
  <1>10. CompletedHasSummary'
    BY <1>2, <1>4 DEF CompletedHasSummary, HasSummary, TranscriptsOf
  <1>11. \A r \in batch'[ZombieWorker] : HasTranscript(r.job)'
    BY <1>5 DEF HasTranscript
  <1>12. ASSUME NEW a \in Actors
         PROVE  /\ (at[a].pc \in {"ready", "work", "finish"} => HasTranscript(at[a].job))'
                /\ (at[a].pc = "finish" => HasSummary(at[a].job))'
                /\ (at[a].pc = "fail_write" /\ at[a].arg = "transcript_ready"
                      => HasTranscript(at[a].job))'
    <2>1. (at[a].pc = "finish" => HasSummary(at[a].job))'
      BY <1>7 DEF HasSummary, TranscriptsOf
    <2>2. QED
      BY <2>1, <1>6, <1>8 DEF HasTranscript
  <1>13. QED
    BY <1>9, <1>10, <1>11, <1>12 DEF Evidence

\* No job waits for its summary, is summarised or is completed before a transcript of its
\* own recording is stored, whatever mix of webhooks, polls, retries, clean-ups and
\* crashes brought it there.
THEOREM TranscriptFirst == Spec => []TranscriptBeforeSummary
  <1>1. Evidence => TranscriptBeforeSummary
    BY DEF Evidence
  <1>2. QED
    BY <1>1, TypeCorrect, CreatedInit, CreatedStep, LineageInit, LineageStep, EvidenceInit,
       EvidenceStep, PTL DEF Spec

\* A completed job's meeting has a summary made from a stored transcript of that meeting.
THEOREM SummaryExists == Spec => []CompletedHasSummary
  <1>1. Evidence => CompletedHasSummary
    BY DEF Evidence
  <1>2. QED
    BY <1>1, TypeCorrect, CreatedInit, CreatedStep, LineageInit, LineageStep, EvidenceInit,
       EvidenceStep, PTL DEF Spec

-----------------------------------------------------------------------------
(* Retries and the abstract pipeline *)

LEMMA Requeue ==
  ASSUME TypeOK, Busy, Step, NEW k \in Jobs, job[k].status # "none", job[k].status # "pending",
         job'[k].status = "pending"
  PROVE  job'[k].retries = job[k].retries + 1
  <1> DEFINE Goal == job'[k].retries = job[k].retries + 1
  <1>1. CASE UNCHANGED <<job, takers>>
    BY <1>1
  <1>2. ASSUME NEW j \in Jobs, NEW m \in Meetings, Inserts(j, m) PROVE Goal
    BY <1>2, InsertedRows DEF Inserts
  <1>3. ASSUME NEW j \in Jobs, NEW s \in Statuses, WriteStatus(j, s), Because(j, s) PROVE Goal
    <2>1. s # "pending"
      BY <1>3 DEF Because
    <2>2. QED
      BY <1>3, <2>1, StatusRows
  <1>4. ASSUME NEW a \in Actors, MarkJobAsSubmitted(a) PROVE Goal
    BY <1>4, SubmittedRows
  <1>5. ASSUME NEW a \in Actors, Retries(a) PROVE Goal
    BY <1>5, RetriedRows
  <1>6. ASSUME NEW w \in SummaryWorkers, Takes(w) PROVE Goal
    BY <1>6, TakenRows
  <1>7. ASSUME NEW j \in Jobs, Renews(j) \/ Ages(j) PROVE Goal
    BY <1>7, AgedRows
  <1>8. QED
    BY <1>1, <1>2, <1>3, <1>4, <1>5, <1>6, <1>7, Effects, ActorSets

\* Every return of a job to the submission queue is paid for with one of its retries, so
\* (with RetryBound) a recording is queued at most MaxRetries + 1 times.
THEOREM RequeuePaid == Spec => RequeueSpendsRetry
  <1>1. TypeOK /\ Busy /\ [Next]_vars =>
          [\A j \in Jobs :
             (job[j].status # "none" /\ job[j].status # "pending" /\ job'[j].status = "pending")
               => job'[j].retries = job[j].retries + 1]_vars
    BY NextIsStep, Requeue
  <1>2. QED
    BY <1>1, TypeCorrect, PTL DEF Spec, RequeueSpendsRetry

\* The state of AIPipeline that a state of AIJobs stands for.
PhaseMap    == [j \in Jobs |-> PhaseOf(job[j].status)]
MeetingMap  == [j \in Jobs |-> job[j].meeting]
SpentMap    == [j \in Jobs |-> job[j].retries]
Transcribed == {asm[t].job : t \in stored}
Summarized  == {m \in Meetings : summary[m] # NoTid}

\* One row changes: so does one entry of each map.
LEMMA RowWrite ==
  ASSUME NEW j \in Jobs, \A k \in Jobs \ {j} : job'[k] = job[k]
  PROVE  /\ PhaseMap' = [PhaseMap EXCEPT ![j] = PhaseOf(job'[j].status)]
         /\ MeetingMap' = [MeetingMap EXCEPT ![j] = job'[j].meeting]
         /\ SpentMap' = [SpentMap EXCEPT ![j] = job'[j].retries]
         /\ job'[j].meeting = job[j].meeting => MeetingMap' = MeetingMap
         /\ job'[j].retries = job[j].retries => SpentMap' = SpentMap
  <1>1. PhaseMap' = [PhaseMap EXCEPT ![j] = PhaseOf(job'[j].status)]
    BY DEF PhaseMap
  <1>2. MeetingMap' = [MeetingMap EXCEPT ![j] = job'[j].meeting]
    BY DEF MeetingMap
  <1>3. SpentMap' = [SpentMap EXCEPT ![j] = job'[j].retries]
    BY DEF SpentMap
  <1>4. job'[j].meeting = job[j].meeting => MeetingMap' = MeetingMap
    BY DEF MeetingMap
  <1>5. job'[j].retries = job[j].retries => SpentMap' = SpentMap
    BY DEF SpentMap
  <1>6. QED
    BY <1>1, <1>2, <1>3, <1>4, <1>5

\* A statement that writes a row writes neither transcripts nor summaries.
LEMMA OneTable ==
  ASSUME Step
  PROVE  UNCHANGED job \/ UNCHANGED <<asm, stored, summary>>
  BY DEF Step, EgressEnded, StartProcessing, PollPending, ClaimPending, Acquire, Submit,
         MarkJobAsSubmitted, AttemptFails, FailRead, FailWrite, FailExhausted, Abandon,
         Deliver, MarkProcessing, MarkReady, StoreTranscript, StoreFails, PollStuck,
         CheckStuck, SkipRow, Touch, PollReady, ClaimReady, Summarize, SummaryFails, Finish,
         PollZombies, ResetZombie, AsmFinish, Age, Crash, vars

\* What the properties of AIJobs say in terms of AIPipeline.
LEMMA Abstractly ==
  ASSUME TypeOK, NEW j \in Jobs
  PROVE  /\ HasTranscript(j) => j \in Transcribed
         /\ HasSummary(j) => MeetingMap[j] \in Summarized
         /\ PhaseMap[j] = PhaseOf(job[j].status) /\ SpentMap[j] = job[j].retries
         /\ MeetingMap[j] = job[j].meeting
         /\ job[j].status # "none" => PhaseMap[j] # "none"
  <1>1. HasTranscript(j) => j \in Transcribed
    BY DEF HasTranscript, Transcribed
  <1>2. HasSummary(j) => MeetingMap[j] \in Summarized
    BY NamesAssumption DEF HasSummary, MeetingMap, Summarized, TranscriptsOf, TypeOK, AIJob
  <1>3. /\ PhaseMap[j] = PhaseOf(job[j].status) /\ SpentMap[j] = job[j].retries
        /\ MeetingMap[j] = job[j].meeting
    BY DEF PhaseMap, SpentMap, MeetingMap
  <1>4. job[j].status # "none" => PhaseMap[j] # "none"
    BY <1>3 DEF PhaseOf, TypeOK, AIJob, Statuses
  <1>5. QED
    BY <1>1, <1>2, <1>3, <1>4

PipelineVars == <<PhaseMap, MeetingMap, SpentMap, Transcribed, Summarized>>

LEMMA PipelineInit == Init => Pipeline!Init
  <1> SUFFICES ASSUME Init PROVE Pipeline!Init
    OBVIOUS
  <1>1. \A j \in Jobs : /\ job[j].status = "none" /\ job[j].retries = 0
                        /\ job[j].meeting \in Meetings
    BY NoRowFields, NoRowType DEF Init, AIJob
  <1>2. PhaseMap = [j \in Jobs |-> "none"] /\ SpentMap = [j \in Jobs |-> 0]
    BY <1>1 DEF PhaseMap, SpentMap, PhaseOf
  <1>3. MeetingMap \in [Jobs -> Meetings]
    BY <1>1 DEF MeetingMap
  <1>4. Transcribed = {} /\ Summarized = {}
    BY DEF Init, Transcribed, Summarized
  <1>5. QED
    BY <1>2, <1>3, <1>4
       DEF Pipeline!Init, PhaseMap, SpentMap, MeetingMap, Transcribed, Summarized

\* The actions of AIPipeline over these maps.
Enter(j, p)  == PhaseMap[j] # "none" /\ PhaseMap' = [PhaseMap EXCEPT ![j] = p]
OnlyPhase    == UNCHANGED <<MeetingMap, SpentMap, Transcribed, Summarized>>

Records(j, m)  == /\ PhaseMap[j] = "none" /\ PhaseMap' = [PhaseMap EXCEPT ![j] = "waiting"]
                  /\ MeetingMap' = [MeetingMap EXCEPT ![j] = m]
                  /\ UNCHANGED <<SpentMap, Transcribed, Summarized>>
Submits(j)     == Enter(j, "waiting") /\ OnlyPhase
Transcribes(j) == /\ PhaseMap[j] # "none" /\ Transcribed' = Transcribed \union {j}
                  /\ UNCHANGED <<PhaseMap, MeetingMap, SpentMap, Summarized>>
Opens(j)       == j \in Transcribed /\ Enter(j, "ready") /\ OnlyPhase
Summarizes(j)  == /\ j \in Transcribed /\ Summarized' = Summarized \union {MeetingMap[j]}
                  /\ UNCHANGED <<PhaseMap, MeetingMap, SpentMap, Transcribed>>
Completes(j)   == /\ j \in Transcribed /\ MeetingMap[j] \in Summarized
                  /\ Enter(j, "done") /\ OnlyPhase
Spends(j)      == /\ SpentMap[j] < MaxRetries /\ SpentMap' = [SpentMap EXCEPT ![j] = @ + 1]
                  /\ Enter(j, "waiting") \/ (j \in Transcribed /\ Enter(j, "ready"))
                  /\ UNCHANGED <<MeetingMap, Transcribed, Summarized>>
GivesUp(j)     == SpentMap[j] = MaxRetries /\ Enter(j, "dead") /\ OnlyPhase

LEMMA PipelineActions ==
  ASSUME NEW j \in Jobs,
         \/ \E m \in Meetings : Records(j, m)
         \/ Submits(j) \/ Transcribes(j) \/ Opens(j) \/ Summarizes(j) \/ Completes(j)
         \/ Spends(j) \/ GivesUp(j)
  PROVE  Pipeline!Next
  <1> USE DEF Enter, OnlyPhase, PhaseMap, MeetingMap, SpentMap, Transcribed, Summarized,
              Pipeline!Enter, Pipeline!Next
  <1>1. ASSUME NEW m \in Meetings, Records(j, m) PROVE Pipeline!Next
    BY <1>1 DEF Records, Pipeline!Record
  <1>2. CASE Submits(j)
    BY <1>2 DEF Submits, Pipeline!Submit
  <1>3. CASE Transcribes(j)
    BY <1>3 DEF Transcribes, Pipeline!Transcribe
  <1>4. CASE Opens(j)
    BY <1>4 DEF Opens, Pipeline!Open
  <1>5. CASE Summarizes(j)
    BY <1>5 DEF Summarizes, Pipeline!Summarize
  <1>6. CASE Completes(j)
    BY <1>6 DEF Completes, Pipeline!Complete
  <1>7. CASE Spends(j)
    BY <1>7 DEF Spends, Pipeline!Retry
  <1>8. CASE GivesUp(j)
    BY <1>8 DEF GivesUp, Pipeline!GiveUp
  <1>9. QED
    BY <1>1, <1>2, <1>3, <1>4, <1>5, <1>6, <1>7, <1>8

PipelineInv == TypeOK /\ Busy /\ Created /\ Budget /\ Lineage /\ Evidence

\* A step that writes no row.
LEMMA PipelineSteady ==
  ASSUME PipelineInv, Step, stored \subseteq stored', UNCHANGED job
  PROVE  UNCHANGED PipelineVars \/ \E j \in Jobs : Transcribes(j) \/ Summarizes(j)
  <1> USE ActorSets DEF PipelineInv
  <1>1. UNCHANGED <<PhaseMap, MeetingMap, SpentMap>>
    BY DEF PhaseMap, MeetingMap, SpentMap
  <1>2. ASSUME NEW a \in StoringActors, StoreTranscript(a) PROVE Transcribes(at[a].job)
    <2>1. /\ at[a].tid \in Tids /\ at[a].job \in Jobs /\ job[at[a].job].status # "none"
          /\ asm[at[a].tid].job = at[a].job
      BY <1>2 DEF StoreTranscript, Busy, Created, Lineage, Requested, WithTranscript
    <2>2. Transcribed' = Transcribed \union {at[a].job}
      BY <1>2, <2>1 DEF StoreTranscript, Transcribed
    <2>3. Summarized' = Summarized
      BY <1>2 DEF StoreTranscript, Summarized
    <2>4. PhaseMap[at[a].job] # "none"
      BY <2>1, Abstractly
    <2>5. QED
      BY <1>1, <2>2, <2>3, <2>4 DEF Transcribes
  <1>3. ASSUME NEW w \in SummaryWorkers, WritesSummary(w) PROVE Summarizes(at[w].job)
    <2> DEFINE j == at[w].job
    <2>1. PICK t \in TranscriptsOf(job[j].meeting) : summary' = [summary EXCEPT ![job[j].meeting] = t]
      BY <1>3, SummarizeEffect
    <2>2. j \in Jobs /\ job[j].meeting \in Meetings /\ UNCHANGED <<job, asm, stored>>
      BY <1>3, SummarizeEffect
    <2>3. t # NoTid
      BY NamesAssumption DEF TranscriptsOf, TypeOK
    <2>4. Summarized' = Summarized \union {job[j].meeting}
      BY <2>1, <2>2, <2>3 DEF Summarized, TypeOK
    <2>5. Transcribed' = Transcribed
      BY <2>2 DEF Transcribed
    <2>6. j \in Transcribed /\ MeetingMap[j] = job[j].meeting
      BY <1>3, <2>2, Abstractly DEF WritesSummary, Summarize, SummaryFails, Evidence
    <2>7. QED
      BY <1>1, <2>4, <2>5, <2>6 DEF Summarizes
  <1>4. CASE UNCHANGED <<stored, summary>>
    <2>1. \A t \in stored : asm'[t].job = asm[t].job
      BY TranscriptsStay
    <2>2. Transcribed' = Transcribed /\ Summarized' = Summarized
      BY <1>4, <2>1 DEF Transcribed, Summarized
    <2>3. QED
      BY <1>1, <2>2 DEF PipelineVars
  <1>5. \/ \E a \in StoringActors : StoreTranscript(a) /\ at[a].job \in Jobs
        \/ \E w \in SummaryWorkers : WritesSummary(w) /\ at[w].job \in Jobs
        \/ UNCHANGED <<stored, summary>>
    BY Storing, Summarizers DEF StoreTranscript, WritesSummary, Summarize, SummaryFails, Busy
  <1>6. QED
    BY <1>2, <1>3, <1>4, <1>5

\* A step that writes a row.
LEMMA PipelineWrite ==
  ASSUME PipelineInv, Step, UNCHANGED <<asm, stored, summary>>
  PROVE  \/ UNCHANGED PipelineVars
         \/ \E j \in Jobs : \/ \E m \in Meetings : Records(j, m)
                            \/ Submits(j) \/ Opens(j) \/ Completes(j) \/ Spends(j) \/ GivesUp(j)
  <1> DEFINE Goal ==
         \/ UNCHANGED PipelineVars
         \/ \E j \in Jobs : \/ \E m \in Meetings : Records(j, m)
                            \/ Submits(j) \/ Opens(j) \/ Completes(j) \/ Spends(j) \/ GivesUp(j)
  <1> USE ActorSets DEF PipelineInv
  <1>1. UNCHANGED <<Transcribed, Summarized>>
    BY DEF Transcribed, Summarized
  <1>2. CASE UNCHANGED <<job, takers>>
    BY <1>1, <1>2 DEF PipelineVars, PhaseMap, MeetingMap, SpentMap
  <1>3. ASSUME NEW j \in Jobs, NEW m \in Meetings, Inserts(j, m) PROVE Records(j, m)
    <2>1. job[j].status = "none" /\ job[j].retries = 0 /\ PhaseMap[j] = "none"
      BY <1>3, Abstractly DEF Inserts, Created, PhaseOf
    <2>2. /\ job'[j] = NewAIJob(m) /\ job'[j].status = "pending" /\ job'[j].retries = 0
          /\ \A k \in Jobs \ {j} : job'[k] = job[k]
      BY <1>3, InsertedRows
    <2>3. job'[j].meeting = m /\ PhaseOf(job'[j].status) = "waiting"
      BY <2>2 DEF NewAIJob, PhaseOf
    <2>4. QED
      BY <1>1, <2>1, <2>2, <2>3, RowWrite DEF Records
  <1>4. ASSUME NEW j \in Jobs, NEW s \in Statuses \ {"none"}, WriteStatus(j, s), Because(j, s)
        PROVE  Submits(j) \/ Opens(j) \/ Completes(j) \/ GivesUp(j)
    <2>1. PhaseMap' = [PhaseMap EXCEPT ![j] = PhaseOf(s)] /\ OnlyPhase
      BY <1>1, <1>4, StatusRows, RowWrite DEF OnlyPhase
    <2>2. PhaseMap[j] # "none"
      <3>1. job[j].status # "none"
        BY <1>4 DEF Because, Held, Created
      <3>2. QED
        BY <3>1, Abstractly
    <2>3. CASE s \in {"submitted", "processing"}
      BY <2>1, <2>2, <2>3 DEF PhaseOf, Submits, Enter
    <2>4. CASE s = "transcript_ready"
      <3>1. HasTranscript(j)
        BY <1>4, <2>4 DEF Because, Evidence
      <3>2. QED
        BY <2>1, <2>2, <2>4, <3>1, Abstractly DEF PhaseOf, Opens, Enter
    <2>5. CASE s = "completed"
      <3>1. HasTranscript(j) /\ HasSummary(j)
        BY <1>4, <2>5 DEF Because, Evidence
      <3>2. QED
        BY <2>1, <2>2, <2>5, <3>1, Abstractly DEF PhaseOf, Completes, Enter
    <2>6. CASE s = "failed"
      <3>1. job[j].retries = MaxRetries
        BY <1>4, <2>6 DEF Because, Budget
      <3>2. QED
        BY <2>1, <2>2, <2>6, <3>1, Abstractly DEF PhaseOf, GivesUp, Enter
    <2>7. QED
      BY <1>4, <2>3, <2>4, <2>5, <2>6 DEF Because
  <1>5. ASSUME NEW a \in Actors, MarkJobAsSubmitted(a)
        PROVE  at[a].job \in Jobs /\ Submits(at[a].job)
    <2> DEFINE j == at[a].job
    <2>1. j \in Jobs /\ PhaseMap[j] # "none"
      BY <1>5, SubmittedRows, Abstractly DEF Created, MarkJobAsSubmitted
    <2>2. PhaseMap' = [PhaseMap EXCEPT ![j] = "waiting"] /\ OnlyPhase
      BY <1>1, <1>5, SubmittedRows, RowWrite DEF OnlyPhase, PhaseOf
    <2>3. QED
      BY <2>1, <2>2 DEF Submits, Enter
  <1>6. ASSUME NEW a \in Actors, Retries(a) PROVE at[a].job \in Jobs /\ Spends(at[a].job)
    <2> DEFINE j == at[a].job
    <2>1. /\ j \in Jobs /\ PhaseMap[j] # "none" /\ SpentMap[j] = job[j].retries
          /\ SpentMap[j] < MaxRetries
      BY <1>6, RetriedRows, Abstractly DEF Created, Retries, FailWrite
    <2>2. /\ PhaseMap' = [PhaseMap EXCEPT ![j] = PhaseOf(at[a].arg)]
          /\ SpentMap' = [SpentMap EXCEPT ![j] = job[j].retries + 1]
          /\ MeetingMap' = MeetingMap
      BY <1>6, RetriedRows, RowWrite
    <2>3. CASE at[a].arg = "pending"
      BY <1>1, <2>1, <2>2, <2>3 DEF Spends, Enter, PhaseOf
    <2>4. CASE at[a].arg = "transcript_ready"
      <3>1. j \in Transcribed
        BY <1>6, <2>1, <2>4, Abstractly DEF Retries, FailWrite, Evidence
      <3>2. QED
        BY <1>1, <2>1, <2>2, <2>4, <3>1 DEF Spends, Enter, PhaseOf
    <2>5. QED
      BY <1>6, <2>3, <2>4, <2>1, RetriedRows DEF RetryStatuses
  <1>7. ASSUME NEW w \in SummaryWorkers, Takes(w) PROVE UNCHANGED PipelineVars
    <2> DEFINE j == at[w].job
    <2>1. j \in Jobs /\ PhaseMap[j] = PhaseOf(job'[j].status)
      BY <1>7, TakenRows, Abstractly DEF PhaseOf
    <2>2. PhaseMap' = [PhaseMap EXCEPT ![j] = PhaseMap[j]] /\ OnlyPhase
      BY <1>1, <1>7, <2>1, TakenRows, RowWrite DEF OnlyPhase
    <2>3. QED
      BY <2>2 DEF OnlyPhase, PipelineVars, PhaseMap
  <1>8. ASSUME NEW j \in Jobs, Renews(j) \/ Ages(j) PROVE UNCHANGED PipelineVars
    BY <1>1, <1>8, AgedRows DEF PipelineVars, PhaseMap, MeetingMap, SpentMap
  <1>9. QED
    BY <1>2, <1>3, <1>4, <1>5, <1>6, <1>7, <1>8, Effects

LEMMA PipelineStep == PipelineInv /\ [Next]_vars => [Pipeline!Next]_Pipeline!vars
  <1> SUFFICES ASSUME PipelineInv, Step, stored \subseteq stored'
               PROVE  Pipeline!Next \/ UNCHANGED Pipeline!vars
    BY NextIsStep, LineageStep DEF PipelineInv
  <1>1. UNCHANGED PipelineVars => UNCHANGED Pipeline!vars
    BY DEF PipelineVars, PhaseMap, MeetingMap, SpentMap, Transcribed, Summarized, Pipeline!vars
  <1>2. CASE UNCHANGED job
    BY <1>1, <1>2, PipelineSteady, PipelineActions
  <1>3. CASE UNCHANGED <<asm, stored, summary>>
    BY <1>1, <1>3, PipelineWrite, PipelineActions
  <1>4. QED
    BY <1>2, <1>3, OneTable

\* The goroutines, webhooks and faults of AIJobs implement the eight transitions of
\* AIPipeline, for any number of them.
THEOREM Implements == Spec => ImplementsPipeline
  <1>1. Spec => []PipelineInv
    BY TypeCorrect, CreatedInit, CreatedStep, BudgetInit, BudgetStep, LineageInit, LineageStep,
       EvidenceInit, EvidenceStep, PTL DEF Spec, PipelineInv
  <1>2. QED
    BY <1>1, PipelineInit, PipelineStep, PTL DEF Spec, ImplementsPipeline, Pipeline!Spec

=============================================================================
