------------------------ MODULE MeetingSummaryProofs -------------------------
(* Theorems about MeetingSummary, for any number of jobs, transcripts,       *)
(* items, attempts, workers, webhooks, readers and sweeps.                   *)
EXTENDS MeetingSummary, FiniteSetTheorems, FunctionTheorems, TLAPS

\* The transcripts that are long enough to be analysed.
Fit == {t \in Stored : ~TooShort(t)}

(* What is proved of a goroutine, by its next statement. It depends on the   *)
(* tables by st and fit, the transcripts stored and fit, r and its, the row  *)
(* and the items.                                                            *)

WithJob   == {"store_utterances", "mark_ready", "transcript", "utterances", "groq",
              "save_minimal", "save", "items", "touch", "finish", "mark_failed", "reset"}
WithStored == {"store_utterances", "utterances", "groq", "save_minimal", "save", "items", "touch"}
Analysed  == {"groq", "save", "items", "touch"}
AfterRow  == {"items", "touch", "finish", "told"}

Good(l, st, fit, r, its) ==
  /\ l \in Local
  /\ l.pc \in WithJob => l.job \in Jobs
  /\ l.pc \in WithStored => l.transcript \in st
  /\ l.pc \in Analysed => l.transcript \in fit
  /\ l.pc \in AfterRow => r # NoRow
  /\ l.snap # NoRow => l.snap = r
  /\ l.pc = "items" => /\ l.id \in Ids /\ l.place >= 1
                       /\ \A p \in Items : p < l.place => [summary |-> l.id, place |-> p] \in its

TablesInv ==
  /\ jobs \in [Jobs -> Statuses]
  /\ transcripts \in [Transcripts -> Transcript \union {NoTranscript}]
  /\ spoken \in SUBSET Transcripts
  /\ row \in Row \union {NoRow}
  /\ items \in SUBSET Item
  /\ ids \in 0..MaxIds

JobsInv  == \A j \in Jobs : jobs[j] = "completed" => HasRow
TextsInv == \A t \in Stored : transcripts[t].summary => HasRow /\ t \in Fit
ItemsInv == ItemsOfOneAnalysis /\ ItemsFromTheStart
AtInv    == /\ at \in [Goroutines -> Local]
            /\ \A g \in Goroutines : Good(at[g], Stored, Fit, row, items)

IInv == TablesInv /\ JobsInv /\ TextsInv /\ ItemsInv /\ AtInv

-----------------------------------------------------------------------------
(* What is in the tables stays *)

\* The tables only grow, and the row keeps its id and its transcript.
Grows == /\ Stored \subseteq Stored' /\ Fit \subseteq Fit'
         /\ HasRow => row' = row
         /\ items \subseteq items'

LEMMA StaysGood ==
  ASSUME NEW l, NEW st, NEW fit, NEW r, NEW its, Good(l, st, fit, r, its),
         NEW st2, NEW fit2, NEW r2, NEW its2,
         st \subseteq st2, fit \subseteq fit2, r # NoRow => r2 = r, its \subseteq its2
  PROVE  Good(l, st2, fit2, r2, its2)
  <1>1. l.snap # NoRow => l.snap = r2
    BY DEF Good
  <1>2. QED
    BY <1>1 DEF Good

\* One goroutine takes a step; what it holds then is good.
Moves(g) == \E l : at' = [at EXCEPT ![g] = l] /\ Good(l, Stored', Fit', row', items')

LEMMA KeepsAt ==
  ASSUME AtInv, Grows, NEW g \in Goroutines, Moves(g)
  PROVE  AtInv'
  <1>1. PICK l : at' = [at EXCEPT ![g] = l] /\ Good(l, Stored', Fit', row', items')
    BY DEF Moves
  <1>2. at' \in [Goroutines -> Local]
    BY <1>1 DEF AtInv, Good
  <1>3. ASSUME NEW h \in Goroutines PROVE Good(at'[h], Stored', Fit', row', items')
    <2>1. CASE h = g
      BY <1>1, <2>1 DEF AtInv
    <2>2. CASE h # g
      <3>1. at'[h] = at[h] /\ Good(at[h], Stored, Fit, row, items)
        BY <1>1, <2>2 DEF AtInv
      <3>2. QED
        BY <3>1, StaysGood DEF Grows, HasRow
    <2>3. QED
      BY <2>1, <2>2
  <1>4. QED
    BY <1>2, <1>3 DEF AtInv

\* A step that writes no table.
LEMMA KeepsTables ==
  ASSUME IInv, UNCHANGED <<jobs, transcripts, spoken, row, items, ids>>,
         NEW g \in Goroutines, NEW l, at' = [at EXCEPT ![g] = l],
         Good(l, Stored, Fit, row, items)
  PROVE  IInv'
  <1>1. /\ Stored' = Stored /\ Fit' = Fit /\ row' = row /\ items' = items
        /\ HasRow' = HasRow
    BY DEF Stored, Fit, TooShort, HasRow
  <1>2. Moves(g) /\ Grows
    BY <1>1 DEF Moves, Grows
  <1>3. AtInv'
    BY <1>2, KeepsAt DEF IInv
  <1>4. QED
    BY <1>1, <1>3 DEF IInv, TablesInv, JobsInv, TextsInv, ItemsInv, ItemsOfOneAnalysis,
                      ItemsFromTheStart

\* A step that writes the status of a job, or fails to.
LEMMA KeepsJobs ==
  ASSUME IInv, UNCHANGED <<transcripts, spoken, row, items, ids>>,
         NEW j \in Jobs, NEW s \in Statuses, s = "completed" => HasRow,
         SetJob(j, s) \/ UNCHANGED jobs, UNCHANGED at \/ \E g \in Goroutines : Moves(g)
  PROVE  IInv'
  <1>1. /\ Stored' = Stored /\ Fit' = Fit /\ row' = row /\ items' = items
        /\ HasRow' = HasRow
    BY DEF Stored, Fit, TooShort, HasRow
  <1>2. AtInv'
    <2>1. CASE UNCHANGED at
      BY <1>1, <2>1 DEF IInv, AtInv
    <2>2. CASE \E g \in Goroutines : Moves(g)
      BY <1>1, <2>2, KeepsAt DEF IInv, Grows
    <2>3. QED
      BY <2>1, <2>2
  <1>3. TablesInv' /\ JobsInv'
    BY <1>1 DEF IInv, TablesInv, JobsInv, SetJob
  <1>4. QED
    BY <1>1, <1>2, <1>3 DEF IInv, TextsInv, ItemsInv, ItemsOfOneAnalysis, ItemsFromTheStart

-----------------------------------------------------------------------------
(* Locals *)

LEMMA Constants == /\ MaxJobs \in Nat \ {0} /\ MaxTranscripts \in Nat /\ MaxIds \in Nat
                   /\ MaxItems \in Nat /\ MaxAttempts \in Nat \ {0}
                   /\ None \notin Jobs /\ None \notin Transcripts /\ None \notin Ids
                   /\ Workers \subseteq Goroutines /\ Hooks \subseteq Goroutines
                   /\ Readers \subseteq Goroutines /\ Sweeps \subseteq Goroutines
  BY SummaryBounds DEF None, Jobs, Transcripts, Ids, Goroutines

LEMMA IdleGood ==
  ASSUME NEW st, NEW fit, NEW r, NEW its
  PROVE  Good(Idle, st, fit, r, its)
  BY DEF Good, Idle, Local, PCs, WithJob, WithStored, Analysed, AfterRow, NoRow, None

LEMMA NewAttemptGood ==
  ASSUME NEW j \in Jobs, NEW n \in Nat, NEW st, NEW fit, NEW r, NEW its
  PROVE  Good([Idle EXCEPT !.pc = "transcript", !.job = j, !.attempt = n], st, fit, r, its)
  <1> DEFINE l == [Idle EXCEPT !.pc = "transcript", !.job = j, !.attempt = n]
  <1>1. l \in Local
    BY DEF Idle, Local, PCs, NoRow
  <1>2. l.pc = "transcript" /\ l.job = j /\ l.snap = NoRow
    BY DEF Idle
  <1> HIDE DEF l
  <1>3. Good(l, st, fit, r, its)
    BY <1>1, <1>2 DEF Good, WithJob, WithStored, Analysed, AfterRow
  <1>4. QED
    BY <1>3 DEF l

\* After an error, and after an attempt that has done its work.
LEMMA EndGood ==
  ASSUME NEW w \in Workers, at[w] \in Local, at[w].job \in Jobs, NEW st, NEW fit, NEW r, NEW its
  PROVE  /\ \A retryable \in BOOLEAN : Good(AfterError(w, retryable), st, fit, r, its)
         /\ r # NoRow => Good(Returned(w), st, fit, r, its)
  <1>1. at[w].attempt + 1 \in Nat
    BY DEF Local
  <1> DEFINE f == [Idle EXCEPT !.pc = "mark_failed", !.job = at[w].job]
  <1>2. Good(f, st, fit, r, its)
    BY DEF Good, Idle, Local, PCs, WithJob, WithStored, Analysed, AfterRow, NoRow
  <1>3. Good(Again(w), st, fit, r, its)
    BY <1>1, NewAttemptGood DEF Again
  <1>4. ASSUME r # NoRow PROVE Good(Returned(w), st, fit, r, its)
    BY <1>4 DEF Returned, Good, Idle, Local, PCs, WithJob, WithStored, Analysed, AfterRow, NoRow
  <1>5. QED
    BY <1>2, <1>3, <1>4 DEF AfterError

-----------------------------------------------------------------------------
(* The steps of a webhook *)

LEMMA HookSteps ==
  ASSUME IInv, NEW g \in Hooks, Hook(g)
  PROVE  IInv'
  <1>0. g \in Goroutines /\ at[g] \in Local /\ Good(at[g], Stored, Fit, row, items)
    BY Constants DEF IInv, AtInv
  <1>1. ASSUME NEW j \in Jobs, CreateTranscript(g, j) PROVE IInv'
    <2>1. PICK t \in Transcripts \ Stored, len \in Lengths :
            /\ transcripts' = [transcripts EXCEPT ![t] = [length |-> len, summary |-> FALSE]]
            /\ at' = [at EXCEPT ![g] = [Idle EXCEPT !.pc = "store_utterances", !.job = j,
                                                    !.transcript = t]]
      BY <1>1 DEF CreateTranscript, Step
    <2> DEFINE l == [Idle EXCEPT !.pc = "store_utterances", !.job = j, !.transcript = t]
               new == [length |-> len, summary |-> FALSE]
    <2>2. new \in Transcript /\ new # NoTranscript /\ ~new.summary
      BY DEF Transcript, NoTranscript, Lengths
    <2> HIDE DEF new
    <2>3. UNCHANGED <<jobs, spoken, row, items, ids>>
      BY <1>1 DEF CreateTranscript
    <2>4. /\ transcripts' \in [Transcripts -> Transcript \union {NoTranscript}]
          /\ transcripts'[t] = new
          /\ \A u \in Transcripts \ {t} : transcripts'[u] = transcripts[u]
      BY <2>1, <2>2 DEF IInv, TablesInv, new
    <2>5. Stored' = Stored \union {t} /\ \A u \in Stored : u # t /\ u \in Transcripts
      BY <2>2, <2>4 DEF Stored
    <2>6. HasRow' = HasRow /\ Fit \subseteq Fit'
      BY <2>3, <2>4, <2>5 DEF HasRow, Fit, TooShort
    <2>7. Good(l, Stored', Fit', row', items')
      BY <2>5 DEF Good, Idle, Local, PCs, WithJob, WithStored, Analysed, AfterRow, NoRow
    <2>8. AtInv'
      BY <1>0, <2>1, <2>3, <2>5, <2>6, <2>7, KeepsAt DEF IInv, Moves, Grows
    <2>9. TextsInv'
      BY <2>2, <2>4, <2>5, <2>6 DEF IInv, TextsInv
    <2>10. QED
      BY <2>3, <2>4, <2>6, <2>8, <2>9 DEF IInv, TablesInv, JobsInv, ItemsInv,
                                          ItemsOfOneAnalysis, ItemsFromTheStart
  <1>2. CASE CreateUtterances(g)
    <2> DEFINE l == [Idle EXCEPT !.pc = "mark_ready", !.job = at[g].job]
    <2>1. /\ at[g].pc = "store_utterances" /\ at' = [at EXCEPT ![g] = l]
          /\ UNCHANGED <<jobs, transcripts, row, items, ids>>
          /\ spoken \subseteq spoken'
          /\ spoken' = spoken \union {at[g].transcript} \/ spoken' = spoken
      BY <1>2 DEF CreateUtterances, Step
    <2>2. at[g].job \in Jobs /\ at[g].transcript \in Transcripts
      BY <1>0, <2>1 DEF Good, WithJob, WithStored, Stored
    <2>3. Stored' = Stored /\ HasRow' = HasRow /\ Fit \subseteq Fit'
      BY <2>1 DEF Stored, HasRow, Fit, TooShort
    <2>4. Good(l, Stored', Fit', row', items')
      BY <2>2 DEF Good, Idle, Local, PCs, WithJob, WithStored, Analysed, AfterRow, NoRow
    <2>5. AtInv'
      BY <1>0, <2>1, <2>3, <2>4, KeepsAt DEF IInv, Moves, Grows
    <2>6. TablesInv' /\ TextsInv'
      BY <2>1, <2>2, <2>3 DEF IInv, TablesInv, TextsInv
    <2>7. QED
      BY <2>1, <2>3, <2>5, <2>6 DEF IInv, JobsInv, ItemsInv, ItemsOfOneAnalysis, ItemsFromTheStart
  <1>3. CASE MarkReady(g)
    <2>1. at[g].job \in Jobs /\ Moves(g)
      BY <1>0, <1>3, IdleGood DEF MarkReady, Good, WithJob, Done, Step, Moves
    <2>2. "transcript_ready" \in Statuses
      BY DEF Statuses
    <2>3. QED
      BY <1>0, <1>3, <2>1, <2>2, KeepsJobs DEF MarkReady
  <1>4. CASE HookFails(g)
    BY <1>0, <1>4, IdleGood, KeepsTables DEF HookFails, Done, Step
  <1>5. QED
    BY <1>1, <1>2, <1>3, <1>4 DEF Hook

-----------------------------------------------------------------------------
(* The steps of a reader *)

LEMMA ReaderSteps ==
  ASSUME IInv, NEW r \in Readers, Reader(r)
  PROVE  IInv'
  <1>0. r \in Goroutines /\ at[r] \in Local /\ row \in Row \union {NoRow}
    BY Constants DEF IInv, AtInv, TablesInv
  <1>1. CASE ReadSummary(r)
    <2> DEFINE a == [Idle EXCEPT !.pc = "read_items", !.snap = row]
               b == [Idle EXCEPT !.pc = "read_jobs"]
    <2>1. Good(a, Stored, Fit, row, items) /\ Good(b, Stored, Fit, row, items)
      BY <1>0 DEF Good, Idle, Local, PCs, WithJob, WithStored, Analysed, AfterRow
    <2>2. at' = [at EXCEPT ![r] = a] \/ at' = [at EXCEPT ![r] = b]
      BY <1>1 DEF ReadSummary, Step
    <2>3. QED
      BY <1>0, <1>1, <2>1, <2>2, KeepsTables DEF ReadSummary
  <1>2. CASE ReadJobs(r)
    <2> DEFINE l == [at[r] EXCEPT !.pc = "told"]
    <2>1. CASE jobs[MaxJobs] = "completed"
      <3>1. row # NoRow
        BY <2>1, Constants DEF IInv, JobsInv, HasRow, Jobs
      <3>2. Good(at[r], Stored, Fit, row, items)
        BY <1>0 DEF IInv, AtInv
      <3>3. Good(l, Stored, Fit, row, items)
        BY <3>1, <3>2 DEF Good, Local, PCs, WithJob, WithStored, Analysed, AfterRow
      <3>4. QED
        BY <1>0, <1>2, <2>1, <3>3, KeepsTables DEF ReadJobs, Goto, Step
    <2>2. CASE jobs[MaxJobs] # "completed"
      BY <1>0, <1>2, <2>2, IdleGood, KeepsTables DEF ReadJobs, Done, Step
    <2>3. QED
      BY <2>1, <2>2
  <1>3. CASE ReadItems(r) \/ Respond(r)
    BY <1>0, <1>3, IdleGood, KeepsTables DEF ReadItems, Respond, Done, Step
  <1>4. QED
    BY <1>1, <1>2, <1>3 DEF Reader

-----------------------------------------------------------------------------
(* The steps of a worker *)

\* What a worker holds while it is on a job.
LEMMA Working ==
  ASSUME IInv, NEW w \in Workers
  PROVE  /\ w \in Goroutines /\ at[w] \in Local /\ Good(at[w], Stored, Fit, row, items)
         /\ at[w].pc \in WithJob => at[w].job \in Jobs
         /\ at[w].pc \in WithStored => at[w].transcript \in Stored
         /\ at[w].pc \in Analysed => at[w].transcript \in Fit
         /\ at[w].pc \in AfterRow => HasRow
  BY Constants DEF IInv, AtInv, Good, HasRow

LEMMA ClaimSteps ==
  ASSUME IInv, NEW w \in Workers, NEW j \in Jobs, Claim(w, j)
  PROVE  IInv'
  <1> DEFINE l == [Idle EXCEPT !.pc = "transcript", !.job = j]
  <1>1. Good(l, Stored', Fit', row', items')
    BY DEF Good, Idle, Local, PCs, WithJob, WithStored, Analysed, AfterRow, NoRow
  <1>2. Moves(w) /\ w \in Goroutines
    BY <1>1, Constants DEF Claim, Step, Moves
  <1>3. "summarizing" \in Statuses
    BY DEF Statuses
  <1>4. QED
    BY <1>2, <1>3, KeepsJobs DEF Claim

LEMMA GetTranscriptSteps ==
  ASSUME IInv, NEW w \in Workers, GetTranscript(w)
  PROVE  IInv'
  <1>1. at[w].pc = "transcript" /\ at[w].job \in Jobs
    BY Working DEF GetTranscript, WithJob
  <1>2. CASE Step(w, AfterError(w, FALSE))
    BY <1>1, <1>2, Working, EndGood, KeepsTables DEF GetTranscript, Step
  <1>3. ASSUME NEW t \in Stored, Step(w, [at[w] EXCEPT !.pc = "utterances", !.transcript = t])
        PROVE  IInv'
    <2> DEFINE l == [at[w] EXCEPT !.pc = "utterances", !.transcript = t]
    <2>1. Good(at[w], Stored, Fit, row, items)
      BY Working
    <2>2. Good(l, Stored, Fit, row, items)
      BY <1>1, <2>1 DEF Good, Local, PCs, WithJob, WithStored, Analysed, AfterRow, Stored
    <2>3. QED
      BY <1>3, <2>2, Working, KeepsTables DEF GetTranscript, Step
  <1>4. QED
    BY <1>2, <1>3 DEF GetTranscript

LEMMA GetUtterancesSteps ==
  ASSUME IInv, NEW w \in Workers, GetUtterances(w)
  PROVE  IInv'
  <1> DEFINE pc == AfterUtterances(w)
             l == [at[w] EXCEPT !.pc = pc]
  <1>1. /\ at[w].pc = "utterances" /\ at[w].transcript \in Stored
        /\ pc = "save_minimal" \/ (pc = "groq" /\ at[w].transcript \in Fit)
    BY Working DEF GetUtterances, WithStored, AfterUtterances, Fit
  <1> HIDE DEF pc
  <1>2. Good(at[w], Stored, Fit, row, items)
    BY Working
  <1>3. Good(l, Stored, Fit, row, items)
    BY <1>1, <1>2 DEF Good, Local, PCs, WithJob, WithStored, Analysed, AfterRow
  <1>4. QED
    BY <1>3, Working, KeepsTables DEF GetUtterances, Goto, Step, pc

LEMMA AnalyseSteps ==
  ASSUME IInv, NEW w \in Workers, Analyse(w)
  PROVE  IInv'
  <1> DEFINE l == [at[w] EXCEPT !.pc = "save"]
  <1>1. Good(at[w], Stored, Fit, row, items) /\ at[w].pc = "groq"
    BY Working DEF Analyse
  <1>2. Good(l, Stored, Fit, row, items)
    BY <1>1 DEF Good, Local, PCs, WithJob, WithStored, Analysed, AfterRow
  <1>3. QED
    BY <1>2, Working, KeepsTables DEF Analyse, Goto, Step

LEMMA AttemptFailsSteps ==
  ASSUME IInv, NEW w \in Workers, AttemptFails(w)
  PROVE  IInv'
  <1>1. at[w].job \in Jobs
    BY Working DEF AttemptFails, WithJob
  <1>2. PICK retryable \in BOOLEAN : at' = [at EXCEPT ![w] = AfterError(w, retryable)]
    BY DEF AttemptFails, Step, IsRetryableError
  <1>3. QED
    BY <1>1, <1>2, Working, EndGood, KeepsTables DEF AttemptFails

\* The row is made, or kept.
LEMMA Storing ==
  ASSUME IInv, NEW w \in Workers, Saving(w), Store(w)
  PROVE  /\ row' \in Row /\ ids' \in 0..MaxIds /\ ids + 1 \in Ids
         /\ HasRow => row' = row
         /\ ~HasRow => row' = [id |-> ids + 1, transcript |-> at[w].transcript]
         /\ at[w].transcript \in Transcripts
  <1>1. at[w].transcript \in Stored
    BY Working DEF Saving, WithStored
  <1>2. at[w].transcript \in Transcripts
    BY <1>1 DEF Stored
  <1>3. ids + 1 \in Ids /\ ids' = ids + 1 /\ ids' \in 0..MaxIds
    BY Constants DEF Store, IInv, TablesInv, Ids
  <1>4. /\ HasRow => row' = row
        /\ ~HasRow => row' = [id |-> ids + 1, transcript |-> at[w].transcript]
    BY DEF Store, Upsert
  <1>5. row' \in Row
    BY <1>2, <1>3, <1>4 DEF Row, HasRow, IInv, TablesInv
  <1>6. QED
    BY <1>2, <1>3, <1>4, <1>5

LEMMA KeepsRow ==
  ASSUME IInv, NEW w \in Workers, Saving(w), Store(w) \/ UNCHANGED <<row, ids>>,
         UNCHANGED <<jobs, transcripts, spoken, items>>, Moves(w)
  PROVE  IInv'
  <1>1. Stored' = Stored /\ Fit' = Fit
    BY DEF Stored, Fit, TooShort
  <1>2. /\ row' \in Row \union {NoRow} /\ ids' \in 0..MaxIds
        /\ HasRow => HasRow' /\ row' = row
    <2>1. CASE Store(w)
      <3>1. row' \in Row /\ row' # NoRow
        BY <2>1, Storing DEF Row, NoRow, Ids, None
      <3>2. QED
        BY <2>1, <3>1, Storing DEF HasRow
    <2>2. CASE UNCHANGED <<row, ids>>
      BY <2>2 DEF HasRow, IInv, TablesInv
    <2>3. QED
      BY <2>1, <2>2
  <1>3. AtInv'
    BY <1>1, <1>2, Working, KeepsAt DEF IInv, Grows
  <1>4. TablesInv' /\ JobsInv' /\ TextsInv'
    BY <1>1, <1>2 DEF IInv, TablesInv, JobsInv, TextsInv
  <1>5. ItemsInv'
    BY <1>2 DEF IInv, ItemsInv, ItemsOfOneAnalysis, ItemsFromTheStart
  <1>6. QED
    BY <1>3, <1>4, <1>5 DEF IInv

LEMMA SaveSteps ==
  ASSUME IInv, NEW w \in Workers, SaveMeetingSummary(w) \/ SaveFails(w)
  PROVE  IInv'
  <1>0. Saving(w) /\ at[w] \in Local /\ at[w].job \in Jobs /\ Good(at[w], Stored, Fit, row, items)
    BY Working DEF SaveMeetingSummary, SaveFails, Saving, WithJob
  <1>1. CASE SaveFails(w)
    <2>1. Moves(w)
      BY <1>0, <1>1, EndGood DEF SaveFails, IsRetryableError, Step, Moves
    <2>2. QED
      BY <1>0, <1>1, <2>1, KeepsRow DEF SaveFails
  <1>2. CASE SaveMeetingSummary(w)
    <2> DEFINE n == ids + 1
    <2>1. row' # NoRow /\ n \in Ids /\ UNCHANGED <<transcripts, spoken, items>>
      BY <1>0, <1>2, Storing DEF SaveMeetingSummary, Row, NoRow, Ids, None
    <2> HIDE DEF n
    <2>2. Stored' = Stored /\ Fit' = Fit
      BY <2>1 DEF Stored, Fit, TooShort
    <2> DEFINE l == [at[w] EXCEPT !.pc = "items", !.id = n, !.place = 1, !.attempt = 0]
    <2>3. CASE at[w].pc = "save"
      <3>1. l \in Local
        BY <1>0, <2>1 DEF Local, PCs
      <3>2. /\ l.pc = "items" /\ l.id = n /\ l.place = 1 /\ l.job = at[w].job
            /\ l.transcript = at[w].transcript /\ l.snap = at[w].snap
        BY <1>0 DEF Local
      <3>3. at[w].transcript \in Stored /\ at[w].transcript \in Fit
        BY <2>3, Working DEF WithStored, Analysed
      <3>4. l.snap # NoRow => l.snap = row'
        <4>1. at[w].snap # NoRow => HasRow /\ at[w].snap = row
          BY <1>0 DEF Good, HasRow
        <4>2. HasRow => row' = row
          BY <1>0, <1>2, Storing DEF SaveMeetingSummary
        <4>3. QED
          BY <3>2, <4>1, <4>2
      <3> HIDE DEF l
      <3>5. \A p \in Items : ~(p < 1)
        BY DEF Items
      <3>6. Good(l, Stored', Fit', row', items')
        BY <1>0, <2>1, <2>2, <3>1, <3>2, <3>3, <3>4, <3>5
           DEF Good, WithJob, WithStored, Analysed, AfterRow
      <3>7. QED
        BY <1>0, <1>2, <2>3, <3>6, KeepsRow DEF SaveMeetingSummary, AfterSave, Step, Moves, l, n
    <2>4. CASE at[w].pc # "save"
      BY <1>0, <1>2, <2>1, <2>4, EndGood, KeepsRow
         DEF SaveMeetingSummary, AfterSave, Step, Moves
    <2>5. QED
      BY <2>3, <2>4
  <1>3. QED
    BY <1>1, <1>2

LEMMA NextPlaceGood ==
  ASSUME IInv, NEW w \in Workers, at[w].pc = "items", at[w].place <= MaxItems,
         NEW its, items \subseteq its, [summary |-> at[w].id, place |-> at[w].place] \in its
  PROVE  Good(NextPlace(w), Stored, Fit, row, its)
  <1> DEFINE n == at[w].place + 1
             l == [at[w] EXCEPT !.place = n]
             d == [at[w] EXCEPT !.pc = "touch"]
  <1>1. /\ Good(at[w], Stored, Fit, row, its)
        /\ at[w] \in Local /\ at[w].place \in Nat /\ at[w].id \in Ids /\ at[w].place >= 1
    BY Working, StaysGood DEF Good, Local
  <1>2. Good(d, Stored, Fit, row, its)
    BY <1>1 DEF Good, Local, PCs, WithJob, WithStored, Analysed, AfterRow
  <1>3. Good(l, Stored, Fit, row, its)
    <2>1. l \in Local
      BY <1>1 DEF Local
    <2>2. /\ l.pc = "items" /\ l.id = at[w].id /\ l.place = n /\ l.job = at[w].job
          /\ l.transcript = at[w].transcript /\ l.snap = at[w].snap
      BY <1>1 DEF Local
    <2>3. n >= 1
      BY <1>1
    <2>4. ASSUME NEW p \in Items, p < n PROVE [summary |-> at[w].id, place |-> p] \in its
      <3>1. p < at[w].place \/ p = at[w].place
        BY <1>1, <2>4, Constants DEF Items
      <3>2. QED
        BY <1>1, <3>1 DEF Good
    <2> HIDE DEF l, n
    <2>5. QED
      BY <1>1, <2>1, <2>2, <2>3, <2>4 DEF Good
  <1>4. QED
    BY <1>2, <1>3 DEF NextPlace

\* The rows of action_items are the first of one list.
LEMMA Listing ==
  ASSUME IInv, NEW w \in Workers, SaveActionItem(w)
  PROVE  /\ HasRow /\ at[w].place \in Items
         /\ items' = items \union {[summary |-> row.id, place |-> at[w].place]}
         /\ \A p \in Items : p < at[w].place => [summary |-> row.id, place |-> p] \in items
  <1>1. at[w].pc = "items" /\ HasRow /\ row.id = at[w].id /\ at[w].place <= MaxItems
    BY DEF SaveActionItem, HasParent
  <1>2. at[w].place \in Nat /\ at[w].place >= 1
    BY <1>1, Working DEF Good, Local
  <1>3. at[w].place \in Items
    BY <1>1, <1>2, Constants DEF Items
  <1>4. \A p \in Items : p < at[w].place => [summary |-> row.id, place |-> p] \in items
    BY <1>1, Working DEF Good
  <1>5. QED
    BY <1>1, <1>3, <1>4 DEF SaveActionItem

LEMMA ItemSteps ==
  ASSUME IInv, NEW w \in Workers, SaveActionItem(w)
  PROVE  IInv'
  <1> DEFINE new == [summary |-> row.id, place |-> at[w].place]
  <1>1. /\ at[w].pc = "items" /\ at[w].place <= MaxItems /\ HasRow /\ row.id = at[w].id
        /\ UNCHANGED <<jobs, transcripts, spoken, row, ids>>
        /\ at' = [at EXCEPT ![w] = NextPlace(w)]
    BY DEF SaveActionItem, HasParent, Step
  <1>2. /\ items' = items \union {new} /\ at[w].place \in Items /\ row.id \in Ids
        /\ \A p \in Items : p < at[w].place => [summary |-> row.id, place |-> p] \in items
    BY <1>1, Listing DEF IInv, TablesInv, HasRow, Row
  <1>3. Stored' = Stored /\ Fit' = Fit /\ HasRow' = HasRow
    BY <1>1 DEF Stored, Fit, TooShort, HasRow
  <1>4. Good(NextPlace(w), Stored, Fit, row, items')
    BY <1>1, <1>2, NextPlaceGood
  <1>5. AtInv'
    BY <1>1, <1>2, <1>3, <1>4, Working, KeepsAt DEF IInv, Grows, Moves
  <1>6. TablesInv' /\ JobsInv' /\ TextsInv'
    <2>1. new \in Item
      BY <1>2 DEF Item
    <2>2. QED
      BY <1>1, <1>2, <1>3, <2>1 DEF IInv, TablesInv, JobsInv, TextsInv
  <1>7. ItemsOfOneAnalysis'
    BY <1>1, <1>2, <1>3 DEF IInv, ItemsInv, ItemsOfOneAnalysis
  <1>8. ItemsFromTheStart'
    <2>1. ASSUME NEW i \in items', NEW p \in Items, p < i.place
          PROVE  [summary |-> i.summary, place |-> p] \in items'
      <3>1. CASE i \in items
        BY <1>2, <2>1, <3>1 DEF IInv, ItemsInv, ItemsFromTheStart
      <3>2. CASE i = new
        BY <1>2, <2>1, <3>2
      <3>3. QED
        BY <1>2, <2>1, <3>1, <3>2
    <2>2. QED
      BY <2>1 DEF ItemsFromTheStart
  <1>9. QED
    BY <1>5, <1>6, <1>7, <1>8 DEF IInv, ItemsInv

LEMMA StopSteps ==
  ASSUME IInv, NEW w \in Workers, StopItems(w)
  PROVE  IInv'
  <1> DEFINE l == [at[w] EXCEPT !.pc = "touch"]
  <1>1. Good(at[w], Stored, Fit, row, items) /\ at[w].pc = "items"
    BY Working DEF StopItems
  <1>2. Good(l, Stored, Fit, row, items)
    BY <1>1 DEF Good, Local, PCs, WithJob, WithStored, Analysed, AfterRow
  <1>3. QED
    BY <1>2, Working, KeepsTables DEF StopItems, Goto, Step

LEMMA UpdateSteps ==
  ASSUME IInv, NEW w \in Workers, UpdateTranscript(w)
  PROVE  IInv'
  <1> DEFINE t == at[w].transcript
  <1>1. /\ at[w].pc = "touch" /\ at' = [at EXCEPT ![w] = Returned(w)]
        /\ UNCHANGED <<jobs, spoken, row, items, ids>>
        /\ at[w].job \in Jobs /\ at[w] \in Local /\ HasRow /\ t \in Fit /\ t \in Stored
    BY Working DEF UpdateTranscript, Step, WithJob, Analysed, AfterRow, WithStored
  <1>2. CASE UNCHANGED transcripts
    BY <1>1, <1>2, Working, EndGood, KeepsTables DEF HasRow
  <1>3. CASE transcripts' = [transcripts EXCEPT ![t].summary = TRUE]
    <2>1. t \in Transcripts /\ transcripts[t] \in Transcript
      BY <1>1 DEF Stored, IInv, TablesInv
    <2> DEFINE new == [transcripts[t] EXCEPT !.summary = TRUE]
    <2>2. new \in Transcript /\ new.length = transcripts[t].length /\ new # NoTranscript
      BY <2>1 DEF Transcript, NoTranscript, Lengths
    <2>3. transcripts' = [transcripts EXCEPT ![t] = new]
      BY <1>3
    <2> HIDE DEF new
    <2>4. /\ transcripts' \in [Transcripts -> Transcript \union {NoTranscript}]
          /\ transcripts'[t] = new
          /\ \A u \in Transcripts \ {t} : transcripts'[u] = transcripts[u]
      BY <2>1, <2>2, <2>3 DEF IInv, TablesInv
    <2>5. Stored' = Stored
      BY <1>1, <2>1, <2>2, <2>4 DEF Stored
    <2>6. Fit' = Fit /\ HasRow' = HasRow
      <3>1. \A u \in Stored : TooShort(u)' = TooShort(u)
        BY <1>1, <2>1, <2>2, <2>4 DEF TooShort, Stored
      <3>2. QED
        BY <1>1, <2>5, <3>1 DEF Fit, HasRow
    <2>7. Good(Returned(w), Stored', Fit', row', items')
      BY <1>1, EndGood DEF HasRow
    <2>8. AtInv'
      BY <1>1, <2>5, <2>6, <2>7, Working, KeepsAt DEF IInv, Moves, Grows
    <2>9. TextsInv'
      BY <1>1, <2>1, <2>4, <2>5, <2>6 DEF IInv, TextsInv, Stored
    <2>10. QED
      BY <1>1, <2>4, <2>6, <2>8, <2>9 DEF IInv, TablesInv, JobsInv, ItemsInv,
                                          ItemsOfOneAnalysis, ItemsFromTheStart
  <1>4. QED
    BY <1>2, <1>3 DEF UpdateTranscript

LEMMA EndSteps ==
  ASSUME IInv, NEW w \in Workers, Finish(w) \/ MarkFailed(w)
  PROVE  IInv'
  <1>1. w \in Goroutines /\ at[w].job \in Jobs /\ Moves(w)
    BY IdleGood, Working DEF Finish, MarkFailed, Done, Step, Moves, WithJob
  <1>2. Statuses = {"other", "transcript_ready", "summarizing", "completed"}
    BY DEF Statuses
  <1>3. CASE Finish(w)
    <2>1. HasRow
      BY <1>3, Working DEF Finish, AfterRow
    <2>2. QED
      BY <1>1, <1>2, <1>3, <2>1, KeepsJobs DEF Finish
  <1>4. CASE MarkFailed(w)
    BY <1>1, <1>2, <1>4, KeepsJobs DEF MarkFailed
  <1>5. QED
    BY <1>3, <1>4

-----------------------------------------------------------------------------

\* cleanupZombieJobs finds a job and resets it, whatever it has become.
LEMMA SweepSteps ==
  ASSUME IInv, NEW z \in Sweeps, ResetZombie(z) \/ \E j \in Jobs : FindZombie(z, j)
  PROVE  IInv'
  <1>1. z \in Goroutines
    BY Constants
  <1>2. CASE ResetZombie(z)
    <2>1. at[z].job \in Jobs /\ Moves(z)
      BY <1>1, <1>2, IdleGood DEF ResetZombie, Done, Step, Moves, WithJob, IInv, AtInv, Good
    <2>2. "transcript_ready" \in Statuses
      BY DEF Statuses
    <2>3. QED
      BY <1>1, <1>2, <2>1, <2>2, KeepsJobs DEF ResetZombie
  <1>3. ASSUME NEW j \in Jobs, FindZombie(z, j) PROVE IInv'
    <2> DEFINE l == [Idle EXCEPT !.pc = "reset", !.job = j]
    <2>1. Good(l, Stored, Fit, row, items)
      BY DEF Good, Idle, Local, PCs, WithJob, WithStored, Analysed, AfterRow, NoRow
    <2>2. QED
      BY <1>1, <1>3, <2>1, KeepsTables DEF FindZombie, Step
  <1>4. QED
    BY <1>2, <1>3

LEMMA RestartSteps ==
  ASSUME IInv, Restart
  PROVE  IInv'
  <1>1. /\ UNCHANGED <<jobs, transcripts, spoken, row, items, ids>>
        /\ at' = [g \in Goroutines |-> Idle]
    BY DEF Restart
  <1>2. \A g \in Goroutines : Idle \in Local /\ Good(Idle, Stored', Fit', row', items')
    BY IdleGood DEF Good
  <1>3. AtInv'
    BY <1>1, <1>2 DEF AtInv
  <1>4. Stored' = Stored /\ Fit' = Fit /\ HasRow' = HasRow
    BY <1>1 DEF Stored, Fit, TooShort, HasRow
  <1>5. QED
    BY <1>1, <1>3, <1>4 DEF IInv, TablesInv, JobsInv, TextsInv, ItemsInv, ItemsOfOneAnalysis,
                            ItemsFromTheStart

LEMMA IInvInit == Init => IInv
  <1> SUFFICES ASSUME Init PROVE IInv
    OBVIOUS
  <1>1. Stored = {}
    BY DEF Init, Stored
  <1>2. at \in [Goroutines -> Local] /\ \A g \in Goroutines : Good(at[g], Stored, Fit, row, items)
    BY IdleGood DEF Init, Good
  <1>3. TablesInv /\ JobsInv
    BY Constants DEF Init, TablesInv, JobsInv, Statuses
  <1>4. QED
    BY <1>1, <1>2, <1>3 DEF Init, IInv, AtInv, TextsInv, ItemsInv, ItemsOfOneAnalysis,
                            ItemsFromTheStart

LEMMA IInvStep == IInv /\ [Next]_vars => IInv'
  <1> SUFFICES ASSUME IInv, [Next]_vars PROVE IInv'
    OBVIOUS
  <1>1. CASE UNCHANGED vars
    BY <1>1 DEF vars, IInv, TablesInv, JobsInv, TextsInv, ItemsInv, ItemsOfOneAnalysis,
                ItemsFromTheStart, AtInv, HasRow, Stored, Fit, TooShort
  <1>2. ASSUME NEW w \in Workers, Proceed(w) PROVE IInv'
    BY <1>2, GetTranscriptSteps, GetUtterancesSteps, AnalyseSteps, AttemptFailsSteps, SaveSteps,
       ItemSteps, StopSteps, UpdateSteps, EndSteps DEF Proceed
  <1>3. QED
    BY <1>1, <1>2, HookSteps, ClaimSteps, ReaderSteps, SweepSteps, RestartSteps DEF Next

LEMMA Invariance == Spec => []IInv
  BY IInvInit, IInvStep, PTL DEF Spec

-----------------------------------------------------------------------------
(* The invariants *)

\* The type invariant.
THEOREM TypeCorrect == Spec => []TypeOK
  <1>1. IInv => TypeOK
    BY DEF IInv, TablesInv, AtInv, TypeOK
  <1>2. QED
    BY <1>1, Invariance, PTL

\* A completed job has a summary, and so has the meeting of a reader who is told so.
THEOREM SummaryBehindCompleted == Spec => []NoSummaryOnlyByRace
  <1>1. IInv => NoSummaryOnlyByRace
    BY Constants DEF IInv, JobsInv, AtInv, Good, AfterRow, HasRow, NoSummaryOnlyByRace
  <1>2. QED
    BY <1>1, Invariance, PTL

\* The items of a meeting come from the analysis that made its row.
THEOREM OneAnalysis == Spec => []ItemsOfOneAnalysis
  <1>1. IInv => ItemsOfOneAnalysis
    BY DEF IInv, ItemsInv
  <1>2. QED
    BY <1>1, Invariance, PTL

\* They are the beginning of that analysis' list.
THEOREM FromTheStart == Spec => []ItemsFromTheStart
  <1>1. IInv => ItemsFromTheStart
    BY DEF IInv, ItemsInv
  <1>2. QED
    BY <1>1, Invariance, PTL

\* The row a reader has read keeps its id and its transcript until he has answered.
THEOREM ReadersRow == Spec => []ReaderKeepsHisRow
  <1>1. IInv => ReaderKeepsHisRow
    BY Constants DEF IInv, AtInv, Good, HasRow, ReaderKeepsHisRow
  <1>2. QED
    BY <1>1, Invariance, PTL

\* A transcript with a summary of its own was analysed, and its meeting has the summary.
THEOREM TextLast == Spec => []TranscriptTextLast
  <1>1. IInv => TranscriptTextLast
    BY DEF IInv, TextsInv, Fit, TranscriptTextLast
  <1>2. QED
    BY <1>1, Invariance, PTL

-----------------------------------------------------------------------------
(* MeetingSummary implements SummaryContract *)

\* The variables of SummaryContract.
Made      == IF HasRow THEN {[id |-> row.id, transcript |-> row.transcript]} ELSE {}
Listed    == Cardinality(items)
Completed == {j \in Jobs : jobs[j] = "completed"}

LEMMA ContractInit == Init => Contract!Init
  <1>1. Cardinality({}) = 0
    BY FS_EmptySet
  <1>2. QED
    BY <1>1 DEF Init, HasRow, Contract!Init

\* A new item is the next one of the list.
LEMMA NextListed ==
  ASSUME IInv, NEW p \in Items, HasRow,
         NEW new, new = [summary |-> row.id, place |-> p], new \notin items,
         \A q \in Items : q < p => [summary |-> row.id, place |-> q] \in items
  PROVE  /\ Cardinality(items) < MaxItems
         /\ Cardinality(items \union {new}) = Cardinality(items) + 1
  <1> DEFINE S == 1..(p - 1)
             f == [q \in S |-> [summary |-> row.id, place |-> q]]
  <1>1. p \in Nat /\ p >= 1 /\ p <= MaxItems /\ S \subseteq Items
    BY Constants DEF Items
  <1>2. ASSUME NEW i \in items PROVE i.place \in S /\ i = [summary |-> row.id, place |-> i.place]
    <2>1. i \in Item /\ i.summary = row.id
      BY <1>2 DEF IInv, TablesInv, ItemsInv, ItemsOfOneAnalysis
    <2>2. i.place \in Items /\ i = [summary |-> row.id, place |-> i.place]
      BY <2>1 DEF Item
    <2>3. i.place # p
      BY <1>2, <2>2
    <2>4. ~(p < i.place)
      BY <1>2, <2>1 DEF IInv, ItemsInv, ItemsFromTheStart
    <2>5. QED
      BY <1>1, <2>2, <2>3, <2>4 DEF Items
  <1>3. \A q \in S : [summary |-> row.id, place |-> q] \in items
    BY <1>1 DEF Items
  <1>4. f \in Bijection(S, items)
    <2>1. f \in [S -> items]
      BY <1>3
    <2>2. \A a, b \in S : f[a] = f[b] => a = b
      <3>1. ASSUME NEW a \in S, NEW b \in S, f[a] = f[b] PROVE a = b
        <4>1. f[a].place = a /\ f[b].place = b
          OBVIOUS
        <4>2. QED
          BY <3>1, <4>1
      <3>2. QED
        BY <3>1
    <2>3. \A i \in items : \E q \in S : f[q] = i
      BY <1>2
    <2> HIDE DEF f, S
    <2>4. QED
      BY <2>1, <2>2, <2>3, Fun_IsBij
  <1>5. IsFiniteSet(S) /\ Cardinality(S) = p - 1
    BY <1>1, FS_Interval
  <1>6. IsFiniteSet(items) /\ Cardinality(items) = p - 1
    <2> HIDE DEF f, S
    <2>1. ExistsBijection(S, items)
      BY <1>4 DEF ExistsBijection
    <2>2. QED
      BY <1>5, <2>1, FS_Bijection
  <1>7. Cardinality(items \union {new}) = Cardinality(items) + 1
    BY <1>6, FS_AddElement
  <1>8. QED
    BY <1>1, <1>6, <1>7, Constants

LEMMA ContractJob ==
  ASSUME IInv, NEW j \in Jobs, NEW s \in Statuses, s = "completed" => HasRow,
         SetJob(j, s), UNCHANGED <<row, items>>
  PROVE  Contract!Next
  <1>1. UNCHANGED <<Made, Listed>>
    BY DEF Made, Listed, HasRow
  <1>2. jobs' \in [Jobs -> Statuses] /\ jobs' = [jobs EXCEPT ![j] = s]
    BY DEF SetJob, IInv, TablesInv
  <1>3. CASE s = "completed"
    <2>1. Completed' = Completed \union {j} /\ Made # {}
      BY <1>2, <1>3 DEF Completed, Made, IInv, TablesInv
    <2>2. QED
      BY <1>1, <2>1 DEF Made, Listed, Completed, Contract!Complete, Contract!Next
  <1>4. CASE s # "completed"
    <2>1. Completed' = Completed \ {j}
      BY <1>2, <1>4 DEF Completed, IInv, TablesInv
    <2>2. QED
      BY <1>1, <2>1 DEF Made, Listed, Completed, Contract!Reopen, Contract!Next
  <1>5. QED
    BY <1>3, <1>4

LEMMA ContractStore ==
  ASSUME IInv, NEW w \in Workers, Saving(w), Store(w), UNCHANGED <<jobs, items>>
  PROVE  Contract!Next \/ UNCHANGED <<Made, Listed, Completed>>
  <1>1. UNCHANGED <<Listed, Completed>>
    BY DEF Listed, Completed
  <1>2. CASE HasRow
    BY <1>1, <1>2, Storing DEF Made, HasRow
  <1>3. CASE ~HasRow
    <2>1. /\ row' = [id |-> ids + 1, transcript |-> at[w].transcript] /\ row' # NoRow
          /\ ids + 1 \in Ids /\ at[w].transcript \in Transcripts
      BY <1>3, Storing DEF Row, NoRow, Ids, None
    <2>2. Made = {} /\ Made' = {[id |-> ids + 1, transcript |-> at[w].transcript]}
      BY <1>3, <2>1 DEF Made, HasRow
    <2>3. QED
      BY <1>1, <2>1, <2>2 DEF Made, Listed, Completed, Contract!Make, Contract!Next
  <1>4. QED
    BY <1>2, <1>3

LEMMA ContractItem ==
  ASSUME IInv, NEW w \in Workers, SaveActionItem(w)
  PROVE  Contract!Next \/ UNCHANGED <<Made, Listed, Completed>>
  <1> DEFINE new == [summary |-> row.id, place |-> at[w].place]
  <1>1. UNCHANGED <<Made, Completed>> /\ Made # {}
    BY Listing DEF SaveActionItem, Made, HasRow, Completed
  <1>2. CASE new \in items
    <2>1. items' = items
      BY <1>2, Listing
    <2>2. QED
      BY <1>1, <2>1 DEF Listed
  <1>3. CASE new \notin items
    <2>1. Listed < MaxItems /\ Listed' = Listed + 1
      BY <1>3, Listing, NextListed DEF Listed
    <2>2. QED
      BY <1>1, <2>1 DEF Made, Listed, Completed, Contract!List, Contract!Next
  <1>4. QED
    BY <1>2, <1>3

LEMMA ContractStep == IInv /\ [Next]_vars => [Contract!Next]_Contract!vars
  <1> SUFFICES ASSUME IInv, [Next]_vars
               PROVE  Contract!Next \/ UNCHANGED <<Made, Listed, Completed>>
    BY DEF Made, Listed, Completed, Contract!vars
  <1>0. ASSUME UNCHANGED <<jobs, row, items>> PROVE UNCHANGED <<Made, Listed, Completed>>
    BY <1>0 DEF Made, Listed, Completed, HasRow
  <1>1. CASE UNCHANGED vars \/ Restart
    BY <1>0, <1>1 DEF vars, Restart
  <1>2. ASSUME NEW r \in Readers, Reader(r) PROVE UNCHANGED <<Made, Listed, Completed>>
    BY <1>0, <1>2 DEF Reader, ReadSummary, ReadJobs, ReadItems, Respond
  <1>3. {"other", "transcript_ready", "summarizing", "completed"} = Statuses
    BY DEF Statuses
  <1>4. ASSUME NEW g \in Hooks, Hook(g)
        PROVE  Contract!Next \/ UNCHANGED <<Made, Listed, Completed>>
    <2>1. CASE MarkReady(g)
      <3>1. at[g].job \in Jobs
        BY <2>1, Constants DEF MarkReady, IInv, AtInv, Good, WithJob
      <3>2. QED
        BY <1>3, <2>1, <3>1, ContractJob DEF MarkReady
    <2>2. CASE CreateUtterances(g) \/ HookFails(g) \/ \E j \in Jobs : CreateTranscript(g, j)
      BY <1>0, <2>2 DEF CreateUtterances, HookFails, CreateTranscript
    <2>3. QED
      BY <1>4, <2>1, <2>2 DEF Hook
  <1>5. ASSUME NEW j \in Jobs, NEW w \in Workers, Claim(w, j) PROVE Contract!Next
    BY <1>3, <1>5, ContractJob DEF Claim
  <1>6. ASSUME NEW z \in Sweeps, ResetZombie(z) \/ \E j \in Jobs : FindZombie(z, j)
        PROVE  Contract!Next \/ UNCHANGED <<Made, Listed, Completed>>
    <2>1. CASE ResetZombie(z)
      <3>1. at[z].job \in Jobs
        BY <2>1, Constants DEF ResetZombie, IInv, AtInv, Good, WithJob
      <3>2. QED
        BY <1>0, <1>3, <2>1, <3>1, ContractJob DEF ResetZombie
    <2>2. CASE \E j \in Jobs : FindZombie(z, j)
      BY <1>0, <2>2 DEF FindZombie
    <2>3. QED
      BY <1>6, <2>1, <2>2
  <1>7. ASSUME NEW w \in Workers, Proceed(w)
        PROVE  Contract!Next \/ UNCHANGED <<Made, Listed, Completed>>
    <2>1. CASE GetTranscript(w) \/ GetUtterances(w) \/ Analyse(w) \/ AttemptFails(w)
               \/ StopItems(w) \/ UpdateTranscript(w)
      BY <1>0, <2>1 DEF GetTranscript, GetUtterances, Analyse, AttemptFails, StopItems,
                        UpdateTranscript
    <2>2. CASE SaveMeetingSummary(w) \/ SaveFails(w)
      BY <1>0, <2>2, ContractStore DEF SaveMeetingSummary, SaveFails
    <2>3. CASE SaveActionItem(w)
      BY <2>3, ContractItem
    <2>4. CASE Finish(w) \/ MarkFailed(w)
      <3>1. at[w].job \in Jobs /\ (Finish(w) => HasRow)
        BY <2>4, Working DEF Finish, MarkFailed, WithJob, AfterRow
      <3>2. QED
        BY <1>0, <1>3, <2>4, <3>1, ContractJob DEF Finish, MarkFailed
    <2>5. QED
      BY <1>7, <2>1, <2>2, <2>3, <2>4 DEF Proceed
  <1>8. QED
    BY <1>1, <1>2, <1>4, <1>5, <1>6, <1>7 DEF Next

\* For its readers MeetingSummary is SummaryContract, whoever writes.
THEOREM Implements == Spec => ImplementsContract
  BY Invariance, ContractInit, ContractStep, PTL DEF Spec, ImplementsContract, Contract!Spec

-----------------------------------------------------------------------------
(* A claim runs down *)

Attempting == {"transcript", "utterances", "groq", "save", "save_minimal"}
Ending     == {"idle", "finish", "mark_failed", "touch"}

\* The attempts and the items are counted up to their ends only.
Counted(l) ==
  /\ l.pc \in Attempting \union Ending \union {"items"}
  /\ l.pc = "idle" => l = Idle
  /\ l.pc \in Attempting => l.attempt + 1 <= MaxAttempts
  /\ l.pc = "items" => l.place <= MaxItems + 1

CountedInv == \A w \in Workers : Counted(at[w])

\* A worker goes on to l, with fewer steps to take.
Shorter(w, l) == Counted(l) /\ StepsLeft(l) \in 0..(StepsLeft(at[w]) - 1)

Shortens(w) == \E l : Step(w, l) /\ Shorter(w, l)

\* What StepsLeft counts, by what the worker does next.
LEMMA StepsOf ==
  ASSUME NEW l
  PROVE  /\ l.pc = "idle" => StepsLeft(l) = 0
         /\ l.pc \in {"finish", "mark_failed"} => StepsLeft(l) = 1
         /\ l.pc = "touch" => StepsLeft(l) = 2
         /\ l.pc = "items" => StepsLeft(l) = MaxItems + 4 - l.place
         /\ \A n \in Nat : l.pc \in Attempting /\ l.attempt = n =>
              StepsLeft(l) = MaxItems + 4 + 4 * (MaxAttempts - n) + Stage[l.pc]
  BY DEF StepsLeft, Attempting

LEMMA Stages ==
  /\ Stage["transcript"] = 3 /\ Stage["utterances"] = 2 /\ Stage["groq"] = 1
  /\ Stage["save"] = 0 /\ Stage["save_minimal"] = 0
  BY DEF Stage

\* While it is on an attempt, more steps are left than any of the next ones leaves.
LEMMA InAttempt ==
  ASSUME NEW w \in Workers, at[w] \in Local, Counted(at[w]), at[w].pc \in Attempting
  PROVE  /\ at[w].attempt \in Nat /\ at[w].attempt + 1 <= MaxAttempts
         /\ StepsLeft(at[w]) \in Nat
         /\ StepsLeft(at[w]) = MaxItems + 4 + 4 * (MaxAttempts - at[w].attempt) + Stage[at[w].pc]
         /\ StepsLeft(at[w]) >= MaxItems + 8
  <1>1. at[w].attempt \in Nat /\ at[w].attempt + 1 <= MaxAttempts
    BY DEF Local, Counted
  <1>2. Stage[at[w].pc] \in 0..3
    BY Stages DEF Attempting
  <1>3. StepsLeft(at[w]) = MaxItems + 4 + 4 * (MaxAttempts - at[w].attempt) + Stage[at[w].pc]
    BY <1>1, StepsOf
  <1>4. QED
    BY <1>1, <1>2, <1>3, Constants

\* The steps that end an attempt.
LEMMA EndShorter ==
  ASSUME NEW w \in Workers, at[w] \in Local, Counted(at[w]), at[w].pc \in Attempting
  PROVE  /\ \A retryable \in BOOLEAN : Shorter(w, AfterError(w, retryable))
         /\ Shorter(w, Returned(w))
  <1> DEFINE f == [Idle EXCEPT !.pc = "mark_failed", !.job = at[w].job]
  <1>1. Shorter(w, f)
    <2>1. f.pc = "mark_failed"
      BY DEF Idle
    <2> HIDE DEF f
    <2>2. StepsLeft(f) = 1 /\ Counted(f)
      BY <2>1, StepsOf DEF Counted, Attempting, Ending
    <2>3. QED
      BY <2>2, InAttempt, Constants DEF Shorter
  <1>2. Shorter(w, Returned(w))
    <2>1. Returned(w).pc = "finish"
      BY DEF Returned, Idle
    <2>2. StepsLeft(Returned(w)) = 1 /\ Counted(Returned(w))
      BY <2>1, StepsOf DEF Counted, Attempting, Ending
    <2>3. QED
      BY <2>2, InAttempt, Constants DEF Shorter
  <1>3. ASSUME at[w].attempt + 1 < MaxAttempts PROVE Shorter(w, Again(w))
    <2> DEFINE n == at[w].attempt + 1
    <2>1. Again(w).pc = "transcript" /\ Again(w).attempt = n
      BY DEF Again, Idle
    <2>2. n \in Nat /\ n + 1 <= MaxAttempts
      BY <1>3, InAttempt, Constants
    <2>3. StepsLeft(Again(w)) = MaxItems + 4 + 4 * (MaxAttempts - n) + 3
      BY <2>1, <2>2, StepsOf, Stages DEF Attempting
    <2>4. Counted(Again(w))
      BY <2>1, <2>2 DEF Counted, Attempting, Ending
    <2>5. StepsLeft(at[w]) >= MaxItems + 4 + 4 * (MaxAttempts - at[w].attempt)
      BY InAttempt, Stages, Constants DEF Attempting
    <2>6. QED
      BY <2>2, <2>3, <2>4, <2>5, InAttempt, Constants DEF Shorter
  <1> HIDE DEF f
  <1>4. QED
    BY <1>1, <1>2, <1>3 DEF AfterError, f

\* From one statement of an attempt to the next.
LEMMA NextShorter ==
  ASSUME NEW w \in Workers, at[w] \in Local, Counted(at[w]), at[w].pc \in Attempting,
         NEW l, l.pc \in Attempting, l.attempt = at[w].attempt, Stage[l.pc] < Stage[at[w].pc]
  PROVE  Shorter(w, l)
  <1>1. Counted(l)
    BY InAttempt DEF Counted, Attempting
  <1>2. StepsLeft(l) = MaxItems + 4 + 4 * (MaxAttempts - at[w].attempt) + Stage[l.pc]
    BY InAttempt, StepsOf
  <1>3. Stage[l.pc] \in 0..3 /\ Stage[at[w].pc] \in 0..3
    BY Stages DEF Attempting
  <1>4. QED
    BY <1>1, <1>2, <1>3, InAttempt, Constants DEF Shorter

\* In the list of items.
LEMMA ItemsShorter ==
  ASSUME NEW w \in Workers, at[w] \in Local, Counted(at[w]), at[w].pc = "items", at[w].place >= 1
  PROVE  /\ Shorter(w, [at[w] EXCEPT !.pc = "touch"])
         /\ Shorter(w, NextPlace(w))
  <1>1. at[w].place \in 1..(MaxItems + 1) /\ StepsLeft(at[w]) = MaxItems + 4 - at[w].place
    BY StepsOf, Constants DEF Counted, Local
  <1> DEFINE l == [at[w] EXCEPT !.pc = "touch"]
             m == [at[w] EXCEPT !.place = at[w].place + 1]
  <1>2. Shorter(w, l)
    <2>1. l.pc = "touch"
      BY DEF Local
    <2> HIDE DEF l
    <2>2. StepsLeft(l) = 2 /\ Counted(l)
      BY <2>1, StepsOf DEF Counted, Attempting, Ending
    <2>3. QED
      BY <1>1, <2>2, Constants DEF Shorter
  <1>3. ASSUME at[w].place < MaxItems PROVE Shorter(w, m)
    <2>1. m.pc = "items" /\ m.place = at[w].place + 1
      BY DEF Local
    <2> HIDE DEF m
    <2>2. StepsLeft(m) = MaxItems + 4 - (at[w].place + 1) /\ Counted(m)
      BY <1>1, <1>3, <2>1, StepsOf, Constants DEF Counted, Attempting
    <2>3. QED
      BY <1>1, <1>3, <2>2, Constants DEF Shorter
  <1> HIDE DEF l, m
  <1>4. QED
    BY <1>2, <1>3 DEF NextPlace, l, m

LEMMA ProceedShortens ==
  ASSUME IInv, NEW w \in Workers, Counted(at[w]), Proceed(w)
  PROVE  Shortens(w)
  <1>1. at[w] \in Local
    BY Working
  <1>2. CASE GetTranscript(w)
    <2>1. at[w].pc = "transcript"
      BY <1>2 DEF GetTranscript
    <2>2. ASSUME NEW t, Step(w, [at[w] EXCEPT !.pc = "utterances", !.transcript = t])
          PROVE  Shortens(w)
      <3> DEFINE l == [at[w] EXCEPT !.pc = "utterances", !.transcript = t]
      <3>1. l.pc = "utterances" /\ l.attempt = at[w].attempt
        BY <1>1 DEF Local
      <3> HIDE DEF l
      <3>2. Shorter(w, l)
        BY <1>1, <2>1, <3>1, NextShorter, Stages DEF Attempting
      <3>3. QED
        BY <2>2, <3>2 DEF Shortens, l
    <2>3. ASSUME Step(w, AfterError(w, FALSE)) PROVE Shortens(w)
      BY <1>1, <2>1, <2>3, EndShorter DEF Shortens, Attempting
    <2>4. QED
      BY <1>2, <2>2, <2>3 DEF GetTranscript
  <1>3. CASE GetUtterances(w) \/ Analyse(w)
    <2>1. PICK pc \in {"groq", "save_minimal", "save"} :
            /\ Goto(w, pc) /\ at[w].pc \in {"utterances", "groq"}
            /\ pc = "groq" => at[w].pc = "utterances"
      BY <1>3 DEF GetUtterances, Analyse, AfterUtterances
    <2> DEFINE l == [at[w] EXCEPT !.pc = pc]
    <2>2. l.pc = pc /\ l.attempt = at[w].attempt
      BY <1>1 DEF Local
    <2> HIDE DEF l
    <2>3. Shorter(w, l)
      BY <1>1, <2>1, <2>2, NextShorter, Stages DEF Attempting
    <2>4. QED
      BY <2>1, <2>3 DEF Shortens, Goto, l
  <1>4. CASE AttemptFails(w) \/ SaveFails(w)
    <2>1. at[w].pc \in Attempting /\ \E retryable \in BOOLEAN : Step(w, AfterError(w, retryable))
      BY <1>4 DEF AttemptFails, SaveFails, Saving, IsRetryableError, Attempting
    <2>2. QED
      BY <1>1, <2>1, EndShorter DEF Shortens
  <1>5. CASE SaveMeetingSummary(w)
    <2>1. Step(w, AfterSave(w, ids + 1)) /\ at[w].pc \in {"save", "save_minimal"}
      BY <1>5 DEF SaveMeetingSummary, Saving
    <2>2. CASE at[w].pc = "save"
      <3> DEFINE l == [at[w] EXCEPT !.pc = "items", !.id = ids + 1, !.place = 1, !.attempt = 0]
      <3>1. l.pc = "items" /\ l.place = 1
        BY <1>1 DEF Local
      <3> HIDE DEF l
      <3>2. StepsLeft(l) = MaxItems + 3 /\ Counted(l)
        BY <3>1, StepsOf, Constants DEF Counted, Attempting
      <3>3. Shorter(w, l)
        BY <1>1, <2>2, <3>2, InAttempt, Constants DEF Shorter, Attempting
      <3>4. QED
        BY <2>1, <2>2, <3>3 DEF Shortens, AfterSave, l
    <2>3. CASE at[w].pc = "save_minimal"
      BY <1>1, <2>1, <2>3, EndShorter DEF Shortens, AfterSave, Attempting
    <2>4. QED
      BY <2>1, <2>2, <2>3
  <1>6. CASE SaveActionItem(w) \/ StopItems(w)
    <2>1. at[w].pc = "items" /\ at[w].place >= 1
      BY <1>6, Working DEF SaveActionItem, StopItems, Good
    <2>2. Shorter(w, [at[w] EXCEPT !.pc = "touch"]) /\ Shorter(w, NextPlace(w))
      BY <1>1, <2>1, ItemsShorter
    <2>3. QED
      BY <1>6, <2>2 DEF SaveActionItem, StopItems, Goto, Shortens
  <1>7. CASE UpdateTranscript(w)
    <2>1. at[w].pc = "touch" /\ Step(w, Returned(w)) /\ Returned(w).pc = "finish"
      BY <1>7 DEF UpdateTranscript, Returned, Idle
    <2>2. StepsLeft(at[w]) = 2 /\ StepsLeft(Returned(w)) = 1 /\ Counted(Returned(w))
      BY <2>1, StepsOf DEF Counted, Attempting, Ending
    <2>3. QED
      BY <2>1, <2>2 DEF Shortens, Shorter
  <1>8. CASE Finish(w) \/ MarkFailed(w)
    <2>1. at[w].pc \in {"finish", "mark_failed"} /\ Step(w, Idle) /\ Idle.pc = "idle"
      BY <1>8 DEF Finish, MarkFailed, Done, Idle
    <2>2. StepsLeft(at[w]) = 1 /\ StepsLeft(Idle) = 0 /\ Counted(Idle)
      BY <2>1, StepsOf DEF Counted, Attempting, Ending
    <2>3. QED
      BY <2>1, <2>2 DEF Shortens, Shorter
  <1>9. QED
    BY <1>2, <1>3, <1>4, <1>5, <1>6, <1>7, <1>8 DEF Proceed

\* A step of a worker that shortens its claim, and of nobody else.
LEMMA ShorterAt ==
  ASSUME IInv, NEW w \in Workers, Shortens(w)
  PROVE  /\ Shorter(w, at'[w])
         /\ \A v \in Workers : v # w => at'[v] = at[v]
  BY Constants DEF Shortens, Step, IInv, AtInv

\* What each worker may do in a step.
Runs(w) ==
  \/ at'[w] = at[w] /\ ~Proceed(w)
  \/ Shorter(w, at'[w])
  \/ at[w] = Idle /\ Counted(at'[w])

LEMMA Resting == Counted(Idle) /\ StepsLeft(Idle) = 0
  <1>1. Idle.pc = "idle"
    BY DEF Idle
  <1>2. QED
    BY <1>1, StepsOf DEF Counted, Attempting, Ending

LEMMA Busy ==
  ASSUME IInv, CountedInv, NEW w \in Workers, at[w] # Idle
  PROVE  StepsLeft(at[w]) \in Nat \ {0}
  <1>1. Counted(at[w]) /\ at[w] \in Local
    BY Working DEF CountedInv
  <1>2. CASE at[w].pc \in Attempting
    BY <1>1, <1>2, InAttempt, Constants
  <1>3. CASE at[w].pc = "items"
    <2>1. StepsLeft(at[w]) = MaxItems + 4 - at[w].place /\ at[w].place \in 0..(MaxItems + 1)
      BY <1>1, <1>3, StepsOf, Constants DEF Counted, Local
    <2>2. QED
      BY <2>1, Constants
  <1>4. CASE at[w].pc \in Ending
    BY <1>1, <1>4, StepsOf DEF Counted, Ending
  <1>5. QED
    BY <1>1, <1>2, <1>3, <1>4 DEF Counted

\* A step that does not move a worker is not its own.
LEMMA NotItsOwn ==
  ASSUME IInv, CountedInv, NEW w \in Workers, at'[w] = at[w]
  PROVE  ~Proceed(w)
  <1> SUFFICES ASSUME Proceed(w) PROVE FALSE
    OBVIOUS
  <1>1. Shorter(w, at[w])
    BY ProceedShortens, ShorterAt DEF CountedInv
  <1>2. StepsLeft(at[w]) \in 0..(StepsLeft(at[w]) - 1)
    BY <1>1 DEF Shorter
  <1>3. QED
    BY <1>2

LEMMA EveryoneRuns ==
  ASSUME IInv, CountedInv, [Next]_vars, NEW w \in Workers
  PROVE  Runs(w)
  <1>1. at \in [Goroutines -> Local] /\ w \in Goroutines
    BY Constants DEF IInv, AtInv
  <1>2. ASSUME NEW v \in Workers, Proceed(v) PROVE Runs(w)
    <2>1. Shortens(v)
      BY <1>2, ProceedShortens DEF CountedInv
    <2>2. CASE v = w
      BY <2>1, <2>2, ShorterAt DEF Runs
    <2>3. CASE v # w
      BY <2>1, <2>3, ShorterAt, NotItsOwn DEF Runs
    <2>4. QED
      BY <2>2, <2>3
  <1>3. ASSUME NEW v \in Workers, NEW j \in Jobs, Claim(v, j) PROVE Runs(w)
    <2> DEFINE l == [Idle EXCEPT !.pc = "transcript", !.job = j]
    <2>1. at[v] = Idle /\ at' = [at EXCEPT ![v] = l]
      BY <1>3 DEF Claim, Step
    <2>2. l.pc = "transcript" /\ l.attempt = 0
      BY DEF Idle
    <2> HIDE DEF l
    <2>3. Counted(l)
      BY <2>2, Constants DEF Counted, Attempting
    <2>4. CASE v = w
      BY <1>1, <2>1, <2>3, <2>4 DEF Runs
    <2>5. CASE v # w
      <3>1. at'[w] = at[w]
        BY <1>1, <2>1, <2>5
      <3>2. QED
        BY <3>1, NotItsOwn DEF Runs
    <2>6. QED
      BY <2>4, <2>5
  <1>4. ASSUME NEW g \in Hooks \union Readers \union Sweeps, NEW l, at' = [at EXCEPT ![g] = l] PROVE Runs(w)
    <2>1. at'[w] = at[w]
      BY <1>1, <1>4, SummaryNames
    <2>2. QED
      BY <2>1, NotItsOwn DEF Runs
  <1>5. ASSUME NEW g \in Hooks, Hook(g) PROVE Runs(w)
    <2>1. \E l : at' = [at EXCEPT ![g] = l]
      BY <1>5 DEF Hook, CreateTranscript, CreateUtterances, MarkReady, HookFails, Done, Step
    <2>2. QED
      BY <1>4, <2>1
  <1>6. ASSUME NEW r \in Readers, Reader(r) PROVE Runs(w)
    <2>1. \E l : at' = [at EXCEPT ![r] = l]
      BY <1>6 DEF Reader, ReadSummary, ReadJobs, ReadItems, Respond, Goto, Done, Step
    <2>2. QED
      BY <1>4, <2>1
  <1>7. CASE Restart
    <2>1. at'[w] = Idle
      BY <1>1, <1>7 DEF Restart
    <2>2. CASE at[w] = Idle
      BY <2>1, <2>2, NotItsOwn DEF Runs
    <2>3. CASE at[w] # Idle
      <3>1. StepsLeft(at[w]) \in Nat \ {0}
        BY <2>3, Busy
      <3>2. QED
        BY <2>1, <3>1, Resting DEF Runs, Shorter
    <2>4. QED
      BY <2>2, <2>3
  <1>8. CASE UNCHANGED at
    BY <1>8, NotItsOwn DEF Runs
  <1>9. ASSUME NEW z \in Sweeps, ResetZombie(z) \/ \E j \in Jobs : FindZombie(z, j) PROVE Runs(w)
    <2>1. \E l : at' = [at EXCEPT ![z] = l]
      BY <1>9 DEF ResetZombie, FindZombie, Done, Step
    <2>2. QED
      BY <1>4, <2>1
  <1>10. QED
    BY <1>2, <1>3, <1>5, <1>6, <1>7, <1>8, <1>9 DEF Next, vars

LEMMA CountedInvariance == Spec => [](IInv /\ CountedInv)
  <1>1. Init => CountedInv
    <2>1. Init => \A w \in Workers : at[w] = Idle
      BY Constants DEF Init
    <2>2. QED
      BY <2>1, Resting DEF CountedInv
  <1>2. IInv /\ CountedInv /\ [Next]_vars => CountedInv'
    <2>1. IInv /\ CountedInv /\ [Next]_vars => \A w \in Workers : Counted(at[w])'
      BY EveryoneRuns DEF CountedInv, Runs, Shorter, Counted
    <2>2. QED
      BY <2>1 DEF CountedInv
  <1>3. QED
    BY <1>1, <1>2, Invariance, PTL DEF Spec

\* A claim runs down: whatever fails and whoever interferes, each step of its worker leaves
\* fewer to take, and nobody gives it more. With a step that can be taken as long as there
\* is a claim, and the fairness of FairSpec, this is why EveryClaimEnds.
THEOREM ClaimsRunDown == Spec => EveryStepCounts
  <1>1. ASSUME IInv, CountedInv, [Next]_vars
        PROVE  \A w \in Workers :
                 at[w] # Idle => IF at'[w] = at[w] THEN ~Proceed(w)
                                 ELSE StepsLeft(at'[w]) \in 0..(StepsLeft(at[w]) - 1)
    <2>1. ASSUME NEW w \in Workers, at[w] # Idle
          PROVE  IF at'[w] = at[w] THEN ~Proceed(w)
                 ELSE StepsLeft(at'[w]) \in 0..(StepsLeft(at[w]) - 1)
      <3>1. Runs(w)
        BY <1>1, EveryoneRuns
      <3>2. at'[w] = at[w] => ~Proceed(w)
        BY <1>1, NotItsOwn
      <3>3. QED
        BY <2>1, <3>1, <3>2 DEF Runs, Shorter
    <2>2. QED
      BY <2>1
  <1>2. QED
    BY <1>1, CountedInvariance, PTL DEF Spec, EveryStepCounts

=============================================================================
