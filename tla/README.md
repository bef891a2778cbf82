# TLA+ models of the meeting assistant

The meeting assistant is a Go backend (Echo, Postgres through gorm) for video meetings on LiveKit.
Recordings are transcribed by AssemblyAI and summarised by Groq. This directory holds TLA+ models of
its logic, the TLC configurations that check them, and proofs for the TLA+ proof system. Source paths
below are relative to `src/`.

## 1. Inventory

| Component | State | Operations | Interacts with |
|---|---|---|---|
| AI job pipeline: `internal/usecase/ai/service.go`, `internal/adapter/repository/ai_job_repository.go`, `internal/domain/entities/ai_job.go` | rows of `ai_jobs` (status, external_job_id, retry_count, updated_at), the upload semaphore, worker goroutines with the rows they have read | StartProcessing, SubmitToAssemblyAI, HandleAssemblyAIWebhook, handleCompletedTranscript, pending, summary, timeout and zombie workers, MarkJobAsFailed | AssemblyAI (calls, webhooks), Groq, the transcript and summary tables |
| Transcripts and summaries: `transcript_repository.go`, `ai_repository.go`, `recording_repository.go` | `transcripts`, `meeting_summaries` (one per room), `action_items` | create, upsert, insert | written by the pipeline |
| Job context: `pkg/jobcontext/context.go` | attempts and timeout of one summary | JobBegin, JobEnd, IsRetryableError | wraps generateMeetingSummary |
| Rooms and participants: `internal/usecase/room`, `room.go`, `participant.go` and their repositories | `rooms` (status, host_id, current_participants), `participants` (status, role, left_at, is_removed) | create, start, join, leave, end, admit, deny, block, remove, transfer host, invite, accept, decline | LiveKit, LiveKit webhooks |
| LiveKit webhooks: `internal/adapter/handler/webhook_impl.go` | none of its own | participant_joined / left, room_started / finished, egress_ended | call the room service; egress_ended inserts AI jobs |
| OAuth and sessions: `internal/usecase/auth`, `infrastructure/external/oauth/state.go`, `cache/memory.go`, `session_repository.go` | pending OAuth states, `sessions`, `users` | auth URL, callback, refresh, logout, logout all | Google, JWT, middleware |
| JWT and middleware: `pkg/jwt`, `http/middleware` | none; the tokens clients hold | issue and check tokens, authenticate requests | sessions, users |
| Parser: `usecase/ai/parser.go` | none | transcript lengths, action items, Groq's answer into fields | summary worker |
| Reading a summary: `handler/room.go` GetMeetingSummary | none | read summary, jobs, chapters, items in turn | the summary tables, while workers write them |
| Clients, storage, handlers, DTOs, configuration | none | I/O and formatting | - |

What is hard in this code: **nothing runs in a database transaction**. Every handler and worker is a
sequence of separate statements, many of them writing a row read several statements earlier, and several
goroutines, HTTP requests and webhooks work on the same rows. Webhooks arrive late, twice, out of order or
never. The process may stop between any two statements, and the workers are supposed to repair what is left.

What makes each part correct:

* *AI jobs*: retries are bounded and spent honestly; no job moves forward without the transcript or summary
  it claims to have; transcript ids are not exchanged; one worker per opening; every recording is settled.
* *Summaries*: one per meeting, made from the meeting's own transcript; its action items belong to it.
* *Rooms*: nobody is in a room who was not let in; a removal stands; only who was let in becomes host; a record
  stays its person's; a room with people in it is not ended; capacity holds.
* *OAuth*: a callback that comes after its state was used is refused; who logs in gets his own user, whoever logs
  in beside him; a session that is logged out stays so, and access ends within the life of an access token.

## 2. Plan

1. `AIJobs`, `AIPipeline`, `MCAIJobs`, `AIJobsProofs` - the pipeline (section 3). **Done.**
2. `Rooms`, `RoomAccess`, `MCRooms`, `RoomsProofs`, `RoomAccessProofs`, `RoomRemovalsProofs` - room and participant rows, every operation
   one statement at a time, LiveKit webhooks as further callers, shown to implement what the rooms promise about
   who gets in (section 4). **Done.**
3. `OAuthLogin`, `LoginContract`, `MCOAuthLogin`, `OAuthLoginProofs`, `LoginContractProofs` - login with Google,
   sessions, refresh and logout, access tokens and the middleware, shown to implement what a login promises
   (section 5). **Done.**
4. `MeetingSummary`, `SummaryContract`, `MCMeetingSummary`, `MeetingSummaryProofs` - the inside of a summary
   (attempts, upsert, action items) and its readers, shown to implement the contract that readers rely on
   (section 6). **Done.**
5. Left: egress events into recording rows, composed with `AIJobs`; `CreateRoom` with its compensations.

Modules are written to be proved about: parameters are CONSTANTS with named assumptions, one action per
statement, invariants are conjunctions of named parts, no RECURSIVE operator.

## 3. The AI pipeline (`AIJobs`)

### Grain

One action is one SQL statement, or one call of an external service, together with the local control flow
up to the next one. A goroutine is a record in `at`: where it stands (`pc`), the job it works on, the
transcript id it holds, and the retry status it has computed. `batch` holds rows a polling worker has read
and not yet handled, which may be stale when it comes to them.

| Goroutine | Code | Actions |
|---|---|---|
| process-ai request | `StartProcessing` 87-105 | `StartProcessing`, then an upload |
| egress handler | `handleEgressEndedV2` (`webhook_impl.go` 312-542) | `EgressEnded` (the insert) |
| upload (request or pending worker) | `SubmitToAssemblyAI` 110-274 | `Acquire` (semaphore), `Submit`, `MarkJobAsSubmitted`, `AttemptFails` |
| pending worker | 1026-1119 | `PollPending`, `ClaimPending`, an upload |
| webhook handler | `HandleAssemblyAIWebhook` 277-387 | `Deliver` (look-up), `MarkProcessing`, `StoreTranscript`, `MarkReady`, failing |
| timeout worker | 1173-1314 | `PollStuck`, `CheckStuck`, `Touch`, `StoreTranscript`, `StoreFails`, `MarkReady`, failing |
| summary worker | 677-787 | `PollReady`, `ClaimReady`, `Summarize`, `SummaryFails`, `Finish`, failing |
| zombie clean-up | 990-1023 | `PollZombies`, `ResetZombie` |
| failing (any of the above) | `MarkJobAsFailed` (`ai_job_repository.go` 152-197) | `FailRead`, `FailWrite`, `FailExhausted` |

State and code:

* `job` is the table: `status`, `meeting`, `ext` (external_job_id), `retries` (retry_count) and `old`, which
  says whether `updated_at` is more than ten minutes back. Every write of a row clears `old`; time (`Age`)
  sets it. A job's number stands for the order of `created_at`.
* `stored` and `summary` are the rows of `transcripts` and `meeting_summaries`. The upsert on `room_id`
  (`ai_repository.go` 107-137) makes `summary` a function of the meeting.
* `asm` and `webhooks` are AssemblyAI, modelled from how it is called. The SDK's `TranscribeFromURL` makes
  the transcript and *waits for it*, so the transcript exists, may finish and may announce itself by webhook
  while the caller has no id yet (`pc = "await"`).
* The upload semaphore is derived: its holders are the goroutines past `acquire` (`Uploading`).
* `takers` is a history variable, used by one property.

Failures. `Abandon`: a statement fails or a request's context is cancelled; what was written stays, the rest
of the operation is skipped. `SkipRow`: a worker's first statement about a row of its batch fails, or
AssemblyAI cannot be reached, and it goes on with the next row. `Crash`: the process stops and starts again
(a graceful stop closes a channel and waits for at most the shutdown timeout, `cmd/api/main.go` 246-269, so
it may cut an operation at the same places). Failures the code answers with `MarkJobAsFailed` are
`AttemptFails`, `StoreFails` and `SummaryFails`, and may happen at any time. A summary that fails may have been
stored all the same, when only the answer of the upsert was lost.

Left out, because no modelled decision reads it: request parameters, languages, log text, `last_error`,
`started_at`, `completed_at`, transcript contents, the details of a summary after its row is written (their
failure is only logged, 945-973), the bodies of `storeTranscriptFromWebhook` and `generateGroqSummary`, which
nothing calls, and `failedJobRetryWorker`, which only logs.

### Abstract specification (`AIPipeline`)

For each recording: `none -> waiting -> ready -> done`, or `dead`. A recording may fall back (a late upload
or a second webhook re-opens it: the code does that by design of its unconditional status writes), but it
becomes ready only with a transcript, done only with a transcript and a summary of its meeting, goes back for
a failure only by spending a retry, and dies only with none left. `AIJobs` implements it under the mapping
`Pipeline == INSTANCE AIPipeline WITH ...`; the property is `ImplementsPipeline`.

### Properties

| Property | Kind | What could violate it |
|---|---|---|
| `RetriesBounded`, `FailedOnlyWhenExhausted` | invariants | two failing callers between the guarded increment and the unguarded give-up |
| `ExternalIdOwned` | invariant | parallel uploads, a second submission, retries with a new transcript |
| `TranscriptBeforeSummary` | invariant | stale retry status, late webhooks, zombie resets, the timeout worker's stale id |
| `CompletedHasSummary` | invariant | `completed` is written minutes after the claim without a look at the row |
| `OneTakerPerOpening` | invariant | several workers claim from the same stale page |
| `RequeueSpendsRetry` | action property | any road back to `pending` |
| `ImplementsPipeline` | refinement | any of the above in one step |
| `EveryJobSettles` | liveness | a state no worker polls |

### Runs

| Run | Bounds | Shows |
|---|---|---|
| `AIJobs_recovery` | 1 job, 2 transcripts, 1 webhook handler, 1 summary worker, 1 retry, 2 faults, fairness | type, retry bookkeeping, evidence, refinement, with crashes and failed statements at any point, and every recording is settled; 282,553 states |
| `AIJobs_pool` | 1 job, 2 summary workers, each webhook delivered up to twice, workers that outlive ten minutes | at most one taker per opening, and the refinement; 1,246,626 states |
| `AIJobs_recordings` | 2 jobs of one meeting, 1 process-ai request and the pending worker, no webhooks | ids are not exchanged, evidence per recording; pages of one row |
| `AIJobs_early_webhook` | no retries | *violation*: a webhook can arrive before the id is recorded, contrary to the comment at `service.go` 226-227 |
| `AIJobs_double_submission` | 1 request | *violation*: a job is submitted twice, contrary to the comment at `service.go` 1066-1067 |

The bounds and why they are enough to be interesting: two transcripts for one job let a retry or a second
submission have a transcript of its own while the first still sends webhooks; one retry reaches both the
guarded increment and the give-up; two faults let a crash interrupt the repair of an earlier one; two workers
or two submitters are what a race needs; `ScanLimit = 1` with two jobs makes the page cut something off.
Transcripts, workers and handlers are interchangeable, so `AIJobs_pool` and `AIJobs_recordings` use symmetry;
`AIJobs_recovery`, which checks liveness, does not.
When `Tids` are used up, uploads can only fail, as with an AssemblyAI that refuses service. The theorems
below have no bounds.

Deadlock is checked: `Quiescent` is the one state in which the system may stand still.

### Fairness

`FairSpec` assumes weak fairness of each worker's steps (tickers fire, operations have timeouts), of requests
and handlers once started, of AssemblyAI finishing a transcript, and of time. It assumes **no** webhook is
delivered, no request comes, and allows faults. `SlowWorkers = FALSE` in `AIJobs_recovery` says that a summary's
five-minute context ends it within the ten minutes after which it is taken for a zombie; otherwise a summary could
be restarted for ever, since a zombie reset costs no retry. The other runs have `TRUE`.

A limit of the liveness result: a webhook with status `processing` (`service.go` 356-362) puts a job into a
status that no worker polls and that ages in no query; if no other webhook follows, it stays there.
`AIJobs_recovery` therefore takes `Announced` without `processing`; `AIJobs_pool` has it. The comment
at `ai_job.go:19` ("Being processed by Groq for analysis") describes another use of that status than the code's.

## 4. Rooms and participants (`Rooms`)

### Grain

A call (`at[c]`) is a request of the API or a LiveKit webhook being handled. An action is one SQL statement
with the checks up to the next one; the read at the start of an operation belongs to the start of the call.
Nothing runs in a transaction: most operations read a row, change the copy in memory and save **all** of it,
so `at[c]` keeps the copies (`snap` of the room, `row` of a participant, `list` of several) and `Save` and
`Update` write them back, however stale.

| Operation | Code (`room_service.go`) | Actions after the call's start |
|---|---|---|
| StartRoom, room_started | 224-251 | `SaveRoom` |
| JoinRoom | 260-377, 380-443 | `CheckInvited`, `FindParticipant`, `CreateParticipant` or `SaveParticipant`, `CountHost`, `SaveRoom` |
| LeaveRoom, participant_left | 446-491, 856-885 | `SaveParticipant`, `LeaveCount`, `CountActive`, then `AutoEnd` or `FindNewHost`, `SaveParticipant`, `PromoteInRoom`, `SaveRoom` |
| EndRoom, room_finished | 494-544 | `ListActive`, `SaveEnded`, `MarkLeft` for each |
| AdmitParticipant | 583-622 | `FindWaiting`, `MarkAsJoined`, `CountAdmitted` |
| DenyParticipant | 627-662 | `FindWaiting`, `DeleteRow` |
| BlockParticipant | 666-710 | `FindBlocked`, `SaveParticipant` |
| RemoveParticipant | 746-777 | `RemoveRow`, `CountRemoved` |
| TransferHost | 780-853 | `FindOldHost`, `FindNextHost`, `SaveParticipant`, `Promote`, `UpdateHostID` |
| InviteUserByEmail | 970-1037 | `CheckEmail`, `CreateInvitation` |
| AcceptInvitationByEmail | 1049-1099 | `FindRoom`, `Accept`, `SaveRoom` |
| DeclineInvitationByEmail | 1102-1123 | `SaveParticipant` |
| participant_joined | 936-954 | `SaveParticipant` |
| GetMyParticipantStatus | 714-743 | (one action) |

Who starts a call: `LiveKitEvent` (`webhook_impl.go` 148-304), and the handlers of the API for a member of the
room (`MemberRequest`), for a record of it (`RecordRequest`), for the host (`HostRequest`) and for invitations
(`InvitationRequest`).

`Return` ends a call early: a check refuses it, a statement fails, or the client goes away and the context is
cancelled. What was written stays. `tokens` are the LiveKit tokens given out; they are valid for a day and
nothing revokes them. LiveKit reports a participant only if he has one. `entitled` is history.

Three facts of gorm (v1.31) carry weight, and are modelled in `Save`, `Update` and `PromoteInRoom`:

* `Save` updates every column by primary key, and if there is no such row inserts it: a participant who was
  denied, whose row is deleted, comes back with a copy read before;
* `Updates` with a struct leaves columns alone whose field is zero: a count of 0 is not written;
* before it, gorm copies the primary key of a loaded belongs-to association into the foreign key. The room is
  always loaded with `Host`, so the `HostID` that `promoteNewHost` sets (879) is replaced by the old one, which
  is what the comment at 834 ("Use dedicated UpdateHostID method to ensure update") works around.

The unique index on (room_id, user_id) of migration 014 is the guard of `Save`; the one on the e-mail address
was dropped by migration 015. A user stands for his id and his address. `Init` is any room that `CreateRoom` has
just made. `CheckEmail` takes any error of the query for there being no invitation (990-994), and goes on to make
one. Left out: co-hosts (no operation makes one), settings, permissions, durations, the time window of
scheduled rooms, the order of `joined_at` (any active participant may be the first), calls of the LiveKit API.

### Properties

| Property | What could violate it |
|---|---|
| `WaitingRoomHolds` | a stale copy that says joined, saved after the row was denied, deleted or given to another status; an event with an old token |
| `HostsWereAdmitted` | a transfer to someone who leaves or is removed meanwhile, a promotion from a stale list, a stale room written back |
| `RemovalSettles` (action) | a call begun after the removal that still saves a row or a list from before it; a removed user who rejoins; a deny; an invitation on a removed record |
| `PrivateByInvitation` | an ex-host, a transferred host, or a record re-created after a deletion, in a room that needs an invitation |
| `RecordsKeepTheirPerson` | a stale copy saved over another one's record, an invitation accepted with the wrong row |
| `ImplementsAccess` | a statement that lets two people in or takes two out, a token or the host's role given to somebody who was not let in |

`entitled` gets a user, with the reason, when the room is made, when he is invited by e-mail (`CreateInvitation`),
when he accepts (`Accept`), and when `MarkAsJoined` admits a record of his: `admitted` if the caller was found to be
the host of *that* room, `elsewhere` if he is the host of another one. Nothing else: becoming host does not count.

**The host of another room.** `AdmitParticipant`, `DenyParticipant`, `BlockParticipant` and `RemoveParticipant`
compare the caller with the host of the room in the path and then take the record by its id, without a look at the
record's room (`room_service.go` 583-622, 627-662, 666-711, 746-777). The documents let only the room's host do so
(`docs/API_DESCRIPTION.md` 410-416 and 691; `docs/03-room-management-flow.md` 73). So `WaitingRoomHolds`,
`HostsWereAdmitted` and `RoomAccess` have one case beside the documented ones, named in them (`LetInElsewhere`, the
reason `elsewhere`), and what they say is that it is the *only* one. Without that case TLC refutes
`WaitingRoomHolds` in `Rooms_two_rooms` after seven states: the maker of one room asks to join another, and admits
himself there.

**Removals that overlap.** A removal or block may be lost to a call that it overlaps. `JoinRoom` saves the row it has
read before (318-331), waiting and not removed; `EndRoom` saves the rows it has listed (536); `DenyParticipant`
deletes the record (645-657) that `BlockParticipant` has marked meanwhile (700-705). `RemovalSettles` is about
what comes after: as soon as no running call holds a copy of the record from before the mark, or is about to delete
it (`Settled`), the mark stays for good, whatever calls begin from then on and whatever they overlap, and the
record neither waits nor is an invitation in any step of that behaviour.

### The abstract rooms (`RoomAccess`)

For each room: its type, its host, whom it expects, who has been let in, who is inside, and who has been given a
token. A person is let in once and for all, by being admitted (by the host of the room or, as the code has it, of
another one) or by accepting an invitation, and into a room that
is not public only if it expects him; he enters, leaves, gets tokens and becomes host only after that; and every
step is about one person and one room. `Rooms` implements it under the mapping `Access == INSTANCE RoomAccess
WITH ...`, in which a person is inside when some row of his says `joined`. A person may have two rows (his own, and
an invitation by e-mail), each of which may be stale in several calls: that one statement moves one person only
is what has to be shown.

Three things the code does **not** keep have no property: `current_participants` drifts from the joined
participants, a room that has ended can come back by `SaveRoom`, and the number of records with the host's role is not
always one: a transfer cut short leaves none, and two that overlap leave two, although the comment at 828 says of
the order of its statements that it ensures a single host. `HostsWereAdmitted` says who such hosts can be.

### Runs

| Run | Bounds | Shows |
|---|---|---|
| `Rooms_access` | 1 room, public or private, 2 users, 3 records, 2 calls at a time, 4 in all | the invariants, `RecordsKeepTheirPerson`, `RemovalSettles` and the refinement, in 251,779 states |
| `Rooms_two_rooms` | 2 rooms of either type, 2 users, 3 records, 2 calls at a time, 3 in all | the ways into a room and to its host's place, with a host who acts on records of the other room, in 448,568 states, some two minutes |
| `Rooms_capacity` | 3 users, calls one after the other | *violation*: a participant is admitted to a full room, contrary to `docs/API_DESCRIPTION.md` 418 and 674-679 |
| `Rooms_block` | 2 users, one after the other | *violation*: a blocked participant is marked joined again, contrary to the comment at 664-665 |
| `Rooms_auto_end` | 2 users, one after the other | *violation*: a room is ended with a participant in it, contrary to the comment at 472 |

Two overlapping calls are what one stale copy needs; four calls let a participant arrive (two calls) while two
more overlap, or be removed between a read and a write. Three records are the creator's, the other user's and an
invitation, or with two rooms the two creators' and one more. Two rooms are what a call for one of them about a
record of the other needs: a join that waits, the admission, and a third call beside either. The three violations need no overlap at all, so their runs have one call at a time and stay small.
Safety only: every request ends by itself, and no operation waits for another.

## 5. Login and sessions (`OAuthLogin`)

### Grain

A call is a running request; an action is one access to the state store, to Google or to the database, with
the checks up to the next one. The store of states is memory behind a lock, so one access to it is atomic and a
restart empties it. Tables survive a restart; calls do not.

| Operation | Code | Actions |
|---|---|---|
| login page | `auth.go` 42-76, `state.go` 31-45 | `GoogleLogin`, `GenerateState` |
| consent at Google | external | `Consent`: a code for an account and a page |
| callback | `auth.go` 89-175, `oauth_service.go` 81-189 | `GoogleCallback`, `GetState`, `DeleteState`, `ExchangeCode`, `FindByOAuth`, `FindByEmail`, `UpdateUser` or `CreateUser`, `CreateSession` |
| refresh | `auth.go` 187-239, `oauth_service.go` 233-285 | `RefreshAccessToken`, `UpdateLastUsed`, `IssueAccessToken` |
| logout | `auth.go` 252-301, `oauth_service.go` 313-326 | `Logout`, or `LogoutByToken` and `RevokeFound` |
| authentication | `auth_middleware.go` 105-158, `oauth_service.go` 287-311, 346-367 | `BearerRequest`, or `SessionRequest` and `Authenticate`, then `Respond` |
| clean-up | `memory.go` 68-83 | `CleanupExpired` |

State and code:

* `store` is the `MemoryStore`. `Get` treats an expired item as missing and leaves it there; only `Delete` and
  `cleanupExpired` take it out.
* `users` has the two columns by which a login finds its row, `email` and `oauth` (oauth_id), and the unique
  index on the first. A user stands for his primary key. `sessions` has the owner, the second of the login
  (`iat`), the expiry and `revoked_at`.
* The refresh token is not a variable. It is a JWT of the user and the second, so `RefreshToken` is that pair,
  and the unique index on the column refuses a second login in the same second (`TokenFree`).
* `tokens` and `logins` are what clients have been given: access tokens, and sessions by their cookie. The login
  itself hands out no access token: the callback sets the session cookie only. An answer may be lost, then
  the session exists and nobody holds it.
* The address of an account is fixed, and several accounts may have one address: an address that has passed from one
  Google account to another is looked at once by each.
* `FindByEmail` may come to `create_user` although the row exists: line 110 takes any error of the query for
  "there is no such user". The unique index then refuses the row, and the login fails.
* `loggedOut` and a call's `fresh` and `begun` are history.

Failures: `Fail` ends a call at any point (Google, the database, a unique index); `Restart` ends all of them.
Left out: names, pictures, languages, Google's refresh tokens, `is_active` (nothing changes it), the signatures
of tokens, and the `oauth_state` cookie: a callback with another one's cookie is refused at once and changes
nothing. The raw refresh token is not returned to clients any more; logout by token is there for older ones.

### Properties

| Property | What could violate it |
|---|---|
| `SameUserAtEveryLogin` | two first logins at once, a failed query taken for "none", a row linked to another account and found by the other column |
| `SessionOfOwner` | a login that saves a copy of a row another login has linked meanwhile, a row found by the wrong column |
| `LogoutIsFinal` | a refresh that writes back the session it read before the logout; a refresh token that finds another session |
| `AccessEnds` | an access token issued late by a refresh that had read its session in time, then used for its lifetime |
| `LateCallbackRefused` | a state that is read, and deleted in a second step |
| `ImplementsLogin` | a session that changes its owner or comes back, a user who changes his address, a request that is served from a session over when it came |
| `AbandonedStatesFreed` (liveness) | a state nobody comes back for |

`LateCallbackRefused` is weaker than "one-time use" (the comment of `ValidateState`), because two callbacks that
overlap can both read the state before either deletes it. Both then need a code of their own, which Google takes
once. `AccessEnds` states how long a session's end can be outlived: by the lifetime of an access token, counted
from the answer of a refresh which had *begun* while the session was good.

**The documents promise more than `AccessEnds` says.** They have the backend blacklist the token at logout
(`docs/02-authentication-flow.md` 57-58), revoke tokens (`docs/06-api-documentation.md` 23), invalidate the token
(`docs/API_DESCRIPTION.md` 67-70). The code has no blacklist: an access token is a JWT that the bearer middleware
checks by its signature and expiry alone (`auth_middleware.go` 105-158), so a request with one given out before the
logout is served after it, and the property allows that. It bounds the disagreement, by `AccessTTL`, and is not an
endorsement of it.

### The contract (`LoginContract`)

Addresses, users and sessions without pages, codes, tables or a clock: an address is registered once and for all,
with a user who has no other; a session has one owner, and is handed out only to the owner of an address; it is
over for good, by logout or by time; a call that shows a session is asking for its owner only if the session was
not over then; and a user is served, or given an access token, only by way of such a call, or with a token that
was given so. `OAuthLogin` implements it under the mapping `Contract == INSTANCE LoginContract WITH ...`. What a call
asks for is the user in the copy of the row it has read (`Asked`), so that the rest of a refresh or of an
authentication, which never looks at the session again, is held to what it read. How long an access token lasts
is not the contract's business, but that of `AccessEnds`.

### Run

`OAuthLogin_login`: three accounts on two addresses (two of them share one), one page consented to twice, two
users, two sessions, two calls at a time and three in all, lifetimes of one tick in a time of two; 426,561 states,
about a minute. Two codes for one page are what the race on a state needs, and two accounts with one address what
linking needs; three calls are two overlapping logins and one request or logout that follows. Time is just long
enough: a session or state stored at 0 is good at 0 and 1 and has expired at 2 (the code compares with After), an
access token is good in the tick it was issued in, and a refresh that began at 1 may issue one at 2, which outlives
the session. `CHECK_DEADLOCK FALSE`: when the bounded calls and
ticks are used up everything has stopped.

`FairSpec` assumes that time passes and that the ticker of `cleanupExpired` goes off (a goroutine started with
the store, which nothing stops). It does not assume that anybody finishes a login.

## 6. The inside of a summary (`MeetingSummary`)

### Grain

`AIJobs` says how jobs go from one status to the next and takes a summary as one step. This module is the other
half: one meeting, the statements of `handleCompletedTranscript`, of `generateMeetingSummary` inside `JobEnd`, and
of the request that reads the result. Job statuses in which a job is nothing to a summary worker and nothing to
the reader are one, `other`, and `MarkReady` and `MarkFailed` may come at any time.

| Goroutine | Code | Actions |
|---|---|---|
| webhook | `service.go` 390-568 | `CreateTranscript`, `CreateUtterances`, `MarkReady`, `HookFails` |
| claim | `service.go` 719-787 | `Claim`, then attempts, then `Finish` or `MarkFailed` |
| attempt | `service.go` 789-987, `jobcontext/context.go` 50-110 | `GetTranscript`, `GetUtterances`, `Analyse`, `SaveMeetingSummary`, `SaveActionItem` for each item, `StopItems`, `UpdateTranscript`; `AttemptFails`, `SaveFails` |
| zombie clean-up | `service.go` 990-1023 | `FindZombie`, then `ResetZombie` by id, whatever has become of the job |
| reader | `handler/room.go` 903-1120 | `ReadSummary`, then `ReadItems`, or `ReadJobs` and `Respond` |

* A transcript's number is its place in the order of the primary key, which is random: `GetTranscriptByMeetingID`
  is gorm's `First`, so a second transcript may come before or after the first.
* `row` is the row of `meeting_summaries`: `room_id` is unique and `Upsert` keeps its id and its transcript. `ids`
  counts the ids that `NewMeetingSummary` has given.
* `items` are the rows of `action_items`, by summary and place in the analysis' list; `HasParent` is their foreign
  key of migration 003.
* An attempt that fails is retried or not by the *text* of its error (`IsRetryableError`), which the model leaves
  open. The deadline of `JobBegin` is one more way for any statement to fail.
* A failed save may have been done: the connection can be lost before the answer (`SaveFails`).

Texts, languages, prompts, the bodies of a summary and wording are left out, and the metadata that only labels.

### The contract (`SummaryContract`)

What readers are promised: one summary, of one transcript, made once and kept (only its text may be rewritten);
items listed one by one and never taken back, at most those of one analysis; jobs completed only when the summary
is there. `MeetingSummary` implements it under the mapping `Contract == INSTANCE SummaryContract WITH ...`
(`ImplementsContract`).

### Properties

| Property | What could violate it |
|---|---|
| `NoSummaryOnlyByRace` | the error of the last attempt lost on the way to `completed`; a reader between the two queries |
| `ItemsOfOneAnalysis` | another attempt, worker or job whose summary met the conflict and whose items carry an id that was never stored |
| `ItemsFromTheStart` | inserts cut off or refused one by one |
| `ReaderKeepsHisRow` | an upsert while the reader fetches what belongs to the row |
| `TranscriptTextLast` | a short transcript, or a transcript that another worker found short |
| `ImplementsContract` | any of these in one step |
| `EveryStepCounts` | an attempt that is not counted, an item that is tried again, a step given back by somebody else |
| `EveryClaimEnds` (liveness) | attempts that are not counted |

`EveryStepCounts` is the safety half of `EveryClaimEnds`: `StepsLeft` bounds what a worker has still to do from where it
stands, each of its steps lowers it, and nobody else's step changes it. From a claim on it is at most
`MaxItems + 4 * MaxAttempts + 7`. What remains for liveness is that a worker's next step is taken.

Two facts that no document speaks of and no property forbids: a second summary of a meeting keeps the *old*
action items next to the new text, since its own are refused by the foreign key; and a worker that comes
between a transcript and its utterances can find it too short and make the minimal summary.

### Run

`MeetingSummary_attempts`: one job, two transcripts, two summary ids, two items, two attempts, two workers, one
webhook, one reader and one sweep that has found a job and not yet reset it; 729,545 states. Two ids make the second
upsert meet the conflict, two items can be cut in the middle, and two workers on one job are what the webhook of a
second transcript, or a late reset of a job completed meanwhile, makes. `SlowWorkers = FALSE` keeps zombie clean-up
from finding a job while a worker is still at it: it may, since the statements that save a summary and its items
take no context and do not end with the five minutes of `JobBegin`. The theorems cover both values, and
`AIJobs_pool` has workers that outlive the ten minutes. Deadlock is checked: a reader can always come.

`FairSpec`: a worker that has claimed a job goes on (calls return, if only with an error). Nothing says that the
process stays up, or that anybody claims.

## 7. Proofs

### The pipeline (`AIJobsProofs`)

All are proved for any number of jobs, transcripts, meetings, requests, handlers and workers and all limits,
under `BoundsAssumption` (numbers are naturals, there is a meeting) and `NamesAssumption` (actors are distinct).

| Theorem | Statement |
|---|---|
| `TypeCorrect` | `Spec => [](TypeOK /\ Busy)` |
| `OneTaker` | `Spec => []OneTakerPerOpening` |
| `RetryBound`, `FailedMeansExhausted` | `Spec => []RetriesBounded`, `Spec => []FailedOnlyWhenExhausted` |
| `IdsNeverSwapped` | `Spec => []ExternalIdOwned` |
| `TranscriptFirst`, `SummaryExists` | `Spec => []TranscriptBeforeSummary`, `Spec => []CompletedHasSummary` |
| `RequeuePaid` | `Spec => RequeueSpendsRetry` |
| `Implements` | `Spec => ImplementsPipeline` |

The argument. None of the properties is inductive: what a goroutine will do two statements later depends on
what its locals hold. The inductive invariant says what they still mean, in parts, each proved preserved using
the earlier ones:

* `Busy`: a goroutine that is not at its ticker has a job and what its next statement needs;
* `Created`: whatever is referred to has been inserted (rows are never deleted);
* `Budget`: a goroutine about to give up a job has seen its retries used up, and they never decrease. This
  is why the unguarded second statement of `MarkJobAsFailed` is harmless;
* `Lineage`: a transcript id in a row, a local or a batch was requested for that same job, and a transcript
  keeps its job;
* `Evidence`: a goroutine about to write `transcript_ready` or `completed` has the transcript or summary in
  the tables, and neither is ever taken away. A retry status of `transcript_ready`, though read earlier,
  stays justified;
* `Taken`: a job that is not being summarised has no taker, so a second claim finds the status changed.

The upsert of a summary (`StoreSummary`) is one lemma for the attempt that succeeds and the one whose answer is
lost. The refinement adds one fact to the parts: each step writes one row at most, and each way of writing it (`Effects`)
is a transition of `AIPipeline`. The proof file is laid out in that order: lemmas about types and frames, the
effect of each action on the table, then one lemma per part with a step for each action.

### Rooms (`RoomsProofs`)

Proved for any number of rooms, users, records and calls and any limits. The proofs use `RoomNames` only:
`NoRoom`, `NoUser` and `NoId` are no rooms, users or records.

| Theorem | Statement |
|---|---|
| `RoomsTyped` | `Spec => []TypeOK` |
| `WaitingRoomIsKept` | `Spec => []WaitingRoomHolds` |
| `HostsWereLetIn` | `Spec => []HostsWereAdmitted` |
| `PrivateRooms` | `Spec => []PrivateByInvitation` |

The argument. A row that is good in the table is not enough, since any copy of it may be written back at any
later time. The inductive invariant `IInv` therefore says of every copy a call holds what it says of the tables:
a row (`GoodRow`), a room (`GoodRoom`) and the locals of a call (`Call`) are good by what is known for ever,
the set `entitled`, which only grows, and the type of the room, which never changes. A good row names a joined
user or a host only if he was let in, and no removed user who waits or is invited. `RoomsInv`, `PartInv`,
`CallsInv` and `TokensInv` say so of the tables, the calls and the tokens. Being good is kept when `entitled`
grows (`MoreRow`, `MoreRoom`, `MoreCall`), so a step is harmless if what it writes, and what its call holds
afterwards, is good (`Keeps`): saving a stale copy is a case like any other. An invitation being accepted is the one
exception, its row is good only once the acceptance has been recorded (`Accepted`). There is one lemma for each
action, or for a few alike.

`RoomAccessProofs` goes on from there, under the same assumptions:

| Theorem | Statement |
|---|---|
| `RecordsStay` | `Spec => RecordsKeepTheirPerson` |
| `RoomsImplementAccess` | `Spec => ImplementsAccess` |

`IInv` says that a row may name only somebody who may be there; that two people may both be there does not keep a
stale copy from putting one of them into the other's row. `OwnersInv` therefore says whose each row is: there is an
assignment `own` of a room and a person to every row that has ever been, with which the row agrees as long as it is
there, and with it *every copy that any call still holds*, however old, also when the row has been deleted and a
copy of it is about to bring it back. It is an existential, and the witness grows when a row is made
(`WriteOwned`). `ClaimsInv` adds that whoever is accepting an invitation holds a row that puts himself, and nobody
else, into that room. With both, each statement falls under one of a few cases (`Careful`: what a call writes is
a present row, changed but for whose it is, a copy it has held, or a new row), for each of which the people
inside differ by one at most (`OneAttends`). For the refinement there is one lemma for the statements that write
rows, and one each for those that let somebody in, give a token, change the host, invite, or write rooms.

`RoomRemovalsProofs` builds on both, under the same assumptions:

| Theorem | Statement |
|---|---|
| `RemovalsSettle` | `Spec => RemovalSettles` |

For a settled record, one lemma for each action shows that the step `Spares` it: the record keeps its mark and its
person (`Stands`), and the call holds, after the step, no copy of it from before the mark (`Clean`), nor has it in
mind to delete it, since a deny is for a record found waiting and `GoodRow` has no removed row that waits or is
invited. `OneRow`, the unique index on room and user as an invariant, is what keeps the ban from being undone
beside the record: a user has no second row of his in that room.

### Login and sessions (`OAuthLoginProofs`)

Proved for any accounts and assignment of addresses, any number of pages, users, sessions and calls and any
lifetimes, under `LoginBounds` (they are naturals) and `LoginNames` (each account has an address).

| Theorem | Statement |
|---|---|
| `TypeCorrect` | `Spec => []TypeOK` |
| `SameUser`, `OwnersSession` | `Spec => []SameUserAtEveryLogin`, `Spec => []SessionOfOwner` |
| `LogoutFinal` | `Spec => []LogoutIsFinal` |
| `AccessEndsInTime` | `Spec => []AccessEnds` |
| `LateCallback` | `Spec => []LateCallbackRefused` |

The argument. A call's next statement rests on something it has read before, which is sound if what it has
read cannot become false. `Facts` collects what the tables say *for good*, in sets that only grow: which
account and page a code has, which address a user has (no login changes it), which user and second a session
has, which states are gone, which pages have been entered, at which moments a session was good, which tokens were
given. `Holds` says of each `pc` what the locals of a call owe to these facts, and since the facts only grow
(`More`) it is kept by every step of others (`StillHolds`). The other parts of `IInv` are about the tables:
used codes have gone states (`StoreInv`); addresses are unique and agree with the linked account (`UsersInv`, which
is why a stale copy can be saved); refresh tokens are unique and who is logged out is revoked (`SessionsInv`); logins
and tokens rest on facts. `AccessEnds` then follows: a served request had a good moment of a session,
or a token whose refresh had one.

`LoginContractProofs` shows with the same invariant, under the same assumptions, that the contract is kept:

| Theorem | Statement |
|---|---|
| `OAuthImplementsLogin` | `Spec => ImplementsLogin` |

There is one lemma for each statement, or for a few alike, that says which step of the contract it is, or that the
contract does not see it. What needs the invariant is what the contract says is for ever: that a copy of a user
saved late does not change his address (`UpdateUserSeen`), that the column a refresh writes changes neither owner
nor end of the session, which may have ended meanwhile (`UpdateLastUsedSeen`), and that the owner of a new session
has the address it is handed out to (`CreateSessionSeen`).

### Summaries (`MeetingSummaryProofs`)

Proved for any number of jobs, transcripts, items, attempts, workers, webhooks and readers, under `SummaryBounds`
and `SummaryNames`.

| Theorem | Statement |
|---|---|
| `TypeCorrect` | `Spec => []TypeOK` |
| `SummaryBehindCompleted` | `Spec => []NoSummaryOnlyByRace` |
| `OneAnalysis`, `FromTheStart` | `Spec => []ItemsOfOneAnalysis`, `Spec => []ItemsFromTheStart` |
| `ReadersRow` | `Spec => []ReaderKeepsHisRow` |
| `TextLast` | `Spec => []TranscriptTextLast` |
| `Implements` | `Spec => ImplementsContract` |
| `ClaimsRunDown` | `Spec => EveryStepCounts` |

The argument is of the same kind: stored transcripts, those long enough (`Fit`), the row's id and transcript, and
the items only grow (`Grows`). `Good` says of each webhook, worker, reader and sweep what it owes to them: which transcript it analyses,
that the row is there once it has been saved, that a reader's copy is the row, and that a worker at item `p` has
listed all before it. For the refinement, the number of items is that of a set which gains one
element at most and has no more elements than an analysis has places. For `ClaimsRunDown` the invariant is
strengthened by the bounds of the counters that `StepsLeft` is made of (`Counted`): the number of an attempt is
below `MaxAttempts`, and the place of an item is one of the analysis or the one behind the last.

### Only model-checked

The liveness properties `EveryJobSettles`, `EveryClaimEnds` and `AbandonedStatesFreed`: they need fairness, and so
ENABLED, which is out of the prover's reach. The violations are counterexamples, and have no theorem. Every other
property of a run is a theorem.

## 8. Not modelled

* `CreateRoom`: it makes the LiveKit room, the room row and the host row in turn and undoes the earlier ones when
  a later one fails; nobody else knows of the room until it is done.
* Rows of `recordings`: the egress webhook inserts one per event, and the newest labels a transcript; no
  decision reads either.
* `LogoutAll`, `RefreshAccessToken` by refresh token and `UpdateOAuthToken`, which nothing calls; `TestToken`, a
  development page without state; the net/http variants of the middleware, which no route uses.
* The LiveKit client, storage, database set-up, configuration and start-up: I/O and wiring. Presenters, DTOs, the
  generated error tables and API documentation, and the formatting of responses: they keep no state.
* Language detection, the extraction of JSON from Groq's answers, prompts: text into text, which enters the models as
  success or failure.

Hazards that have no property are listed in `PROJECT.json` with the reason.

## 9. Running

    tlc -workers 2 -config AIJobs_recovery.cfg MCAIJobs             # likewise AIJobs_*
    tlc -workers 2 -config Rooms_access.cfg MCRooms                 # likewise Rooms_*
    tlc -workers 2 -config OAuthLogin_login.cfg MCOAuthLogin
    tlc -workers 2 -config MeetingSummary_attempts.cfg MCMeetingSummary
    tlapm AIJobsProofs.tla      # and RoomsProofs, RoomAccessProofs, RoomRemovalsProofs,
                                # OAuthLoginProofs, LoginContractProofs, MeetingSummaryProofs
