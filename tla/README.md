# CareerScope: TLA+ models and proofs

CareerScope is a job-search application in TypeScript. A signed-in user submits
a search; the search is stored in PostgreSQL together with a command; a
publisher sends the command through Redis; a worker takes it, collects postings
from job boards and stores the result, while the user's page follows. Around
this sit resume uploads, accounts and sessions, saved leads with interviews and
reminders.

The modules here model those five parts where they are hard: where processes,
requests, tabs, timers and failures interleave. This file says what is modelled
and how it corresponds to the code, what the model checker and the prover show,
what is assumed, and what is left. Paths are relative to `src/`.

## Inventory

| Component (code) | State | Operations | What is hard | What makes it correct |
|---|---|---|---|---|
| Command store (`packages/core/src/database.ts`, `schema.ts`, `jobs.ts`, `commands.ts`) | tables `search_runs`, `outbox_events`, `command_executions`, `run_events`, `search_jobs`, `job_sightings` | `createSearch`, `cancelSearch`, `unpublished`, `published`, `claim`, `renew`, `release`, `startSearch`, `completeCollection`, `complete`, `fail` | calls of overlapping attempts in any order, an owner's cancel in the middle of one, repeated submissions | run, execution, log, jobs and sightings agree; an outcome is final; a lease is exclusive |
| Outbox publisher (`dispatch.ts`, `apps/workers/search/src/publisher.ts`) | the batch it has read, the dead letter it has claimed | `publishPending`, `reconcileDeadLetter`, reminders | a crash between sending and marking; failing a command somebody else works on | every due command is sent; only spent commands are failed |
| Redis queue (`queue.ts`, `LocalQueue`) | messages, their deliveries and locks | `send`, `receive`, `acknowledge`, `visibility`, `receiveDeadLetter`, the stalled check | duplicates, lost messages, locks that lapse under a live worker | a message is taken out only for finished work; none circulates for ever |
| Search worker (`dispatch.ts` `consumeMessage`, `apps/workers/search/src/main.ts`, `collect.ts`) | its message, fence, heartbeat | one delivery at a time | awaits between claim, start, settle and acknowledge; shutdown, late heartbeat | one fence per attempt; an attempt that was interrupted does not fail its search, only a claim or delivery beyond the budget does, however the earlier ones ended |
| Source providers (`packages/providers/src/http.ts`, `ats/base.ts`, `remote/base.ts`, `normalize.ts`, with `collect.ts`) | the walk of a source: board or page, retries, counters | request, yield, fetch a description, merge | two timers and a cancel that fire at any await; merging that depends on what else was found | the outcome of a source says what went wrong; no opening is dropped or merged with its sibling |
| The page of a search (`apps/web/src/components/job-search-view.tsx`, `authenticated-shell.tsx`; the detail and the event stream in `apps/api/src/app.ts`) | what the page shows, its request, its EventSource; the open streams | poll, listen, cancel, refresh; one round of a stream | reads in separate queries while the worker settles, connections that break, the cap on streams, a token that lapses | no finished run without its postings, no event missed, every page settles |
| Resume uploads (`resumes.ts`, `file-storage.ts`, `resume-parser.ts`, `apps/workers/search/src/files.ts`) | rows, results, objects, temporaries, markers | upload, recover, cancel, delete, parse, the sweeps | a database and a disk without a common transaction; cancel against store, late attempts | a queued upload has its object, a cancelled one has none, one result per upload |
| Accounts (`auth.ts`, `email-otp-challenges.ts`, `email-change-requests.ts`, their routes, `apps/web/src/lib/api.ts`, `account-form.tsx`) | accounts, sessions and their tokens, codes, requests to change an address, cookies | sign-in, sign-up, refresh, sign-out, revoke, confirm | several transactions per route; two tabs, two accounts and one address | one account per address, one session per code, signed out is over |
| Leads, interviews, reminders (`leads.ts`, `interviews.ts`, `notifications.ts`, `saved-leads.tsx`, `interview-organizer.tsx`) | leads, history, rounds, notifications, what tabs have fetched | save, edit, plan a round, remind | edits from an old revision; rescheduling against publishers | history equals the row; no edit is lost; one wanted reminder per time |
| BullMQ transport (`bull-queue.ts`) | Redis jobs by command id | `send`, worker, `executeBullCommand` | a Redis job that is finished while the command is not | as for the queue |
| Notification delivery (`notification-delivery.ts`) | delivery outbox with leases | `deliverNext` | a send that outlasts its lease | delivered once while the lease holds |
| Scheduled jobs (`scripts/jobs/`) | none of their own | scheduled discovery, retention, liveness of leads | deleting beside workers | what is in use is kept |
| Matching, resume text (`packages/matching`, `packages/resume`) | none | scoring, extraction | text | unit-tested functions |
| The rest of API and web | none of their own | validate, call the above, render | - | as for what they call |

Interaction. The API writes a run and its command in one transaction. The
publisher polls the outbox, sends each due command to the queue and marks it
published. Workers claim the command of a message under a lease with a growing
fence, and settle the run, or the resume, under that fence. Messages that were
delivered too often become dead letters, which the publisher turns into failed
commands. The database is the only authority; the queue may lose and repeat.
Pages poll the API, and hear from it over a stream that only tells them when to
ask again. The publisher's loop also makes the reminders.

`PROJECT.json` lists the hazards line by line with the properties that cover
them, and a note where none does.

## Modules

| Module | Models |
|---|---|
| `RunLifecycle` | the promise to the owner: submitted, possibly started, closed by one outcome, postings only with the outcome |
| `CommandStore` | the tables and every transaction that changes a search, under arbitrary callers |
| `CommandPipeline` | publisher, queue and workers over the store, one step per `await`, with faults and time |
| `Discovery` | `collect`, the walk of its sources, retries and timers, and the merging of postings |
| `SearchPage` | pages, their polling and EventSource, the detail and stream handlers of the API, the session they are read under, over `RunLifecycle` |
| `ResumeUploads` | one upload per key from reservation to deletion: rows, disk, calls and files workers |
| `Accounts` | accounts, sessions, codes and changes of address, one step per transaction of a route |
| `Applications` | a lead and its rounds, the tabs that edit them, the publishers that remind |
| `RunLifecycleProofs`, `CommandStoreProofs`, `CommandPipelineProofs`, `DiscoveryProofs`, `SearchPageProofs`, `ResumeUploadsProofs`, `AccountsProofs`, `ApplicationsProofs` | the theorems about the module each is named after |
| `MC*` | small instances for TLC |

`CommandPipeline` extends `CommandStore`; `CommandStore` instantiates
`RunLifecycle` with `log <- events`, `found <- jobs`, and is shown to implement
it; `SearchPage` composes pages and streams with `RunLifecycle`, so what a page
sees of a search is what the store was shown to do. What `Discovery` returns is
the choice that `CommandPipeline` makes in `EndCollection`.

### CommandStore

A run and its command are created together, so both are named by one `s`.
`status`, `request`, `outbox`, `exec`, `events`, `jobs` and `sightings` are the
tables. Each action is one transaction with the WHERE clauses as guards; a
transaction that rolls back is a step that does not happen. A fenced statement
(`fence = $2 AND status = 'running' AND lease_until > now()`) is `Owned`.
`settle` is one operator, used by `CompleteCollection`, `Complete` and `Fail` as
in the code. The transactions lock the rows of one command in one order, which
is why a transaction is one step.

Abstractions. Time is relative: `exec[s].lease` counts down from `LeaseTicks` to
0 (the instant `lease_until`, which `renew` and `settle` refuse and `claim` does
not accept yet) and to -1. `outbox[s].age` counts up and stops past
`RepublishTicks`. A posting is a fingerprint; what a source accepted is none or
some. `unpublished` reads all due rows (20 in the code). The profile snapshot of
a run is left out but for whether it has target titles. `attempts` in
`command_executions` is not read by the code and is left out. Deletion by the
retention job is left out, so rows only appear and change.

### CommandPipeline

| State | Code |
|---|---|
| `copy[m]` | a BullMQ job in Redis: waiting, active under the lock of its receipt, failed (a dead letter), with its `attemptsStarted` |
| `worker[w].pc` | where `consumeMessage` stands between two awaits |
| `worker[w].fence`, `count` | the claim's fence and the delivery count of the message |
| `worker[w].lostBeat`, `stopping` | the abort by a failed heartbeat, the shutdown signal |
| `publisher` | the loop: poll, send, mark, judge a dead letter |
| `faults` | how many faults have happened |

| Action | Code |
|---|---|
| `Submit`, `Cancel` | the two API routes |
| `Poll`, `Send`, `Mark` | `publishPending` |
| `ClaimLetter`, `NoLetter`, `JudgeLetter` | `receiveDeadLetter`, `reconcileDeadLetter` |
| `Receive` | `LocalQueue.receive`, the sixth start becoming a dead letter |
| `TakeUp`, `AnswerRefused`, `FailOverspent` | the start of `consumeMessage` |
| `ReadSearch`, `Begin`, `EndCollection`, `Commit` | `searchHandler` |
| `Acknowledge`, `Recover`, `BackOff` | the end of `consumeMessage`, its `catch` and `finally` |
| `Heartbeat` | one renewal of lease and lock |
| `Redeliver` | the stalled check |
| `Tick`, `Stall` | time; `Tick` needs that holders of leases act in time (`Prompt`), `Stall` is the fault that they do not |
| `Crash`, `Shutdown`, `Restart`, `PublisherRestart`, `Lose` | faults and the restart policy |

The places of `Copies` bound how many messages of the command exist at once; a
row is left for the next poll when they are taken.

### Discovery

One process; `pc`, `source`, `part` (a board's company, a feed's page), `attempt`
and `page` (what of the answer is not looked at yet) say where the two generators
and the loop of `collect` stand. A step is what happens between two awaits:
`NextPart` asks, `Answered`, `Retry`, `FetchFails` and `FetchAborted` are what
`HttpClient.request` can come to, `Yield` hands a posting to `collect` (`Look`,
`Accept`, `Refuse`), `Detail` is the request for a description, `EndSource`
reports the outcome, `Return` merges and cuts. `ExpireSource` and `ExpireRun` are
the timers and the cancel, at any await. `DedupeJobs`, `ResolveGroup` and `Groups`
are `dedupeJobs` of `normalize.ts`; a fingerprint is an element of `Resemblance`,
a changed one a tuple. How an adapter parses is not modelled: an answer has any
subset of the postings of its source, and those in `Unreadable`, on which the
parser throws, are dropped as `ats/base.ts` and `remote/base.ts` drop them, so
they leave no trace in the outcome. What `collect` throws before its first source
is asked (`collect.ts:88`, `101`) precedes the model; a handler that throws is a
choice of `CommandPipeline`.

### SearchPage

| State | Code |
|---|---|
| `page[p].view`, `jobs` | what the page shows: nothing, an unfinished or a finished run and its postings, or the sign-in form |
| `page[p].fetch`, `readClosed`, `readJobs` | the detail request: where its handler stands between the query of the run and the query of the postings, and what it read |
| `page[p].source`, `last` | the EventSource and the id of the last event it heard |
| `stream[k]` | a handler of `GET /api/searches/:id/events`: where its generator stands, its cursor, the access token it was opened with, and what is on the wire |
| `session` | the session and its current access token, shared by the pages |

`OpenPage`, `Poll`, `Focus`, `Cancel` and `Listen` are what the page does;
`Refresh`, `ReadRun`, `ReadJobs`, `ShowDetail` are the detail request. `Admit`
and `Accept` are the two looks at the cap with the queries between them; one
round of the generator is `Watch`, `ReadEvents`, `ReadStatus` and, for a settled
run that had no news, `ReadPending`. `Abort` is the 25 seconds, `End` and
`HungUp` the clean-up, `Deliver` a message that arrives. Faults: a request that
fails, a connection that breaks with what was on it, an exhausted budget of
streams, a reload. The refresh of a session is one step here; its interleavings
are those of `Accounts`. Left out: the `reset` of a cursor older than the
retained events, the 404 after retention, the limit of 32 streams overall, the
list of runs, feedback and export.

### ResumeUploads

An upload `u` is one owner and idempotency key. `row`, `result` and `exec` are
its rows, `file[u]` what is at the path of its object (nothing, an object of
some version, a cancellation marker), `pending[c]` the temporary of a call.
A call goes through `Reserve`, `Recover`, `Store`, `Publish`, `Recheck`,
`Verify`, `QueueStoredUpload` (`ResumeUploadCoordinator.upload`, one step per
await, and the recovery of a reserved row by `Reconcile` and `Find`), or
`Cancel`, `Mark`, `PublishMarker`, `Replace`, `FinishCancel`, or `Delete`,
`RemoveObject`, `EraseRows`; the files worker through `Claim`, `ReadDocument`,
`Parse`, `Settle`, `FailParse`, `RecordFailure`, `GiveUp`. `Stop`, `CrashWorker`,
`StallAttempt` are the faults; `Sweep`, `SweepStalled`, `ReclaimMarker` the
sweeps. The message of a command is not in this model: a worker may claim a
queued command at any time, which is more than the queue allows.

### Accounts

`session[s]` is a row of `sessions` with its refresh tokens, numbered by rotation:
at generation `gen` the access token `gen` is the one in the row, the refresh
token `gen` is unconsumed and all earlier ones are consumed. `code[x]` and
`change[a]` are the challenge of an address and the pending change of an account,
`jar[b]` the cookies of a browser, `req[r]` a request with the cookies it carried
and the step its route has come to. `StartRoute` is the hook that finds the
session of a request; the route acts later for the owner that was found, whatever
happened to the session: `BeginChange`, `Confirm`, `RevokeSession` (which signs
the browser out when the session is its own), `RevokeOtherSessions`. Which route
it is shows only then. `ConsumeCode` and `Login` are the two transactions of a
sign-in; that of a sign-up rolls back when the terms have changed. `Confirm` and
`EndOthers` are those of a change of address, `Reply` sets or clears the cookies,
`Drop` loses the reply. A code given is the right one or not; digests and
cooldowns are left out, attempts are counted. `answered` is a history variable:
which code was given for which address.

### Applications

`lead`, `history`, `rounds`, `notices` and `enabled` are rows; `tab[t]` is what
a tab has fetched and the form it has open; `pass[p]` is the transaction of a
publisher, three steps: `Look` (the rows it sees), `Lock` (after it has the
owner's advisory lock: `FOR UPDATE SKIP LOCKED`), `Publish` (the insert, which
checks again). A text is the revision its author had before them, so that an
edit made without having seen another can be told apart. `Fetched` has the
editor of a lead start anew when its key, the revision, changes; the form of a
round does not. The lead may be a `Legacy` one, an application from before
applications had to be reported; `asked` in an entry of the history says whether
it was made since.

## Runs

| Run | Instance | States | Shows |
|---|---|---|---|
| `command_store` | 2 searches, 2 owners, 1 key, 2 sources, 1 fingerprint, 2 fences, symmetric in the searches | 130,321 | the store's invariants and action properties, and that it implements `RunLifecycle` |
| `pipeline_faults` | 2 workers, 2 messages of one command, budget 2, 1 fault, symmetric | 2,564,171 | fences, acknowledgement and budget, also for duplicates delivered at once while the publisher reconciles |
| `pipeline_liveness` | 1 worker, 1 message, 2 sources but room for 1 outcome, budget 2, 2 faults, fairness | 206,431 | every search is answered; no message circulates for ever |
| `discovery` | a board source of 4 openings, two alike and one unreadable, and a feed of 2 postings; 2 parts, 1 retry, cap 3, share 2, 1 description; fairness | 171,529 | honest outcomes, merging, and that a collection ends |
| `search_page` | 1 search, 1 page, 2 stream handlers under a cap of 1, 1 lapse of the token, 1 fault, fairness | 445,595 | what the page shows is complete, the stream misses nothing, the page settles |
| `resume_uploads` | 1 upload, 2 calls, 2 workers, 3 versions, budget 2, 2 faults, fairness | 308,614 | rows, disk and result agree; a queued upload is answered |
| `accounts` | 2 accounts, 2 addresses, 2 sessions, 1 browser, 2 requests, 1 rotation, 2 codes, 2 attempts, symmetric | 2,528,221 | no address, code or session gets to two holders; over stays over |
| `applications` | 2 tabs, 2 publishers, 1 round, 2 statuses, 4 edits, 3 times, 1 pass rolled back, fairness | 892,852 | no edit of a lead is lost, a reminder is made once, while wanted, and is not missed |
| `six_sources`, `deleted_upload`, `email_change`, `round_edits` | as above | - | violated, see the findings |

Why the bounds are enough.

- Store and pipeline. Two searches and two owners are what the store's
  properties relate (one key, two runs; one fingerprint, two owners). Two fences
  are an attempt and the one that takes over; the third claim repeats the second.
  A budget of 2 has a first attempt that may be retried and a last one.
  `MaxFence` 6 cuts nothing off: the same states are found with 7. With no fault
  a behaviour already has handlers that throw, cancels, busy and refused claims
  and dead letters. `pipeline_faults` takes leases of one tick, `pipeline_liveness`
  of two, which distinguishes a fresh lease from one about to lapse.
  `RepublishTicks = 0` republishes as early as the code could, which gives the
  most duplicates. The invariants were also found to hold with two faults and one
  message (1.2 million states), the liveness properties with two workers or two
  messages and one fault; those instances are too long for a routine run.
- Discovery. The cap of 3 is below the 6 postings, so it is met both within a
  source and by the result; of the two alike openings of the board one resembles
  a posting of the feed, which makes all three cases of a group: one posting,
  merged, split.
- The page. A cap of 1 with two handlers stands for the cap of 2 with three: the
  second stream is the one of the same page after a broken connection or a reload,
  while the API has not noticed yet. A run has at most three events. Two faults
  were also checked (1.2 million states).
- Uploads. Two calls are a call and the one it races; a version may be on disk and
  one in each call. Accounts: two sessions are a sign-in and the one before it, or
  on another device. Applications: an edit in each tab for lead and round.

Symmetry is used only in runs without liveness. Deadlock is checked in the runs
of the store and the pipeline; the other systems may really stop (the collection
has ended, the upload is deleted, the page is at the sign-in form, all bounded
codes or edits are used up), and their configurations say so.

### Fairness

`CommandPipeline`: the publisher's loop and each worker's loop go on (weak
fairness: a process whose await returned takes its next step, and the restart
policy of the containers brings an ended process back), time passes, and
BullMQ's stalled check, a timer, sees every lapsed lock. Dead letters need strong
fairness: `receiveDeadLetter` walks the failed set in rotation, so each letter is
offered again and again, though its command is claimable only while no other
attempt holds it. `ResumeUploads`: the files workers go on, and a lease nobody
renews lapses; nothing is assumed of the calls of clients. `Discovery`: the
process goes on and each request is answered, since it has a timeout; the timers
of source and run need never fire. `Applications`: publishers run pass after
pass; nothing is assumed of owner and clock. `SearchPage`: the page's own timer
and its requests go on; nothing is assumed of the streams, which the API may end
or refuse at any time. No fault is fair anywhere.

### Properties

Store and pipeline

- `RunCommandCoupling`: run and execution agree, although `settle`,
  `cancelSearch` and `startSearch` each write both from different processes.
- `LogTellsStatus`: a client that follows the events knows the status.
- `SightingsCountRuns`: at-least-once delivery counts a posting exactly once.
- `SettledIsFinal`, `LeaseIsExclusive`: late attempts change nothing; a live
  lease is superseded only by the owner's cancel.
- `ImplementsLifecycle`: the store refines `RunLifecycle`.
- `FencesDistinct`: no two processes, the publisher included, share a fence.
- `AcknowledgedIsCompleted`: a message leaves the queue only for completed work.
- `GivenUpWhenSpent`: an attempt that a shutdown or a lost heartbeat interrupts
  never fails its search, even the last one of the budget. A search fails by a last
  attempt that failed of itself, by a claim beyond the budget (`dispatch.ts:78`), or
  by a dead letter; the last two count interrupted attempts as well.
- `RunsAreAnswered`, `QueueDrains`: liveness.

Discovery

- `OutcomesAreHonest`: a source is reported as failed exactly when a request of it
  failed, a posting was refused or its time cut it off, although a walk that is
  aborted ends without a word; a collection throws only when the run is over.
- `NoOpeningDropped`: postings one source tells apart are never merged, and every
  posting is in exactly one job unless the result is full.
- `CollectionEnds`.

The page

- `PageTypeOK` includes the cap on streams, which requests pass together.
- `FinishedPageIsComplete`: three queries without a common snapshot, and the run
  settles between them; only because the run is read first can a page that shows
  a finished run, and polls no more, be trusted to list its postings.
- `StreamTellsAll`: over any number of connections the event that arrives is always
  the one after the last that was heard, so none is missed or repeated; only a new
  EventSource starts again, and `settled` comes only after the last event.
- `PagesSettle`: with or without a stream.

Uploads: `QueuedHasObject`, `CancelledHasNoObject`, `ObjectsAreNotOverwritten`
relate rows to the disk under calls that stop anywhere; `ResultTellsExecution`,
`ResultsAreFinal`, `UploadsAreAnswered` relate result and command under late
attempts.

Accounts: `OneAccountPerAddress`, `OneSessionPerCode`, `SignInOpensHolder`,
`ChangeProvesBoth` are about routes whose transactions other requests separate;
`SignedOutIsOver`, `OverStaysOver` about tokens rotated, replayed and revoked at
the same time.

Applications: `HistoryTellsLead` (the row is what its last entry says, and since
applications are reported none is entered without evidence),
`LeadEditsAreInformed`, `OneNoticePerTime`, `NoticesAreWanted`, `RemindersArrive`.

### Findings

1. `six_sources`. `search_outcomes_bounded` (`packages/core/src/schema.ts:251`)
   takes one to five outcomes; requests and `sourceOutcomesSchema` take six ("One
   to six outcomes, one per source with no repeats.", `packages/core/src/jobs.ts:87`),
   and there are six sources. A search of all six violates the constraint on every
   attempt. The API as configured offers four sources and the integration test of
   larger sets stops at five, so the limit is met only by other callers or when the
   two further sources are opened. `pipeline_liveness` includes the situation: the
   owner still gets an answer, a failed search.
2. `deleted_upload`. A resume is kept "Until the owner deletes the upload"
   (`docs/security/DATA-CLASSIFICATION.md:43`). `ResumeUploadCoordinator.upload`
   looks for the object and stores it without holding the row
   (`packages/core/src/resumes.ts:445-448`): a slow second call for the same key
   stores the document again after the first was queued, parsed and deleted. Its
   `queueStoredUpload` finds no row, and nothing removes an object without one.
   If instead the deletion had stopped between object and row, the late store
   makes every later `deleteSettled` fail with a version mismatch.
3. `email_change`. The comment at `apps/api/src/app.ts:1257` promises to "end every
   other session and keep the one that completed the change". The change commits
   first; `revokeOtherSessions` then needs the token of the request to be current,
   and revokes nothing when another tab has rotated it. The route ignores the result.
4. `round_edits`. `InterviewRevisionConflict` means "The round changed since the
   client read it" (`packages/core/src/interviews.ts:100`). The organizer fills its
   form when editing begins and takes the revision from the query cache when it is
   sent (`interview-organizer.tsx:162`), so a refetch in between lets an edit from
   another tab be replaced unseen.

Observed while modelling, with no run of its own:

- A stream checks the cookie of the request that opened it at every round
  (`apps/api/src/app.ts:1975`). When the token is refreshed by any other request,
  or just lapses, it sends `session-expired` though the session lives, and the page
  goes to the sign-in form; `docs/architecture/DOMAIN-EVENTS.md:160` words the event
  as "The session ended while the stream was open". `Watch` and `Heard` do what the
  code does, so `PagesSettle` allows for a page that has left.
- A return to the window asks for the session (`apps/web/src/lib/session.ts:48`)
  without trying a refresh, so a lapsed access token sends the page to sign-in.
- The `reset` listener removes queries under a key without the owner's segment
  (`job-search-view.tsx:271`).
- "A source that returned any malformed posting is reported as an invalid response,
  while its valid postings are kept" (`apps/workers/search/src/collect.ts:205`). So
  it is for postings that `collect` refuses. One that the adapter's parser throws on
  (a `createdAt` that is no date, `lever.ts:129`) is dropped before, with a line of
  level `debug` that `collect` does not count (`packages/providers/src/ats/base.ts:121`,
  `remote/base.ts:107`): the source is reported as completed or empty.
  `OutcomesAreHonest` says what the code does.
- The publisher's pass skips its reminders when `publishPending` throws
  (`publisher.ts:78`).
- `POST /leads/:id/interviews` carries no idempotency key: a repeated call plans a
  second round.

## Proofs

Every safety property the passing runs check, invariant or action property, is
proved for every value of the constants. The assumptions are those named in the
modules: a lease of at least one tick, a positive budget and fence bound, finite
sets of searches and of postings, a backoff no longer than a lease, bounds that
are naturals, and null values distinct from real ones (in `ResumeUploads` the
marker and the empty path are no versions, which are UUIDs). Each proof goes by
an inductive invariant, which TLC checked on a small instance first; one lemma
per action shows that it is kept, and the properties follow from it.

`RunLifecycleProofs`. What the abstract search promises: one outcome at most and
nothing after it (`OutcomeIsLast`), postings of a success only
(`OnlySuccessShows`), and that what was once read of log and postings stays
(`ReadingIsFinal`). All steps are one form, an event appended to a log that is
not closed. Through the refinements below the tables of the running system keep
these promises too (`PipelineKeepsPromises`).

`CommandStoreProofs`. The inductive invariant is

    StoreInv == TypeOK /\ RunCommandCoupling /\ LogTellsStatus
                /\ JobsOfSuccess /\ SightingsCountRuns

The coupling and the log are inductive once the types are known. The count of
sightings is not: that a settlement adds exactly one sighting per posting needs
`JobsOfSuccess`, which says that a run still active holds no posting, so that the
settling run was not counted before. All settling methods are reduced to the one
`settle` transaction (`SettleStep`). From the conjuncts together follow
`SettledIsFinal` (the coupling: a settled run's execution is finished, so no fence
is owned), `LeaseIsExclusive` and the refinement `StoreSpec => Lifecycle!Spec`
(the log says that the run is open, `JobsOfSuccess` that the postings are new).
`OneRunPerKey`, that a repeated submission makes no second run, is an invariant of
its own and needs no run.

`CommandPipelineProofs`. `Shape` gives each process the fields its `pc` needs (a
claimed worker has a command and a positive fence, a judging publisher likewise).
With it every step of the pipeline is a step of the store or leaves its variables
alone (`PipelineRunsTheStore`), so the store's theorems hold of the running
system, among them the refinement (`PipelineImplementsLifecycle`). `FencesDistinct`
needs `FencesIssued`: a fence in anybody's hands is at most the one in the row.
A claim takes the next one, which nobody can hold. `AcknowledgedIsCompleted` needs
`HoldersKnow`: a worker whose receipt locks a message works on the command of that
message, although messages are redelivered, lost and their places used again.
`GivenUpWhenSpent` needs `SpentInv`: a dead letter has been started more often
than the budget and nobody holds it, so it stays (`LettersStep`); a publisher that
judges has such a letter of its command, an overspent worker a fence above the
budget. Only three steps fail a command (`OnlyThreeFail`): the judgement, the
overspent claim, and the recovery of an attempt that nothing interrupted. Each
holds the fence of the row, so it is the newest attempt that is judged.

`DiscoveryProofs`. `WalkOK` accounts for the postings of a source: what was taken,
refused and is still to be looked at is within what the walk gave, and that within
the cap; a board adds its share before it answers, so the allowance is within the
shares of the parts opened. `TroubleOK`: what went wrong with the source that is
asked, and nothing else, is to be seen in `over`, `skipped` or `error` when its
outcome is told; hence `OutcomesAreHonest`. `NoOpeningDropped` rests on lemmas
about `DedupeJobs` for any set of postings: its jobs are those its postings are
found in (`JobsOfPostings`), a job is known by its id or by any of its postings
(`JobsKeepOpeningsApart`), and together they are what was collected
(`JobsCoverPostings`); a cut that is not full cuts nothing (`BestIsAll`).

`SearchPageProofs`. `FinishedPageIsComplete` by `AnswerOK`: an answer that read
the run as closed has the postings, since the run was closed before they were
read, and closed runs do not change (`RunsGrow`). `StreamTellsAll` by `WireOK`:
what is on its way to a page are the events from the one after the last it heard
up to the handler's cursor, without gap or repetition, then at most one closing
message; a handler without a page has nothing on its wire, so a broken connection
loses only what the next one reads again from the page's position. `SaidOK`:
`settled` is written only with the cursor at the end of a closed log. The cap in
`PageTypeOK` needs that the streams counted at admission are finitely many. The
pages' searches are those of `RunLifecycle` (`PagesKeepTheLifecycle`).

`ResumeUploadsProofs`. `UploadOK` ties row, result, execution and object of an
upload together; it is kept by concurrent calls only because of what each of them
knows (`CallOK`): an object about to be queued is in its place, a cancellation is
finished only under its marker, a call that deletes holds the lock of a settled
row. `MarkersInv` is what makes reclaiming a marker safe: where the marker of a
cancelled upload is gone, no call is left that could store an object.

`AccountsProofs`. `CodeInv`: the number of a code is used once, by a challenge, a
request let in or a session, which gives `OneSessionPerCode`. `LoginInv` and
`VerifiedInv` say that who is let in, or a side of a change that is verified, gave
its code; with them `SignInOpensHolder` and `ChangeProvesBoth` hold of the step
that commits, whatever happened since the code was checked. What steps do to
sessions is put once (`EveryStep`): they keep a session, rotate or end a live one,
or open an unused one, so that over stays over, and a sign-out that was answered
stays true.

`ApplicationsProofs`. Types need `Counted`, that every revision was counted in
`edits`, so a new one is in range. `HistoryAlwaysTellsLead` goes by the one step
that appends (`EditGoesOn`), every other step leaving lead and history alone
(`OnlyTheOwnerRevises`). `LeadEditsAreAlwaysInformed` needs `FormIsCurrent`: the
text of a form is of the revision that will be sent with it, which holds because
the editor's key is the revision; an edit is accepted only at the revision of the
row, which by the history is its length. The same argument fails for rounds, which
is the fourth finding. `OneNoticePerTimeAlways` follows since an insert leaves out
the pairs that are there and retiring keeps them apart; `NoticesAreAlwaysWanted`
since the insert checks rounds and preference again, with `PassesBegan` (a pass
began at or before now) for the time.

Model-checked only: the liveness properties (`RunsAreAnswered`, `QueueDrains`,
`CollectionEnds`, `PagesSettle`, `UploadsAreAnswered`, `RemindersArrive`), since
fairness and `ENABLED` are outside the prover's reach. The four violated
properties are refuted by TLC. The proof modules use no recursive operator and no
induction over data.

## Not modelled

- BullMQ transport: the optional second transport of searches; its states are
  those of the library, which the repository only calls. `bull-queue.ts` settles
  through the `Database` methods that `CommandStore` checks for arbitrary callers.
- Notification delivery: exported and tested, but no process calls it.
- Scheduled jobs: one transaction or one submission a day each. Retention would
  need thirty days of the model's clock between two steps of a command.
- Matching and text extraction, how each adapter parses, the HTTP cache and
  pacing, keyed and scraped sources (the worker wires six providers), the OpenAPI
  description, locale strings, rendering, migrations, deployment scripts: text,
  tables and single-process input and output without a protocol. They are most of
  the repository's lines.
- Of the modelled components: the profile snapshot, the limit of 20 rows per poll,
  queue depth and metrics, pools and trace contexts; quotas, encryption and the
  parser's isolation of resumes (choices of outcome); passwords and test login,
  the recovery address, legal acceptance, rate limits, the list of sessions; tags,
  documents of a round, reading and listing notices, the liveness check of links;
  feedback and export of a run. Commands that do not parse are not in the queue:
  the outbox stores only parsed ones.
- Known and uncaught: a posting's identity across two runs
  (`normalize.ts:405`), a board's allowance that cuts postings without `limited`,
  the final cut to a hundred jobs, which no outcome reports.

## Plan

The protocols of the system are modelled and their safety properties proved. What
would add most, in this order:

1. Of `Accounts` and `ResumeUploads` an abstract specification each (who is signed
   in; what a client sees of an upload), with the refinement proved as for
   `RunLifecycle`.
2. The message of `resume.parse` under `ResumeUploads`, so that
   `UploadsAreAnswered` rests on the queue instead of on workers that look for
   commands themselves.
3. A second run in `Discovery`, for the identity of a posting across runs.
4. The BullMQ transport under the store, when its jobs' states are taken from the
   library.
