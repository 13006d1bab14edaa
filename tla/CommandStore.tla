---------------------------- MODULE CommandStore ----------------------------
(***************************************************************************)
(* The PostgreSQL side of a search (packages/core/src/database.ts): the    *)
(* tables search_runs, outbox_events, command_executions, run_events,      *)
(* search_jobs and job_sightings, and every transaction `Database` runs on *)
(* them.  A run and the one command written with it share the identifier   *)
(* s \in Searches.                                                         *)
(*                                                                         *)
(* Each transaction is one action.  The ones that touch an execution lock  *)
(* its row first and the run's row second, so they are serialised per      *)
(* command.  The callers are arbitrary here: any process may call any      *)
(* method, with any fence, at any time.                                    *)
(*                                                                         *)
(* Time is relative.  A lease is kept as the ticks left until lease_until: *)
(* positive while it is live, 0 at the instant it ends, -1 once it is      *)
(* past.  An outbox row keeps the ticks since published_at, which stop     *)
(* counting once they exceed the republish delay.                          *)
(***************************************************************************)
EXTENDS Integers, FiniteSets, Sequences

CONSTANTS
  Searches,        \* identifiers of runs and of their commands
  Owners,          \* users
  Keys,            \* idempotency keys a client may send
  Sources,         \* job sources a request may name
  Fingerprints,    \* identities of postings
  OutcomeLimit,    \* how many outcomes search_runs.source_outcomes may hold: 5
  LeaseTicks,      \* the lease of claim and renew: 60 s
  RepublishTicks,  \* how long a published row is left alone: 120 s
  MaxFence,        \* the largest value of the integer column `fence`
  NoRequest        \* in place of a request while the run does not exist

ASSUME LeaseAssumption == LeaseTicks \in Nat \ {0}
ASSUME RepublishAssumption == RepublishTicks \in Nat
ASSUME OutcomeLimitAssumption == OutcomeLimit \in Nat \ {0}
ASSUME FenceAssumption == MaxFence \in Nat \ {0}
ASSUME SearchesAssumption == IsFiniteSet(Searches)

VARIABLES
  status,     \* search_runs.status; "none" before the row exists
  request,    \* search_runs: owner, key, requested sources
  outbox,     \* outbox_events: whether the row exists, was sent, and when
  exec,       \* command_executions: status, fence, lease
  events,     \* run_events of a run, in the order of their sequence
  jobs,       \* search_jobs of a run, by fingerprint
  sightings   \* job_sightings.sightings of an owner, by fingerprint

storeVars == <<status, request, outbox, exec, events, jobs, sightings>>

-----------------------------------------------------------------------------
(* Types *)

Active == {"queued", "running"}
Settled == {"completed", "partial", "failed", "cancelled"}

Request == [owner : Owners, key : Keys, sources : SUBSET Sources \ {{}}]

OutboxRow == [exists : BOOLEAN, sent : BOOLEAN, age : 0..(RepublishTicks + 1)]

Execution == [status : {"none", "running", "completed", "failed"},
              fence : 0..MaxFence, lease : -1..LeaseTicks]

\* What one source contributed: sourceOutcomeSchema.  An empty source accepted
\* nothing; how many a source accepted is told apart only up to none or some.
SourceOutcome == [status : {"completed", "failed"}, accepted : BOOLEAN]
                   \union [status : {"empty"}, accepted : {FALSE}]

EventType == {"SearchQueued", "SearchStarted", "SearchCompleted",
              "SearchPartial", "SearchFailed", "SearchCancelled"}

-----------------------------------------------------------------------------
(* Submitting and cancelling: the calls of the API *)

StoreInit ==
  /\ status = [s \in Searches |-> "none"]
  /\ request = [s \in Searches |-> NoRequest]
  /\ outbox = [s \in Searches |-> [exists |-> FALSE, sent |-> FALSE, age |-> 0]]
  /\ exec = [s \in Searches |-> [status |-> "none", fence |-> 0, lease |-> -1]]
  /\ events = [s \in Searches |-> <<>>]
  /\ jobs = [s \in Searches |-> {}]
  /\ sightings = [o \in Owners |-> [f \in Fingerprints |-> 0]]

\* The unique index on (owner_id, idempotency_key): a repeated key finds the
\* first run and creates nothing, whether the request is the same or not.
KeyTaken(o, k) ==
  \E s \in Searches :
    status[s] # "none" /\ request[s].owner = o /\ request[s].key = k

\* createSearch: the run, its command and the event SearchQueued.  Discovery by
\* profile needs a usable target role in the profile snapshotted with the run.
CreateSearch(s, req, useProfileTitles, hasTitles) ==
  /\ status[s] = "none"
  /\ ~KeyTaken(req.owner, req.key)
  /\ useProfileTitles => hasTitles
  /\ status' = [status EXCEPT ![s] = "queued"]
  /\ request' = [request EXCEPT ![s] = req]
  /\ outbox' = [outbox EXCEPT ![s] = [exists |-> TRUE, sent |-> FALSE, age |-> 0]]
  /\ events' = [events EXCEPT ![s] = <<"SearchQueued">>]
  /\ UNCHANGED <<exec, jobs, sightings>>

\* cancelSearch: settles the execution under a new fence, then the run.  When
\* the run is no longer active the whole transaction is rolled back.
CancelSearch(s) ==
  /\ outbox[s].exists
  /\ status[s] \in Active
  /\ exec[s].fence < MaxFence
  /\ exec' = IF exec[s].status \in {"none", "running"}
             THEN [exec EXCEPT ![s] = [status |-> "completed",
                                       fence |-> exec[s].fence + 1, lease |-> 0]]
             ELSE exec
  /\ status' = [status EXCEPT ![s] = "cancelled"]
  /\ events' = [events EXCEPT ![s] = Append(@, "SearchCancelled")]
  /\ UNCHANGED <<request, outbox, jobs, sightings>>

-----------------------------------------------------------------------------
(* The outbox: the calls of the publisher *)

Finished(s) == exec[s].status \in {"completed", "failed"}

\* Mutant: a row is sent once.
UnpublishedOnce(s) ==
  /\ outbox[s].exists
  /\ ~outbox[s].sent

\* unpublished: never sent, or sent too long ago and neither finished nor leased.
Unpublished(s) ==
  /\ outbox[s].exists
  /\ \/ ~outbox[s].sent
     \/ /\ outbox[s].age > RepublishTicks
        /\ ~Finished(s)
        /\ exec[s].lease <= 0

Published(s) ==
  /\ outbox[s].exists
  /\ outbox' = [outbox EXCEPT ![s] = [exists |-> TRUE, sent |-> TRUE, age |-> 0]]
  /\ UNCHANGED <<status, request, exec, events, jobs, sightings>>

-----------------------------------------------------------------------------
(* Leases: the calls of the consumers *)

\* The row a fenced statement updates: the fence is the newest one, the command
\* is unfinished and its lease is live.
Owned(s, fence) ==
  /\ exec[s].status = "running"
  /\ exec[s].fence = fence
  /\ exec[s].lease > 0

\* Mutant: whatever nobody is running may be taken, a finished execution too.
ClaimableWhenFinished(s) ==
  /\ outbox[s].exists
  /\ exec[s].status # "running" \/ exec[s].lease < 0
  /\ exec[s].fence < MaxFence

\* Mutant: a running execution may be taken whatever its lease.
ClaimableWhileLeased(s) ==
  /\ outbox[s].exists
  /\ exec[s].status \in {"none", "running"}
  /\ exec[s].fence < MaxFence

Claimable(s) ==
  /\ outbox[s].exists
  /\ \/ exec[s].status = "none"
     \/ exec[s].status = "running" /\ exec[s].lease < 0
  /\ exec[s].fence < MaxFence

\* Mutant: a takeover goes on under the fence it finds.
ClaimUnderOldFence(s) ==
  /\ Claimable(s)
  /\ exec' = [exec EXCEPT ![s] = [status |-> "running",
                                  fence |-> IF exec[s].fence = 0 THEN 1 ELSE exec[s].fence,
                                  lease |-> LeaseTicks]]
  /\ UNCHANGED <<status, request, outbox, events, jobs, sightings>>

\* claim: the caller's new fence is exec'[s].fence.
Claim(s) ==
  /\ Claimable(s)
  /\ exec' = [exec EXCEPT ![s] = [status |-> "running",
                                  fence |-> exec[s].fence + 1, lease |-> LeaseTicks]]
  /\ UNCHANGED <<status, request, outbox, events, jobs, sightings>>

Renew(s, fence) ==
  /\ Owned(s, fence)
  /\ exec' = [exec EXCEPT ![s].lease = LeaseTicks]
  /\ UNCHANGED <<status, request, outbox, events, jobs, sightings>>

\* release: the lease ends now, also when it had ended before.
Release(s, fence) ==
  /\ exec[s].status = "running"
  /\ exec[s].fence = fence
  /\ exec' = [exec EXCEPT ![s].lease = 0]
  /\ UNCHANGED <<status, request, outbox, events, jobs, sightings>>

-----------------------------------------------------------------------------
(* Progress of a run: the calls of the search handler *)

\* Mutant: an attempt that finds the run started starts it again.
QueuedOrRunning(s) == status[s] \in Active

NotStarted(s) == status[s] = "queued"

\* startSearch: a run that another attempt already started stays as it is.
StartSearch(s, fence) ==
  /\ Owned(s, fence)
  /\ NotStarted(s)
  /\ status' = [status EXCEPT ![s] = "running"]
  /\ events' = [events EXCEPT ![s] = Append(@, "SearchStarted")]
  /\ UNCHANGED <<request, outbox, exec, jobs, sightings>>

\* Mutant: postings beside failed sources do not count.
CollectionStatusOfSources(postings, outcomes) ==
  IF \A source \in DOMAIN outcomes : outcomes[source].status = "completed"
  THEN "completed"
  ELSE IF \E source \in DOMAIN outcomes : outcomes[source].status # "failed"
       THEN "partial"
       ELSE "failed"

\* collectionStatus, over the outcomes of every requested source.
CollectionStatus(postings, outcomes) ==
  IF \A source \in DOMAIN outcomes : outcomes[source].status = "completed"
  THEN "completed"
  ELSE IF \/ postings # {}
          \/ \E source \in DOMAIN outcomes : outcomes[source].status # "failed"
       THEN "partial"
       ELSE "failed"

OutcomeEvent(result) ==
  CASE result = "completed" -> "SearchCompleted"
    [] result = "partial" -> "SearchPartial"
    [] OTHER -> "SearchFailed"

\* Mutant: job_sightings keyed by fingerprint alone.
SightedByAnyone(owner, postings) ==
  [o \in Owners |->
     [f \in Fingerprints |->
        IF f \in postings THEN sightings[o][f] + 1 ELSE sightings[o][f]]]

\* The upsert of one sighting per posting, for the owner of the run.
Sighted(owner, postings) ==
  [o \in Owners |->
     [f \in Fingerprints |->
        IF o = owner /\ f \in postings THEN sightings[o][f] + 1 ELSE sightings[o][f]]]

\* Mutant: the execution is closed with the outcome of the run.
SettleAsRun(s, fence, postings, result, execStatus) ==
  /\ Owned(s, fence)
  /\ status[s] \in Active
  /\ exec' = [exec EXCEPT ![s].status = result]
  /\ status' = [status EXCEPT ![s] = result]
  /\ jobs' = [jobs EXCEPT ![s] = @ \union postings]
  /\ sightings' = Sighted(request[s].owner, postings)
  /\ events' = [events EXCEPT ![s] = Append(@, OutcomeEvent(result))]
  /\ UNCHANGED <<request, outbox>>

\* settle: one transaction for the execution, the run, its jobs and sightings,
\* and the event.  A fence that is not owned, or a run that is not active,
\* changes nothing.
Settle(s, fence, postings, result, execStatus) ==
  /\ Owned(s, fence)
  /\ status[s] \in Active
  /\ exec' = [exec EXCEPT ![s].status = execStatus]
  /\ status' = [status EXCEPT ![s] = result]
  /\ jobs' = [jobs EXCEPT ![s] = @ \union postings]
  /\ sightings' = Sighted(request[s].owner, postings)
  /\ events' = [events EXCEPT ![s] = Append(@, OutcomeEvent(result))]
  /\ UNCHANGED <<request, outbox>>

\* The check constraint search_outcomes_bounded, which aborts the transaction.
Recordable(outcomes) == Cardinality(DOMAIN outcomes) \in 1..OutcomeLimit

\* completeCollection: the outcomes cover exactly the requested sources, and
\* every posting names a source that accepted some.
CompleteCollection(s, fence, sourceOf, outcomes) ==
  /\ Owned(s, fence)
  /\ DOMAIN outcomes = request[s].sources
  /\ \A f \in DOMAIN sourceOf :
       /\ sourceOf[f] \in DOMAIN outcomes
       /\ outcomes[sourceOf[f]].accepted
  /\ Recordable(outcomes)
  /\ Settle(s, fence, DOMAIN sourceOf,
            CollectionStatus(DOMAIN sourceOf, outcomes), "completed")

\* complete: postings without outcomes, a method no worker calls.
Complete(s, fence, postings) == Settle(s, fence, postings, "completed", "completed")

\* fail: the command has used its retry budget.
Fail(s, fence) == Settle(s, fence, {}, "failed", "failed")

-----------------------------------------------------------------------------
(* Time, and the store under arbitrary callers *)

\* One tick later: leases run down, the ages of sent rows run up.  No method
\* reads either of a finished command, whose clocks stand still.
Aged(row) == [row EXCEPT !.age = IF row.sent /\ @ <= RepublishTicks THEN @ + 1 ELSE @]
Lapsed(row) == [row EXCEPT !.lease = IF @ > -1 THEN @ - 1 ELSE @]

StoreTick ==
  /\ outbox' = [s \in Searches |-> IF Finished(s) THEN outbox[s] ELSE Aged(outbox[s])]
  /\ exec' = [s \in Searches |-> IF Finished(s) THEN exec[s] ELSE Lapsed(exec[s])]
  /\ UNCHANGED <<status, request, events, jobs, sightings>>

\* What a handler may hand in: postings, each with the source it is from, and
\* the outcomes of some sources.  dedupeJobs has left one posting per fingerprint.
Postings == UNION {[found -> Sources] : found \in SUBSET Fingerprints}
Outcomes == UNION {[cover -> SourceOutcome] : cover \in SUBSET Sources \ {{}}}

StoreNext ==
  \/ StoreTick
  \/ \E s \in Searches :
       \/ \E req \in Request, useProfileTitles, hasTitles \in BOOLEAN :
            CreateSearch(s, req, useProfileTitles, hasTitles)
       \/ CancelSearch(s)
       \/ Published(s)
       \/ Claim(s)
       \/ \E fence \in 1..MaxFence :
            \/ Renew(s, fence)
            \/ Release(s, fence)
            \/ StartSearch(s, fence)
            \/ \E sourceOf \in Postings, outcomes \in Outcomes :
                 CompleteCollection(s, fence, sourceOf, outcomes)
            \/ \E postings \in SUBSET Fingerprints : Complete(s, fence, postings)
            \/ Fail(s, fence)

StoreSpec == StoreInit /\ [][StoreNext]_storeVars

-----------------------------------------------------------------------------
(* What the transactions keep, whoever calls them *)

\* Every column holds a value of its type; in particular no fence leaves the
\* integer range and no lease exceeds what claim and renew grant.
TypeOK ==
  /\ status \in [Searches -> {"none"} \union Active \union Settled]
  /\ request \in [Searches -> Request \union {NoRequest}]
  /\ outbox \in [Searches -> OutboxRow]
  /\ exec \in [Searches -> Execution]
  /\ events \in [Searches -> Seq(EventType)]
  /\ jobs \in [Searches -> SUBSET Fingerprints]
  /\ sightings \in [Owners -> [Fingerprints -> Nat]]

\* A run and the execution of its command never disagree, although three
\* transactions of different processes (settle, cancelSearch, startSearch)
\* write both: the run is active exactly while the command is unclaimed or
\* running, it is running only under an execution, and a failed command is a
\* failed run.  Otherwise a search would hang for ever or be worked on after
\* its owner was told how it ended.
RunCommandCoupling ==
  \A s \in Searches :
    /\ outbox[s].exists <=> status[s] # "none"
    /\ status[s] = "none" => exec[s].status = "none"
    /\ status[s] \in Active => exec[s].status \in {"none", "running"}
    /\ status[s] = "running" => exec[s].status = "running"
    /\ status[s] \in Settled => exec[s].status \in {"completed", "failed"}
    /\ exec[s].status = "failed" => status[s] = "failed"

\* The logs a run in a given status may have.
ClosingEvent(st) == IF st = "cancelled" THEN "SearchCancelled" ELSE OutcomeEvent(st)

QueuedLog == <<"SearchQueued">>
StartedLog == Append(QueuedLog, "SearchStarted")

LogsOf(st) ==
  CASE st = "none" -> {<<>>}
    [] st = "queued" -> {QueuedLog}
    [] st = "running" -> {StartedLog}
    [] OTHER -> {Append(log, ClosingEvent(st)) : log \in {QueuedLog, StartedLog}}

\* The event log a client follows tells the status of the run: it opens with
\* SearchQueued, says at most once that the search started, and closes with one
\* outcome, the one in the row, even when attempts overlap.
LogTellsStatus == \A s \in Searches : events[s] \in LogsOf(status[s])

\* Postings are visible only with a settled run that succeeded at least in part.
JobsOfSuccess ==
  \A s \in Searches : jobs[s] # {} => status[s] \in {"completed", "partial"}

\* A posting is counted as seen once per run of its owner that holds it, however
\* often the command was delivered and retried.
SightingsCountRuns ==
  \A o \in Owners, f \in Fingerprints :
    sightings[o][f] =
      Cardinality({s \in Searches : f \in jobs[s] /\ request[s].owner = o})

\* A repeated submission never makes a second run.
OneRunPerKey ==
  \A s, t \in Searches :
    /\ status[s] # "none" /\ status[t] # "none"
    /\ request[s].owner = request[t].owner
    /\ request[s].key = request[t].key
    => s = t

\* Once a run is settled nothing about it changes: no late worker overwrites a
\* cancelled run, adds postings or an event, and the command is not reopened.
SettledIsFinal ==
  [][\A s \in Searches :
       status[s] \in Settled =>
         /\ status'[s] = status[s]
         /\ events'[s] = events[s]
         /\ jobs'[s] = jobs[s]
         /\ exec'[s].status = exec[s].status
         /\ exec'[s].fence = exec[s].fence]_storeVars

\* While a lease is live its fence stays the newest: only the owner's cancel
\* takes the command from the worker that holds it.
LeaseIsExclusive ==
  [][\A s \in Searches :
       /\ exec[s].status = "running"
       /\ exec[s].lease > 0
       /\ exec'[s].fence # exec[s].fence
       => status'[s] = "cancelled"]_storeVars

\* What a request may ask for, a run can record: "One to six outcomes, one per
\* source with no repeats" (packages/core/src/jobs.ts:87).
RequestsAreRecordable ==
  \A s \in Searches :
    status[s] \in Active =>
      \A outcomes \in [request[s].sources -> SourceOutcome] : Recordable(outcomes)

\* The store implements what a search promises its owner.
Lifecycle == INSTANCE RunLifecycle WITH log <- events, found <- jobs
ImplementsLifecycle == Lifecycle!Spec
=============================================================================
